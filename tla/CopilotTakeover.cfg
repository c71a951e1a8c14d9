\* What human-handoff.js says of every AI path, in one conversation.
SPECIFICATION CopilotSpec
CONSTANTS
  Chats = {c1}
  Generations = {g1, g2}
  NoChat = none
  MaxWritten = 2
  MaxPending = 2
PROPERTIES SilentWhileOwned
CHECK_DEADLOCK FALSE
