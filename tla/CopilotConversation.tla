------------------------ MODULE CopilotConversation ------------------------
(***************************************************************************)
(* Who owns a conversation of the support copilot while suggestions are    *)
(* being generated for it: services/support-copilot/lib/copilot.js         *)
(* (generateSuggestion), lib/auto-suggest.js, lib/auto-close.js, the       *)
(* one-to-one part of routes/ingest-evolution.js and the operator's routes *)
(* of routes/conversations.js.                                             *)
(*                                                                         *)
(* A step is the code from one await to the next. A generation reads the   *)
(* conversation, waits for the model for minutes, and then decides and     *)
(* writes in one go; meanwhile the customer, the operator and the          *)
(* auto-close worker go on. A model's answer is a reply, nothing to say    *)
(* ([aguardando_cliente], a repetition, no text, an error) or [NO_REPLY].  *)
(* Left out: what the texts say, staff conversations (which get none of    *)
(* this), and the automatic sending of a suggestion, which the settings    *)
(* read by the route can never enable (its percentage is not selected).    *)
(* The duplicates of a webhook are in StationInvestigator and              *)
(* OperatorReplies, merges of a customer's conversations in                *)
(* CustomerIdentity. A chat's messages are numbered as they come.          *)
(***************************************************************************)
EXTENDS Naturals, Sequences

CONSTANTS
  Chats,           \* conversations
  Generations,     \* generations that may run at a time
  NoChat,
  MaxWritten,      \* bound on the messages of a customer
  MaxPending       \* bound on the suggestions of a chat that wait for a decision

ASSUME ChatsAssumption == NoChat \notin Chats /\ {MaxWritten, MaxPending} \subseteq Nat

VARIABLES
  groups,     \* the conversations whose channel is whatsapp-group
  owner,      \* Chats -> status of the row (HumanOwned: a person owns it)
  lastFrom,   \* Chats -> direction of the last message
  written,    \* Chats -> how many messages the customer has written
  debounce,   \* Chats -> a timer of _copilotDebounceTimers is armed
  pending,    \* Chats -> who asked for each pending suggestion, the oldest first
  fresh,      \* Chats -> how many of them were made since the customer last wrote
  sourced,    \* Chats -> the messages that are some suggestion's source_message_id
  generation, \* Generations -> the conversation read, who asked, for which message
  held        \* history: Chats -> "held" once a person has taken the conversation,
              \* until a person gives it back; "overruled" if [NO_REPLY] closed it

inbox == <<groups, lastFrom, written>>
suggestions == <<pending, fresh, sourced>>
ownership == <<owner, held>>
copilotVars == <<inbox, suggestions, ownership, debounce, generation>>

HumanOwned == {"assigned", "escalated"}
Askers == {"debounce", "router", "operator"}
NoSource == 0
NoGeneration == [chat |-> NoChat, by |-> "debounce", source |-> NoSource]

CopilotInit ==
  /\ groups \in SUBSET Chats
  /\ owner = [c \in Chats |-> "open"] /\ held = [c \in Chats |-> "no"]
  /\ lastFrom = [c \in Chats |-> "none"] /\ written = [c \in Chats |-> 0]
  /\ debounce = [c \in Chats |-> FALSE]
  /\ pending = [c \in Chats |-> <<>>] /\ fresh = [c \in Chats |-> 0]
  /\ sourced = [c \in Chats |-> {}]
  /\ generation = [g \in Generations |-> NoGeneration]

-----------------------------------------------------------------------------
(* The customer: a new message reopens a closed conversation, and resets   *)
(* the timer. In a group the router may own it instead (see AgentRouter).  *)

\* Defect: whatever the status, a message reopens the conversation.
ReopenedAlways(status) == "open"

Reopened(status) == IF status = "closed" THEN "open" ELSE status

Written(c) ==
  /\ written[c] < MaxWritten
  /\ written' = [written EXCEPT ![c] = @ + 1]
  /\ owner' = [owner EXCEPT ![c] = Reopened(@)]
  /\ lastFrom' = [lastFrom EXCEPT ![c] = "inbound"]
  /\ fresh' = [fresh EXCEPT ![c] = 0]
  /\ \/ debounce' = [debounce EXCEPT ![c] = TRUE]
     \/ c \in groups /\ UNCHANGED debounce
  /\ UNCHANGED <<groups, pending, sourced, generation, held>>

(***************************************************************************)
(* The generation.                                                         *)
(***************************************************************************)

\* What the timer and the router check before the model is asked.
MayGenerate(c) ==
  owner[c] = "open" /\ lastFrom[c] = "inbound"

Begun(g, c, by, source) ==
  /\ generation[g] = NoGeneration
  /\ generation' = [generation EXCEPT ![g] = [chat |-> c, by |-> by, source |-> source]]

\* The timer fires: it unregisters itself first, then looks.
TimerFires(c) ==
  /\ debounce[c]
  /\ debounce' = [debounce EXCEPT ![c] = FALSE]
  /\ IF MayGenerate(c)
     THEN \E g \in Generations : Begun(g, c, "debounce", NoSource)
     ELSE UNCHANGED generation
  /\ UNCHANGED <<inbox, suggestions, ownership>>

\* createGroupSuggestion called by the router for a message: it cancels the timer
\* first, even if it then finds that the message has its suggestion already, or that
\* the conversation (of a picture classified as station_support) is no group.
RouterAsks(c, message) ==
  /\ debounce' = [debounce EXCEPT ![c] = FALSE]
  /\ IF c \in groups /\ message \notin sourced[c] /\ MayGenerate(c)
     THEN \E g \in Generations : Begun(g, c, "router", message)
     ELSE UNCHANGED generation
  /\ UNCHANGED <<inbox, suggestions, ownership>>

\* The operator presses the button: only an empty conversation is refused.
OperatorAsks(c) ==
  /\ lastFrom[c] # "none"
  /\ \E g \in Generations : Begun(g, c, "operator", NoSource)
  /\ UNCHANGED <<inbox, suggestions, ownership, debounce>>

\* Defect: the conversation read before the model ran decides.
MaySaveUnread(g) == generation[g].source \notin sourced[generation[g].chat]

\* In a one-to-one conversation the timer reads the row again after the model;
\* source_message_id is unique.
MaySave(g) ==
  LET c == generation[g].chat
  IN  /\ generation[g].by = "debounce" /\ c \notin groups => owner[c] \notin HumanOwned
      /\ generation[g].source \notin sourced[c]

GenerationOver(g) ==
  /\ generation[g] # NoGeneration
  /\ generation' = [generation EXCEPT ![g] = NoGeneration]

SuggestionSaved(c, by) ==
  /\ Len(pending[c]) < MaxPending
  /\ pending' = [pending EXCEPT ![c] = Append(@, by)]
  /\ fresh' = [fresh EXCEPT ![c] = @ + 1]

Suggested(g) ==
  /\ GenerationOver(g) /\ MaySave(g)
  /\ SuggestionSaved(generation[g].chat, generation[g].by)
  /\ sourced' = [sourced EXCEPT ![generation[g].chat] =
                   @ \union ({generation[g].source} \ {NoSource})]
  /\ UNCHANGED <<inbox, ownership, debounce>>

\* The model has nothing to say, or what it says may not be saved.
NothingToSuggest(g) ==
  /\ GenerationOver(g)
  /\ UNCHANGED <<inbox, suggestions, ownership, debounce>>

\* [NO_REPLY]: the conversation is over, whatever became of it meanwhile.
NoReply(g) ==
  LET c == generation[g].chat
  IN  /\ GenerationOver(g)
      /\ owner' = [owner EXCEPT ![c] = "closed"]
      /\ held' = [held EXCEPT ![c] = IF @ = "held" THEN "overruled" ELSE @]
      /\ UNCHANGED <<inbox, suggestions, debounce>>

(***************************************************************************)
(* The operator, and the worker that closes what has been silent.          *)
(***************************************************************************)

Owned(c, status, by) ==
  /\ owner' = [owner EXCEPT ![c] = status]
  /\ held' = [held EXCEPT ![c] = by]
  /\ UNCHANGED <<inbox, suggestions, debounce, generation>>

TakeOver(c) == owner[c] # "assigned" /\ Owned(c, "assigned", "held")
Escalate(c) == owner[c] # "escalated" /\ Owned(c, "escalated", "held")
Release(c) == owner[c] # "open" /\ Owned(c, "open", "no")
ClosedByOperator(c) == owner[c] # "closed" /\ Owned(c, "closed", "no")

Replied(c) ==
  /\ lastFrom' = [lastFrom EXCEPT ![c] = "outbound"]
  /\ UNCHANGED <<groups, written, sourced, ownership, debounce, generation>>

\* A text to a customer whose number is known supersedes the newest pending
\* suggestion, if the customer has not written since it was made.
OperatorWrites(c) ==
  /\ Replied(c)
  /\ IF c \notin groups /\ fresh[c] > 0
     THEN /\ pending' = [pending EXCEPT ![c] = SubSeq(@, 1, Len(@) - 1)]
          /\ fresh' = [fresh EXCEPT ![c] = @ - 1]
     ELSE UNCHANGED <<pending, fresh>>

\* A picture or a file, a text from the telephone, or to a number not known yet.
OperatorRepliesOtherwise(c) == Replied(c) /\ UNCHANGED <<pending, fresh>>

\* A suggestion written by hand.
OperatorSuggests(c) ==
  /\ SuggestionSaved(c, "operator")
  /\ UNCHANGED <<inbox, sourced, ownership, debounce, generation>>

Decided(c, k) ==
  /\ pending' = [pending EXCEPT ![c] = SubSeq(@, 1, k - 1) \o SubSeq(@, k + 1, Len(@))]
  /\ fresh' = [fresh EXCEPT ![c] = IF k > Len(pending[c]) - @ THEN @ - 1 ELSE @]
  /\ UNCHANGED <<inbox, sourced, ownership, debounce, generation>>

\* Half an hour of silence: any timer of seconds has fired.
Stale(c) == owner[c] = "open" /\ ~debounce[c]

AutoClosed(c) ==
  /\ Stale(c)
  /\ owner' = [owner EXCEPT ![c] = "closed"]
  /\ UNCHANGED <<inbox, suggestions, held, debounce, generation>>

\* Timers and running generations are in memory only.
CopilotRestart ==
  /\ debounce' = [c \in Chats |-> FALSE]
  /\ generation' = [g \in Generations |-> NoGeneration]
  /\ UNCHANGED <<inbox, suggestions, ownership>>

-----------------------------------------------------------------------------
OperatorStep ==
  \E c \in Chats : \/ TakeOver(c) \/ Escalate(c) \/ Release(c) \/ ClosedByOperator(c)
                   \/ OperatorWrites(c) \/ OperatorRepliesOtherwise(c)
                   \/ OperatorAsks(c) \/ OperatorSuggests(c)
                   \/ \E k \in 1..Len(pending[c]) : Decided(c, k)

CopilotStep ==
  \/ \E c \in Chats : \/ Written(c) \/ TimerFires(c) \/ AutoClosed(c)
                      \/ \E message \in 1..written[c] : RouterAsks(c, message)
  \/ \E g \in Generations : Suggested(g) \/ NothingToSuggest(g) \/ NoReply(g)

CopilotNext == OperatorStep \/ CopilotStep \/ CopilotRestart

CopilotSpec == CopilotInit /\ [][CopilotNext]_copilotVars

-----------------------------------------------------------------------------
CopilotTypeOK ==
  /\ groups \subseteq Chats
  /\ owner \in [Chats -> HumanOwned \union {"open", "closed"}]
  /\ held \in [Chats -> {"no", "held", "overruled"}]
  /\ lastFrom \in [Chats -> {"none", "inbound", "outbound"}]
  /\ written \in [Chats -> 0..MaxWritten]
  /\ debounce \in [Chats -> BOOLEAN]
  /\ pending \in [Chats -> Seq(Askers)]
  /\ fresh \in [Chats -> 0..MaxPending] /\ sourced \in [Chats -> SUBSET (1..MaxWritten)]
  /\ generation \in [Generations ->
       [chat : Chats, by : Askers, source : 0..MaxWritten] \union {NoGeneration}]

\* A suggestion nobody asked for by hand appears in c.
Appears(c) ==
  Len(pending'[c]) > Len(pending[c]) /\ pending'[c][Len(pending'[c])] # "operator"

\* From the moment a person takes a conversation over until a person gives it back,
\* whatever the customer writes, whichever timers fire, whatever the auto-close
\* worker does: neither the timer nor the router asks the model, and what the model
\* was asked before does not become a suggestion of a one-to-one conversation.  Only
\* [NO_REPLY] of a generation under way may end it (held is then "overruled").
HeldIsSilent ==
  [][\A c \in Chats : held[c] = "held" =>
       /\ \A g \in Generations :
            generation[g] = NoGeneration /\ generation'[g].chat = c
              => generation'[g].by = "operator"
       /\ c \notin groups => ~Appears(c)]_copilotVars

\* lib/human-handoff.js:14: "While the status is `assigned` or `escalated` the
\* conversation is HUMAN-OWNED and no AI path may suggest, auto-send, investigate or
\* answer in it."
SilentWhileOwned ==
  [][\A c \in Chats : owner[c] \in HumanOwned => ~Appears(c)]_copilotVars
=============================================================================
