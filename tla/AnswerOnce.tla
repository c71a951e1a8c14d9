----------------------------- MODULE AnswerOnce -----------------------------
(***************************************************************************)
(* What the station investigator owes the people of a WhatsApp group: a    *)
(* message that mentions the bot is answered at most once, and never by    *)
(* the bot once a person has taken the conversation over.                  *)
(*                                                                         *)
(* An answer that was refused or lost on its way leaves the message quiet  *)
(* and may be given again; one that may still arrive may not.              *)
(***************************************************************************)
CONSTANT Messages

VARIABLES
  said,   \* per message: "quiet", "speaking" or "said"
  human   \* a person owns the conversation

vars == <<said, human>>

Init ==
  /\ said = [m \in Messages |-> "quiet"]
  /\ human \in BOOLEAN

\* The bot starts to send its answer to m.
Speak(m) ==
  /\ ~human
  /\ said[m] = "quiet"
  /\ said' = [said EXCEPT ![m] = "speaking"]
  /\ UNCHANGED human

\* WhatsApp takes the answer, or it is refused or lost.
Arrive(m) ==
  /\ said[m] = "speaking"
  /\ \E end \in {"said", "quiet"} : said' = [said EXCEPT ![m] = end]
  /\ UNCHANGED human

\* A person takes the conversation over or hands it back.
Handover ==
  /\ human' = ~human
  /\ UNCHANGED said

Next ==
  \/ \E m \in Messages : Speak(m) \/ Arrive(m)
  \/ Handover

Spec == Init /\ [][Next]_vars
=============================================================================
