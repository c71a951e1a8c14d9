--------------------------- MODULE OperatorReplies ---------------------------
(***************************************************************************)
(* What an operator sends from the dashboard, in one conversation: the     *)
(* POST handlers of routes/conversations.js, the gateway that sends, and   *)
(* the echo of each message, which comes back by the webhook of            *)
(* routes/ingest-evolution.js like one typed on the telephone.             *)
(*                                                                         *)
(* The row is stored before the message is sent and the answer of the      *)
(* gateway is awaited by nobody; the echo may come before it, after it, or *)
(* more than once, or not at all: sendWebhook does not try again.  Left    *)
(* out: groups, a conversation without a number, the comparison with a     *)
(* pending suggestion (CopilotConversation), messages typed on the         *)
(* telephone, and LIMIT 5, which fewer replies than six never meet.        *)
(***************************************************************************)
EXTENDS Naturals, Sequences, FiniteSets, SequencesExt

CONSTANTS
  DashboardReplies,  \* what is sent from the dashboard; each names its WhatsApp id too
  Texts,
  Placeholder,  \* what extractBody makes of a medium without a caption
  NoId

ASSUME RepliesAssumption ==
  /\ Placeholder \notin Texts /\ NoId \notin DashboardReplies
  /\ Cardinality(DashboardReplies) <= 5

VARIABLES
  says,      \* the body of each reply, and of its echo
  reply,     \* its row
  posted,    \* the replies in the order of their rows
  sending,   \* the message itself, on its way to WhatsApp
  awaiting,  \* the sends whose answer the process still expects
  echoes     \* rows the webhook has inserted for an echo

repliesVars == <<says, reply, posted, sending, awaiting, echoes>>

\* A text, or a medium with its caption; extractBody finds no caption in the echo
\* of some media.
Bodies ==
  [text : Texts, media : {FALSE}, echo : Texts] \union
  [text : Texts, media : {TRUE}, echo : Texts \union {Placeholder}]

RepliesInit ==
  /\ says \in [DashboardReplies -> {b \in Bodies : b.echo \in {b.text, Placeholder}}]
  /\ reply = [y \in DashboardReplies |-> [status |-> "none", id |-> NoId, fresh |-> FALSE]]
  /\ posted = <<>> /\ sending = [y \in DashboardReplies |-> "none"]
  /\ awaiting = {} /\ echoes = {}

-----------------------------------------------------------------------------
\* POST /:id/messages and POST /:id/media
SendReply(y) ==
  /\ reply[y].status = "none"
  /\ reply' = [reply EXCEPT ![y].status = "pending", ![y].fresh = TRUE]
  /\ posted' = Append(posted, y)
  /\ sending' = [sending EXCEPT ![y] = "flying"]
  /\ awaiting' = awaiting \union {y}
  /\ UNCHANGED <<says, echoes>>

\* The gateway: no such instance, or not connected, or WhatsApp takes it.
Arrives(y) ==
  /\ sending[y] = "flying"
  /\ \E fate \in {"taken", "refused"} : sending' = [sending EXCEPT ![y] = fate]
  /\ UNCHANGED <<says, reply, posted, awaiting, echoes>>

\* The answer names the message; only that of a text is recorded.
IdRecorded(y) == IF says[y].media THEN reply[y].id ELSE y

SendAnswered(y) ==
  /\ y \in awaiting /\ sending[y] = "taken"
  /\ reply' = [reply EXCEPT ![y].status = "sent", ![y].id = IdRecorded(y)]
  /\ awaiting' = awaiting \ {y}
  /\ UNCHANGED <<says, posted, sending, echoes>>

\* It was refused, or the answer is lost.
SendFails(y) ==
  /\ y \in awaiting
  /\ reply' = [reply EXCEPT ![y].status = "failed"]
  /\ awaiting' = awaiting \ {y}
  /\ UNCHANGED <<says, posted, sending, echoes>>

\* Nobody takes up a send that was under way: its row stays pending.
CopilotDies ==
  /\ awaiting # {} /\ awaiting' = {}
  /\ UNCHANGED <<says, reply, posted, sending, echoes>>

\* Two minutes after it was stored.
ReplyAges(y) ==
  /\ reply[y].fresh
  /\ \A i, j \in DOMAIN posted : i < j /\ posted[j] = y => ~reply[posted[i]].fresh
  /\ reply' = [reply EXCEPT ![y].fresh = FALSE]
  /\ UNCHANGED <<says, posted, sending, awaiting, echoes>>

-----------------------------------------------------------------------------
Known(y) == y \in echoes \/ \E x \in DashboardReplies : reply[x].id = y

\* Defect: a row that has an id is taken for a match.
MatchesAnyId(body) == {x \in ToSet(posted) : reply[x].fresh /\ says[x].text = body}

\* The rows of the last two minutes that have this body and no id yet.
Matches(body) ==
  {x \in ToSet(posted) : reply[x].fresh /\ reply[x].id = NoId /\ says[x].text = body}

\* The webhook: by the id, else by the body, else it is news.  The query puts
\* the newest first by the second, so that either of two replies may be found.
Echo(y) ==
  /\ sending[y] = "taken"
  /\ LET found == Matches(says[y].echo)
     IN  \/ Known(y) /\ UNCHANGED <<reply, echoes>>
         \/ /\ ~Known(y)
            /\ \E x \in found : reply' = [reply EXCEPT ![x].id = y]
            /\ UNCHANGED echoes
         \/ ~Known(y) /\ found = {} /\ echoes' = echoes \union {y} /\ UNCHANGED reply
  /\ UNCHANGED <<says, posted, sending, awaiting>>

RepliesNext ==
  \/ \E y \in DashboardReplies :
       SendReply(y) \/ Arrives(y) \/ SendAnswered(y) \/ SendFails(y) \/ ReplyAges(y) \/ Echo(y)
  \/ CopilotDies

RepliesSpec == RepliesInit /\ [][RepliesNext]_repliesVars

-----------------------------------------------------------------------------
RepliesTypeOK ==
  /\ says \in [DashboardReplies -> Bodies]
  /\ reply \in [DashboardReplies -> [status : {"none", "pending", "sent", "failed"},
                            id : DashboardReplies \union {NoId}, fresh : BOOLEAN]]
  /\ ToSet(posted) = {y \in DashboardReplies : reply[y].status # "none"}
  /\ sending \in [DashboardReplies -> {"none", "flying", "taken", "refused"}]
  /\ awaiting \subseteq DashboardReplies /\ echoes \subseteq DashboardReplies

\* What may hide the row of y from its echo: another body, two minutes, or the
\* echo of another reply of the same text, which took the row.
Unmatched(y) ==
  \/ says[y].echo # says[y].text
  \/ ~reply[y].fresh
  \/ \E x \in DashboardReplies \ {y} :
       reply[x].status # "none" /\ says[x].text = says[y].text

\* The conversation shows what the operator wrote once: the echo of a text that
\* is known to be sent is never stored beside it, and of another only if its row
\* could not be told from the rest, however the answers and the echoes of replies
\* are ordered and repeated and wherever the process dies.
ShownOnce ==
  [][\A y \in echoes' \ echoes :
       /\ reply[y].status = "sent" => says[y].media
       /\ Unmatched(y)]_repliesVars
=============================================================================
