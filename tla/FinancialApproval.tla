------------------------- MODULE FinancialApproval -------------------------
(***************************************************************************)
(* services/support-copilot/lib/financial-approval.js: a classified        *)
(* expense receipt is put to one operator on WhatsApp, who approves it by  *)
(* quoting the question; only then is its classification written.          *)
(*                                                                         *)
(* A row of contador_financial_proposals survives a restart.  One pass at  *)
(* a time (workerBusy) sends and executes; it gives way only while a       *)
(* question is on its way to Evolution.  Time is what a row says of it:    *)
(* its next attempt is due, its expiry has passed (late).  Left out: the   *)
(* limit of ten rows a pass, the audit log, and a payload altered in the   *)
(* database.                                                               *)
(***************************************************************************)
EXTENDS InboundMessages

CONSTANTS
  Operators,     \* CONTADOR_FINANCIAL_APPROVAL_OPERATOR_JID, over the restarts
  MaxQuestions,  \* SEND_MAX_ATTEMPTS
  MaxRuns        \* EXECUTION_MAX_ATTEMPTS

ASSUME ApprovalAssumption ==
  /\ MaxQuestions \in Nat \ {0} /\ MaxRuns \in Nat \ {0}

VARIABLES
  proposal,      \* contador_financial_proposals, by source message
  refused,       \* per message, the questions Evolution answered with an error
  ledger,        \* contador_financial_classifications
  approval,      \* the environment the process was started with
  approvalPass   \* processFinancialApprovalWork

approvalVars == <<proposal, refused, ledger, approval, approvalPass>>

-----------------------------------------------------------------------------
Unsent     == {"pending_send", "retry_send", "waiting_config"}
Expirable  == Unsent \cup {"awaiting_confirmation"}
Executable == {"confirmed", "execution_retry"}
Approved   == Executable \cup {"executing", "executed", "failed_execution"}
Withdrawn  == {"expired", "blocked_invalid_action", "failed_delivery",
               "delivery_unknown"}
Closed     == Withdrawn \cup {"rejected", "executed", "failed_execution"}
ProposalStatuses ==
  {"none", "sending", "rejected"} \cup Expirable \cup Approved \cup Withdrawn

\* quoted: outbound_message_id is the id of the last question.
Proposal == [status : ProposalStatuses, sends : 0 .. MaxQuestions, runs : Nat,
             due : BOOLEAN, late : BOOLEAN, quoted : BOOLEAN,
             operator : Operators]

ApprovalConfigs ==
  {c \in [on : BOOLEAN, ready : BOOLEAN, operator : Operators] : c.ready => c.on}

\* todo, run: the rows a pass still has to send and to execute.
NoApprovalPass == [stage |-> "idle", todo |-> {}, run |-> {}]

ApprovalInit ==
  /\ approval \in ApprovalConfigs
  /\ proposal = [r \in Messages |->
       [status |-> "none", sends |-> 0, runs |-> 0, due |-> FALSE,
        late |-> FALSE, quoted |-> FALSE, operator |-> approval.operator]]
  /\ refused = [r \in Messages |-> {}]
  /\ ledger = {}
  /\ approvalPass = NoApprovalPass

-----------------------------------------------------------------------------
Become(r, row) == proposal' = [proposal EXCEPT ![r] = row]

\* A row's status and whether next_attempt_at is NULL or has passed.
SetStatus(r, status, due) ==
  Become(r, [proposal[r] EXCEPT !.status = status, !.due = due])

\* The pass has given way: handlers of messages run only then.
Yielded == approvalPass.stage \in {"idle", "await"}

\* queueFinancialApprovalProposal; known: the category is an allowed one
Propose(r, known) ==
  /\ approval.on /\ Yielded
  /\ proposal[r].status = "none"
  /\ Become(r, [proposal[r] EXCEPT
       !.status = IF ~known THEN "blocked_invalid_action"
                  ELSE IF approval.ready THEN "pending_send" ELSE "waiting_config",
       !.due = TRUE, !.operator = approval.operator])
  /\ UNCHANGED <<refused, ledger, approval, approvalPass>>

\* expireProposal
Expired(row) ==
  IF row.status \in Expirable /\ row.late
    THEN [row EXCEPT !.status = "expired", !.due = TRUE] ELSE row

\* processFinancialApprovalWork up to its first send: what is late expires, and
\* the rows to send and to execute are those due now (those to execute are read
\* after the sends, but against the time the pass began: a row confirmed or
\* retried meanwhile has a later next_attempt_at).
BeginApprovalPass ==
  /\ approval.on /\ approvalPass.stage = "idle"
  /\ proposal' = [r \in Messages |-> Expired(proposal[r])]
  /\ approvalPass' =
       [stage |-> "send",
        todo |-> {r \in Messages : proposal'[r].status \in Unsent /\ proposal[r].due},
        run  |-> {r \in Messages : proposal[r].status \in Executable /\ proposal[r].due}]
  /\ UNCHANGED <<refused, ledger, approval>>

-----------------------------------------------------------------------------
(***************************************************************************)
(* sendProposal                                                            *)
(***************************************************************************)
Taken(r) ==
  /\ approvalPass.stage = "send" /\ r \in approvalPass.todo
  /\ UNCHANGED <<refused, ledger, approval>>

Skip(r) == approvalPass' = [approvalPass EXCEPT !.todo = @ \ {r}]

\* A pass that waits for a send has it as the last question of a row that is
\* "sending".
Ask(r) ==
  /\ Become(r, [proposal[r] EXCEPT !.status = "sending", !.sends = @ + 1])
  /\ approvalPass' = [approvalPass EXCEPT !.stage = "await", !.todo = @ \ {r}]

Addressed(r) == approval.ready /\ proposal[r].operator = approval.operator

SendExpired(r) ==
  /\ Taken(r) /\ proposal[r].late
  /\ Become(r, Expired(proposal[r]))
  /\ Skip(r)

SendUnaddressed(r) ==
  /\ Taken(r) /\ ~proposal[r].late /\ ~Addressed(r)
  /\ proposal[r].status \in Unsent
  /\ SetStatus(r, "waiting_config", TRUE)
  /\ Skip(r)

SendQuestion(r) ==
  /\ Taken(r) /\ ~proposal[r].late /\ Addressed(r)
  /\ proposal[r].status \in Unsent
  /\ Ask(r)

Asking(r) == approvalPass.stage = "await" /\ proposal[r].status = "sending"
Resume    == approvalPass' = [approvalPass EXCEPT !.stage = "send"]

\* Evolution took the question; it may answer without the message's id.
QuestionTaken(r) ==
  /\ Asking(r)
  /\ \E id \in BOOLEAN :
       Become(r, [proposal[r] EXCEPT !.status = "awaiting_confirmation",
                                     !.due = TRUE, !.quoted = id])
  /\ Resume
  /\ UNCHANGED <<refused, ledger, approval>>

Refuse(r) == refused' = [refused EXCEPT ![r] = @ \cup {proposal[r].sends}]

\* No answer, or the checkpoint after it failed.
QuestionUnclear(r) ==
  /\ Asking(r)
  /\ SetStatus(r, "delivery_unknown", TRUE)
  /\ Resume
  /\ UNCHANGED <<refused, ledger, approval>>

\* 408, 429 or 5xx: asked again later.
QuestionDeferred(r) ==
  /\ Asking(r) /\ proposal[r].sends < MaxQuestions
  /\ SetStatus(r, "retry_send", FALSE)
  /\ Refuse(r) /\ Resume
  /\ UNCHANGED <<ledger, approval>>

\* Any other status, or the last attempt.
QuestionRefused(r) ==
  /\ Asking(r)
  /\ SetStatus(r, "failed_delivery", TRUE)
  /\ Refuse(r) /\ Resume
  /\ UNCHANGED <<ledger, approval>>

-----------------------------------------------------------------------------
\* Defect: whether the question is past its time is left to the next pass.
ReplyLate(r, yes) ==
  /\ approval.on /\ Yielded
  /\ proposal[r].quoted /\ proposal[r].status = "awaiting_confirmation"
  /\ SetStatus(r, IF yes THEN "confirmed" ELSE "rejected", TRUE)
  /\ UNCHANGED <<refused, ledger, approval, approvalPass>>

\* handleFinancialApprovalReply of an allowed sender who quotes the question.
\* Every other reply writes nothing but the audit log.
Reply(r, yes) ==
  /\ approval.on /\ Yielded
  /\ proposal[r].quoted /\ proposal[r].status = "awaiting_confirmation"
  /\ IF proposal[r].late THEN Become(r, Expired(proposal[r]))
     ELSE SetStatus(r, IF yes THEN "confirmed" ELSE "rejected", TRUE)
  /\ UNCHANGED <<refused, ledger, approval, approvalPass>>

-----------------------------------------------------------------------------
(***************************************************************************)
(* executeProposal, which gives way to nobody                              *)
(***************************************************************************)

\* The claim is a transaction of its own.
ClaimExecution(r) ==
  /\ approvalPass.stage = "send" /\ approvalPass.todo = {}
  /\ r \in approvalPass.run /\ proposal[r].status \in Executable
  /\ Become(r, [proposal[r] EXCEPT !.status = "executing", !.runs = @ + 1])
  /\ approvalPass' = [approvalPass EXCEPT !.stage = "execute", !.run = @ \ {r}]
  /\ UNCHANGED <<refused, ledger, approval>>

Executing(r) == approvalPass.stage = "execute" /\ proposal[r].status = "executing"

Classify(r) ==
  /\ Executing(r)
  /\ ledger' = ledger \cup {r}
  /\ SetStatus(r, "executed", TRUE)
  /\ Resume
  /\ UNCHANGED <<refused, approval>>

\* Nothing of the transaction stays.
ClassifyFails(r) ==
  /\ Executing(r)
  /\ IF proposal[r].runs >= MaxRuns THEN SetStatus(r, "failed_execution", TRUE)
     ELSE SetStatus(r, "execution_retry", FALSE)
  /\ Resume
  /\ UNCHANGED <<refused, ledger, approval>>

EndApprovalPass ==
  /\ approvalPass.stage = "send"
  /\ approvalPass.todo = {} /\ approvalPass.run = {}
  /\ approvalPass' = NoApprovalPass
  /\ UNCHANGED <<proposal, refused, ledger, approval>>

-----------------------------------------------------------------------------
FallDue(r) ==
  /\ ~proposal[r].due /\ Become(r, [proposal[r] EXCEPT !.due = TRUE])
  /\ UNCHANGED <<refused, ledger, approval, approvalPass>>

\* CONTADOR_FINANCIAL_APPROVAL_TTL_MINUTES go by.
Elapse(r) ==
  /\ proposal[r].status # "none" /\ ~proposal[r].late
  /\ Become(r, [proposal[r] EXCEPT !.late = TRUE])
  /\ UNCHANGED <<refused, ledger, approval, approvalPass>>

\* Defect: an interrupted send is taken up again.
RecoveredAgain(row) ==
  CASE row.status = "sending"   -> [row EXCEPT !.status =
         IF row.sends < MaxQuestions THEN "retry_send" ELSE "delivery_unknown"]
    [] row.status = "executing" -> [row EXCEPT !.status = "execution_retry", !.due = TRUE]
    [] OTHER -> row

\* Defect: an approval whose execution was interrupted is left as it is.
RecoveredUnexecuted(row) ==
  IF row.status = "sending" THEN [row EXCEPT !.status = "delivery_unknown", !.due = TRUE]
  ELSE row

\* recoverInterruptedFinancialApprovalWork, a row at a time
Recovered(row) ==
  CASE row.status = "sending"   -> [row EXCEPT !.status = "delivery_unknown", !.due = TRUE]
    [] row.status = "executing" -> [row EXCEPT !.status = "execution_retry", !.due = TRUE]
    [] OTHER -> row

\* A restart with whatever is now in the environment; only with the feature on
\* does it recover anything.
ApprovalRestart ==
  /\ approval' \in ApprovalConfigs
  /\ proposal' = IF approval'.on
                   THEN [r \in Messages |-> Recovered(proposal[r])] ELSE proposal
  /\ approvalPass' = NoApprovalPass
  /\ UNCHANGED <<refused, ledger>>

-----------------------------------------------------------------------------
SendStep(r) ==
  \/ SendExpired(r) \/ SendUnaddressed(r) \/ SendQuestion(r)
  \/ QuestionTaken(r) \/ QuestionDeferred(r) \/ QuestionRefused(r)
  \/ QuestionUnclear(r)

ApprovalWork ==
  \/ BeginApprovalPass \/ EndApprovalPass
  \/ \E r \in Messages :
       SendStep(r) \/ ClaimExecution(r) \/ Classify(r) \/ ClassifyFails(r)

ApprovalClock(r) == FallDue(r) \/ Elapse(r)

\* What the process does between two restarts, but for new proposals.
ApprovalStep ==
  \/ ApprovalWork
  \/ \E r \in Messages : ApprovalClock(r) \/ \E yes \in BOOLEAN : Reply(r, yes)

ApprovalNext ==
  \/ ApprovalStep
  \/ \E r \in Messages, known \in BOOLEAN : Propose(r, known)
  \/ ApprovalRestart

ApprovalSpec == ApprovalInit /\ [][ApprovalNext]_approvalVars

-----------------------------------------------------------------------------
ApprovalTypeOK ==
  /\ proposal \in [Messages -> Proposal]
  /\ refused \in [Messages -> SUBSET (1 .. MaxQuestions)]
  /\ ledger \subseteq Messages
  /\ approval \in ApprovalConfigs
  /\ approvalPass \in [stage : {"idle", "send", "await", "execute"},
                       todo : SUBSET Messages, run : SUBSET Messages]

\* The operator is asked again only when Evolution answered every earlier
\* question with an error: a send that may have arrived is never repeated, by a
\* retry or after a restart, so he never sees a question twice unawares.
AskedAgainOnlyIfRefused ==
  \A r \in Messages : \A k \in 1 .. proposal[r].sends :
    k < proposal[r].sends => k \in refused[r]

\* A receipt is in the ledger exactly when its proposal is settled as executed,
\* whatever crash or failure came between the two writes.
LedgerMatches == \A r \in Messages : r \in ledger <=> proposal[r].status = "executed"

\* Every proposal comes to an end, unless the feature is switched off.
ProposalEnds ==
  \A r \in Messages : proposal[r].status \notin Closed \cup {"none"} ~>
    (proposal[r].status \in Closed \/ ~approval.on)

-----------------------------------------------------------------------------
Answer(row) ==
  CASE row.status \in Approved  -> "yes"
    [] row.status = "rejected"  -> "no"
    [] row.status \in Withdrawn -> "void"
    [] OTHER                    -> "open"

Agreement == INSTANCE Consent WITH
  Receipts <- Messages,
  answer <- [r \in Messages |-> Answer(proposal[r])],
  lapsed <- {r \in Messages : proposal[r].late},
  booked <- ledger

\* A receipt is classified at most once, and only after the operator approved
\* it before its question lapsed; an answer is final.
BookedByConsent == Agreement!Spec
=============================================================================
