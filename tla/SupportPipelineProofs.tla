------------------------ MODULE SupportPipelineProofs ------------------------
(***************************************************************************)
(* Proofs about SupportPipeline, the webhook with the queues it feeds.     *)
(*                                                                         *)
(* First the financial approvals (no question is repeated unless refused,  *)
(* the ledger agrees with the proposals, and receipts are booked by        *)
(* consent only), the jobs of the Contador and the partner assistant, each *)
(* by itself; then the whole, in which every queue also works on its rows: *)
(* each of them still does what it does by itself, so that what is proved  *)
(* of it alone holds there, and the rows of a message show who answers it  *)
(* and where it was handed to.                                             *)
(***************************************************************************)
EXTENDS SupportPipeline, FiniteSetTheorems, TLAPS

-----------------------------------------------------------------------------
(***************************************************************************)
(* The financial approvals                                                 *)
(***************************************************************************)
\* What the properties need of a row besides its type.
RowOK(r) ==
  /\ proposal[r].status = "none" => proposal[r].sends = 0
  /\ proposal[r].status = "sending" => proposal[r].sends > 0
  /\ proposal[r].status \in Unsent =>
       /\ proposal[r].sends < MaxQuestions
       /\ \A k \in 1 .. proposal[r].sends : k \in refused[r]
  /\ \A k \in 1 .. proposal[r].sends : k < proposal[r].sends => k \in refused[r]
  /\ r \in ledger <=> proposal[r].status = "executed"

ApprovalIInv == ApprovalTypeOK /\ \A r \in Messages : RowOK(r)

-----------------------------------------------------------------------------
(***************************************************************************)
(* A step that writes one row                                              *)
(***************************************************************************)
LEMMA ProposalWritten ==
  ASSUME ApprovalTypeOK, NEW r \in Messages, NEW row \in Proposal, Become(r, row)
  PROVE  /\ proposal' \in [Messages -> Proposal]
         /\ proposal'[r] = row
         /\ \A q \in Messages \ {r} : proposal'[q] = proposal[q]
  BY DEF Become, ApprovalTypeOK

LEMMA StatusRow ==
  ASSUME NEW row \in Proposal, NEW status \in ProposalStatuses, NEW due \in BOOLEAN
  PROVE  LET new == [row EXCEPT !.status = status, !.due = due]
         IN  /\ new \in Proposal
             /\ new.status = status /\ new.sends = row.sends /\ new.late = row.late
  BY DEF Proposal

LEMMA ExpiredRow ==
  ASSUME NEW row \in Proposal
  PROVE  /\ Expired(row) \in Proposal
         /\ Expired(row).sends = row.sends /\ Expired(row).late = row.late
         /\ \/ Expired(row) = row
            \/ row.status \in Expirable /\ Expired(row).status = "expired"
  BY DEF Expired, Proposal, ProposalStatuses, Withdrawn

LEMMA RecoveredRow ==
  ASSUME NEW row \in Proposal
  PROVE  /\ Recovered(row) \in Proposal
         /\ Recovered(row).sends = row.sends /\ Recovered(row).late = row.late
         /\ \/ Recovered(row) = row
            \/ row.status = "sending" /\ Recovered(row).status = "delivery_unknown"
            \/ row.status = "executing" /\ Recovered(row).status = "execution_retry"
  BY DEF Recovered, Proposal, ProposalStatuses, Withdrawn, Approved, Executable

LEMMA AskedRow ==
  ASSUME NEW row \in Proposal, row.sends < MaxQuestions
  PROVE  LET new == [row EXCEPT !.status = "sending", !.sends = @ + 1]
         IN  new \in Proposal /\ new.status = "sending" /\ new.sends = row.sends + 1
<1>1. row.sends + 1 \in 0 .. MaxQuestions /\ "sending" \in ProposalStatuses
  BY ApprovalAssumption DEF Proposal, ProposalStatuses
<1> QED  BY <1>1 DEF Proposal

LEMMA ClaimedRow ==
  ASSUME NEW row \in Proposal
  PROVE  LET new == [row EXCEPT !.status = "executing", !.runs = @ + 1]
         IN  new \in Proposal /\ new.status = "executing" /\ new.sends = row.sends
<1>1. row.runs + 1 \in Nat /\ "executing" \in ProposalStatuses
  BY DEF Proposal, ProposalStatuses, Approved
<1> QED  BY <1>1 DEF Proposal

\* The invariant of the rows that a step leaves alone.
LEMMA OthersOK ==
  ASSUME ApprovalIInv, NEW r \in Messages, RowOK(r)', ApprovalTypeOK',
         \A q \in Messages \ {r} : /\ proposal'[q] = proposal[q]
                                   /\ refused'[q] = refused[q]
                                   /\ q \in ledger' <=> q \in ledger
  PROVE  ApprovalIInv'
  BY DEF ApprovalIInv, RowOK

-----------------------------------------------------------------------------
(***************************************************************************)
(* The invariant, action by action                                         *)
(***************************************************************************)
LEMMA ProposeKeeps ==
  ASSUME ApprovalIInv, NEW r \in Messages, NEW known \in BOOLEAN, Propose(r, known)
  PROVE  ApprovalIInv'
<1> DEFINE status == IF ~known THEN "blocked_invalid_action"
                     ELSE IF approval.ready THEN "pending_send" ELSE "waiting_config"
           row == [proposal[r] EXCEPT !.status = status, !.due = TRUE,
                                      !.operator = approval.operator]
<1>1. row \in Proposal /\ row.status = status /\ row.sends = 0
  <2>1. proposal[r] \in Proposal /\ proposal[r].sends = 0
    BY DEF Propose, ApprovalIInv, ApprovalTypeOK, RowOK
  <2>2. approval.operator \in Operators
    BY DEF ApprovalIInv, ApprovalTypeOK, ApprovalConfigs
  <2>3. status \in ProposalStatuses
    BY DEF ProposalStatuses, Expirable, Unsent, Withdrawn
  <2> HIDE DEF status
  <2> QED  BY <2>1, <2>2, <2>3 DEF Proposal
<1>2. Become(r, row) /\ UNCHANGED <<refused, ledger, approval, approvalPass>>
  BY DEF Propose
<1>3. /\ proposal' \in [Messages -> Proposal] /\ proposal'[r] = row
      /\ \A q \in Messages \ {r} : proposal'[q] = proposal[q]
  BY <1>1, <1>2, ProposalWritten DEF ApprovalIInv
<1>4. ApprovalTypeOK'
  BY <1>2, <1>3 DEF ApprovalIInv, ApprovalTypeOK
<1>5. proposal[r].status = "none" /\ r \notin ledger
  BY DEF Propose, ApprovalIInv, RowOK
<1>6. RowOK(r)'
  BY <1>1, <1>2, <1>3, <1>5, ApprovalAssumption DEF RowOK
<1> QED  BY <1>2, <1>3, <1>4, <1>6, OthersOK

\* A step that gives a row another status and neither asks, refuses nor books.
LEMMA StatusKeeps ==
  ASSUME ApprovalIInv, NEW r \in Messages, NEW row \in Proposal, Become(r, row),
         UNCHANGED <<refused, ledger>>, ApprovalTypeOK',
         row.sends = proposal[r].sends,
         row.status = proposal[r].status \/ row.status \notin {"none", "sending", "executed"},
         row.status \in Unsent => proposal[r].status \in Unsent,
         row.status # proposal[r].status => proposal[r].status # "executed"
  PROVE  ApprovalIInv'
<1>1. /\ proposal'[r] = row
      /\ \A q \in Messages \ {r} : proposal'[q] = proposal[q]
  BY ProposalWritten DEF ApprovalIInv
<1>2. RowOK(r)'
  BY <1>1 DEF ApprovalIInv, RowOK
<1> QED  BY <1>1, <1>2, OthersOK

LEMMA PassTypes ==
  ASSUME ApprovalTypeOK, NEW r \in Messages,
         Skip(r) \/ Resume \/ approvalPass' = approvalPass
  PROVE  approvalPass' \in [stage : {"idle", "send", "await", "execute"},
                            todo : SUBSET Messages, run : SUBSET Messages]
  BY DEF ApprovalTypeOK, Skip, Resume

LEMMA BeginKeeps ==
  ASSUME ApprovalIInv, BeginApprovalPass
  PROVE  ApprovalIInv'
<1>1. \A r \in Messages : proposal'[r] = Expired(proposal[r])
  BY DEF BeginApprovalPass
<1>2. \A r \in Messages : proposal[r] \in Proposal
  BY DEF ApprovalIInv, ApprovalTypeOK
<1>3. proposal' \in [Messages -> Proposal]
  BY <1>2, ExpiredRow DEF BeginApprovalPass
<1>4. approvalPass' \in [stage : {"idle", "send", "await", "execute"},
                         todo : SUBSET Messages, run : SUBSET Messages]
  BY DEF BeginApprovalPass
<1>5. ApprovalTypeOK'
  BY <1>3, <1>4 DEF BeginApprovalPass, ApprovalIInv, ApprovalTypeOK
<1>6. ASSUME NEW r \in Messages PROVE RowOK(r)'
  <2>1. /\ proposal'[r].sends = proposal[r].sends
        /\ \/ proposal'[r] = proposal[r]
           \/ proposal[r].status \in Expirable /\ proposal'[r].status = "expired"
    BY <1>1, <1>2, ExpiredRow
  <2> QED  BY <2>1 DEF BeginApprovalPass, ApprovalIInv, RowOK, Expirable, Unsent
<1> QED  BY <1>5, <1>6 DEF ApprovalIInv

LEMMA SendKeeps ==
  ASSUME ApprovalIInv, NEW r \in Messages, SendStep(r)
  PROVE  ApprovalIInv'
<1>0. ApprovalTypeOK /\ RowOK(r) /\ proposal[r] \in Proposal
  BY DEF ApprovalIInv, ApprovalTypeOK
<1>1. CASE SendExpired(r)
  <2>1. /\ Expired(proposal[r]) \in Proposal /\ Become(r, Expired(proposal[r]))
        /\ UNCHANGED <<refused, ledger, approval>>
    BY <1>0, <1>1, ExpiredRow DEF SendExpired, Taken
  <2>2. ApprovalTypeOK'
    BY <1>0, <1>1, <2>1, ProposalWritten, PassTypes DEF SendExpired, ApprovalTypeOK
  <2> QED  BY <1>0, <2>1, <2>2, ExpiredRow, StatusKeeps DEF Expirable, Unsent
<1>2. CASE SendUnaddressed(r)
  <2> DEFINE row == [proposal[r] EXCEPT !.status = "waiting_config", !.due = TRUE]
  <2>1. /\ row \in Proposal /\ row.status = "waiting_config"
        /\ row.sends = proposal[r].sends
    BY <1>0, StatusRow DEF ProposalStatuses, Expirable, Unsent
  <2>2. /\ Become(r, row) /\ UNCHANGED <<refused, ledger, approval>>
        /\ proposal[r].status \in Unsent
    BY <1>2 DEF SendUnaddressed, Taken, SetStatus
  <2>3. ApprovalTypeOK'
    BY <1>0, <1>2, <2>1, <2>2, ProposalWritten, PassTypes DEF SendUnaddressed, ApprovalTypeOK
  <2> QED  BY <2>1, <2>2, <2>3, StatusKeeps DEF Unsent
<1>3. CASE SendQuestion(r)
  <2> DEFINE row == [proposal[r] EXCEPT !.status = "sending", !.sends = @ + 1]
  <2>1. /\ Become(r, row) /\ UNCHANGED <<refused, ledger, approval>>
        /\ proposal[r].status \in Unsent
        /\ approvalPass' = [approvalPass EXCEPT !.stage = "await", !.todo = @ \ {r}]
    BY <1>3 DEF SendQuestion, Taken, Ask
  <2>2. row \in Proposal /\ row.status = "sending" /\ row.sends = proposal[r].sends + 1
    BY <1>0, <2>1, AskedRow DEF RowOK
  <2>3. /\ proposal' \in [Messages -> Proposal] /\ proposal'[r] = row
        /\ \A q \in Messages \ {r} : proposal'[q] = proposal[q]
    BY <1>0, <2>1, <2>2, ProposalWritten
  <2>4. ApprovalTypeOK'
    BY <1>0, <2>1, <2>3 DEF ApprovalTypeOK
  <2>5. \A k \in 1 .. row.sends : k < row.sends => k \in 1 .. proposal[r].sends
    BY <1>0, <2>2 DEF Proposal
  <2>6. \A k \in 1 .. row.sends : k < row.sends => k \in refused[r]
    BY <1>0, <2>1, <2>5 DEF RowOK
  <2>7. r \notin ledger /\ row.sends > 0
    BY <1>0, <2>1, <2>2 DEF RowOK, Unsent, Proposal
  <2>8. RowOK(r)'
    BY <2>1, <2>2, <2>3, <2>6, <2>7 DEF RowOK, Unsent
  <2> QED  BY <2>1, <2>3, <2>4, <2>8, OthersOK
<1>4. CASE QuestionTaken(r)
  <2>1. PICK id \in BOOLEAN :
          Become(r, [proposal[r] EXCEPT !.status = "awaiting_confirmation",
                                        !.due = TRUE, !.quoted = id])
    BY <1>4 DEF QuestionTaken
  <2> DEFINE row == [proposal[r] EXCEPT !.status = "awaiting_confirmation",
                                        !.due = TRUE, !.quoted = id]
  <2>2. /\ row \in Proposal /\ row.status = "awaiting_confirmation"
        /\ row.sends = proposal[r].sends
    BY <1>0 DEF Proposal, ProposalStatuses, Expirable
  <2>3. proposal[r].status = "sending" /\ UNCHANGED <<refused, ledger, approval>>
    BY <1>4 DEF QuestionTaken, Asking
  <2>4. ApprovalTypeOK'
    BY <1>0, <1>4, <2>1, <2>2, <2>3, ProposalWritten, PassTypes
       DEF QuestionTaken, ApprovalTypeOK
  <2> QED  BY <2>1, <2>2, <2>3, <2>4, StatusKeeps DEF Unsent
<1>5. CASE QuestionUnclear(r)
  <2> DEFINE row == [proposal[r] EXCEPT !.status = "delivery_unknown", !.due = TRUE]
  <2>1. /\ row \in Proposal /\ row.status = "delivery_unknown"
        /\ row.sends = proposal[r].sends
    BY <1>0, StatusRow DEF ProposalStatuses, Withdrawn
  <2>2. /\ Become(r, row) /\ UNCHANGED <<refused, ledger, approval>>
        /\ proposal[r].status = "sending"
    BY <1>5 DEF QuestionUnclear, Asking, SetStatus
  <2>3. ApprovalTypeOK'
    BY <1>0, <1>5, <2>1, <2>2, ProposalWritten, PassTypes DEF QuestionUnclear, ApprovalTypeOK
  <2> QED  BY <2>1, <2>2, <2>3, StatusKeeps DEF Unsent
<1>6. CASE QuestionDeferred(r) \/ QuestionRefused(r)
  <2>1. PICK status \in {"retry_send", "failed_delivery"}, due \in BOOLEAN :
          /\ SetStatus(r, status, due)
          /\ status = "retry_send" => proposal[r].sends < MaxQuestions
    BY <1>6 DEF QuestionDeferred, QuestionRefused
  <2> DEFINE row == [proposal[r] EXCEPT !.status = status, !.due = due]
  <2>0. status \in ProposalStatuses
    BY DEF ProposalStatuses, Expirable, Unsent, Withdrawn
  <2>2. row \in Proposal /\ row.status = status /\ row.sends = proposal[r].sends
    <3> HIDE DEF row
    <3>1. row = [proposal[r] EXCEPT !.status = status, !.due = due]
      BY DEF row
    <3> QED  BY <1>0, <2>0, <3>1, StatusRow, ZenonT(60)
  <2>3. /\ Become(r, row) /\ Resume /\ proposal[r].status = "sending"
        /\ refused' = [refused EXCEPT ![r] = @ \cup {proposal[r].sends}]
        /\ UNCHANGED <<ledger, approval>>
    BY <1>6, <2>1 DEF SetStatus, QuestionDeferred, QuestionRefused, Refuse, Asking
  <2>4. /\ proposal' \in [Messages -> Proposal] /\ proposal'[r] = row
        /\ \A q \in Messages \ {r} : proposal'[q] = proposal[q]
    BY <1>0, <2>2, <2>3, ProposalWritten
  <2>5. proposal[r].sends \in 1 .. MaxQuestions
    BY <1>0, <2>3 DEF RowOK, Proposal
  <2>6. /\ refused' \in [Messages -> SUBSET (1 .. MaxQuestions)]
        /\ refused'[r] = refused[r] \cup {proposal[r].sends}
        /\ \A q \in Messages \ {r} : refused'[q] = refused[q]
    BY <1>0, <2>3, <2>5 DEF ApprovalTypeOK
  <2>7. ApprovalTypeOK'
    BY <1>0, <2>3, <2>4, <2>6, PassTypes DEF ApprovalTypeOK
  <2>8. \A k \in 1 .. proposal[r].sends : k \in refused'[r]
    BY <1>0, <2>5, <2>6 DEF RowOK
  <2>9. RowOK(r)'
    BY <1>0, <2>1, <2>2, <2>3, <2>4, <2>8 DEF RowOK, Unsent
  <2> QED  BY <2>3, <2>4, <2>6, <2>7, <2>9, OthersOK
<1> QED  BY <1>1, <1>2, <1>3, <1>4, <1>5, <1>6 DEF SendStep

LEMMA ReplyKeeps ==
  ASSUME ApprovalIInv, NEW r \in Messages, NEW yes \in BOOLEAN, Reply(r, yes)
  PROVE  ApprovalIInv'
<1>0. /\ ApprovalTypeOK /\ proposal[r] \in Proposal
      /\ UNCHANGED <<refused, ledger, approval, approvalPass>>
      /\ proposal[r].status = "awaiting_confirmation"
  BY DEF ApprovalIInv, ApprovalTypeOK, Reply
<1>1. PICK row \in Proposal : /\ Become(r, row) /\ row.sends = proposal[r].sends
                              /\ row.status \in {"awaiting_confirmation", "expired",
                                                 "confirmed", "rejected"}
  <2>1. CASE proposal[r].late
    BY <1>0, <2>1, ExpiredRow DEF Reply
  <2>2. CASE ~proposal[r].late
    <3> DEFINE row == [proposal[r] EXCEPT !.status = IF yes THEN "confirmed" ELSE "rejected",
                                          !.due = TRUE]
    <3>1. row \in Proposal /\ row.status \in {"confirmed", "rejected"}
          /\ row.sends = proposal[r].sends
      BY <1>0 DEF Proposal, ProposalStatuses, Approved, Executable
    <3>2. Become(r, row)
      BY <2>2 DEF Reply, SetStatus
    <3> QED  BY <3>1, <3>2
  <2> QED  BY <2>1, <2>2
<1>2. ApprovalTypeOK'
  BY <1>0, <1>1, ProposalWritten DEF ApprovalTypeOK
<1> QED  BY <1>0, <1>1, <1>2, StatusKeeps DEF Unsent

LEMMA ClaimKeeps ==
  ASSUME ApprovalIInv, NEW r \in Messages, ClaimExecution(r)
  PROVE  ApprovalIInv'
<1> DEFINE row == [proposal[r] EXCEPT !.status = "executing", !.runs = @ + 1]
<1>0. /\ ApprovalTypeOK /\ proposal[r] \in Proposal /\ proposal[r].status \in Executable
      /\ Become(r, row) /\ UNCHANGED <<refused, ledger, approval>>
      /\ approvalPass' = [approvalPass EXCEPT !.stage = "execute", !.run = @ \ {r}]
  BY DEF ApprovalIInv, ApprovalTypeOK, ClaimExecution
<1>1. row \in Proposal /\ row.status = "executing" /\ row.sends = proposal[r].sends
  BY <1>0, ClaimedRow
<1>2. ApprovalTypeOK'
  BY <1>0, <1>1, ProposalWritten DEF ApprovalTypeOK
<1> QED  BY <1>0, <1>1, <1>2, StatusKeeps DEF Unsent, Executable

LEMMA ClassifyKeeps ==
  ASSUME ApprovalIInv, NEW r \in Messages, Classify(r)
  PROVE  ApprovalIInv'
<1> DEFINE row == [proposal[r] EXCEPT !.status = "executed", !.due = TRUE]
<1>0. /\ ApprovalTypeOK /\ RowOK(r) /\ proposal[r] \in Proposal
      /\ Become(r, row) /\ Resume
      /\ ledger' = ledger \cup {r} /\ UNCHANGED <<refused, approval>>
  BY DEF ApprovalIInv, ApprovalTypeOK, Classify, SetStatus
<1>1. row \in Proposal /\ row.status = "executed" /\ row.sends = proposal[r].sends
  BY <1>0, StatusRow DEF ProposalStatuses, Approved
<1>2. /\ proposal' \in [Messages -> Proposal] /\ proposal'[r] = row
      /\ \A q \in Messages \ {r} : proposal'[q] = proposal[q]
  BY <1>0, <1>1, ProposalWritten
<1>3. ApprovalTypeOK'
  BY <1>0, <1>2, PassTypes DEF ApprovalTypeOK
<1>4. RowOK(r)'
  BY <1>0, <1>1, <1>2 DEF RowOK, Unsent
<1> QED  BY <1>0, <1>2, <1>3, <1>4, OthersOK

LEMMA ClassifyFailsKeeps ==
  ASSUME ApprovalIInv, NEW r \in Messages, ClassifyFails(r)
  PROVE  ApprovalIInv'
<1>0. /\ ApprovalTypeOK /\ proposal[r] \in Proposal /\ proposal[r].status = "executing"
      /\ Resume /\ UNCHANGED <<refused, ledger, approval>>
  BY DEF ApprovalIInv, ApprovalTypeOK, ClassifyFails, Executing
<1>1. PICK status \in {"failed_execution", "execution_retry"}, due \in BOOLEAN :
        SetStatus(r, status, due)
  BY DEF ClassifyFails
<1> DEFINE row == [proposal[r] EXCEPT !.status = status, !.due = due]
<1>2. row \in Proposal /\ row.status = status /\ row.sends = proposal[r].sends
  BY <1>0, StatusRow, ZenonT(30) DEF ProposalStatuses, Approved, Executable
<1>3. Become(r, row)
  BY <1>1 DEF SetStatus
<1>4. ApprovalTypeOK'
  BY <1>0, <1>2, <1>3, ProposalWritten, PassTypes DEF ApprovalTypeOK
<1> QED  BY <1>0, <1>2, <1>3, <1>4, StatusKeeps DEF Unsent

LEMMA ClockKeeps ==
  ASSUME ApprovalIInv, NEW r \in Messages, ApprovalClock(r)
  PROVE  ApprovalIInv'
<1>0. /\ ApprovalTypeOK /\ proposal[r] \in Proposal
      /\ UNCHANGED <<refused, ledger, approval, approvalPass>>
  BY DEF ApprovalIInv, ApprovalTypeOK, ApprovalClock, FallDue, Elapse
<1>1. PICK row \in Proposal : /\ Become(r, row) /\ row.sends = proposal[r].sends
                              /\ row.status = proposal[r].status
  <2>1. CASE FallDue(r)
    <3>1. LET row == [proposal[r] EXCEPT !.due = TRUE]
          IN  /\ row \in Proposal /\ row.sends = proposal[r].sends
              /\ row.status = proposal[r].status
      BY <1>0 DEF Proposal
    <3> QED  BY <2>1, <3>1 DEF FallDue
  <2>2. CASE Elapse(r)
    <3>1. LET row == [proposal[r] EXCEPT !.late = TRUE]
          IN  /\ row \in Proposal /\ row.sends = proposal[r].sends
              /\ row.status = proposal[r].status
      BY <1>0 DEF Proposal
    <3> QED  BY <2>2, <3>1 DEF Elapse
  <2> QED  BY <2>1, <2>2 DEF ApprovalClock
<1>2. ApprovalTypeOK'
  BY <1>0, <1>1, ProposalWritten DEF ApprovalTypeOK
<1> QED  BY <1>0, <1>1, <1>2, StatusKeeps

LEMMA RestartKeeps ==
  ASSUME ApprovalIInv, ApprovalRestart
  PROVE  ApprovalIInv'
<1>1. \A r \in Messages : proposal[r] \in Proposal
  BY DEF ApprovalIInv, ApprovalTypeOK
<1>2. /\ proposal' \in [Messages -> Proposal]
      /\ \A r \in Messages : proposal'[r] \in {proposal[r], Recovered(proposal[r])}
  BY <1>1, RecoveredRow DEF ApprovalRestart, ApprovalIInv, ApprovalTypeOK
<1>3. ApprovalTypeOK'
  BY <1>2 DEF ApprovalRestart, NoApprovalPass, ApprovalIInv, ApprovalTypeOK
<1>4. ASSUME NEW r \in Messages PROVE RowOK(r)'
  <2>1. /\ proposal'[r].sends = proposal[r].sends
        /\ \/ proposal'[r].status = proposal[r].status
           \/ /\ proposal[r].status \in {"sending", "executing"}
              /\ proposal'[r].status \in {"delivery_unknown", "execution_retry"}
    BY <1>1, <1>2, RecoveredRow
  <2> QED  BY <2>1 DEF ApprovalRestart, ApprovalIInv, RowOK, Unsent
<1> QED  BY <1>3, <1>4 DEF ApprovalIInv

LEMMA ApprovalInvariant == ApprovalSpec => []ApprovalIInv
<1>1. ApprovalInit => ApprovalIInv
  <2> SUFFICES ASSUME ApprovalInit PROVE ApprovalIInv
    OBVIOUS
  <2>1. proposal \in [Messages -> Proposal]
    BY ApprovalAssumption
       DEF ApprovalInit, Proposal, ProposalStatuses, ApprovalConfigs
  <2>2. ApprovalTypeOK
    BY <2>1 DEF ApprovalInit, ApprovalTypeOK, NoApprovalPass
  <2> QED  BY <2>2 DEF ApprovalInit, ApprovalIInv, RowOK, Unsent
<1>2. ApprovalIInv /\ [ApprovalNext]_approvalVars => ApprovalIInv'
  <2> SUFFICES ASSUME ApprovalIInv, [ApprovalNext]_approvalVars PROVE ApprovalIInv'
    OBVIOUS
  <2>1. CASE EndApprovalPass
    BY <2>1 DEF EndApprovalPass, NoApprovalPass, ApprovalIInv, ApprovalTypeOK, RowOK
  <2>2. CASE UNCHANGED approvalVars
    BY <2>2 DEF approvalVars, ApprovalIInv, ApprovalTypeOK, RowOK
  <2> QED
    BY <2>1, <2>2, ProposeKeeps, BeginKeeps, SendKeeps, ReplyKeeps, ClaimKeeps,
       ClassifyKeeps, ClassifyFailsKeeps, ClockKeeps, RestartKeeps
       DEF ApprovalNext, ApprovalStep, ApprovalWork
<1> QED  BY <1>1, <1>2, PTL DEF ApprovalSpec

\* The rows, the pass and the ledger keep their types.
THEOREM ApprovalTypeCorrect == ApprovalSpec => []ApprovalTypeOK
<1>1. ApprovalIInv => ApprovalTypeOK
  BY DEF ApprovalIInv
<1> QED  BY <1>1, ApprovalInvariant, PTL

\* A question that may have arrived is never put again, for any receipts, bounds
\* and changes of the environment from one start to the next.
THEOREM AskedAgainOnlyIfRefusedHolds == ApprovalSpec => []AskedAgainOnlyIfRefused
<1>1. ApprovalIInv => AskedAgainOnlyIfRefused
  BY DEF ApprovalIInv, RowOK, AskedAgainOnlyIfRefused
<1> QED  BY <1>1, ApprovalInvariant, PTL

\* The ledger holds the receipts whose proposals say so, and no other.
THEOREM LedgerMatchesHolds == ApprovalSpec => []LedgerMatches
<1>1. ApprovalIInv => LedgerMatches
  BY DEF ApprovalIInv, RowOK, LedgerMatches
<1> QED  BY <1>1, ApprovalInvariant, PTL

-----------------------------------------------------------------------------
(***************************************************************************)
(* The refinement: every step is one of Consent's, or none                 *)
(***************************************************************************)

\* What a step does that books nothing and lets no time go by: the answers it
\* changes were open and are void.
LEMMA Withdrawing ==
  ASSUME ledger' = ledger,
         \A r \in Messages :
           /\ proposal'[r].late = proposal[r].late
           /\ \/ Answer(proposal'[r]) = Answer(proposal[r])
              \/ Answer(proposal[r]) = "open" /\ Answer(proposal'[r]) = "void"
  PROVE  Agreement!Next
<1> DEFINE R == {r \in Messages : Answer(proposal'[r]) # Answer(proposal[r])}
<1>1. \A r \in R : Answer(proposal[r]) = "open" /\ Answer(proposal'[r]) = "void"
  OBVIOUS
<1>2. [r \in Messages |-> Answer(proposal'[r])]
        = [r \in Messages |-> IF r \in R THEN "void" ELSE Answer(proposal[r])]
  BY <1>1
<1>3. {r \in Messages : proposal'[r].late} = {r \in Messages : proposal[r].late}
  OBVIOUS
<1>4. Agreement!Withdraw(R)
  BY <1>1, <1>2, <1>3 DEF Agreement!Withdraw, Answer
<1>5. R \in SUBSET Messages
  OBVIOUS
<1> QED  BY <1>4, <1>5 DEF Agreement!Next

\* The same of a step that writes one row.
LEMMA WithdrawsRow ==
  ASSUME ApprovalTypeOK, NEW r \in Messages, NEW row \in Proposal, Become(r, row),
         ledger' = ledger, row.late = proposal[r].late,
         \/ Answer(row) = Answer(proposal[r])
         \/ Answer(proposal[r]) = "open" /\ Answer(row) = "void"
  PROVE  Agreement!Next
<1>1. /\ proposal'[r] = row
      /\ \A q \in Messages \ {r} : proposal'[q] = proposal[q]
  BY ProposalWritten
<1>2. \A q \in Messages :
        /\ proposal'[q].late = proposal[q].late
        /\ \/ Answer(proposal'[q]) = Answer(proposal[q])
           \/ Answer(proposal[q]) = "open" /\ Answer(proposal'[q]) = "void"
  <2> TAKE q \in Messages
  <2>1. CASE q = r   BY <1>1, <2>1
  <2>2. CASE q # r   BY <1>1, <2>2
  <2> QED  BY <2>1, <2>2
<1> QED  BY <1>2, Withdrawing

\* The answer a status stands for.
LEMMA Answers ==
  ASSUME NEW row
  PROVE  /\ row.status \in Approved => Answer(row) = "yes"
         /\ row.status = "rejected" => Answer(row) = "no"
         /\ row.status \in Withdrawn => Answer(row) = "void"
         /\ row.status \in Expirable \cup {"none", "sending"} => Answer(row) = "open"
  BY DEF Answer, Approved, Executable, Withdrawn, Expirable, Unsent

LEMMA SendRefines ==
  ASSUME ApprovalIInv, NEW r \in Messages, SendStep(r)
  PROVE  Agreement!Next
<1>0. ApprovalTypeOK /\ proposal[r] \in Proposal
  BY DEF ApprovalIInv, ApprovalTypeOK
<1>1. CASE SendExpired(r)
  <2>1. Become(r, Expired(proposal[r])) /\ ledger' = ledger
    BY <1>1 DEF SendExpired, Taken
  <2>2. \/ Answer(Expired(proposal[r])) = Answer(proposal[r])
        \/ /\ Answer(proposal[r]) = "open"
           /\ Answer(Expired(proposal[r])) = "void"
    BY <1>0, ExpiredRow, Answers DEF Withdrawn
  <2> QED  BY <1>0, <2>1, <2>2, ExpiredRow, WithdrawsRow
<1>2. ASSUME NEW status \in ProposalStatuses, NEW due \in BOOLEAN,
             SetStatus(r, status, due), ledger' = ledger,
             proposal[r].status \in Unsent \cup {"sending"},
             status \in Expirable \cup Withdrawn
      PROVE  Agreement!Next
  <2> DEFINE row == [proposal[r] EXCEPT !.status = status, !.due = due]
  <2>1. row \in Proposal /\ row.status = status /\ row.late = proposal[r].late
    <3> HIDE DEF row
    <3>1. row = [proposal[r] EXCEPT !.status = status, !.due = due]
      BY DEF row
    <3>2. status \in ProposalStatuses
      BY <1>2 DEF Expirable, Withdrawn, ProposalStatuses, Unsent, Approved
    <3>3. proposal[r] \in Proposal
      BY <1>0
    <3> QED  BY <3>1, <3>2, <3>3 DEF Proposal
  <2>2. Become(r, row)
    BY <1>2 DEF SetStatus
  <2>3. Answer(proposal[r]) = "open" /\ Answer(row) \in {"open", "void"}
    BY <1>2, <2>1, Answers DEF Expirable
  <2> QED  BY <1>0, <1>2, <2>1, <2>2, <2>3, WithdrawsRow
<1>3. CASE SendUnaddressed(r)
  BY <1>2, <1>3 DEF SendUnaddressed, Taken, ProposalStatuses, Expirable, Unsent
<1>4. CASE SendQuestion(r)
  <2> DEFINE row == [proposal[r] EXCEPT !.status = "sending", !.sends = @ + 1]
  <2>1. /\ Become(r, row) /\ ledger' = ledger
        /\ proposal[r].status \in Unsent /\ proposal[r].sends < MaxQuestions
    BY <1>4 DEF SendQuestion, Taken, Ask, ApprovalIInv, RowOK
  <2>2. row \in Proposal /\ row.status = "sending"
    BY <1>0, <2>1, AskedRow
  <2>3. row.late = proposal[r].late
    BY <1>0 DEF Proposal
  <2>4. Answer(proposal[r]) = "open" /\ Answer(row) = "open"
    BY <2>1, <2>2, Answers DEF Expirable
  <2> QED  BY <1>0, <2>1, <2>2, <2>3, <2>4, WithdrawsRow
<1>5. CASE QuestionTaken(r)
  <2>1. PICK id \in BOOLEAN :
          Become(r, [proposal[r] EXCEPT !.status = "awaiting_confirmation",
                                        !.due = TRUE, !.quoted = id])
    BY <1>5 DEF QuestionTaken
  <2> DEFINE row == [proposal[r] EXCEPT !.status = "awaiting_confirmation",
                                        !.due = TRUE, !.quoted = id]
  <2>2. /\ row \in Proposal /\ row.status = "awaiting_confirmation"
        /\ row.late = proposal[r].late
    BY <1>0 DEF Proposal, ProposalStatuses, Expirable
  <2>3. proposal[r].status = "sending" /\ ledger' = ledger
    BY <1>5 DEF QuestionTaken, Asking
  <2>4. Answer(proposal[r]) = "open" /\ Answer(row) = "open"
    BY <2>2, <2>3, Answers DEF Expirable
  <2> QED  BY <1>0, <2>1, <2>2, <2>3, <2>4, WithdrawsRow
<1>6. CASE QuestionUnclear(r) \/ QuestionDeferred(r) \/ QuestionRefused(r)
  <2>1. PICK status \in {"delivery_unknown", "retry_send", "failed_delivery"},
             due \in BOOLEAN : SetStatus(r, status, due)
    BY <1>6 DEF QuestionUnclear, QuestionDeferred, QuestionRefused
  <2>2. proposal[r].status = "sending" /\ ledger' = ledger
    BY <1>6 DEF QuestionUnclear, QuestionDeferred, QuestionRefused, Asking
  <2> QED
    BY <1>2, <2>1, <2>2 DEF ProposalStatuses, Expirable, Unsent, Withdrawn
<1> QED  BY <1>1, <1>3, <1>4, <1>5, <1>6 DEF SendStep

\* In time it is the operator's answer; too late it withdraws the question.
LEMMA ReplyRefines ==
  ASSUME ApprovalIInv, NEW r \in Messages, NEW yes \in BOOLEAN, Reply(r, yes)
  PROVE  Agreement!Next
<1>0. /\ ApprovalTypeOK /\ proposal[r] \in Proposal /\ ledger' = ledger
      /\ proposal[r].status = "awaiting_confirmation"
  BY DEF ApprovalIInv, ApprovalTypeOK, Reply
<1>1. CASE proposal[r].late
  <2>1. Become(r, Expired(proposal[r]))
    BY <1>1 DEF Reply
  <2>2. \/ Answer(Expired(proposal[r])) = Answer(proposal[r])
        \/ /\ Answer(proposal[r]) = "open"
           /\ Answer(Expired(proposal[r])) = "void"
    BY <1>0, ExpiredRow, Answers DEF Withdrawn
  <2> QED  BY <1>0, <2>1, <2>2, ExpiredRow, WithdrawsRow
<1>2. CASE ~proposal[r].late
  <2> DEFINE status == IF yes THEN "confirmed" ELSE "rejected"
             row == [proposal[r] EXCEPT !.status = status, !.due = TRUE]
             answer == IF yes THEN "yes" ELSE "no"
  <2>1. row \in Proposal /\ row.status = status /\ row.late = proposal[r].late
    BY <1>0 DEF Proposal, ProposalStatuses, Approved, Executable
  <2>2. Become(r, row)
    BY <1>2 DEF Reply, SetStatus
  <2>3. /\ proposal' \in [Messages -> Proposal] /\ proposal'[r] = row
        /\ \A q \in Messages \ {r} : proposal'[q] = proposal[q]
    BY <1>0, <2>1, <2>2, ProposalWritten
  <2>4. Answer(proposal[r]) = "open" /\ Answer(row) = answer
    BY <1>0, <2>1, Answers DEF Expirable, Approved, Executable
  <2>5. answer \in {"yes", "no"}
    OBVIOUS
  <2> HIDE DEF row, answer
  <2>6. [q \in Messages |-> Answer(proposal'[q])]
          = [[q \in Messages |-> Answer(proposal[q])] EXCEPT ![r] = answer]
    <3>1. Answer(proposal'[r]) = answer
      BY <2>3, <2>4
    <3>2. \A q \in Messages \ {r} : Answer(proposal'[q]) = Answer(proposal[q])
      BY <2>3
    <3> QED  BY <3>1, <3>2
  <2>7. {q \in Messages : proposal'[q].late} = {q \in Messages : proposal[q].late}
    BY <2>1, <2>3
  <2>8. Agreement!Decide(r)
    BY <1>0, <1>2, <2>4, <2>5, <2>6, <2>7 DEF Agreement!Decide
  <2> QED  BY <2>8 DEF Agreement!Next
<1> QED  BY <1>1, <1>2

LEMMA ClassifyRefines ==
  ASSUME ApprovalIInv, NEW r \in Messages, Classify(r)
  PROVE  Agreement!Next
<1> DEFINE row == [proposal[r] EXCEPT !.status = "executed", !.due = TRUE]
<1>0. /\ ApprovalTypeOK /\ RowOK(r) /\ proposal[r] \in Proposal
      /\ proposal[r].status = "executing" /\ Become(r, row)
      /\ ledger' = ledger \cup {r}
  BY DEF ApprovalIInv, ApprovalTypeOK, Classify, Executing, SetStatus
<1>1. /\ row \in Proposal /\ row.status = "executed"
      /\ row.late = proposal[r].late
  BY <1>0, StatusRow DEF ProposalStatuses, Approved
<1>2. /\ proposal' \in [Messages -> Proposal] /\ proposal'[r] = row
      /\ \A q \in Messages \ {r} : proposal'[q] = proposal[q]
  BY <1>0, <1>1, ProposalWritten
<1>3. Answer(proposal[r]) = "yes" /\ Answer(row) = "yes"
  BY <1>0, <1>1, Answers DEF Approved
<1> HIDE DEF row
<1>4. \A q \in Messages : /\ Answer(proposal'[q]) = Answer(proposal[q])
                          /\ proposal'[q].late = proposal[q].late
  <2> TAKE q \in Messages
  <2>1. CASE q = r   BY <1>1, <1>2, <1>3, <2>1
  <2>2. CASE q # r   BY <1>2, <2>2
  <2> QED  BY <2>1, <2>2
<1>5. r \notin ledger
  BY <1>0 DEF RowOK
<1>6. Agreement!Book(r)
  BY <1>0, <1>3, <1>4, <1>5 DEF Agreement!Book
<1> QED  BY <1>6 DEF Agreement!Next

LEMMA ExecutionRefines ==
  ASSUME ApprovalIInv, NEW r \in Messages, ClaimExecution(r) \/ ClassifyFails(r)
  PROVE  Agreement!Next
<1>0. /\ ApprovalTypeOK /\ proposal[r] \in Proposal /\ ledger' = ledger
      /\ proposal[r].status \in Approved
  BY DEF ApprovalIInv, ApprovalTypeOK, ClaimExecution, ClassifyFails, Executing,
         Approved
<1>1. PICK row \in Proposal : /\ Become(r, row) /\ row.late = proposal[r].late
                              /\ row.status \in Approved
  <2>1. CASE ClaimExecution(r)
    <3> DEFINE row == [proposal[r] EXCEPT !.status = "executing", !.runs = @ + 1]
    <3>1. row \in Proposal /\ row.status \in Approved
      BY <1>0, ClaimedRow DEF Approved
    <3>2. row.late = proposal[r].late
      BY <1>0 DEF Proposal
    <3>3. Become(r, row)
      BY <2>1 DEF ClaimExecution
    <3> QED  BY <3>1, <3>2, <3>3
  <2>2. CASE ClassifyFails(r)
    <3>1. PICK status \in {"failed_execution", "execution_retry"}, due \in BOOLEAN :
            SetStatus(r, status, due)
      BY <2>2 DEF ClassifyFails
    <3> DEFINE row == [proposal[r] EXCEPT !.status = status, !.due = due]
    <3>0. status \in ProposalStatuses /\ status \in Approved
      BY DEF ProposalStatuses, Approved, Executable
    <3>2. /\ row \in Proposal /\ row.status = status
          /\ row.late = proposal[r].late
      BY <1>0, <3>0 DEF Proposal
    <3>3. Become(r, row)
      BY <3>1 DEF SetStatus
    <3> HIDE DEF row
    <3> QED  BY <3>0, <3>2, <3>3
  <2> QED  BY <2>1, <2>2
<1>2. Answer(row) = Answer(proposal[r])
  BY <1>0, <1>1, Answers
<1> QED  BY <1>0, <1>1, <1>2, WithdrawsRow

LEMMA ElapseRefines ==
  ASSUME ApprovalIInv, NEW r \in Messages, Elapse(r)
  PROVE  Agreement!Next
<1> DEFINE row == [proposal[r] EXCEPT !.late = TRUE]
<1>0. /\ ApprovalTypeOK /\ proposal[r] \in Proposal /\ ledger' = ledger
      /\ Become(r, row)
  BY DEF ApprovalIInv, ApprovalTypeOK, Elapse
<1>1. row \in Proposal /\ row.late /\ row.status = proposal[r].status
  BY <1>0 DEF Proposal
<1>2. /\ proposal' \in [Messages -> Proposal] /\ proposal'[r] = row
      /\ \A q \in Messages \ {r} : proposal'[q] = proposal[q]
  BY <1>0, <1>1, ProposalWritten
<1> HIDE DEF row
<1>3. \A q \in Messages : Answer(proposal'[q]) = Answer(proposal[q])
  <2> TAKE q \in Messages
  <2>1. proposal'[q].status = proposal[q].status   BY <1>1, <1>2
  <2> QED  BY <2>1 DEF Answer
<1>4. {q \in Messages : proposal'[q].late} = {q \in Messages : proposal[q].late} \cup {r}
  BY <1>1, <1>2
<1>5. Agreement!Lapse(r)
  BY <1>0, <1>3, <1>4 DEF Agreement!Lapse
<1> QED  BY <1>5 DEF Agreement!Next

LEMMA ApprovalStepRefines ==
  ApprovalIInv /\ [ApprovalNext]_approvalVars => [Agreement!Next]_(Agreement!vars)
<1> SUFFICES ASSUME ApprovalIInv, [ApprovalNext]_approvalVars
             PROVE  [Agreement!Next]_(Agreement!vars)
  OBVIOUS
<1>0. ApprovalTypeOK /\ \A r \in Messages : proposal[r] \in Proposal
  BY DEF ApprovalIInv, ApprovalTypeOK
<1>1. ASSUME NEW r \in Messages, NEW known \in BOOLEAN, Propose(r, known)
      PROVE  Agreement!Next
  <2> DEFINE status == IF ~known THEN "blocked_invalid_action"
                       ELSE IF approval.ready THEN "pending_send" ELSE "waiting_config"
             row == [proposal[r] EXCEPT !.status = status, !.due = TRUE,
                                        !.operator = approval.operator]
  <2>1. row \in Proposal /\ row.status = status /\ row.late = proposal[r].late
    BY <1>0, ZenonT(30) DEF ApprovalTypeOK, ApprovalConfigs, Proposal, ProposalStatuses,
                Expirable, Unsent, Withdrawn
  <2>2. Become(r, row) /\ ledger' = ledger /\ proposal[r].status = "none"
    BY <1>1 DEF Propose
  <2>3. Answer(proposal[r]) = "open" /\ Answer(row) \in {"open", "void"}
    BY <2>1, <2>2, Answers DEF Expirable, Unsent, Withdrawn
  <2> QED  BY <1>0, <2>1, <2>2, <2>3, WithdrawsRow
<1>2. CASE BeginApprovalPass
  <2>1. \A r \in Messages :
          /\ proposal'[r].late = proposal[r].late
          /\ \/ Answer(proposal'[r]) = Answer(proposal[r])
             \/ Answer(proposal[r]) = "open" /\ Answer(proposal'[r]) = "void"
    <3> TAKE r \in Messages
    <3>1. proposal'[r] = Expired(proposal[r])
      BY <1>2 DEF BeginApprovalPass
    <3> QED  BY <1>0, <3>1, ExpiredRow, Answers DEF Withdrawn
  <2> QED  BY <1>2, <2>1, Withdrawing DEF BeginApprovalPass
<1>3. CASE ApprovalRestart
  <2>1. \A r \in Messages :
          /\ proposal'[r].late = proposal[r].late
          /\ \/ Answer(proposal'[r]) = Answer(proposal[r])
             \/ Answer(proposal[r]) = "open" /\ Answer(proposal'[r]) = "void"
    <3> TAKE r \in Messages
    <3>1. proposal'[r] \in {proposal[r], Recovered(proposal[r])}
      BY <1>3 DEF ApprovalRestart
    <3> QED
      BY <1>0, <3>1, RecoveredRow, Answers DEF Withdrawn, Approved, Executable
  <2> QED  BY <1>3, <2>1, Withdrawing DEF ApprovalRestart
<1>4. ASSUME NEW r \in Messages, FallDue(r)
      PROVE  Agreement!Next
  <2> DEFINE row == [proposal[r] EXCEPT !.due = TRUE]
  <2>1. /\ row \in Proposal /\ row.late = proposal[r].late
        /\ row.status = proposal[r].status
    BY <1>0 DEF Proposal
  <2>2. Become(r, row) /\ ledger' = ledger
    BY <1>4 DEF FallDue
  <2>3. Answer(row) = Answer(proposal[r])
    BY <2>1 DEF Answer
  <2> QED  BY <1>0, <2>1, <2>2, <2>3, WithdrawsRow
<1>5. CASE EndApprovalPass \/ UNCHANGED approvalVars
  BY <1>5 DEF EndApprovalPass, approvalVars, Agreement!vars
<1> QED
  BY <1>1, <1>2, <1>3, <1>4, <1>5, SendRefines, ReplyRefines, ClassifyRefines,
     ExecutionRefines, ElapseRefines
     DEF ApprovalNext, ApprovalStep, ApprovalWork, ApprovalClock

LEMMA ApprovalInitRefines == ApprovalInit => Agreement!Init
<1> SUFFICES ASSUME ApprovalInit PROVE Agreement!Init
  OBVIOUS
<1>1. \A r \in Messages : proposal[r].status = "none" /\ ~proposal[r].late
  BY DEF ApprovalInit
<1>2. \A r \in Messages : Answer(proposal[r]) = "open"
  BY <1>1, Answers
<1> QED  BY <1>1, <1>2 DEF ApprovalInit, Agreement!Init

\* The service implements Consent: whatever passes, replies, retries, failures
\* and restarts come in what order, a receipt is booked once at most, and only
\* if the operator said yes before the question lapsed.
THEOREM BookedByConsentHolds == ApprovalSpec => BookedByConsent
  BY ApprovalInitRefines, ApprovalStepRefines, ApprovalInvariant, PTL
  DEF ApprovalSpec, BookedByConsent, Agreement!Spec
-----------------------------------------------------------------------------
(***************************************************************************)
(* The jobs of the Contador                                                *)
(***************************************************************************)
\* reply_status is NULL exactly while no reply of the job was taken or may have
\* been: it is the count that AnsweredOnce bounds.
JobCounted(m) ==
  /\ replies[m] = IF contadorJob[m].reply = "none" THEN 0 ELSE 1
  /\ contadorJob[m].status = "none" => contadorJob[m].reply = "none"

\* The job a pass is at is claimed, and fenced before its request is under way.
InHand(m) ==
  /\ contadorPass.stage \in {"handle", "send", "settle"} =>
       contadorJob[m].status = "processing" /\ contadorJob[m].attempts > 0
  /\ contadorPass.stage = "send" => contadorJob[m].reply # "none"

ContadorIInv ==
  /\ ContadorTypeOK
  /\ \A m \in Messages : JobCounted(m)
  /\ \A m \in contadorPass.at : InHand(m)

-----------------------------------------------------------------------------
\* A step that writes the row of m, and touches no other job.
LEMMA WrittenJob ==
  ASSUME ContadorTypeOK, NEW m \in Messages, NEW row \in ContadorJob,
         contadorJob' = [contadorJob EXCEPT ![m] = row]
  PROVE  /\ contadorJob' \in [Messages -> ContadorJob]
         /\ contadorJob'[m] = row
         /\ \A n \in Messages \ {m} : contadorJob'[n] = contadorJob[n]
  BY DEF ContadorTypeOK

LEMMA NewJobRow ==
  ASSUME NEW kind \in {"image", "other"}, NEW extracted \in BOOLEAN
  PROVE  /\ NewJob(kind, extracted) \in ContadorJob
         /\ NewJob(kind, extracted).reply = "none"
         /\ NewJob(kind, extracted).status = "pending"
  BY DEF NewJob, NoContadorJob, ContadorJob, JobStatuses, Waiting

LEMMA SettledRow ==
  ASSUME NEW row \in ContadorJob, row.attempts > 0, NEW result
  PROVE  /\ SettledJob(row, result) \in ContadorJob
         /\ SettledJob(row, result).reply = row.reply
         /\ SettledJob(row, result).status # "none"
<1>1. row.attempts - 1 \in Nat
  BY DEF ContadorJob
<1> QED  BY <1>1 DEF SettledJob, ContadorJob, JobStatuses, Waiting, JobEnds

LEMMA RecoveredJobRow ==
  ASSUME NEW row \in ContadorJob
  PROVE  /\ RecoveredJob(row) \in ContadorJob
         /\ (RecoveredJob(row).reply = "none") <=> (row.reply = "none")
         /\ RecoveredJob(row).status = "none" => row.status = "none"
  BY DEF RecoveredJob, ContadorJob, JobStatuses, Waiting, JobEnds

\* A pass that is at one job, or at none.
LEMMA StageTypes ==
  ASSUME ContadorTypeOK,
         NEW stage \in {"handle", "send", "settle"},
         NEW result \in {"none", "done", "blocked", "error", "fatal", "model", "unknown"},
         Stage(stage, result)
  PROVE  /\ contadorPass' \in [stage : {"idle", "next", "handle", "send", "settle"},
                               todo : SUBSET Messages, at : SUBSET Messages,
                               answered : SUBSET Messages,
                               result : {"none", "done", "blocked", "error", "fatal",
                                         "model", "unknown"}]
         /\ contadorPass'.stage = stage /\ contadorPass'.at = contadorPass.at
  BY DEF Stage, ContadorTypeOK

\* The reply of the job at hand: what becomes of the fence and of the count.
LEMMA ReplyKeepsCount ==
  ASSUME ContadorIInv, NEW m \in Messages, contadorPass.at = {m},
         contadorPass.stage \in {"handle", "send"},
         NEW reply \in {"none", "sending", "sent", "unknown"},
         contadorJob' = [contadorJob EXCEPT ![m].reply = reply],
         replies' \in [Messages -> Nat],
         \A n \in Messages \ {m} : replies'[n] = replies[n],
         replies'[m] = IF reply = "none" THEN 0 ELSE 1,
         contadorOn' = contadorOn,
         NEW stage \in {"send", "settle"},
         NEW result \in {"none", "done", "blocked", "error", "unknown"},
         Stage(stage, result), stage = "send" => reply # "none"
  PROVE  ContadorIInv'
<1> DEFINE row == [contadorJob[m] EXCEPT !.reply = reply]
<1>1. ContadorTypeOK /\ JobCounted(m) /\ InHand(m) /\ contadorJob[m] \in ContadorJob
  BY DEF ContadorIInv, ContadorTypeOK
<1>2. /\ row \in ContadorJob /\ row.reply = reply
      /\ row.status = "processing" /\ row.attempts > 0
  BY <1>1 DEF ContadorJob, InHand
<1>3. contadorJob' = [contadorJob EXCEPT ![m] = row]
  BY <1>1 DEF ContadorTypeOK
<1>4. /\ contadorJob' \in [Messages -> ContadorJob] /\ contadorJob'[m] = row
      /\ \A n \in Messages \ {m} : contadorJob'[n] = contadorJob[n]
  BY <1>1, <1>2, <1>3, WrittenJob
<1> HIDE DEF row
<1>5. ContadorTypeOK' /\ contadorPass'.stage = stage /\ contadorPass'.at = {m}
  BY <1>1, <1>4, StageTypes DEF ContadorTypeOK
<1>6. ASSUME NEW n \in Messages PROVE JobCounted(n)'
  <2>1. CASE n = m   BY <1>2, <1>4, <2>1 DEF JobCounted
  <2>2. CASE n # m   BY <1>4, <2>2 DEF JobCounted, ContadorIInv
  <2> QED  BY <2>1, <2>2
<1>7. InHand(m)'
  BY <1>2, <1>4, <1>5 DEF InHand
<1> QED  BY <1>5, <1>6, <1>7 DEF ContadorIInv

\* A row that keeps its fence and is not the one the pass is at.
LEMMA RowKeepsCount ==
  ASSUME ContadorIInv, NEW m \in Messages, NEW row \in ContadorJob,
         contadorJob' = [contadorJob EXCEPT ![m] = row],
         row.reply = contadorJob[m].reply, row.status # "none",
         UNCHANGED replies, ContadorTypeOK',
         m \in contadorPass'.at => InHand(m)',
         \A n \in contadorPass'.at \ {m} :
           n \in contadorPass.at /\ contadorPass'.stage = contadorPass.stage
  PROVE  ContadorIInv'
<1>1. ContadorTypeOK /\ JobCounted(m)
  BY DEF ContadorIInv
<1>2. /\ contadorJob'[m] = row
      /\ \A n \in Messages \ {m} : contadorJob'[n] = contadorJob[n]
  BY <1>1, WrittenJob
<1>3. \A n \in Messages : JobCounted(n)'
  BY <1>1, <1>2 DEF JobCounted, ContadorIInv
<1>4. ASSUME NEW n \in contadorPass'.at, n # m PROVE InHand(n)'
  <2>1. n \in Messages /\ InHand(n)
    BY <1>1, <1>4 DEF ContadorIInv, ContadorTypeOK
  <2> QED  BY <1>2, <1>4, <2>1 DEF InHand
<1> QED  BY <1>3, <1>4 DEF ContadorIInv

-----------------------------------------------------------------------------
(***************************************************************************)
(* The invariant, action by action                                         *)
(***************************************************************************)
LEMMA QueueKeeps ==
  ASSUME ContadorIInv, NEW m \in Messages, NEW kind \in {"image", "other"},
         Enqueue(m, kind) \/ Defer(m, kind)
  PROVE  ContadorIInv'
<1>0. /\ ContadorTypeOK /\ JobCounted(m) /\ contadorJob[m] \in ContadorJob
      /\ UNCHANGED <<contadorOn, contadorPass, replies>>
  BY DEF ContadorIInv, ContadorTypeOK, Enqueue, Defer
<1>1. CASE contadorJob' = contadorJob
  BY <1>0, <1>1 DEF ContadorIInv, ContadorTypeOK, JobCounted, InHand
<1>2. CASE contadorJob' # contadorJob
  <2>1. PICK row \in ContadorJob :
          /\ contadorJob' = [contadorJob EXCEPT ![m] = row]
          /\ row.reply = contadorJob[m].reply /\ row.status # "none"
          /\ contadorJob[m].status \in {"none", "blocked"}
    <3>1. CASE contadorJob[m].status = "none"
      <4>1. PICK extracted \in BOOLEAN :
              contadorJob' = [contadorJob EXCEPT ![m] = NewJob(kind, extracted)]
        BY <3>1 DEF Enqueue, Defer, Enqueued, Deferred
      <4> QED  BY <1>0, <3>1, <4>1, NewJobRow DEF JobCounted
    <3>2. CASE contadorJob[m].status # "none"
      <4> DEFINE row == [contadorJob[m] EXCEPT !.status = "pending", !.attempts = 0,
                                               !.due = TRUE, !.extracted = TRUE]
      <4>1. contadorJob' = [contadorJob EXCEPT ![m] = row]
            /\ contadorJob[m].status = "blocked"
        BY <1>2, <3>2 DEF Enqueue, Defer, Enqueued, Deferred
      <4>2. /\ row \in ContadorJob /\ row.reply = contadorJob[m].reply
            /\ row.status # "none"
        BY <1>0 DEF ContadorJob, JobStatuses, Waiting
      <4> HIDE DEF row
      <4> QED  BY <4>1, <4>2
    <3> QED  BY <3>1, <3>2
  <2>2. ContadorTypeOK'
    BY <1>0, <2>1, WrittenJob DEF ContadorTypeOK
  <2>3. m \in contadorPass'.at => InHand(m)'
    BY <1>0, <2>1 DEF ContadorIInv, InHand
  <2> QED  BY <1>0, <2>1, <2>2, <2>3, RowKeepsCount
<1> QED  BY <1>1, <1>2

\* Steps of the pass that write no row.
LEMMA PassKeeps ==
  ASSUME ContadorIInv,
         \/ BeginContadorPass \/ EndContadorPass
         \/ \E m \in Messages : HandleEnds(m) \/ FenceHeld(m) \/ ReplyUnrecorded(m)
  PROVE  ContadorIInv'
<1>0. /\ ContadorTypeOK /\ UNCHANGED <<contadorJob, contadorOn, replies>>
  BY DEF ContadorIInv, BeginContadorPass, EndContadorPass, HandleEnds, FenceHeld,
         ReplyUnrecorded
<1>1. \A m \in Messages : JobCounted(m)'
  BY <1>0 DEF ContadorIInv, JobCounted
<1>2. CASE BeginContadorPass \/ EndContadorPass
  <2>1. /\ contadorPass' \in [stage : {"idle", "next", "handle", "send", "settle"},
                              todo : SUBSET Messages, at : SUBSET Messages,
                              answered : SUBSET Messages,
                              result : {"none", "done", "blocked", "error", "fatal",
                                        "model", "unknown"}]
        /\ contadorPass'.at = {}
    <3>1. CASE EndContadorPass
      BY <3>1 DEF EndContadorPass, NoContadorPass
    <3>2. CASE BeginContadorPass
      <4> DEFINE due == {m \in Messages : contadorJob[m].status \in Waiting
                                          /\ contadorJob[m].due}
                 answered == {m \in due : contadorJob[m].reply = "sent"}
      <4>1. due \subseteq Messages /\ answered \subseteq Messages
        OBVIOUS
      <4>2. contadorPass' = [NoContadorPass EXCEPT !.stage = "next", !.todo = due,
                                                   !.answered = answered]
        BY <3>2 DEF BeginContadorPass
      <4> HIDE DEF due, answered
      <4> QED  BY <4>1, <4>2 DEF NoContadorPass
    <3> QED  BY <1>2, <3>1, <3>2
  <2> QED  BY <1>0, <1>1, <2>1 DEF ContadorIInv, ContadorTypeOK
<1>3. ASSUME NEW m \in Messages, HandleEnds(m) \/ FenceHeld(m) \/ ReplyUnrecorded(m)
      PROVE  ContadorIInv'
  <2>1. /\ contadorPass.at = {m} /\ contadorPass.stage \in {"handle", "send"}
    BY <1>3 DEF HandleEnds, FenceHeld, ReplyUnrecorded, Handled, Sending, AtJob
  <2>2. PICK result \in {"done", "blocked", "error", "fatal", "model", "unknown"} :
          Stage("settle", result)
    BY <1>3 DEF HandleEnds, FenceHeld, ReplyUnrecorded
  <2>3. ContadorTypeOK' /\ contadorPass'.stage = "settle" /\ contadorPass'.at = {m}
    BY <1>0, <2>1, <2>2, StageTypes DEF ContadorTypeOK
  <2>4. InHand(m)'
    BY <1>0, <2>1, <2>3 DEF ContadorIInv, InHand
  <2> QED  BY <1>1, <2>3, <2>4 DEF ContadorIInv
<1> QED  BY <1>2, <1>3

LEMMA ClaimJobKeeps ==
  ASSUME ContadorIInv, NEW m \in Messages, ClaimJob(m)
  PROVE  ContadorIInv'
<1> DEFINE row == [contadorJob[m] EXCEPT !.status = "processing", !.attempts = @ + 1]
<1>0. /\ ContadorTypeOK /\ contadorJob[m] \in ContadorJob
      /\ contadorJob' = [contadorJob EXCEPT ![m].status = "processing",
                                            ![m].attempts = @ + 1]
      /\ UNCHANGED <<contadorOn, replies>>
  BY DEF ContadorIInv, ContadorTypeOK, ClaimJob
<1>1. contadorJob' = [contadorJob EXCEPT ![m] = row]
  BY <1>0 DEF ContadorTypeOK
<1>2. /\ row \in ContadorJob /\ row.reply = contadorJob[m].reply
      /\ row.status = "processing" /\ row.attempts > 0
  <2>1. contadorJob[m].attempts + 1 \in Nat /\ contadorJob[m].attempts + 1 > 0
    BY <1>0 DEF ContadorJob
  <2> QED  BY <1>0, <2>1 DEF ContadorJob, JobStatuses
<1> HIDE DEF row
<1>3. /\ contadorJob' \in [Messages -> ContadorJob] /\ contadorJob'[m] = row
  BY <1>0, <1>1, <1>2, WrittenJob
<1>4. /\ contadorPass' \in [stage : {"idle", "next", "handle", "send", "settle"},
                            todo : SUBSET Messages, at : SUBSET Messages,
                            answered : SUBSET Messages,
                            result : {"none", "done", "blocked", "error", "fatal",
                                      "model", "unknown"}]
      /\ contadorPass'.at = {m} /\ contadorPass'.stage \in {"handle", "settle"}
  BY <1>0 DEF ClaimJob, ContadorTypeOK
<1>5. ContadorTypeOK'
  BY <1>0, <1>3, <1>4 DEF ContadorTypeOK
<1>6. InHand(m)'
  BY <1>2, <1>3, <1>4 DEF InHand
<1> QED  BY <1>0, <1>1, <1>2, <1>4, <1>5, <1>6, RowKeepsCount

LEMMA ReplyStepKeeps ==
  ASSUME ContadorIInv, NEW m \in Messages,
         Fence(m) \/ ReplyTaken(m) \/ ReplyRefused(m) \/ ReplyUnclear(m)
  PROVE  ContadorIInv'
<1>0. /\ ContadorTypeOK /\ JobCounted(m) /\ replies \in [Messages -> Nat]
      /\ contadorPass.at = {m} /\ contadorPass.stage \in {"handle", "send"}
      /\ contadorOn' = contadorOn
      /\ contadorPass.stage = "send" => contadorJob[m].reply # "none"
  BY DEF ContadorIInv, ContadorTypeOK, InHand, Fence, ReplyTaken, ReplyRefused,
         ReplyUnclear, Handled, Sending, AtJob
<1>1. CASE Fence(m)
  <2>1. /\ contadorJob' = [contadorJob EXCEPT ![m].reply = "sending"]
        /\ replies' = [replies EXCEPT ![m] = @ + 1] /\ replies[m] = 0
        /\ Stage("send", "none")
    BY <1>0, <1>1 DEF Fence, JobCounted
  <2>2. /\ replies' \in [Messages -> Nat] /\ replies'[m] = 1
        /\ \A n \in Messages \ {m} : replies'[n] = replies[n]
    BY <1>0, <2>1
  <2> QED  BY <1>0, <2>1, <2>2, ReplyKeepsCount
<1>2. CASE ReplyTaken(m)
  <2>1. PICK result \in {"done", "blocked", "error"} : Stage("settle", result)
    BY <1>2 DEF ReplyTaken
  <2>2. /\ contadorJob' = [contadorJob EXCEPT ![m].reply = "sent"]
        /\ replies' = replies /\ replies[m] = 1
    BY <1>0, <1>2 DEF ReplyTaken, JobCounted, Sending, AtJob
  <2> QED  BY <1>0, <2>1, <2>2, ReplyKeepsCount
<1>3. CASE ReplyRefused(m)
  <2>1. /\ contadorJob' = [contadorJob EXCEPT ![m].reply = "none"]
        /\ replies' = [replies EXCEPT ![m] = @ - 1] /\ replies[m] = 1
        /\ Stage("settle", "error")
    BY <1>0, <1>3 DEF ReplyRefused, JobCounted, Sending, AtJob
  <2>2. /\ replies' \in [Messages -> Nat] /\ replies'[m] = 0
        /\ \A n \in Messages \ {m} : replies'[n] = replies[n]
    BY <1>0, <2>1
  <2> QED  BY <1>0, <2>1, <2>2, ReplyKeepsCount
<1>4. CASE ReplyUnclear(m)
  <2>1. /\ contadorJob' = [contadorJob EXCEPT ![m].reply = "unknown"]
        /\ replies' = replies /\ replies[m] = 1 /\ Stage("settle", "unknown")
    BY <1>0, <1>4 DEF ReplyUnclear, JobCounted, Sending, AtJob
  <2> QED  BY <1>0, <2>1, ReplyKeepsCount
<1> QED  BY <1>1, <1>2, <1>3, <1>4

LEMMA SettleKeeps ==
  ASSUME ContadorIInv, NEW m \in Messages, SettleJob(m)
  PROVE  ContadorIInv'
<1> DEFINE row == SettledJob(contadorJob[m], contadorPass.result)
<1>0. /\ ContadorTypeOK /\ contadorJob[m] \in ContadorJob /\ contadorJob[m].attempts > 0
      /\ contadorJob' = [contadorJob EXCEPT ![m] = row]
      /\ UNCHANGED <<contadorOn, replies>>
  BY DEF ContadorIInv, ContadorTypeOK, InHand, SettleJob, AtJob
<1>1. row \in ContadorJob /\ row.reply = contadorJob[m].reply /\ row.status # "none"
  BY <1>0, SettledRow
<1> HIDE DEF row
<1>2. /\ contadorPass' \in [stage : {"idle", "next", "handle", "send", "settle"},
                            todo : SUBSET Messages, at : SUBSET Messages,
                            answered : SUBSET Messages,
                            result : {"none", "done", "blocked", "error", "fatal",
                                      "model", "unknown"}]
      /\ contadorPass'.at = {}
  BY <1>0 DEF SettleJob, NoContadorPass, ContadorTypeOK
<1>3. ContadorTypeOK'
  BY <1>0, <1>1, <1>2, WrittenJob DEF ContadorTypeOK
<1> QED  BY <1>0, <1>1, <1>2, <1>3, RowKeepsCount

LEMMA FallsDueKeeps ==
  ASSUME ContadorIInv, NEW m \in Messages, JobFallsDue(m)
  PROVE  ContadorIInv'
<1> DEFINE row == [contadorJob[m] EXCEPT !.due = TRUE]
<1>0. /\ ContadorTypeOK /\ contadorJob[m] \in ContadorJob
      /\ contadorJob' = [contadorJob EXCEPT ![m].due = TRUE]
      /\ contadorJob[m].status \in Waiting
      /\ UNCHANGED <<contadorOn, contadorPass, replies>>
  BY DEF ContadorIInv, ContadorTypeOK, JobFallsDue
<1>1. /\ row \in ContadorJob /\ row.reply = contadorJob[m].reply
      /\ row.status # "none" /\ row.status = contadorJob[m].status
      /\ row.attempts = contadorJob[m].attempts
  BY <1>0 DEF ContadorJob, Waiting
<1>2. contadorJob' = [contadorJob EXCEPT ![m] = row]
  BY <1>0 DEF ContadorTypeOK
<1> HIDE DEF row
<1>3. contadorJob' \in [Messages -> ContadorJob] /\ contadorJob'[m] = row
  BY <1>0, <1>1, <1>2, WrittenJob
<1>4. ContadorTypeOK'
  BY <1>0, <1>3 DEF ContadorTypeOK
<1>5. m \in contadorPass'.at => InHand(m)'
  BY <1>0, <1>1, <1>3 DEF ContadorIInv, InHand
<1> QED  BY <1>0, <1>1, <1>2, <1>4, <1>5, RowKeepsCount

LEMMA RestartKeepsCount ==
  ASSUME ContadorIInv, ContadorRestart
  PROVE  ContadorIInv'
<1>1. /\ contadorJob' \in [Messages -> ContadorJob]
      /\ \A m \in Messages : /\ contadorJob[m] \in ContadorJob
                             /\ contadorJob'[m] \in {contadorJob[m], RecoveredJob(contadorJob[m])}
  BY RecoveredJobRow DEF ContadorRestart, ContadorIInv, ContadorTypeOK
<1>2. ContadorTypeOK' /\ contadorPass'.at = {} /\ replies' = replies
  BY <1>1 DEF ContadorRestart, NoContadorPass, ContadorIInv, ContadorTypeOK
<1>3. ASSUME NEW m \in Messages PROVE JobCounted(m)'
  <2>1. /\ (contadorJob'[m].reply = "none") <=> (contadorJob[m].reply = "none")
        /\ contadorJob'[m].status = "none" => contadorJob[m].status = "none"
    BY <1>1, RecoveredJobRow
  <2> QED  BY <1>2, <2>1 DEF ContadorIInv, JobCounted
<1> QED  BY <1>2, <1>3 DEF ContadorIInv

LEMMA ContadorInvariant == ContadorSpec => []ContadorIInv
<1>1. ContadorInit => ContadorIInv
  <2> SUFFICES ASSUME ContadorInit PROVE ContadorIInv
    OBVIOUS
  <2>1. NoContadorJob \in ContadorJob /\ NoContadorJob.reply = "none"
    BY DEF NoContadorJob, ContadorJob, JobStatuses
  <2>2. ContadorTypeOK
    BY <2>1 DEF ContadorInit, ContadorTypeOK, NoContadorPass
  <2> QED  BY <2>1, <2>2 DEF ContadorInit, ContadorIInv, JobCounted, NoContadorPass
<1>2. ContadorIInv /\ [ContadorNext]_contadorVars => ContadorIInv'
  <2> SUFFICES ASSUME ContadorIInv, [ContadorNext]_contadorVars PROVE ContadorIInv'
    OBVIOUS
  <2>1. CASE UNCHANGED contadorVars
    BY <2>1 DEF contadorVars, ContadorIInv, ContadorTypeOK, JobCounted, InHand
  <2> QED
    BY <2>1, QueueKeeps, PassKeeps, ClaimJobKeeps, ReplyStepKeeps, SettleKeeps,
       FallsDueKeeps, RestartKeepsCount
       DEF ContadorNext, ContadorStep, ContadorWork
<1> QED  BY <1>1, <1>2, PTL DEF ContadorSpec

\* The queue and its pass keep their types.
THEOREM ContadorTypeCorrect == ContadorSpec => []ContadorTypeOK
<1>1. ContadorIInv => ContadorTypeOK
  BY DEF ContadorIInv
<1> QED  BY <1>1, ContadorInvariant, PTL

\* No message is answered twice, for any messages, attempts, failures of the
\* agent, of Evolution and of the database, and restarts.
THEOREM AnsweredOnceHolds == ContadorSpec => []AnsweredOnce
<1>1. ContadorIInv => AnsweredOnce
  BY DEF ContadorIInv, JobCounted, AnsweredOnce
<1> QED  BY <1>1, ContadorInvariant, PTL
-----------------------------------------------------------------------------
(***************************************************************************)
(* The partner assistant                                                   *)
(***************************************************************************)
Stages == {"idle", "asking", "sending", "sent", "proposing"}

\* An attempt is at work on a job that was claimed; one that got its answer through
\* is counted among the answers, as is that of a job that says so.
AtWork(m) ==
  /\ \A k \in Tries : attempt[m][k] # "idle" => partnerJob[m].status # "none"
  /\ \A k \in Tries : attempt[m][k] = "sent" => answers[m] # {}
  /\ partnerJob[m].status = "sent" => answers[m] # {}

PartnerIInv == PartnerTypeOK /\ \A m \in Messages : AtWork(m)

\* A row that is there stays there.
PartnerRowsStay ==
  \A m \in Messages : partnerJob[m].status = "none" <=> partnerJob'[m].status = "none"

LEMMA AttemptMoved ==
  ASSUME PartnerTypeOK, NEW m \in Messages, NEW k \in Tries, NEW stage \in Stages,
         Move(m, k, stage)
  PROVE  /\ attempt' \in [Messages -> [Tries -> Stages]]
         /\ attempt'[m][k] = stage
         /\ \A n \in Messages, j \in Tries :
              n # m \/ j # k => attempt'[n][j] = attempt[n][j]
  BY DEF PartnerTypeOK, Move, Stages

\* A step that writes the row of m as row, and moves no attempt or attempt k of m.
LEMMA PartnerRowWritten ==
  ASSUME PartnerIInv, NEW m \in Messages, NEW row \in PartnerJob, row.status # "none",
         partnerJob' = [partnerJob EXCEPT ![m] = row],
         attempt' \in [Messages -> [Tries -> Stages]],
         \A n \in Messages \ {m} : attempt'[n] = attempt[n],
         answers' \in [Messages -> SUBSET Tries],
         \A n \in Messages : answers[n] # {} => answers'[n] # {},
         \A k \in Tries : attempt'[m][k] = "sent" => answers'[m] # {},
         row.status = "sent" => answers'[m] # {},
         human' \in BOOLEAN
  PROVE  /\ PartnerIInv'
         /\ partnerJob[m].status # "none" => PartnerRowsStay
<1>1. /\ partnerJob' \in [Messages -> PartnerJob] /\ partnerJob'[m] = row
      /\ \A n \in Messages \ {m} : partnerJob'[n] = partnerJob[n]
  BY DEF PartnerIInv, PartnerTypeOK
<1>2. \A n \in Messages : AtWork(n)'
  BY <1>1 DEF AtWork, PartnerIInv
<1> QED  BY <1>1, <1>2, SMTT(30) DEF PartnerIInv, PartnerTypeOK, PartnerRowsStay, Stages

LEMMA SettledPartnerRow ==
  ASSUME PartnerTypeOK, NEW m \in Messages, NEW status \in {"retry"} \cup PartnerEnds,
         Settle(m, status)
  PROVE  \E row \in PartnerJob : /\ row.status = status
                                 /\ partnerJob' = [partnerJob EXCEPT ![m] = row]
<1> DEFINE row == [partnerJob[m] EXCEPT !.status = status, !.due = FALSE, !.aged = FALSE]
<1>1. row \in PartnerJob /\ row.status = status
  BY DEF PartnerTypeOK, PartnerJob, PartnerEnds
<1>2. partnerJob' = [partnerJob EXCEPT ![m] = row]
  BY DEF Settle, PartnerTypeOK
<1> HIDE DEF row
<1> QED  BY <1>1, <1>2

LEMMA AttemptKeeps ==
  ASSUME PartnerIInv, NEW m \in Messages, NEW k \in Tries, AttemptStep(m, k)
  PROVE  PartnerIInv' /\ PartnerRowsStay
<1>0. /\ PartnerTypeOK /\ AtWork(m) /\ partnerJob[m] \in PartnerJob
      /\ partnerJob = [partnerJob EXCEPT ![m] = partnerJob[m]]
      /\ attempt[m][k] # "idle" /\ partnerJob[m].status # "none" /\ human' = human
  BY DEF PartnerIInv, PartnerTypeOK, AtWork, AttemptStep, AnswerSuppressed, Answered,
         AttemptFails, AnswerTaken, AnswerSettled, Proposed, Asked
<1>1. PICK stage \in Stages : Move(m, k, stage) /\ (stage = "sent" => AnswerTaken(m, k))
  BY DEF AttemptStep, AnswerSuppressed, Answered, AttemptFails, AnswerTaken, AnswerSettled,
         Proposed, Stages
<1>2. /\ attempt' \in [Messages -> [Tries -> Stages]]
      /\ attempt'[m][k] = stage
      /\ \A n \in Messages, j \in Tries : n # m \/ j # k => attempt'[n][j] = attempt[n][j]
  BY <1>0, <1>1, AttemptMoved
<1>3. /\ answers' = answers \/ answers' = [answers EXCEPT ![m] = @ \cup {k}]
      /\ AnswerTaken(m, k) => answers' = [answers EXCEPT ![m] = @ \cup {k}]
  BY DEF AttemptStep, AnswerSuppressed, Answered, AttemptFails, AnswerTaken, AnswerSettled,
         Proposed, Asked
<1>4. /\ answers' \in [Messages -> SUBSET Tries]
      /\ \A n \in Messages : answers[n] # {} => answers'[n] # {}
      /\ AnswerTaken(m, k) => answers'[m] # {}
  <2>1. answers \in [Messages -> SUBSET Tries] /\ answers[m] \cup {k} \in SUBSET Tries
    BY <1>0 DEF PartnerTypeOK
  <2>2. CASE answers' = answers /\ ~AnswerTaken(m, k)
    BY <2>1, <2>2
  <2>3. CASE answers' = [answers EXCEPT ![m] = @ \cup {k}]
    <3>1. answers'[m] = answers[m] \cup {k} /\ k \in answers'[m]
      BY <2>1, <2>3
    <3> QED  BY <2>1, <2>3, <3>1
  <2> QED  BY <1>3, <2>2, <2>3
<1>5. \A j \in Tries : attempt'[m][j] = "sent" => answers'[m] # {}
  BY <1>0, <1>1, <1>2, <1>4 DEF AtWork
<1>6. \A n \in Messages \ {m} : attempt'[n] = attempt[n]
  BY <1>0, <1>1 DEF Move, PartnerTypeOK
<1>7. PICK row \in PartnerJob :
        /\ partnerJob' = [partnerJob EXCEPT ![m] = row] /\ row.status # "none"
        /\ row.status = "sent" => answers'[m] # {}
  <2>1. CASE partnerJob' = partnerJob
    BY <1>0, <1>4, <2>1 DEF AtWork
  <2>2. CASE partnerJob' # partnerJob
    <3>1. PICK status \in {"retry"} \cup PartnerEnds :
            Settle(m, status) /\ (status = "sent" => attempt[m][k] = "sent")
      BY <2>2 DEF AttemptStep, AnswerSuppressed, Answered, AttemptFails, AnswerTaken,
                  AnswerSettled, Proposed, PartnerEnds
    <3>2. PICK row \in PartnerJob : /\ row.status = status
                                    /\ partnerJob' = [partnerJob EXCEPT ![m] = row]
      BY <1>0, <3>1, SettledPartnerRow
    <3> QED  BY <1>0, <1>4, <3>1, <3>2 DEF AtWork, PartnerEnds
  <2> QED  BY <2>1, <2>2
<1> QED
  BY <1>0, <1>2, <1>4, <1>5, <1>6, <1>7, PartnerRowWritten DEF PartnerTypeOK

LEMMA AcquireKeeps ==
  ASSUME PartnerIInv, NEW m \in Messages, AcquirePartner(m)
  PROVE  PartnerIInv' /\ PartnerRowsStay
<1> DEFINE k == partnerJob[m].tries + 1
           row == [partnerJob[m] EXCEPT !.tries = k, !.due = FALSE, !.aged = FALSE,
                     !.status = IF human THEN "failed" ELSE "processing"]
<1>0. /\ PartnerTypeOK /\ AtWork(m) /\ partnerJob[m] \in PartnerJob /\ k \in Tries
      /\ partnerJob[m].status # "none" /\ answers' = answers /\ human' = human
  BY DEF PartnerIInv, PartnerTypeOK, AcquirePartner, Acquirable
<1>1. partnerJob' = [partnerJob EXCEPT ![m] = row]
  BY <1>0 DEF AcquirePartner, PartnerTypeOK
<1>2. row \in PartnerJob /\ row.status \in {"failed", "processing"}
  <2>1. k \in 0 .. MaxTries
    BY <1>0, PartnerAssumption DEF Tries
  <2> HIDE DEF k
  <2> QED  BY <1>0, <2>1 DEF PartnerJob, PartnerEnds
<1>3. attempt' = attempt \/ Move(m, k, "asking")
  BY DEF AcquirePartner
<1> HIDE DEF row, k
<1>4. /\ attempt' \in [Messages -> [Tries -> Stages]]
      /\ \A n \in Messages \ {m} : attempt'[n] = attempt[n]
      /\ \A j \in Tries : attempt'[m][j] = "sent" => attempt[m][j] = "sent"
  <2>1. CASE attempt' = attempt
    BY <1>0, <2>1 DEF PartnerTypeOK, Stages
  <2>2. CASE Move(m, k, "asking")
    BY <1>0, <2>2, AttemptMoved DEF PartnerTypeOK, Stages, Move
  <2> QED  BY <1>3, <2>1, <2>2
<1>5. answers \in [Messages -> SUBSET Tries] /\ human \in BOOLEAN
  BY <1>0 DEF PartnerTypeOK
<1> QED  BY <1>0, <1>1, <1>2, <1>4, <1>5, PartnerRowWritten DEF AtWork

LEMMA ClaimPartnerKeeps ==
  ASSUME PartnerIInv, NEW m \in Messages, NEW auto \in BOOLEAN, ClaimPartner(m, auto)
  PROVE  PartnerIInv'
<1> DEFINE row == [NoPartnerJob EXCEPT !.status = "claimed", !.auto = auto]
<1>0. /\ PartnerTypeOK /\ AtWork(m) /\ UNCHANGED <<attempt, answers, human>>
      /\ partnerJob' = IF partnerJob[m].status # "none" THEN partnerJob
                       ELSE [partnerJob EXCEPT ![m] = row]
  BY DEF PartnerIInv, ClaimPartner
<1>1. row \in PartnerJob /\ row.status = "claimed"
  <2>1. 0 \in 0 .. MaxTries
    BY PartnerAssumption
  <2> QED  BY <2>1 DEF NoPartnerJob, PartnerJob
<1> HIDE DEF row
<1>2. CASE partnerJob[m].status # "none"
  BY <1>0, <1>2 DEF PartnerIInv, PartnerTypeOK, AtWork
<1>3. CASE partnerJob[m].status = "none"
  BY <1>0, <1>1, <1>3, PartnerRowWritten DEF PartnerTypeOK, Stages, AtWork
<1> QED  BY <1>2, <1>3

LEMMA PartnerClockKeeps ==
  ASSUME PartnerIInv, NEW m \in Messages, PartnerClock(m)
  PROVE  PartnerIInv' /\ PartnerRowsStay
<1>0. /\ PartnerTypeOK /\ AtWork(m) /\ partnerJob[m] \in PartnerJob
      /\ UNCHANGED <<attempt, answers, human>>
      /\ partnerJob[m].status \in {"retry", "processing"}
  BY DEF PartnerIInv, PartnerTypeOK, PartnerClock
<1>1. PICK row \in PartnerJob : /\ partnerJob' = [partnerJob EXCEPT ![m] = row]
                                /\ row.status = partnerJob[m].status
  <2> DEFINE due == [partnerJob[m] EXCEPT !.due = TRUE]
             aged == [partnerJob[m] EXCEPT !.aged = TRUE]
  <2>1. /\ due \in PartnerJob /\ due.status = partnerJob[m].status
        /\ aged \in PartnerJob /\ aged.status = partnerJob[m].status
    BY <1>0 DEF PartnerJob
  <2>2. \/ partnerJob' = [partnerJob EXCEPT ![m] = due]
        \/ partnerJob' = [partnerJob EXCEPT ![m] = aged]
    BY <1>0 DEF PartnerClock, PartnerTypeOK
  <2> HIDE DEF due, aged
  <2> QED  BY <2>1, <2>2
<1> QED  BY <1>0, <1>1, PartnerRowWritten DEF PartnerTypeOK, Stages, AtWork

LEMMA PartnerStepKeeps ==
  ASSUME PartnerIInv, PartnerStep \/ PartnerRestart \/ UNCHANGED partnerVars
  PROVE  PartnerIInv' /\ PartnerRowsStay
<1>1. CASE HandOver \/ UNCHANGED partnerVars
  BY <1>1 DEF HandOver, partnerVars, PartnerIInv, PartnerTypeOK, AtWork, PartnerRowsStay
<1>2. CASE PartnerRestart
  BY <1>2 DEF PartnerRestart, PartnerIInv, PartnerTypeOK, AtWork, PartnerRowsStay
<1> QED  BY <1>1, <1>2, AttemptKeeps, AcquireKeeps, PartnerClockKeeps
            DEF PartnerStep, PartnerWork

LEMMA PartnerInvariant == PartnerSpec => []PartnerIInv
<1>1. PartnerInit => PartnerIInv
  <2>1. NoPartnerJob \in PartnerJob /\ NoPartnerJob.status = "none"
    BY PartnerAssumption DEF NoPartnerJob, PartnerJob
  <2> QED  BY <2>1 DEF PartnerInit, PartnerIInv, PartnerTypeOK, AtWork
<1>2. PartnerIInv /\ [PartnerNext]_partnerVars => PartnerIInv'
  BY PartnerStepKeeps, ClaimPartnerKeeps DEF PartnerNext
<1> QED  BY <1>1, <1>2, PTL DEF PartnerSpec
-----------------------------------------------------------------------------
(***************************************************************************)
(* The media queue                                                         *)
(***************************************************************************)

\* A job at work is claimed; an event that is posted is one that waits.
Claimed(m) ==
  mediaRun[m] # "idle" => mediaJob[m].status = "processing" /\ mediaJob[m].attempts > 0

Queued(m) ==
  /\ event[m].status \in {"pending", "retry"} => event[m].attempts < MaxEventAttempts
  /\ m \in eventPass => event[m].status \in {"pending", "retry"}

RouterInv ==
  /\ RouterTypeOK
  /\ \A m \in Messages : Claimed(m) /\ Queued(m)

RunStages == {"idle", "config", "classify", "draft", "handoff", "complete"}

-----------------------------------------------------------------------------
\* A step of the run of m writes its row, its stage, or both.
LEMMA MediaRowWritten ==
  ASSUME RouterInv, NEW m \in Messages, NEW row \in MediaJob, NEW stage \in RunStages,
         mediaJob' = [mediaJob EXCEPT ![m] = row],
         mediaRun' = [mediaRun EXCEPT ![m] = stage],
         stage # "idle" => row.status = "processing" /\ row.attempts > 0
  PROVE  /\ mediaJob' \in [Messages -> MediaJob]
         /\ mediaRun' \in [Messages -> RunStages]
         /\ mediaJob'[m] = row /\ mediaRun'[m] = stage
         /\ \A n \in Messages \ {m} : /\ mediaJob'[n] = mediaJob[n]
                                      /\ mediaRun'[n] = mediaRun[n]
         /\ \A n \in Messages : Claimed(n)'
<1>1. /\ mediaJob \in [Messages -> MediaJob] /\ mediaRun \in [Messages -> RunStages]
      /\ \A n \in Messages : Claimed(n)
  BY DEF RouterInv, RouterTypeOK, RunStages
<1> QED  BY <1>1 DEF Claimed

LEMMA FailedMediaRow ==
  ASSUME NEW row \in MediaJob, row.attempts > 0, NEW down \in BOOLEAN
  PROVE  FailedMedia(row, down) \in MediaJob /\ FailedMedia(row, down).status # "none"
         /\ FailedMedia(row, down).defer = row.defer
<1>1. row.attempts - 1 \in Nat
  BY DEF MediaJob
<1> QED  BY <1>1 DEF FailedMedia, MediaJob, MediaOpen, MediaEnds

LEMMA RecoveredMediaRow ==
  ASSUME NEW row \in MediaJob
  PROVE  /\ RecoveredMedia(row) \in MediaJob
         /\ RecoveredMedia(row).status = "none" <=> row.status = "none"
         /\ RecoveredMedia(row).defer = row.defer
  BY DEF RecoveredMedia, MediaJob, MediaOpen, MediaEnds

LEMMA PersistedMediaRow ==
  ASSUME NEW kind \in {"image", "other"}, NEW defer \in BOOLEAN
  PROVE  [NoMediaJob EXCEPT !.status = "pending", !.due = TRUE,
                            !.kind = kind, !.defer = defer] \in MediaJob
  BY DEF NoMediaJob, MediaJob, MediaOpen

\* What a step of the media queue does to the row of its message: the row stays a
\* row, and is for the group it was for.
MediaMoves(m) ==
  /\ mediaJob[m].status # "none" /\ mediaJob'[m].status # "none"
  /\ mediaJob'[m].defer = mediaJob[m].defer
  /\ \A n \in Messages \ {m} : /\ mediaJob'[n] = mediaJob[n]
                               /\ mediaRun'[n] = mediaRun[n]

LEMMA MediaWorkTypes ==
  ASSUME RouterInv, NEW m \in Messages, MediaWork(m)
  PROVE  /\ mediaJob' \in [Messages -> MediaJob]
         /\ mediaRun' \in [Messages -> RunStages]
         /\ \A n \in Messages : Claimed(n)'
         /\ MediaMoves(m)
<1> DEFINE Wrote(row, stage) ==
      /\ row \in MediaJob /\ stage \in RunStages
      /\ mediaJob[m].status # "none" /\ row.status # "none"
      /\ row.defer = mediaJob[m].defer
      /\ mediaJob' = [mediaJob EXCEPT ![m] = row]
      /\ mediaRun' = [mediaRun EXCEPT ![m] = stage]
      /\ stage # "idle" => row.status = "processing" /\ row.attempts > 0
<1>0. /\ mediaJob \in [Messages -> MediaJob] /\ mediaRun \in [Messages -> RunStages]
      /\ Claimed(m) /\ mediaJob[m] \in MediaJob
      /\ mediaJob = [mediaJob EXCEPT ![m] = mediaJob[m]]
  BY DEF RouterInv, RouterTypeOK, RunStages
<1>1. \E row, stage : Wrote(row, stage)
  <2>1. CASE ClaimMediaJob(m)
    <3> DEFINE row == [mediaJob[m] EXCEPT !.status = "processing", !.attempts = @ + 1]
    <3>1. mediaJob' = [mediaJob EXCEPT ![m] = row]
      BY <1>0, <2>1 DEF ClaimMediaJob
    <3>2. /\ row \in MediaJob /\ row.status = "processing" /\ row.attempts > 0
          /\ row.defer = mediaJob[m].defer
      <4>1. mediaJob[m].attempts + 1 \in Nat /\ mediaJob[m].attempts + 1 > 0
        BY <1>0 DEF MediaJob
      <4> QED  BY <1>0, <4>1 DEF MediaJob
    <3>3. PICK stage \in RunStages : mediaRun' = [mediaRun EXCEPT ![m] = stage]
      BY <2>1 DEF ClaimMediaJob, Run, Handoff, RunStages
    <3>4. mediaJob[m].status # "none"
      BY <2>1 DEF ClaimMediaJob, MediaOpen
    <3> HIDE DEF row
    <3> QED  BY <3>1, <3>2, <3>3, <3>4
  <2>2. CASE \/ Eligible(m) \/ Declined(m) \/ Suggest(m) \/ AsksForDraft(m) \/ Drafted(m)
             \/ \E kind \in Kinds, known \in BOOLEAN : Recognize(m, kind, known)
    <3>1. mediaJob' = mediaJob /\ mediaRun[m] # "idle"
      BY <2>2 DEF Eligible, Declined, Suggest, AsksForDraft, Drafted, Recognize
    <3>2. PICK stage \in RunStages : mediaRun' = [mediaRun EXCEPT ![m] = stage]
      BY <2>2 DEF Eligible, Declined, Suggest, AsksForDraft, Drafted, Recognize, Run, Handoff,
           RunStages
    <3>3. Wrote(mediaJob[m], stage)
      BY <1>0, <3>1, <3>2 DEF Claimed
    <3> QED  BY <3>3
  <2>3. CASE (\E down \in BOOLEAN : ModelFails(m, down)) \/ RunFails(m)
    <3>1. PICK down \in BOOLEAN :
            /\ mediaJob' = [mediaJob EXCEPT ![m] = FailedMedia(mediaJob[m], down)]
            /\ mediaRun' = [mediaRun EXCEPT ![m] = "idle"]
            /\ mediaRun[m] # "idle"
      BY <2>3 DEF ModelFails, RunFails, Run
    <3>2. Wrote(FailedMedia(mediaJob[m], down), "idle")
      BY <1>0, <3>1, FailedMediaRow DEF Claimed, RunStages
    <3> QED  BY <3>2
  <2>4. CASE CompleteMediaJob(m)
    <3> DEFINE row == [mediaJob[m] EXCEPT !.status = "completed"]
    <3>1. mediaJob' = [mediaJob EXCEPT ![m] = row]
      BY <1>0, <2>4 DEF CompleteMediaJob
    <3>2. row \in MediaJob /\ row.status # "none" /\ row.defer = mediaJob[m].defer
      BY <1>0 DEF MediaJob, MediaEnds
    <3>3. mediaRun' = [mediaRun EXCEPT ![m] = "idle"] /\ mediaRun[m] # "idle"
      BY <2>4 DEF CompleteMediaJob, Run
    <3> HIDE DEF row
    <3>4. Wrote(row, "idle")
      BY <1>0, <3>1, <3>2, <3>3 DEF Claimed, RunStages
    <3> QED  BY <3>4
  <2> QED  BY <2>1, <2>2, <2>3, <2>4 DEF MediaWork
<1>2. PICK row, stage : Wrote(row, stage)
  BY <1>1
<1>3. row \in MediaJob /\ stage \in RunStages
  BY <1>2
<1> QED  BY <1>2, <1>3, MediaRowWritten DEF MediaMoves

LEMMA PostedRows ==
  ASSUME NEW row \in Event, row.attempts < MaxEventAttempts,
         NEW status \in {"delivered", "needs_attention", "retry"}, NEW due \in BOOLEAN
  PROVE  /\ [row EXCEPT !.status = status, !.attempts = @ + 1] \in Event
         /\ [row EXCEPT !.attempts = @ + 1, !.due = due, !.status = status] \in Event
<1>1. row.attempts + 1 \in 0 .. MaxEventAttempts
  BY RouterAssumption DEF Event
<1> QED  BY <1>1 DEF Event

LEMMA EventWorkTypes ==
  ASSUME RouterInv, EventWork
  PROVE  /\ event' \in [Messages -> Event]
         /\ eventPass' \subseteq Messages
         /\ \A m \in Messages : Queued(m)'
         /\ \A m \in Messages : event[m].status = "none" <=> event'[m].status = "none"
<1>0. /\ event \in [Messages -> Event]
      /\ eventPass \subseteq Messages
      /\ \A m \in Messages : Queued(m)
  BY DEF RouterInv, RouterTypeOK
<1>1. CASE BeginEventPass
  BY <1>0, <1>1 DEF BeginEventPass, Queued
<1>2. ASSUME NEW m \in Messages, EventTaken(m) \/ EventFails(m)
      PROVE  /\ event' \in [Messages -> Event]
             /\ eventPass' \subseteq Messages
             /\ \A n \in Messages : Queued(n)'
             /\ \A n \in Messages : event[n].status = "none" <=> event'[n].status = "none"
  <2>1. m \in eventPass /\ eventPass' = eventPass \ {m}
    BY <1>0, <1>2 DEF EventTaken, EventFails, Posted
  <2>2. /\ event[m] \in Event /\ event[m].attempts < MaxEventAttempts
        /\ event[m].status # "none"
    BY <1>0, <2>1 DEF Queued
  <2>3. PICK row \in Event :
          /\ event' = [event EXCEPT ![m] = row]
          /\ row.status \in {"delivered", "needs_attention", "retry"}
          /\ row.status = "retry" => row.attempts < MaxEventAttempts
    <3>1. CASE EventTaken(m)
      <4> DEFINE row == [event[m] EXCEPT !.status = "delivered", !.attempts = @ + 1]
      <4>1. row \in Event /\ row.status = "delivered"
        BY <2>2, PostedRows, ZenonT(30) DEF Event
      <4>2. event' = [event EXCEPT ![m] = row]
        BY <1>0, <3>1 DEF EventTaken
      <4> HIDE DEF row
      <4> QED  BY <4>1, <4>2
    <3>2. CASE EventFails(m)
      <4> DEFINE status == IF event[m].attempts + 1 >= MaxEventAttempts
                             THEN "needs_attention" ELSE "retry"
                 row == [event[m] EXCEPT !.attempts = @ + 1, !.due = FALSE,
                                         !.status = status]
      <4>1. /\ row \in Event /\ row.status = status
            /\ row.attempts = event[m].attempts + 1
        BY <2>2, PostedRows, ZenonT(30) DEF Event
      <4>2. event' = [event EXCEPT ![m] = row]
        BY <1>0, <3>2 DEF EventFails
      <4>3. status = "retry" => event[m].attempts + 1 < MaxEventAttempts
        BY <2>2, RouterAssumption DEF Event
      <4>4. status \in {"needs_attention", "retry"}
        OBVIOUS
      <4> HIDE DEF row, status
      <4> QED  BY <4>1, <4>2, <4>3, <4>4
    <3> QED  BY <1>2, <3>1, <3>2
  <2> QED  BY <1>0, <2>1, <2>2, <2>3 DEF Queued
<1> QED  BY <1>1, <1>2 DEF EventWork
\* An event is persisted once.
LEMMA PersistedEvent ==
  ASSUME RouterInv, NEW m \in Messages, PersistEvent(m), eventPass' = eventPass
  PROVE  /\ event' \in [Messages -> Event] /\ event'[m].status # "none"
         /\ event[m].status # "none" => event' = event
         /\ \A n \in Messages \ {m} : event'[n] = event[n]
         /\ \A n \in Messages : Queued(n)'
<1> DEFINE row == [NoEvent EXCEPT !.status = "pending", !.due = TRUE]
<1>1. /\ event \in [Messages -> Event] /\ \A n \in Messages : Queued(n)
  BY DEF RouterInv, RouterTypeOK
<1>2. row \in Event /\ row.status = "pending" /\ row.attempts < MaxEventAttempts
  <2>1. 0 \in 0 .. MaxEventAttempts /\ 0 < MaxEventAttempts
    BY RouterAssumption
  <2> QED  BY <2>1 DEF NoEvent, Event
<1>3. event' = IF event[m].status # "none" THEN event ELSE [event EXCEPT ![m] = row]
  BY DEF PersistEvent
<1> HIDE DEF row
<1>4. CASE event[m].status # "none"
  BY <1>1, <1>3, <1>4 DEF Queued
<1>5. CASE event[m].status = "none"
  BY <1>1, <1>2, <1>3, <1>5 DEF Queued
<1> QED  BY <1>4, <1>5

\* What a step of the media queue does to the events: it may make the one of m.
LEMMA MediaWorkEvents ==
  ASSUME RouterInv, NEW m \in Messages, MediaWork(m)
  PROVE  /\ analysis' \in [Messages -> Kinds \cup {"none", "error"}]
         /\ suggested' \subseteq Messages
         /\ eventPass' = eventPass
         /\ event' \in [Messages -> Event]
         /\ event[m].status # "none" => event' = event
         /\ \A n \in Messages \ {m} : analysis'[n] = analysis[n] /\ event'[n] = event[n]
         /\ \A n \in Messages : Queued(n)'
<1>0. /\ RouterTypeOK /\ \A n \in Messages : Queued(n)
  BY DEF RouterInv
<1>1. CASE event' = event /\ eventPass' = eventPass
           /\ \/ analysis' = analysis /\ suggested' \subseteq suggested \cup {m}
              \/ /\ suggested' = suggested
                 /\ \E a \in Kinds \cup {"error"} : analysis' = [analysis EXCEPT ![m] = a]
  BY <1>0, <1>1 DEF RouterTypeOK, Queued
<1>2. ASSUME NEW kind \in Kinds, NEW known \in BOOLEAN, Recognize(m, kind, known)
      PROVE  /\ eventPass' = eventPass /\ suggested' = suggested
             /\ analysis' = [analysis EXCEPT ![m] = kind]
             /\ PersistEvent(m) \/ event' = event
  BY <1>2 DEF Recognize, Outlet
<1>3. ASSUME NEW kind \in Kinds, NEW known \in BOOLEAN, Recognize(m, kind, known),
             PersistEvent(m)
      PROVE  /\ analysis' \in [Messages -> Kinds \cup {"none", "error"}]
             /\ suggested' \subseteq Messages
             /\ eventPass' = eventPass
             /\ event' \in [Messages -> Event]
             /\ event[m].status # "none" => event' = event
             /\ \A n \in Messages \ {m} : analysis'[n] = analysis[n] /\ event'[n] = event[n]
             /\ \A n \in Messages : Queued(n)'
  <2>1. /\ eventPass' = eventPass /\ suggested' = suggested
        /\ analysis' = [analysis EXCEPT ![m] = kind]
    BY <1>2, <1>3
  <2> QED  BY <1>0, <1>3, <2>1, PersistedEvent DEF RouterTypeOK
<1>4. CASE ~\E kind \in Kinds, known \in BOOLEAN : Recognize(m, kind, known)
  <2>1. /\ event' = event /\ eventPass' = eventPass
        /\ \/ analysis' = analysis /\ suggested' \subseteq suggested \cup {m}
           \/ /\ suggested' = suggested
              /\ \E a \in Kinds \cup {"error"} : analysis' = [analysis EXCEPT ![m] = a]
    BY <1>4 DEF MediaWork, ClaimMediaJob, Eligible, Declined, Suggest, AsksForDraft, Drafted,
         ModelFails, RunFails, CompleteMediaJob, Outbox
  <2> QED  BY <1>1, <2>1
<1> QED  BY <1>1, <1>2, <1>3, <1>4

LEMMA RouterClockTypes ==
  ASSUME RouterInv, NEW m \in Messages, RouterClock(m)
  PROVE  /\ RouterInv'
         /\ UNCHANGED <<analysis, suggested, mediaRun, eventPass>>
         /\ \A n \in Messages : /\ mediaJob[n].status = "none" <=> mediaJob'[n].status = "none"
                                /\ mediaJob'[n].defer = mediaJob[n].defer
                                /\ event[n].status = "none" <=> event'[n].status = "none"
<1>0. /\ RouterTypeOK /\ mediaJob[m] \in MediaJob /\ event[m] \in Event
      /\ \A n \in Messages : Claimed(n) /\ Queued(n)
  BY DEF RouterInv, RouterTypeOK
<1>1. CASE MediaFallsDue(m)
  <2> DEFINE row == [mediaJob[m] EXCEPT !.due = TRUE]
  <2>1. /\ row \in MediaJob /\ row.status = mediaJob[m].status
        /\ row.attempts = mediaJob[m].attempts /\ row.defer = mediaJob[m].defer
    BY <1>0 DEF MediaJob
  <2>2. mediaJob' = [mediaJob EXCEPT ![m] = row]
    BY <1>0, <1>1 DEF MediaFallsDue, RouterTypeOK
  <2>3. UNCHANGED <<analysis, suggested, event, mediaRun, eventPass>>
    BY <1>1 DEF MediaFallsDue, Outbox
  <2> HIDE DEF row
  <2> QED  BY <1>0, <2>1, <2>2, <2>3 DEF RouterInv, RouterTypeOK, Claimed, Queued
<1>2. CASE EventFallsDue(m)
  <2> DEFINE row == [event[m] EXCEPT !.due = TRUE]
  <2>1. row \in Event /\ row.status = event[m].status /\ row.attempts = event[m].attempts
    BY <1>0 DEF Event
  <2>2. event' = [event EXCEPT ![m] = row]
    BY <1>0, <1>2 DEF EventFallsDue, RouterTypeOK
  <2>3. UNCHANGED <<analysis, suggested, mediaJob, mediaRun, eventPass>>
    BY <1>2 DEF EventFallsDue
  <2> HIDE DEF row
  <2> QED  BY <1>0, <2>1, <2>2, <2>3 DEF RouterInv, RouterTypeOK, Claimed, Queued
<1> QED  BY <1>1, <1>2 DEF RouterClock

LEMMA RouterStepTypes ==
  ASSUME RouterInv, RouterStep
  PROVE  RouterInv'
<1>1. ASSUME NEW m \in Messages, MediaWork(m) PROVE RouterInv'
  BY <1>1, MediaWorkTypes, MediaWorkEvents DEF RouterInv, RouterTypeOK, RunStages
<1>2. ASSUME NEW m \in Messages, RouterClock(m) PROVE RouterInv'
  BY <1>2, RouterClockTypes
<1>3. CASE EventWork
  <2>1. UNCHANGED <<mediaJob, analysis, suggested, mediaRun>>
    BY <1>3 DEF EventWork, BeginEventPass, EventTaken, EventFails, Posted
  <2> QED  BY <1>3, <2>1, EventWorkTypes DEF RouterInv, RouterTypeOK, Claimed
<1> QED  BY <1>1, <1>2, <1>3 DEF RouterStep

LEMMA PersistTypes ==
  ASSUME RouterInv, NEW m \in Messages, NEW kind \in {"image", "other"},
         NEW defer \in BOOLEAN, PersistMediaJob(m, kind, defer)
  PROVE  /\ RouterInv'
         /\ UNCHANGED <<analysis, suggested, event, mediaRun, eventPass>>
         /\ mediaJob[m].status # "none" => mediaJob' = mediaJob
         /\ mediaJob'[m].status # "none"
         /\ \A n \in Messages \ {m} : mediaJob'[n] = mediaJob[n]
<1> DEFINE row == [NoMediaJob EXCEPT !.status = "pending", !.due = TRUE,
                                     !.kind = kind, !.defer = defer]
<1>0. /\ RouterTypeOK /\ \A n \in Messages : Claimed(n) /\ Queued(n)
  BY DEF RouterInv
<1>1. row \in MediaJob /\ row.status = "pending"
  BY PersistedMediaRow DEF NoMediaJob
<1>2. mediaJob' = IF mediaJob[m].status # "none" THEN mediaJob
                  ELSE [mediaJob EXCEPT ![m] = row]
  BY DEF PersistMediaJob
<1>3. UNCHANGED <<analysis, suggested, event, mediaRun, eventPass>>
  BY DEF PersistMediaJob, Outbox
<1> HIDE DEF row
<1>4. \A n \in Messages : Claimed(n)'
  BY <1>0, <1>1, <1>2, <1>3 DEF Claimed, RouterTypeOK
<1> QED  BY <1>0, <1>1, <1>2, <1>3, <1>4 DEF RouterInv, RouterTypeOK, Queued

LEMMA RouterRestartTypes ==
  ASSUME RouterInv, RouterRestart
  PROVE  /\ RouterInv'
         /\ UNCHANGED <<analysis, event>>
         /\ \A n \in Messages : /\ mediaJob[n].status = "none" <=> mediaJob'[n].status = "none"
                                /\ mediaJob'[n].defer = mediaJob[n].defer
                                /\ mediaRun'[n] = "idle"
<1>0. /\ RouterTypeOK /\ \A n \in Messages : Queued(n)
  BY DEF RouterInv
<1>1. /\ mediaJob' = [n \in Messages |-> RecoveredMedia(mediaJob[n])]
      /\ mediaRun' = [n \in Messages |-> "idle"] /\ eventPass' = {}
      /\ UNCHANGED <<analysis, suggested, event>>
  BY DEF RouterRestart
<1>2. \A n \in Messages : mediaJob[n] \in MediaJob
  BY <1>0 DEF RouterTypeOK
<1>3. \A n \in Messages : /\ RecoveredMedia(mediaJob[n]) \in MediaJob
                          /\ RecoveredMedia(mediaJob[n]).status = "none"
                               <=> mediaJob[n].status = "none"
                          /\ RecoveredMedia(mediaJob[n]).defer = mediaJob[n].defer
  BY <1>2, RecoveredMediaRow
<1> QED  BY <1>0, <1>1, <1>3 DEF RouterInv, RouterTypeOK, Claimed, Queued
-----------------------------------------------------------------------------
(***************************************************************************)
(* The whole: the pipeline, with what each queue does with its rows.       *)
(***************************************************************************)
OtherQueues ==
  /\ \/ ApprovalStep /\ UNCHANGED <<contadorVars, routerVars, partnerVars>>
     \/ ContadorStep /\ UNCHANGED <<approvalVars, routerVars, partnerVars>>
     \/ PartnerStep /\ UNCHANGED <<approvalVars, contadorVars, routerVars>>
  /\ UNCHANGED <<webhookVars, restarts>>

WholeNext == PipelineNext \/ OtherQueues
WholeSpec == PipelineInit /\ [][WholeNext]_pipelineVars

WebhookTypeOK ==
  /\ nature \in [Messages -> Natures]
  /\ stored \subseteq Delivered
  /\ handler \in [Messages -> SUBSET {"first", "again"}]
  /\ station \in [Messages -> {"none", "claimed", "further"}]
  /\ overlapped \subseteq stored
  /\ replays \in 0 .. MaxReplays /\ restarts \in 0 .. MaxRestarts

Base ==
  /\ WebhookTypeOK
  /\ RouterInv
  /\ contadorOn \in BOOLEAN

\* What a handler does with the queues, once it has the configuration.
LEMMA RouteChoices ==
  ASSUME NEW m \in Messages, NEW h \in {"first", "again"}, Route(m, h)
  PROVE  \/ ToContador(m) \/ ToPartner(m) \/ ToStation(m) \/ ToMedia(m) \/ ToNobody
  BY DEF Route, RouteFirst, RouteAgain

LEMMA RouteTypes ==
  ASSUME Base, NEW m \in Delivered, NEW h \in {"first", "again"}, Route(m, h)
  PROVE  Base'
<1>0. m \in Messages /\ WebhookTypeOK /\ RouterInv /\ contadorOn \in BOOLEAN
  BY PipelineAssumption DEF Base
<1>1. /\ handler' = [handler EXCEPT ![m] = @ \ {h}]
      /\ UNCHANGED <<nature, stored, overlapped, replays, restarts>>
  BY DEF Route, Ends
<1>2. CASE ToMedia(m)
  <2>1. PICK kind \in {"image", "other"}, defer \in BOOLEAN : PersistMediaJob(m, kind, defer)
    BY <1>0, <1>2 DEF ToMedia
  <2>2. RouterInv'
    BY <1>0, <2>1, PersistTypes
  <2> QED  BY <1>0, <1>1, <1>2, <2>2 DEF Base, WebhookTypeOK, ToMedia, contadorVars
<1>3. CASE ToContador(m) \/ ToPartner(m) \/ ToStation(m) \/ ToNobody
  <2>1. UNCHANGED routerVars /\ contadorOn' = contadorOn
        /\ station' \in [Messages -> {"none", "claimed", "further"}]
    BY <1>0, <1>3 DEF ToContador, ToPartner, ToStation, ToNobody, Queues, Enqueue,
                      contadorVars, WebhookTypeOK
  <2>2. RouterInv'
    BY <1>0, <2>1 DEF routerVars, RouterInv, RouterTypeOK, Claimed, Queued
  <2> QED  BY <1>0, <1>1, <2>1, <2>2 DEF Base, WebhookTypeOK
<1> QED  BY <1>0, <1>2, <1>3, RouteChoices

LEMMA BaseKeeps ==
  ASSUME Base, [WholeNext]_pipelineVars
  PROVE  Base'
<1>0. WebhookTypeOK /\ RouterInv /\ contadorOn \in BOOLEAN /\ Delivered \subseteq Messages
  BY PipelineAssumption DEF Base
<1>1. ASSUME UNCHANGED routerVars PROVE RouterInv'
  BY <1>0, <1>1 DEF routerVars, RouterInv, RouterTypeOK, Claimed, Queued
<1>2. ASSUME NEW m \in Delivered,
             \/ Deliver(m) \/ Redeliver(m) \/ StationProceeds(m)
             \/ \E h \in {"first", "again"} : Refuse503(m, h)
      PROVE  Base'
  <2>1. UNCHANGED <<approvalVars, contadorVars, routerVars, partnerVars>>
    BY <1>2 DEF Deliver, Redeliver, StationProceeds, Refuse503, Queues
  <2>2. RouterInv' /\ contadorOn' = contadorOn
    BY <1>1, <2>1 DEF contadorVars
  <2>3. WebhookTypeOK'
    <3>1. CASE Deliver(m)
      BY <1>0, <3>1 DEF Deliver, WebhookTypeOK
    <3>2. CASE Redeliver(m)
      <4>1. replays + 1 \in 0 .. MaxReplays
        BY <1>0, <3>2, PipelineAssumption DEF Redeliver, WebhookTypeOK
      <4> QED  BY <1>0, <3>2, <4>1 DEF Redeliver, WebhookTypeOK
    <3>3. CASE StationProceeds(m)
      BY <1>0, <3>3 DEF StationProceeds, WebhookTypeOK
    <3>4. CASE \E h \in {"first", "again"} : Refuse503(m, h)
      BY <1>0, <3>4 DEF Refuse503, Ends, WebhookTypeOK
    <3> QED  BY <1>2, <3>1, <3>2, <3>3, <3>4
  <2> QED  BY <1>0, <2>2, <2>3 DEF Base
<1>3. CASE QueueStep
  <2>1. UNCHANGED <<webhookVars, restarts>> /\ contadorOn' = contadorOn
    <3>1. UNCHANGED <<webhookVars, restarts>>
      BY <1>3 DEF QueueStep
    <3>2. CASE HandOver /\ UNCHANGED <<approvalVars, contadorVars, routerVars>>
      BY <3>1, <3>2 DEF contadorVars
    <3>3. CASE \E m \in Messages : MediaWork(m)
      <4> PICK m \in Messages : MediaWork(m)
        BY <3>3
      <4>0. Defer(m, mediaJob[m].kind) \/ Enqueue(m, mediaJob[m].kind)
              \/ UNCHANGED contadorVars
            => contadorOn' = contadorOn
        BY DEF Defer, Enqueue, contadorVars
      <4>1. ASSUME NEW kind \in Kinds, NEW known \in BOOLEAN, Recognize(m, kind, known)
            PROVE  contadorOn' = contadorOn
        <5>1. Defer(m, mediaJob[m].kind) \/ UNCHANGED contadorVars
          BY <4>1, Zenon DEF Recognize, Outlet, Others
        <5> QED  BY <4>0, <5>1
      <4>2. ASSUME ClaimMediaJob(m) \/ Declined(m)
            PROVE  contadorOn' = contadorOn
        <5>1. Defer(m, mediaJob[m].kind) \/ Enqueue(m, mediaJob[m].kind)
                \/ UNCHANGED contadorVars
          <6>1. ClaimMediaJob(m) => Defer(m, mediaJob[m].kind) \/ UNCHANGED contadorVars
            BY SMTT(30) DEF ClaimMediaJob
          <6>2. Declined(m) => Enqueue(m, mediaJob[m].kind) \/ UNCHANGED contadorVars
            BY DEF Declined
          <6> QED  BY <4>2, <6>1, <6>2
        <5> QED  BY <4>0, <5>1
      <4>3. CASE ~(ClaimMediaJob(m) \/ Declined(m))
        BY <3>1, <4>1, <4>3 DEF MediaWork, Eligible, Suggest, AsksForDraft, Drafted, ModelFails,
           RunFails, CompleteMediaJob, Others, contadorVars
      <4> QED  BY <3>1, <4>2, <4>3
    <3>4. CASE (\E m \in Messages : RouterClock(m)) \/ EventWork
      <4>1. contadorOn' = contadorOn
        BY <3>4 DEF RouterClock, EventWork, MediaFallsDue, EventFallsDue, BeginEventPass,
             EventTaken, EventFails, Posted, Others, contadorVars
      <4> QED  BY <3>1, <4>1
    <3> QED  BY <1>3, <3>1, <3>2, <3>3, <3>4 DEF QueueStep, RouterStep
  <2>2. RouterInv'
    BY <1>0, <1>1, <1>3, RouterStepTypes DEF QueueStep
  <2> QED  BY <1>0, <2>1, <2>2 DEF Base, WebhookTypeOK, webhookVars
<1>4. CASE Restart
  <2>1. RouterInv'
    BY <1>0, <1>4, RouterRestartTypes DEF Restart
  <2>2. WebhookTypeOK'
    <3>1. restarts + 1 \in 0 .. MaxRestarts
      BY <1>0, <1>4, PipelineAssumption DEF Restart, WebhookTypeOK
    <3> QED  BY <1>0, <1>4, <3>1 DEF Restart, WebhookTypeOK
  <2> QED  BY <1>4, <2>1, <2>2 DEF Base, Restart, ContadorRestart
<1>5. CASE OtherQueues
  <2>1. UNCHANGED <<webhookVars, restarts, routerVars>> /\ contadorOn' = contadorOn
    BY <1>5 DEF OtherQueues, ContadorStep, ContadorWork, BeginContadorPass, EndContadorPass,
         ClaimJob, HandleEnds, Fence, FenceHeld, ReplyTaken, ReplyUnrecorded, ReplyRefused,
         ReplyUnclear, SettleJob, JobFallsDue, contadorVars
  <2> QED  BY <1>0, <1>1, <2>1 DEF Base, WebhookTypeOK, webhookVars
<1>6. CASE UNCHANGED pipelineVars
  BY <1>0, <1>1, <1>6 DEF pipelineVars, Base, WebhookTypeOK, webhookVars, contadorVars
<1> QED
  BY <1>2, <1>3, <1>4, <1>5, <1>6, RouteTypes DEF WholeNext, PipelineNext

LEMMA BaseInvariant == WholeSpec => []Base
<1>1. PipelineInit => Base
  <2> SUFFICES ASSUME PipelineInit PROVE Base
    OBVIOUS
  <2>1. NoMediaJob \in MediaJob /\ NoEvent \in Event /\ NoEvent.status = "none"
    <3>1. 0 \in 0 .. MaxEventAttempts
      BY RouterAssumption
    <3> QED  BY <3>1 DEF NoMediaJob, MediaJob, NoEvent, Event
  <2>2. RouterInv
    BY <2>1 DEF PipelineInit, RouterInit, RouterInv, RouterTypeOK, Claimed, Queued
  <2>3. WebhookTypeOK
    BY PipelineAssumption DEF PipelineInit, WebhookTypeOK
  <2> QED  BY <2>2, <2>3 DEF PipelineInit, ContadorInit, Base
<1> QED  BY <1>1, BaseKeeps, PTL DEF WholeSpec
-----------------------------------------------------------------------------
(***************************************************************************)
(* Each queue does in the whole what it does by itself                     *)
(***************************************************************************)
LEMMA ApprovalFollowed ==
  ASSUME Base, [WholeNext]_pipelineVars
  PROVE  [ApprovalNext]_approvalVars
<1>0. Delivered \subseteq Messages
  BY PipelineAssumption
<1>1. ASSUME NEW m \in Delivered, NEW h \in {"first", "again"}, Route(m, h)
      PROVE  UNCHANGED approvalVars
  BY <1>0, <1>1, RouteChoices DEF ToContador, ToPartner, ToStation, ToMedia, ToNobody, Queues
<1>2. ASSUME NEW m \in Delivered, Deliver(m) \/ Redeliver(m) \/ StationProceeds(m)
             \/ \E h \in {"first", "again"} : Refuse503(m, h)
      PROVE  UNCHANGED approvalVars
  BY <1>2 DEF Deliver, Redeliver, StationProceeds, Refuse503, Queues
<1>3. ASSUME NEW m \in Messages, MediaWork(m)
      PROVE  [ApprovalNext]_approvalVars
  <2>1. CASE ~\E kind \in Kinds, known \in BOOLEAN : Recognize(m, kind, known)
    BY <1>3, <2>1 DEF MediaWork, ClaimMediaJob, Eligible, Declined, Suggest, AsksForDraft,
         Drafted, ModelFails,
                      RunFails, CompleteMediaJob, Others
  <2>2. ASSUME NEW kind \in Kinds, NEW known \in BOOLEAN, Recognize(m, kind, known)
        PROVE  [ApprovalNext]_approvalVars
    BY <2>2 DEF Recognize, Outlet, Others, ApprovalNext
  <2> QED  BY <2>1, <2>2
<1>4. CASE QueueStep
  BY <1>3, <1>4 DEF QueueStep, RouterStep, RouterClock, EventWork, MediaFallsDue,
       EventFallsDue, BeginEventPass, EventTaken, EventFails, Posted, Others
<1>5. CASE Restart \/ OtherQueues
  BY <1>5 DEF Restart, OtherQueues, ApprovalNext
<1>6. CASE UNCHANGED pipelineVars
  BY <1>6 DEF pipelineVars
<1> QED  BY <1>1, <1>2, <1>4, <1>5, <1>6 DEF WholeNext, PipelineNext

LEMMA PartnerFollowed ==
  ASSUME Base, [WholeNext]_pipelineVars
  PROVE  [PartnerNext]_partnerVars
<1>0. Delivered \subseteq Messages
  BY PipelineAssumption
<1>1. ASSUME NEW m \in Delivered, NEW h \in {"first", "again"}, Route(m, h)
      PROVE  [PartnerNext]_partnerVars
  BY <1>0, <1>1, RouteChoices
     DEF ToContador, ToPartner, ToStation, ToMedia, ToNobody, Queues, PartnerNext
<1>2. ASSUME NEW m \in Delivered, Deliver(m) \/ Redeliver(m) \/ StationProceeds(m)
             \/ \E h \in {"first", "again"} : Refuse503(m, h)
      PROVE  UNCHANGED partnerVars
  BY <1>2 DEF Deliver, Redeliver, StationProceeds, Refuse503, Queues
<1>3. CASE QueueStep \/ Restart \/ OtherQueues
  BY <1>3 DEF QueueStep, Restart, OtherQueues, PartnerNext, PartnerStep
<1>4. CASE UNCHANGED pipelineVars
  BY <1>4 DEF pipelineVars
<1> QED  BY <1>1, <1>2, <1>3, <1>4 DEF WholeNext, PipelineNext

LEMMA MediaWorkQueues ==
  ASSUME RouterInv, NEW m \in Messages, MediaWork(m)
  PROVE  \/ UNCHANGED contadorVars
         \/ /\ mediaJob[m].status # "none"
            /\ \E kind \in {"image", "other"} : Enqueue(m, kind) \/ Defer(m, kind)
<1>0. mediaJob[m].kind \in {"image", "other"} /\ Claimed(m)
  BY DEF RouterInv, RouterTypeOK, MediaJob
<1>1. CASE ClaimMediaJob(m)
  BY <1>0, <1>1 DEF ClaimMediaJob, MediaOpen
<1>2. CASE Declined(m)
  BY <1>0, <1>2 DEF Declined, Claimed
<1>3. ASSUME NEW kind \in Kinds, NEW known \in BOOLEAN, Recognize(m, kind, known)
      PROVE  \/ UNCHANGED contadorVars
             \/ mediaJob[m].status # "none" /\ Defer(m, mediaJob[m].kind)
  BY <1>0, <1>3 DEF Recognize, Outlet, Others, Claimed
<1>4. CASE Eligible(m) \/ Suggest(m) \/ AsksForDraft(m)
        \/ Drafted(m) \/ (\E down \in BOOLEAN : ModelFails(m, down))
           \/ RunFails(m) \/ CompleteMediaJob(m)
  BY <1>4 DEF Eligible, Suggest, AsksForDraft, Drafted, ModelFails, RunFails, CompleteMediaJob,
       Others
<1> QED  BY <1>0, <1>1, <1>2, <1>3, <1>4 DEF MediaWork

LEMMA ContadorFollowed ==
  ASSUME Base, [WholeNext]_pipelineVars
  PROVE  [ContadorNext]_contadorVars
<1>0. Delivered \subseteq Messages /\ RouterInv
  BY PipelineAssumption DEF Base
<1>1. ASSUME NEW m \in Delivered, NEW h \in {"first", "again"}, Route(m, h)
      PROVE  [ContadorNext]_contadorVars
  BY <1>0, <1>1, RouteChoices
     DEF ToContador, ToPartner, ToStation, ToMedia, ToNobody, Queues, ContadorNext
<1>2. ASSUME NEW m \in Delivered, Deliver(m) \/ Redeliver(m) \/ StationProceeds(m)
             \/ \E h \in {"first", "again"} : Refuse503(m, h)
      PROVE  UNCHANGED contadorVars
  BY <1>2 DEF Deliver, Redeliver, StationProceeds, Refuse503, Queues
<1>3. ASSUME NEW m \in Messages, MediaWork(m) PROVE [ContadorNext]_contadorVars
  BY <1>0, <1>3, MediaWorkQueues DEF ContadorNext
<1>4. CASE QueueStep
  BY <1>3, <1>4 DEF QueueStep, RouterStep, RouterClock, EventWork, MediaFallsDue,
       EventFallsDue, BeginEventPass, EventTaken, EventFails, Posted, Others
<1>5. CASE Restart \/ OtherQueues
  BY <1>5 DEF Restart, OtherQueues, ContadorNext
<1>6. CASE UNCHANGED pipelineVars
  BY <1>6 DEF pipelineVars
<1> QED  BY <1>1, <1>2, <1>4, <1>5, <1>6 DEF WholeNext, PipelineNext

\* Whatever the webhook, the media queue and the restarts do, each of the three
\* queues behaves as it does by itself: what is proved of it alone holds in the
\* whole.
THEOREM QueuesCompose == WholeSpec => ApprovalSpec /\ ContadorSpec /\ PartnerSpec
<1>1. PipelineInit => ApprovalInit /\ ContadorInit /\ PartnerInit
  BY DEF PipelineInit
<1>2. Base /\ [WholeNext]_pipelineVars =>
        [ApprovalNext]_approvalVars /\ [ContadorNext]_contadorVars /\ [PartnerNext]_partnerVars
  BY ApprovalFollowed, ContadorFollowed, PartnerFollowed
<1> QED
  BY <1>1, <1>2, BaseInvariant, PTL DEF WholeSpec, ApprovalSpec, ContadorSpec, PartnerSpec
-----------------------------------------------------------------------------
(***************************************************************************)
(* The rows of the Contador and of the approvals, seen from the whole      *)
(***************************************************************************)
ContadorRowsStay ==
  \A m \in Messages : contadorJob[m].status = "none" <=> contadorJob'[m].status = "none"

\* A job that is queued is there afterwards, and no other is touched.
LEMMA QueuedRow ==
  ASSUME ContadorTypeOK, NEW m \in Messages, NEW kind \in {"image", "other"},
         Enqueue(m, kind) \/ Defer(m, kind)
  PROVE  /\ contadorJob'[m].status # "none"
         /\ \A n \in Messages \ {m} : contadorJob'[n] = contadorJob[n]
<1>0. contadorJob \in [Messages -> ContadorJob] /\ contadorJob[m] \in ContadorJob
  BY DEF ContadorTypeOK
<1>1. CASE contadorJob' = contadorJob /\ contadorJob[m].status # "none"
  BY <1>1
<1>2. CASE \E extracted \in BOOLEAN :
             contadorJob' = [contadorJob EXCEPT ![m] = NewJob(kind, extracted)]
  BY <1>0, <1>2, NewJobRow
<1>3. CASE contadorJob' = [contadorJob EXCEPT ![m] =
             [contadorJob[m] EXCEPT !.status = "pending", !.attempts = 0, !.due = TRUE,
                                    !.extracted = TRUE]]
  <2> DEFINE row == [contadorJob[m] EXCEPT !.status = "pending", !.attempts = 0,
                                           !.due = TRUE, !.extracted = TRUE]
  <2>1. row.status = "pending"
    BY <1>0 DEF ContadorJob
  <2> QED  BY <1>0, <1>3, <2>1
<1> QED  BY <1>1, <1>2, <1>3 DEF Enqueue, Defer, Enqueued, Deferred

LEMMA ContadorStepRows ==
  ASSUME ContadorIInv, ContadorStep \/ ContadorRestart \/ UNCHANGED contadorVars
  PROVE  ContadorRowsStay
<1>0. ContadorTypeOK /\ contadorJob \in [Messages -> ContadorJob]
  BY DEF ContadorIInv, ContadorTypeOK
<1>2. CASE UNCHANGED contadorJob
  BY <1>2 DEF ContadorRowsStay
<1>3. CASE ContadorRestart
  <2>1. ASSUME NEW m \in Messages
        PROVE  contadorJob[m].status = "none" <=> contadorJob'[m].status = "none"
    <3>1. contadorJob[m] \in ContadorJob
      BY <1>0
    <3>2. contadorJob'[m] \in {contadorJob[m], RecoveredJob(contadorJob[m])}
      BY <1>3 DEF ContadorRestart
    <3>3. RecoveredJob(contadorJob[m]).status = "none" <=> contadorJob[m].status = "none"
      BY <3>1 DEF RecoveredJob, ContadorJob
    <3> QED  BY <3>2, <3>3
  <2> QED  BY <2>1 DEF ContadorRowsStay
<1>4. ASSUME NEW m \in Messages,
             \/ ClaimJob(m) \/ Fence(m) \/ ReplyTaken(m) \/ ReplyRefused(m)
             \/ ReplyUnclear(m) \/ JobFallsDue(m)
      PROVE  ContadorRowsStay
  <2>1. contadorJob[m] \in ContadorJob
    BY <1>0
  <2>2. CASE ClaimJob(m)
    BY <1>0, <2>1, <2>2 DEF ClaimJob, Waiting, ContadorJob, ContadorRowsStay
  <2>3. CASE Fence(m) \/ ReplyTaken(m) \/ ReplyRefused(m) \/ ReplyUnclear(m)
    <3>1. PICK reply \in {"none", "sending", "sent", "unknown"} :
            contadorJob' = [contadorJob EXCEPT ![m].reply = reply]
      BY <2>3 DEF Fence, ReplyTaken, ReplyRefused, ReplyUnclear
    <3> QED  BY <1>0, <2>1, <3>1 DEF ContadorJob, ContadorRowsStay
  <2>4. CASE JobFallsDue(m)
    BY <1>0, <2>1, <2>4 DEF JobFallsDue, ContadorJob, ContadorRowsStay
  <2> QED  BY <1>4, <2>2, <2>3, <2>4
<1>5. ASSUME NEW m \in Messages, SettleJob(m)
      PROVE  ContadorRowsStay
  <2>1. /\ contadorJob[m] \in ContadorJob /\ contadorJob[m].attempts > 0
        /\ contadorJob[m].status = "processing"
    BY <1>0, <1>5 DEF ContadorIInv, InHand, SettleJob, AtJob
  <2>2. contadorJob' = [contadorJob EXCEPT ![m] =
                          SettledJob(contadorJob[m], contadorPass.result)]
    BY <1>5 DEF SettleJob
  <2>3. SettledJob(contadorJob[m], contadorPass.result).status # "none"
    BY <2>1, SettledRow
  <2> QED  BY <1>0, <2>1, <2>2, <2>3 DEF ContadorRowsStay
<1>6. CASE ContadorStep
  <2>1. \/ UNCHANGED contadorJob
        \/ \E m \in Messages :
             \/ ClaimJob(m) \/ Fence(m) \/ ReplyTaken(m) \/ ReplyRefused(m)
             \/ ReplyUnclear(m) \/ JobFallsDue(m) \/ SettleJob(m)
    BY <1>6 DEF ContadorStep, ContadorWork, BeginContadorPass, EndContadorPass, HandleEnds,
                FenceHeld, ReplyUnrecorded
  <2> QED  BY <1>2, <1>4, <1>5, <2>1
<1> QED  BY <1>2, <1>3, <1>6 DEF contadorVars

ProposalRowsStay ==
  \A r \in Messages : proposal[r].status = "none" <=> proposal'[r].status = "none"

\* A proposal is made by Propose alone.
LEMMA ApprovalStepRows ==
  ASSUME ApprovalTypeOK, ApprovalStep \/ ApprovalRestart \/ UNCHANGED approvalVars
  PROVE  ProposalRowsStay
<1>0. proposal \in [Messages -> Proposal]
  BY DEF ApprovalTypeOK
<1>2. CASE UNCHANGED proposal
  BY <1>2 DEF ProposalRowsStay
<1>3. ASSUME NEW r \in Messages
      PROVE  /\ Recovered(proposal[r]).status = "none" <=> proposal[r].status = "none"
             /\ Expired(proposal[r]).status = "none" <=> proposal[r].status = "none"
  <2>1. proposal[r] \in Proposal
    BY <1>0
  <2> QED  BY <2>1 DEF Recovered, Expired, Proposal, Expirable, Unsent
<1>4. CASE ApprovalRestart
  BY <1>3, <1>4 DEF ApprovalRestart, ProposalRowsStay
<1>5. CASE BeginApprovalPass
  BY <1>3, <1>5 DEF BeginApprovalPass, ProposalRowsStay
<1>6. ASSUME NEW r \in Messages,
             \/ SendStep(r) \/ ClaimExecution(r) \/ Classify(r) \/ ClassifyFails(r)
             \/ ApprovalClock(r) \/ \E yes \in BOOLEAN : Reply(r, yes)
      PROVE  ProposalRowsStay
  <2>1. proposal[r] \in Proposal
    BY <1>0
  <2>2. CASE SendExpired(r) \/ \E yes \in BOOLEAN : Reply(r, yes) /\ proposal[r].late
    BY <1>0, <1>3, <2>2 DEF SendExpired, Reply, Become, ProposalRowsStay
  <2>3. CASE \/ SendUnaddressed(r) \/ QuestionUnclear(r) \/ QuestionDeferred(r)
             \/ QuestionRefused(r) \/ Classify(r) \/ ClassifyFails(r)
             \/ \E yes \in BOOLEAN : Reply(r, yes) /\ ~proposal[r].late
    <3>1. PICK status \in {"waiting_config", "delivery_unknown", "retry_send",
                           "failed_delivery", "executed", "failed_execution",
                           "execution_retry", "confirmed", "rejected"}, due \in BOOLEAN :
            SetStatus(r, status, due) /\ proposal[r].status # "none"
      BY <2>3 DEF SendUnaddressed, QuestionUnclear, QuestionDeferred, QuestionRefused,
                  Classify, ClassifyFails, Reply, Asking, Executing, Unsent
    <3>2. [proposal[r] EXCEPT !.status = status, !.due = due].status # "none"
      BY <2>1 DEF Proposal
    <3> QED  BY <1>0, <3>1, <3>2 DEF SetStatus, Become, ProposalRowsStay
  <2>4. CASE SendQuestion(r)
    BY <1>0, <2>1, <2>4 DEF SendQuestion, Ask, Become, Proposal, Unsent, ProposalRowsStay
  <2>5. CASE QuestionTaken(r)
    BY <1>0, <2>1, <2>5 DEF QuestionTaken, Asking, Become, Proposal, ProposalRowsStay
  <2>6. CASE ClaimExecution(r)
    BY <1>0, <2>1, <2>6 DEF ClaimExecution, Become, Executable, Proposal, ProposalRowsStay
  <2>7. CASE ApprovalClock(r)
    BY <1>0, <2>1, <2>7 DEF ApprovalClock, FallDue, Elapse, Become, Proposal, ProposalRowsStay
  <2> QED  BY <1>6, <2>2, <2>3, <2>4, <2>5, <2>6, <2>7 DEF SendStep
<1>7. CASE ApprovalStep
  <2>1. \/ UNCHANGED proposal \/ BeginApprovalPass
        \/ \E r \in Messages :
             \/ SendStep(r) \/ ClaimExecution(r) \/ Classify(r) \/ ClassifyFails(r)
             \/ ApprovalClock(r) \/ \E yes \in BOOLEAN : Reply(r, yes)
    BY <1>7 DEF ApprovalStep, ApprovalWork, EndApprovalPass
  <2> QED  BY <1>2, <1>5, <1>6, <2>1
<1> QED  BY <1>2, <1>4, <1>7 DEF approvalVars
-----------------------------------------------------------------------------
(***************************************************************************)
(* One outlet                                                              *)
(***************************************************************************)
Ambient == Base /\ ContadorIInv /\ PartnerIInv /\ ApprovalTypeOK

LEMMA AmbientInvariant == WholeSpec => []Ambient
  BY BaseInvariant, QueuesCompose, ContadorInvariant, PartnerInvariant, ApprovalTypeCorrect,
     PTL DEF Ambient

\* A message whose analysis is written has been handed out, to one of three, and is
\* not read again; any other has been given neither to an approval nor to the API.
Given(m) ==
  IF analysis[m] \in Kinds
    THEN /\ mediaRun[m] \notin {"config", "classify", "draft"} /\ mediaJob[m].status # "none"
         /\ IF ForContador(m, analysis[m])
              THEN /\ contadorJob[m].status # "none"
                   /\ proposal[m].status = "none" /\ event[m].status = "none"
              ELSE proposal[m].status = "none" <=> event[m].status # "none"
    ELSE proposal[m].status = "none" /\ event[m].status = "none"

\* What does not write the analysis of m leaves what was given as it is.
LEMMA GivenStays ==
  ASSUME NEW m \in Messages, Given(m), analysis'[m] = analysis[m],
         analysis[m] \in Kinds => mediaRun'[m] \notin {"config", "classify", "draft"},
         mediaJob[m].status # "none" => /\ mediaJob'[m].status # "none"
                                        /\ mediaJob'[m].defer = mediaJob[m].defer,
         contadorJob[m].status # "none" => contadorJob'[m].status # "none",
         proposal[m].status = "none" <=> proposal'[m].status = "none",
         event[m].status = "none" <=> event'[m].status = "none"
  PROVE  Given(m)'
  BY DEF Given, ForContador

LEMMA ContadorGrows ==
  ASSUME ContadorIInv, [ContadorNext]_contadorVars
  PROVE  \A m \in Messages : contadorJob[m].status # "none" => contadorJob'[m].status # "none"
<1>1. CASE ContadorStep \/ ContadorRestart \/ UNCHANGED contadorVars
  BY <1>1, ContadorStepRows DEF ContadorRowsStay
<1>2. ASSUME NEW m \in Messages, NEW kind \in {"image", "other"},
             Enqueue(m, kind) \/ Defer(m, kind)
      PROVE  \A n \in Messages : contadorJob[n].status # "none" => contadorJob'[n].status # "none"
  BY <1>2, QueuedRow DEF ContadorIInv
<1> QED  BY <1>1, <1>2 DEF ContadorNext

\* The model has read m.
LEMMA RecognizeGives ==
  ASSUME Ambient, NEW m \in Messages, NEW kind \in Kinds, NEW known \in BOOLEAN,
         Recognize(m, kind, known), Given(m)
  PROVE  Given(m)'
<1>0. /\ RouterInv /\ Claimed(m) /\ ContadorTypeOK /\ proposal \in [Messages -> Proposal]
      /\ analysis \in [Messages -> Kinds \cup {"none", "error"}]
      /\ mediaRun \in [Messages -> RunStages]
  BY DEF Ambient, Base, RouterInv, RouterTypeOK, ContadorIInv, ApprovalTypeOK, RunStages
<1>1. /\ mediaRun[m] \in {"classify", "draft"} /\ mediaJob' = mediaJob /\ eventPass' = eventPass
      /\ analysis'[m] = kind /\ mediaRun'[m] \in {"handoff", "complete"}
      /\ Outlet(m, kind, known)
  BY <1>0 DEF Recognize, Run, Handoff
<1>2. proposal[m].status = "none" /\ event[m].status = "none" /\ mediaJob[m].status # "none"
  BY <1>0, <1>1 DEF Given, Claimed
<1>3. CASE ForContador(m, kind)
  <2>1. Defer(m, mediaJob[m].kind) /\ UNCHANGED <<event, approvalVars>>
    BY <1>1, <1>3 DEF Outlet
  <2>2. mediaJob[m].kind \in {"image", "other"}
    BY <1>0 DEF RouterInv, RouterTypeOK, MediaJob
  <2>3. contadorJob'[m].status # "none"
    BY <1>0, <2>1, <2>2, QueuedRow
  <2> QED  BY <1>1, <1>2, <1>3, <2>1, <2>3 DEF Given, ForContador, approvalVars
<1>4. CASE ~ForContador(m, kind) /\ kind = "expense" /\ approval.on
  <2>1. Propose(m, known) /\ event' = event
    BY <1>1, <1>4 DEF Outlet
  <2>2. proposal'[m].status # "none"
    BY <1>0, <2>1 DEF Propose, Become, Proposal
  <2> QED  BY <1>1, <1>2, <1>4, <2>1, <2>2 DEF Given, ForContador
<1>5. CASE ~ForContador(m, kind) /\ ~(kind = "expense" /\ approval.on)
  <2>1. PersistEvent(m) /\ UNCHANGED approvalVars
    BY <1>1, <1>5 DEF Outlet, Others
  <2>2. event'[m].status # "none"
    BY <1>0, <1>1, <2>1, PersistedEvent
  <2> QED  BY <1>1, <1>2, <1>5, <2>1, <2>2 DEF Given, ForContador, approvalVars
<1> QED  BY <1>3, <1>4, <1>5

LEMMA MediaWorkGives ==
  ASSUME Ambient, NEW m \in Messages, MediaWork(m), [ContadorNext]_contadorVars,
         \A n \in Messages : Given(n)
  PROVE  \A n \in Messages : Given(n)'
<1>0. /\ RouterInv /\ RouterTypeOK /\ ContadorIInv /\ proposal \in [Messages -> Proposal]
      /\ mediaRun \in [Messages -> RunStages]
  BY DEF Ambient, Base, RouterInv, RouterTypeOK, ApprovalTypeOK, RunStages
<1>1. MediaMoves(m)
  BY <1>0, MediaWorkTypes
<1>2. \A n \in Messages \ {m} : analysis'[n] = analysis[n] /\ event'[n] = event[n]
  BY <1>0, MediaWorkEvents
<1>3. \A n \in Messages : contadorJob[n].status # "none" => contadorJob'[n].status # "none"
  BY <1>0, ContadorGrows
<1>4. CASE ~\E kind \in Kinds, known \in BOOLEAN : Recognize(m, kind, known)
  <2>1. event' = event /\ proposal' = proposal
    BY <1>4 DEF MediaWork, ClaimMediaJob, Eligible, Declined, Suggest, AsksForDraft, Drafted,
         ModelFails, RunFails, CompleteMediaJob, Outbox, Others, approvalVars
  <2>2. ASSUME NEW n \in Messages, n # m PROVE Given(n)'
    <3>1. Given(n)
      OBVIOUS
    <3> QED  BY <1>1, <1>2, <1>3, <2>1, <2>2, <3>1, GivenStays DEF MediaMoves, Given
  <2>3. Given(m)'
    <3>1. CASE \E down \in BOOLEAN : ModelFails(m, down)
      <4>1. mediaRun[m] = "classify" /\ analysis'[m] = "error"
        BY <1>0, <3>1 DEF ModelFails, RouterTypeOK
      <4> QED  BY <2>1, <4>1 DEF Given, Kinds
    <3>2. CASE ~\E down \in BOOLEAN : ModelFails(m, down)
      <4>1. /\ analysis' = analysis
            /\ analysis[m] \in Kinds => mediaRun'[m] \notin {"config", "classify", "draft"}
        BY <1>0, <1>4, <3>2 DEF MediaWork, ClaimMediaJob, Eligible, Declined, Suggest,
             AsksForDraft, Drafted, RunFails,
                CompleteMediaJob, Run, Handoff, Given
      <4> QED  BY <1>1, <1>3, <2>1, <4>1, GivenStays DEF MediaMoves
    <3> QED  BY <3>1, <3>2
  <2> QED  BY <2>2, <2>3
<1>5. ASSUME NEW kind \in Kinds, NEW known \in BOOLEAN, Recognize(m, kind, known)
      PROVE  \A n \in Messages : Given(n)'
  <2>1. \A n \in Messages \ {m} : proposal'[n] = proposal[n]
    BY <1>0, <1>5 DEF Recognize, Outlet, Propose, Become, Others, approvalVars
  <2>2. ASSUME NEW n \in Messages, n # m PROVE Given(n)'
    <3>1. Given(n)
      OBVIOUS
    <3> QED  BY <1>1, <1>2, <1>3, <2>1, <2>2, <3>1, GivenStays DEF MediaMoves, Given
  <2> QED  BY <1>5, <2>2, RecognizeGives
<1> QED  BY <1>4, <1>5

LEMMA GivenKeeps ==
  ASSUME Ambient, [WholeNext]_pipelineVars, \A n \in Messages : Given(n)
  PROVE  \A n \in Messages : Given(n)'
<1>0. /\ Base /\ RouterInv /\ ContadorIInv /\ ApprovalTypeOK /\ Delivered \subseteq Messages
      /\ contadorOn \in BOOLEAN
  BY PipelineAssumption DEF Ambient, Base
<1>1. /\ [ContadorNext]_contadorVars
      /\ \A n \in Messages : contadorJob[n].status # "none" => contadorJob'[n].status # "none"
  BY <1>0, ContadorFollowed, ContadorGrows
<1>2. ASSUME UNCHANGED <<analysis, event, mediaRun>>,
             \A n \in Messages : mediaJob[n].status # "none" => mediaJob'[n] = mediaJob[n],
             ProposalRowsStay
      PROVE  \A n \in Messages : Given(n)'
  <2> SUFFICES ASSUME NEW n \in Messages PROVE Given(n)'
    OBVIOUS
  <2>1. Given(n)
    OBVIOUS
  <2> QED  BY <1>1, <1>2, <2>1, GivenStays DEF ProposalRowsStay, Given
<1>3. ASSUME NEW m \in Delivered, NEW h \in {"first", "again"}, Route(m, h)
      PROVE  \A n \in Messages : Given(n)'
  <2>1. UNCHANGED approvalVars
    BY <1>0, <1>3, RouteChoices DEF ToContador, ToPartner, ToStation, ToMedia, ToNobody, Queues
  <2>2. CASE ToMedia(m)
    <3>1. PICK kind \in {"image", "other"}, defer \in BOOLEAN :
            PersistMediaJob(m, kind, defer)
      BY <1>0, <2>2 DEF ToMedia
    <3>2. /\ UNCHANGED <<analysis, event, mediaRun>>
          /\ \A n \in Messages : mediaJob[n].status # "none" => mediaJob'[n] = mediaJob[n]
      BY <1>0, <3>1, PersistTypes
    <3> QED  BY <1>2, <2>1, <3>2 DEF ProposalRowsStay, approvalVars
  <2>3. CASE UNCHANGED routerVars
    BY <1>2, <2>1, <2>3 DEF ProposalRowsStay, approvalVars, routerVars
  <2> QED  BY <1>0, <1>3, <2>2, <2>3, RouteChoices
              DEF ToContador, ToPartner, ToStation, ToNobody, Queues
<1>4. ASSUME NEW m \in Delivered, Deliver(m) \/ Redeliver(m) \/ StationProceeds(m)
             \/ \E h \in {"first", "again"} : Refuse503(m, h)
      PROVE  \A n \in Messages : Given(n)'
  BY <1>2, <1>4 DEF Deliver, Redeliver, StationProceeds, Refuse503, Queues, routerVars,
                    approvalVars, ProposalRowsStay
<1>5. ASSUME UNCHANGED <<analysis, mediaRun>> \/ RouterRestart,
             \A n \in Messages :
               /\ mediaJob[n].status = "none" <=> mediaJob'[n].status = "none"
               /\ mediaJob'[n].defer = mediaJob[n].defer
               /\ event[n].status = "none" <=> event'[n].status = "none",
             ProposalRowsStay
      PROVE  \A n \in Messages : Given(n)'
  <2> SUFFICES ASSUME NEW n \in Messages PROVE Given(n)'
    OBVIOUS
  <2>1. Given(n)
    OBVIOUS
  <2>2. /\ analysis'[n] = analysis[n]
        /\ analysis[n] \in Kinds => mediaRun'[n] \notin {"config", "classify", "draft"}
    BY <1>5, <2>1 DEF RouterRestart, Given
  <2> QED  BY <1>1, <1>5, <2>1, <2>2, GivenStays DEF ProposalRowsStay
<1>6. CASE QueueStep
  <2>1. ASSUME NEW m \in Messages, MediaWork(m) PROVE \A n \in Messages : Given(n)'
    BY <1>1, <2>1, MediaWorkGives
  <2>2. ASSUME NEW m \in Messages, RouterClock(m) PROVE \A n \in Messages : Given(n)'
    <3>1. UNCHANGED approvalVars
      BY <2>2 DEF RouterClock, MediaFallsDue, EventFallsDue, Others
    <3> QED  BY <1>0, <1>5, <2>2, <3>1, RouterClockTypes DEF ProposalRowsStay, approvalVars
  <2>3. CASE EventWork
    <3>1. UNCHANGED <<approvalVars, mediaJob, analysis, mediaRun>>
      BY <2>3 DEF EventWork, BeginEventPass, EventTaken, EventFails, Posted, Others
    <3> QED  BY <1>0, <1>5, <2>3, <3>1, EventWorkTypes DEF ProposalRowsStay, approvalVars
  <2>4. CASE HandOver /\ UNCHANGED <<approvalVars, contadorVars, routerVars>>
    BY <1>2, <2>4 DEF ProposalRowsStay, approvalVars, routerVars
  <2> QED  BY <1>6, <2>1, <2>2, <2>3, <2>4 DEF QueueStep, RouterStep
<1>7. CASE Restart
  BY <1>0, <1>5, <1>7, RouterRestartTypes, ApprovalStepRows DEF Restart
<1>8. CASE OtherQueues
  <2>1. UNCHANGED routerVars /\ ProposalRowsStay
    BY <1>0, <1>8, ApprovalStepRows DEF OtherQueues
  <2> QED  BY <1>2, <2>1 DEF routerVars
<1>9. CASE UNCHANGED pipelineVars
  BY <1>2, <1>9 DEF pipelineVars, routerVars, ProposalRowsStay, approvalVars
<1> QED  BY <1>3, <1>4, <1>6, <1>7, <1>8, <1>9 DEF WholeNext, PipelineNext
-----------------------------------------------------------------------------
(***************************************************************************)
(* One answerer                                                            *)
(***************************************************************************)
HasStation(m)  == station[m] # "none"
HasPartner(m)  == partnerJob[m].status # "none"
HasMedia(m)    == mediaJob[m].status # "none"
HasContador(m) == contadorJob[m].status # "none"

\* Of a message that is a paper of the Contador or not (paper), stored or not, with
\* the handlers hs, and whose rows are there or not: the first handler works alone
\* and finds no row; who routes it again gives it to nobody but its owner.
OneOwner(paper, known, hs, s, p, d, c) ==
  /\ ~known => hs = {}
  /\ "first" \in hs => "again" \notin hs
  /\ (~known \/ "first" \in hs) => ~s /\ ~p /\ ~d /\ ~c
  /\ paper => ~s /\ ~p /\ ~d
  /\ ("again" \in hs /\ ~paper /\ c) => d
  /\ s => ~p /\ ~d /\ ~c
  /\ p => ~d /\ ~c

Paper(m) == nature[m].kind \in {"quote", "ofx"}

QueueOwned(m) ==
  m \notin overlapped =>
    OneOwner(Paper(m), m \in stored, handler[m],
             HasStation(m), HasPartner(m), HasMedia(m), HasContador(m))

RowsStay(m) ==
  /\ HasStation(m)' <=> HasStation(m)
  /\ HasPartner(m)' <=> HasPartner(m)
  /\ HasMedia(m)' <=> HasMedia(m)
  /\ HasContador(m)' <=> HasContador(m)

\* A job of the Contador that the media queue makes is not an answerer of its own.
LEMMA OwnedStays ==
  ASSUME NEW m \in Messages, QueueOwned(m),
         UNCHANGED <<nature, stored, overlapped>>, handler'[m] \in {handler[m], {}},
         HasStation(m)' <=> HasStation(m),
         HasPartner(m)' <=> HasPartner(m),
         HasMedia(m)' <=> HasMedia(m),
         (HasContador(m)' <=> HasContador(m)) \/ HasMedia(m)
  PROVE  QueueOwned(m)'
  BY DEF QueueOwned, OneOwner, Paper

\* What a handler does with the rows of its message.
LEMMA RouteRows ==
  ASSUME Ambient, NEW m \in Delivered, NEW h \in {"first", "again"}, Route(m, h)
  PROVE  /\ \A n \in Messages \ {m} : RowsStay(n)
         /\ \/ RowsStay(m)
            \/ /\ HasContador(m)' /\ (Paper(m) \/ h = "first")
               /\ HasStation(m)' <=> HasStation(m)
               /\ HasPartner(m)' <=> HasPartner(m)
               /\ HasMedia(m)' <=> HasMedia(m)
            \/ /\ HasPartner(m)' /\ ~Paper(m) /\ h = "first"
               /\ HasStation(m)' <=> HasStation(m)
               /\ HasMedia(m)' <=> HasMedia(m)
               /\ HasContador(m)' <=> HasContador(m)
            \/ /\ HasStation(m)' /\ ~Paper(m)
               /\ h = "first" \/ (~HasPartner(m) /\ ~HasMedia(m))
               /\ HasPartner(m)' <=> HasPartner(m)
               /\ HasMedia(m)' <=> HasMedia(m)
               /\ HasContador(m)' <=> HasContador(m)
            \/ /\ HasMedia(m)' /\ ~Paper(m)
               /\ h = "first" \/ (~HasPartner(m) /\ ~HasStation(m))
               /\ HasStation(m)' <=> HasStation(m)
               /\ HasPartner(m)' <=> HasPartner(m)
               /\ HasContador(m)' <=> HasContador(m)
<1>0. /\ m \in Messages /\ RouterInv /\ ContadorTypeOK /\ contadorOn \in BOOLEAN
      /\ station \in [Messages -> {"none", "claimed", "further"}]
      /\ partnerJob \in [Messages -> PartnerJob]
  BY PipelineAssumption DEF Ambient, Base, ContadorIInv, PartnerIInv, PartnerTypeOK,
                            WebhookTypeOK
<1>1. PICK config \in Configs : IF h = "first" THEN RouteFirst(m, config)
                                ELSE RouteAgain(m, config)
  BY DEF Route
<1>2. CASE ToContador(m) /\ (Paper(m) \/ h = "first")
  <2>1. /\ UNCHANGED <<station, partnerJob, mediaJob>>
        /\ \/ UNCHANGED contadorJob
           \/ Enqueue(m, "other")
    BY <1>2 DEF ToContador, contadorVars, partnerVars, routerVars
  <2>2. CASE UNCHANGED contadorJob
    BY <2>1, <2>2 DEF RowsStay, HasStation, HasPartner, HasMedia, HasContador
  <2>3. CASE Enqueue(m, "other")
    <3>1. /\ contadorJob'[m].status # "none"
          /\ \A n \in Messages \ {m} : contadorJob'[n] = contadorJob[n]
      BY <1>0, <2>3, QueuedRow
    <3> QED  BY <1>2, <2>1, <3>1
                DEF RowsStay, HasStation, HasPartner, HasMedia, HasContador
  <2> QED  BY <2>1, <2>2, <2>3
<1>3. CASE ToNobody
  BY <1>3 DEF ToNobody, Queues, contadorVars, partnerVars, routerVars, RowsStay,
              HasStation, HasPartner, HasMedia, HasContador
<1>4. CASE h = "first" /\ ~Paper(m) /\ ToPartner(m)
  <2>1. UNCHANGED <<station, mediaJob, contadorJob>>
    BY <1>4 DEF ToPartner, contadorVars, routerVars
  <2>2. partnerJob' = partnerJob \/ \E auto \in BOOLEAN : ClaimPartner(m, auto)
    BY <1>4 DEF ToPartner, partnerVars
  <2>3. \/ partnerJob' = partnerJob
        \/ /\ partnerJob'[m].status # "none"
           /\ \A n \in Messages \ {m} : partnerJob'[n] = partnerJob[n]
    BY <1>0, <2>2 DEF ClaimPartner, NoPartnerJob
  <2> QED  BY <1>4, <2>1, <2>3 DEF RowsStay, HasStation, HasPartner, HasMedia, HasContador
<1>5. CASE /\ ~Paper(m)
           /\ h = "first" \/ (~HasPartner(m) /\ StationServes(m, config))
           /\ ToStation(m)
  <2>1. UNCHANGED <<partnerJob, mediaJob, contadorJob>>
    BY <1>5 DEF ToStation, Queues, contadorVars, routerVars, partnerVars
  <2>2. \/ station' = station
        \/ /\ station[m] = "none" /\ station'[m] # "none"
           /\ \A n \in Messages \ {m} : station'[n] = station[n]
    BY <1>0, <1>5 DEF ToStation
  <2>3. station[m] = "none" => h = "first" \/ (~HasPartner(m) /\ ~HasMedia(m))
    BY <1>5 DEF StationServes, HasMedia, GenericFree
  <2> QED  BY <1>5, <2>1, <2>2, <2>3 DEF RowsStay, HasStation, HasPartner, HasMedia, HasContador
<1>6. CASE /\ ~Paper(m)
           /\ h = "first" \/ (~HasPartner(m) /\ ~HasStation(m))
           /\ ToMedia(m)
  <2>1. PICK kind \in {"image", "other"}, defer \in BOOLEAN : PersistMediaJob(m, kind, defer)
    BY <1>0, <1>6 DEF ToMedia
  <2>2. /\ mediaJob'[m].status # "none"
        /\ \A n \in Messages \ {m} : mediaJob'[n] = mediaJob[n]
    BY <1>0, <2>1, PersistTypes
  <2>3. UNCHANGED <<station, partnerJob, contadorJob>>
    BY <1>6 DEF ToMedia, contadorVars, partnerVars
  <2> QED  BY <1>6, <2>2, <2>3 DEF RowsStay, HasStation, HasPartner, HasMedia, HasContador
<1>7. CASE h = "first"
  BY <1>1, <1>2, <1>4, <1>5, <1>6, <1>7 DEF RouteFirst, Paper
<1>8. CASE h = "again"
  BY <1>1, <1>2, <1>3, <1>5, <1>6, <1>8
     DEF RouteAgain, Paper, HasPartner, HasStation, StationServes
<1> QED  BY <1>7, <1>8
LEMMA RouteOwns ==
  ASSUME Ambient, NEW m \in Delivered, NEW h \in {"first", "again"}, Route(m, h),
         \A n \in Messages : QueueOwned(n)
  PROVE  \A n \in Messages : QueueOwned(n)'
<1>0. /\ m \in Messages /\ QueueOwned(m) /\ h \in handler[m] /\ m \in Messages
      /\ handler \in [Messages -> SUBSET {"first", "again"}]
      /\ handler' = [handler EXCEPT ![m] = @ \ {h}]
      /\ UNCHANGED <<nature, stored, overlapped>>
  BY PipelineAssumption DEF Ambient, Base, WebhookTypeOK, Route, Ends
<1>1. ASSUME NEW n \in Messages, n # m PROVE QueueOwned(n)'
  <2>1. RowsStay(n)
    BY <1>1, RouteRows
  <2>2. handler'[n] = handler[n] /\ QueueOwned(n)
    BY <1>0, <1>1
  <2> QED  BY <1>0, <2>1, <2>2, OwnedStays DEF RowsStay
<1>2. QueueOwned(m)'
  <2> SUFFICES ASSUME m \notin overlapped' PROVE QueueOwned(m)'
    BY DEF QueueOwned
  <2>1. OneOwner(Paper(m), m \in stored, handler[m],
                 HasStation(m), HasPartner(m), HasMedia(m), HasContador(m))
    BY <1>0 DEF QueueOwned
  <2>2. handler'[m] = handler[m] \ {h} /\ handler[m] \subseteq {"first", "again"}
    BY <1>0
  <2>3. /\ Paper(m)' <=> Paper(m)
        /\ (m \in stored)' <=> m \in stored
    BY <1>0 DEF Paper
  <2>4. CASE h = "first"
    <3>1. /\ ~HasStation(m) /\ ~HasPartner(m) /\ ~HasMedia(m) /\ ~HasContador(m)
          /\ handler'[m] = {} /\ m \in stored
      BY <1>0, <2>1, <2>2, <2>4 DEF OneOwner
    <3> QED  BY <2>3, <2>4, <3>1, RouteRows DEF OneOwner, QueueOwned, RowsStay
  <2>5. CASE h = "again"
    <3>1. handler'[m] = {} /\ m \in stored
      BY <1>0, <2>1, <2>2, <2>5 DEF OneOwner
    <3>2. ~Paper(m) /\ HasContador(m) => HasMedia(m)
      BY <1>0, <2>1, <2>5 DEF OneOwner
    <3> QED  BY <2>1, <2>3, <2>5, <3>1, <3>2, RouteRows DEF OneOwner, QueueOwned, RowsStay
  <2> QED  BY <2>4, <2>5
<1> QED  BY <1>1, <1>2

LEMMA WebhookOwns ==
  ASSUME Ambient, NEW m \in Delivered, \A n \in Messages : QueueOwned(n),
         \/ Deliver(m) \/ Redeliver(m) \/ StationProceeds(m)
         \/ \E h \in {"first", "again"} : Refuse503(m, h)
  PROVE  \A n \in Messages : QueueOwned(n)'
<1>0. /\ m \in Messages /\ QueueOwned(m) /\ UNCHANGED <<nature, Queues>>
      /\ handler \in [Messages -> SUBSET {"first", "again"}]
      /\ station \in [Messages -> {"none", "claimed", "further"}]
      /\ WebhookTypeOK
  BY PipelineAssumption DEF Ambient, Base, WebhookTypeOK, Deliver, Redeliver, StationProceeds,
                            Refuse503
<1>1. \A n \in Messages : RowsStay(n)
  BY <1>0 DEF Deliver, Redeliver, StationProceeds, Refuse503, Queues, contadorVars,
              routerVars, partnerVars, RowsStay, HasStation, HasPartner, HasMedia, HasContador
<1>2. \A n \in Messages \ {m} :
        /\ handler'[n] = handler[n]
        /\ n \in stored' <=> n \in stored
        /\ n \in overlapped' <=> n \in overlapped
  BY <1>0 DEF Deliver, Redeliver, StationProceeds, Refuse503, Ends
<1>3. ASSUME NEW n \in Messages, n # m PROVE QueueOwned(n)'
  <2>1. QueueOwned(n) /\ RowsStay(n) /\ (Paper(n)' <=> Paper(n))
    BY <1>0, <1>1 DEF Paper
  <2> QED  BY <1>2, <1>3, <2>1 DEF QueueOwned, OneOwner, RowsStay
<1>4. QueueOwned(m)'
  <2> SUFFICES ASSUME m \notin overlapped' PROVE QueueOwned(m)'
    BY DEF QueueOwned
  <2>1. RowsStay(m) /\ (Paper(m)' <=> Paper(m))
    BY <1>0, <1>1 DEF Paper
  <2>2. m \notin overlapped
    BY DEF Deliver, Redeliver, StationProceeds, Refuse503
  <2>3. OneOwner(Paper(m), m \in stored, handler[m],
                 HasStation(m), HasPartner(m), HasMedia(m), HasContador(m))
    BY <1>0, <2>2 DEF QueueOwned
  <2>4. CASE Deliver(m)
    <3>1. handler'[m] = {"first"} /\ m \in stored' /\ m \notin stored
      BY <1>0, <2>3, <2>4 DEF Deliver, OneOwner
    <3> QED  BY <2>1, <2>3, <3>1 DEF OneOwner, QueueOwned, RowsStay
  <2>5. CASE Redeliver(m)
    <3>1. m \in stored /\ m \in stored'
      BY <2>5 DEF Redeliver
    <3>2. CASE handler'[m] = handler[m]
      BY <2>1, <2>3, <3>1, <3>2 DEF OneOwner, QueueOwned, RowsStay
    <3>3. CASE handler'[m] = handler[m] \cup {"again"} /\ "first" \notin handler[m]
               /\ ~OwnedDurably(m)
      <4>1. ~HasContador(m)
        BY <3>3 DEF OwnedDurably, HasContador
      <4> QED  BY <2>1, <2>3, <3>1, <3>3, <4>1 DEF OneOwner, QueueOwned, RowsStay
    <3> QED  BY <1>0, <2>5, <3>2, <3>3 DEF Redeliver
  <2>6. CASE StationProceeds(m) \/ \E h \in {"first", "again"} : Refuse503(m, h)
    <3>1. /\ handler'[m] \subseteq handler[m]
          /\ m \in stored' <=> m \in stored
      BY <1>0, <2>6 DEF StationProceeds, Refuse503, Ends
    <3> QED  BY <2>1, <2>3, <3>1 DEF OneOwner, QueueOwned, RowsStay
  <2> QED  BY <2>4, <2>5, <2>6
<1> QED  BY <1>3, <1>4

LEMMA OwnedKeeps ==
  ASSUME Ambient, [WholeNext]_pipelineVars, \A n \in Messages : QueueOwned(n)
  PROVE  \A n \in Messages : QueueOwned(n)'
<1>0. /\ Base /\ RouterInv /\ ContadorIInv /\ PartnerIInv /\ ContadorTypeOK
  BY DEF Ambient, Base, ContadorIInv
<1>1. ASSUME UNCHANGED <<nature, stored, overlapped, station>>,
             handler' = handler \/ handler' = [m \in Messages |-> {}],
             PartnerRowsStay,
             \A n \in Messages :
               /\ mediaJob[n].status = "none" <=> mediaJob'[n].status = "none"
               /\ \/ contadorJob[n].status = "none" <=> contadorJob'[n].status = "none"
                  \/ mediaJob[n].status # "none"
      PROVE  \A n \in Messages : QueueOwned(n)'
  <2> SUFFICES ASSUME NEW n \in Messages PROVE QueueOwned(n)'
    OBVIOUS
  <2>1. QueueOwned(n) /\ handler'[n] \in {handler[n], {}}
    BY <1>1
  <2> QED  BY <1>1, <2>1, OwnedStays
              DEF PartnerRowsStay, HasStation, HasPartner, HasMedia, HasContador
<1>2. CASE QueueStep
  <2>0. UNCHANGED <<nature, stored, overlapped, station, handler>>
    BY <1>2 DEF QueueStep, webhookVars
  <2>1. CASE HandOver /\ UNCHANGED <<approvalVars, contadorVars, routerVars>>
    BY <1>1, <2>0, <2>1 DEF HandOver, PartnerRowsStay, contadorVars, routerVars
  <2>2. ASSUME NEW m \in Messages, MediaWork(m), UNCHANGED partnerVars
        PROVE  \A n \in Messages : QueueOwned(n)'
    <3>1. MediaMoves(m)
      BY <1>0, <2>2, MediaWorkTypes
    <3>2. \/ UNCHANGED contadorVars
          \/ \E kind \in {"image", "other"} : Enqueue(m, kind) \/ Defer(m, kind)
      BY <1>0, <2>2, MediaWorkQueues
    <3>3. \A n \in Messages \ {m} : contadorJob'[n] = contadorJob[n]
      BY <1>0, <3>2, QueuedRow DEF contadorVars
    <3> QED  BY <1>1, <2>0, <2>2, <3>1, <3>3 DEF MediaMoves, PartnerRowsStay, partnerVars
  <2>3. ASSUME NEW m \in Messages, RouterClock(m), UNCHANGED partnerVars
        PROVE  \A n \in Messages : QueueOwned(n)'
    <3>1. UNCHANGED contadorVars
      BY <2>3 DEF RouterClock, MediaFallsDue, EventFallsDue, Others
    <3> QED  BY <1>0, <1>1, <2>0, <2>3, <3>1, RouterClockTypes
                DEF PartnerRowsStay, partnerVars, contadorVars
  <2>4. CASE EventWork /\ UNCHANGED partnerVars
    <3>1. UNCHANGED <<contadorVars, mediaJob>>
      BY <2>4 DEF EventWork, BeginEventPass, EventTaken, EventFails, Posted, Others
    <3> QED  BY <1>1, <2>0, <2>4, <3>1 DEF PartnerRowsStay, partnerVars, contadorVars
  <2> QED  BY <1>2, <2>1, <2>2, <2>3, <2>4 DEF QueueStep, RouterStep
<1>3. CASE Restart
  <2>1. PartnerRowsStay /\ ContadorRowsStay
    BY <1>0, <1>3, PartnerStepKeeps, ContadorStepRows DEF Restart
  <2> QED  BY <1>0, <1>1, <1>3, <2>1, RouterRestartTypes DEF Restart, ContadorRowsStay
<1>4. CASE OtherQueues
  <2>1. ContadorRowsStay
    BY <1>0, <1>4, ContadorStepRows DEF OtherQueues
  <2>2. PartnerRowsStay
    BY <1>0, <1>4, PartnerStepKeeps DEF OtherQueues
  <2> QED  BY <1>1, <1>4, <2>1, <2>2 DEF OtherQueues, ContadorRowsStay, webhookVars, routerVars
<1>5. CASE UNCHANGED pipelineVars
  BY <1>1, <1>5 DEF pipelineVars, webhookVars, PartnerRowsStay, partnerVars, contadorVars,
                    routerVars
<1> QED  BY <1>2, <1>3, <1>4, <1>5, RouteOwns, WebhookOwns DEF WholeNext, PipelineNext

LEMMA PipelineInvariant ==
  WholeSpec => [](Ambient /\ \A m \in Messages : Given(m) /\ QueueOwned(m))
<1> DEFINE Inv == \A m \in Messages : Given(m) /\ QueueOwned(m)
<1>1. PipelineInit => Inv
  <2> SUFFICES ASSUME PipelineInit, NEW m \in Messages PROVE Given(m) /\ QueueOwned(m)
    OBVIOUS
  <2>1. Given(m)
    BY DEF PipelineInit, RouterInit, ApprovalInit, NoEvent, Given, Kinds
  <2>2. /\ ~HasStation(m) /\ ~HasPartner(m) /\ ~HasMedia(m) /\ ~HasContador(m)
        /\ handler[m] = {}
    BY DEF PipelineInit, RouterInit, PartnerInit, ContadorInit, NoPartnerJob, NoMediaJob,
           NoContadorJob, HasStation, HasPartner, HasMedia, HasContador
  <2>3. QueueOwned(m)
    BY <2>2 DEF QueueOwned, OneOwner
  <2> QED  BY <2>1, <2>3
<1>2. Ambient /\ Inv /\ [WholeNext]_pipelineVars => Inv'
  <2> SUFFICES ASSUME Ambient, Inv, [WholeNext]_pipelineVars PROVE Inv'
    OBVIOUS
  <2>1. (\A m \in Messages : Given(m)) /\ \A m \in Messages : QueueOwned(m)
    OBVIOUS
  <2> QED  BY <2>1, GivenKeeps, OwnedKeeps
<1> HIDE DEF Inv
<1>3. WholeSpec => [](Ambient /\ Inv)
  BY <1>1, <1>2, AmbientInvariant, PTL DEF WholeSpec
<1> QED  BY <1>3 DEF Inv

LEMMA GivenToOne ==
  ASSUME \A m \in Messages : Given(m) /\ QueueOwned(m)
  PROVE  OneOutlet
<1> SUFFICES ASSUME NEW m \in Messages
    PROVE  /\ analysis[m] \in Kinds =>
                IF ForContador(m, analysis[m])
                  THEN contadorJob[m].status # "none" /\ event[m].status = "none"
                  ELSE proposal[m].status = "none" <=> event[m].status # "none"
           /\ proposal[m].status # "none" => event[m].status = "none"
  BY DEF OneOutlet
<1>1. Given(m)
  OBVIOUS
<1> QED  BY <1>1 DEF Given

LEMMA OwnedByOne ==
  ASSUME \A m \in Messages : Given(m) /\ QueueOwned(m)
  PROVE  OneAnswererInOrder
<1> SUFFICES ASSUME NEW m \in Messages \ overlapped
    PROVE  Cardinality(Answerers(m)) <= 1
  BY DEF OneAnswererInOrder
<1>1. /\ HasStation(m) => ~HasPartner(m) /\ ~HasMedia(m) /\ ~HasContador(m)
      /\ HasPartner(m) => ~HasMedia(m) /\ ~HasContador(m)
  BY DEF QueueOwned, OneOwner
<1>2. Answerers(m) = {} \/ \E q : Answerers(m) = {q}
  <2>1. Answerers(m) \in {{}, {"station"}, {"partner"}, {"media"}, {"contador"}}
    BY <1>1 DEF Answerers, HasStation, HasPartner, HasMedia, HasContador
  <2> QED  BY <2>1
<1>3. Cardinality({}) = 0 /\ \A q : Cardinality({q}) = 1
  BY FS_EmptySet, FS_Singleton
<1>4. Cardinality(Answerers(m)) \in {0, 1}
  BY <1>2, <1>3
<1> QED  BY <1>4

-----------------------------------------------------------------------------
(***************************************************************************)
(* What holds of the whole, and of the pipeline                            *)
(***************************************************************************)

\* With all its queues at work, through replays and restarts, the support copilot
\* gives a message to one queue, hands it out once, answers it once, asks about it
\* again only if it was refused, and books it as it was settled.
THEOREM WholeKeepsPromises ==
  WholeSpec => [](/\ OneAnswererInOrder /\ OneOutlet
                  /\ AnsweredOnce /\ SentMeansAnswered
                  /\ AskedAgainOnlyIfRefused /\ LedgerMatches)
<1>1. (\A m \in Messages : Given(m) /\ QueueOwned(m)) => OneAnswererInOrder /\ OneOutlet
  BY GivenToOne, OwnedByOne
<1>2. PartnerIInv => SentMeansAnswered
  BY DEF PartnerIInv, AtWork, SentMeansAnswered
<1> QED
  BY <1>1, <1>2, PipelineInvariant, QueuesCompose, PartnerInvariant, AnsweredOnceHolds,
     AskedAgainOnlyIfRefusedHolds, LedgerMatchesHolds, PTL

\* Without what the other queues do with their rows it is the pipeline.
LEMMA PipelineInWhole == PipelineSpec => WholeSpec
<1>1. [PipelineNext]_pipelineVars => [WholeNext]_pipelineVars
  BY DEF WholeNext
<1> QED  BY <1>1, PTL DEF PipelineSpec, WholeSpec

\* The webhook, the media queue and the rows they make keep their types.
THEOREM PipelineTypeCorrect == PipelineSpec => []PipelineTypeOK
<1>1. Base => PipelineTypeOK
  BY DEF Base, WebhookTypeOK, RouterInv, PipelineTypeOK
<1> QED  BY <1>1, BaseInvariant, PipelineInWhole, PTL

\* Whatever fails, crashes or is repeated, a message that was read is given to one
\* of the Contador, an approval and the central API.
THEOREM OneOutletHolds == PipelineSpec => []OneOutlet
  BY WholeKeepsPromises, PipelineInWhole, PTL

\* Two queues never answer one message, unless a webhook that is delivered again
\* overtakes its own first handler.
THEOREM OneAnswererInOrderHolds == PipelineSpec => []OneAnswererInOrder
  BY WholeKeepsPromises, PipelineInWhole, PTL
=============================================================================
