---------------------------- MODULE CopilotProofs ----------------------------
(***************************************************************************)
(* Proofs about the parts of the support copilot beside its queues: the    *)
(* accountant's closings, notices and memory, who owns a conversation,     *)
(* what is sent in it and whose it is, and the gateway it is sent through. *)
(***************************************************************************)
EXTENDS ContadorNotices, ContadorMemory, CopilotConversation, OperatorReplies,
        CustomerIdentity, WhatsAppGateway, TLAPS

Seqs == INSTANCE SequenceTheorems

-----------------------------------------------------------------------------
(***************************************************************************)
(* The closings                                                            *)
(***************************************************************************)
Claimable(m) ==
  \/ closing[m].status \in {"none", "pending"}
  \/ Retryable(m) /\ ~closing[m].wait

\* What the table says of a month: before its post nothing reached the group.
RunOK(m) ==
  /\ summaries[m] <= 1
  /\ closing[m].status \in {"none", "pending", "processing", "failed"} => summaries[m] = 0
  /\ closing[m].status \in {"none", "pending"} => closing[m].attempts = 0
  /\ closing[m].status \in {"processing", "sending"} => m = doing

\* The month in hand, by how far it is.
DoingOK ==
  doing # 0 =>
    /\ closing[doing].status = IF step = "analysis" THEN "processing" ELSE "sending"
    /\ step # "posted" => summaries[doing] = 0
    /\ \A k \in Months : k < doing => Settled(k)

\* A month on the list is due, and what is older is settled, in hand or on the
\* list before it.
ListedOK ==
  \A m \in listed :
    /\ Claimable(m)
    /\ \A k \in Months : k < m => Settled(k) \/ k \in listed \/ k = doing

ClosingIInv ==
  ClosingTypeOK /\ (\A m \in Months : RunOK(m)) /\ DoingOK /\ ListedOK

-----------------------------------------------------------------------------
LEMMA DoingIsMonth ==
  ASSUME ClosingTypeOK, doing # 0
  PROVE  doing \in Months
  BY ClosingAssumption DEF ClosingTypeOK, Months

\* Set, as the type sees it.
LEMMA SetRun ==
  ASSUME ClosingTypeOK, NEW m \in Months, NEW s \in RunStatuses, NEW w \in BOOLEAN,
         Set(m, s, w)
  PROVE  /\ closing' \in [Months -> [status : RunStatuses, attempts : 0..MaxAttempts,
                                     wait : BOOLEAN]]
         /\ closing'[m].status = s /\ closing'[m].wait = w
         /\ closing'[m].attempts = closing[m].attempts
         /\ \A k \in Months \ {m} : closing'[k] = closing[k]
  BY DEF Set, ClosingTypeOK

\* The month in hand takes its next step.
LEMMA InHandKeeps ==
  ASSUME ClosingIInv, doing # 0, NEW s \in RunStatuses, NEW w \in BOOLEAN,
         Set(doing, s, w), UNCHANGED through,
         \/ s \in {"sent", "silent"} /\ listed' = listed /\ doing' = 0
         \/ s \in {"failed", "delivery_unknown"} /\ listed' = {} /\ doing' = 0
         \/ s = "sending" /\ listed' = listed /\ doing' = doing /\ step' = "fenced",
         step' \in {"analysis", "fenced", "posted"}, UNCHANGED summaries,
         s \in {"failed", "sending"} => summaries[doing] = 0
  PROVE  ClosingIInv'
<1>1. ClosingTypeOK /\ doing \in Months /\ DoingOK /\ ListedOK
  BY DoingIsMonth DEF ClosingIInv
<1>2. /\ closing' \in [Months -> [status : RunStatuses, attempts : 0..MaxAttempts,
                                  wait : BOOLEAN]]
      /\ closing'[doing].status = s
      /\ closing'[doing].attempts = closing[doing].attempts
      /\ \A k \in Months \ {doing} : closing'[k] = closing[k]
  BY <1>1, SetRun
<1>3. ClosingTypeOK'
  <2>1. listed' = listed \/ listed' = {}
    OBVIOUS
  <2>2. doing' = doing \/ doing' = 0
    OBVIOUS
  <2>3. 0 \in 0..MaxMonth
    BY ClosingAssumption
  <2>4. listed' \subseteq Months
    BY <1>1, <2>1 DEF ClosingTypeOK
  <2>5. doing' \in 0..MaxMonth
    BY <1>1, <2>2, <2>3 DEF ClosingTypeOK
  <2> QED  BY <1>1, <1>2, <2>4, <2>5 DEF ClosingTypeOK
<1>4. ASSUME NEW m \in Months PROVE RunOK(m)'
  BY <1>2, <1>4 DEF ClosingIInv, RunOK
<1>5. \A k \in Months \ {doing} : Settled(k) => Settled(k)'
  BY <1>2 DEF Settled
<1>6. DoingOK'
  BY <1>1, <1>2, <1>5, ClosingAssumption DEF DoingOK, Months
<1>7. ListedOK'
  <2> SUFFICES ASSUME NEW m \in listed' PROVE
        /\ Claimable(m)'
        /\ \A k \in Months : k < m => Settled(k)' \/ k \in listed' \/ k = doing'
    BY DEF ListedOK
  <2>1. m \in listed /\ listed' = listed /\ m \in Months
    BY <1>1 DEF ClosingTypeOK
  <2>2. m # doing
    BY <1>1, <2>1 DEF ListedOK, DoingOK, Claimable, Retryable
  <2>3. Claimable(m)'
    BY <1>1, <1>2, <2>1, <2>2 DEF ListedOK, Claimable, Retryable
  <2>4. ASSUME NEW k \in Months, k < m
        PROVE  Settled(k)' \/ k \in listed' \/ k = doing'
    <3>1. Settled(k) \/ k \in listed \/ k = doing
      BY <1>1, <2>1, <2>4 DEF ListedOK
    <3>2. CASE k = doing
      BY <1>2, <2>1, <3>2 DEF Settled
    <3>3. CASE k # doing
      BY <1>5, <2>1, <3>1, <3>3, <2>4
    <3> QED  BY <3>2, <3>3
  <2> QED  BY <2>3, <2>4
<1> QED  BY <1>3, <1>4, <1>6, <1>7 DEF ClosingIInv

LEMMA PassIsInOrder ==
  ASSUME ClosingIInv, ClosingPass
  PROVE  ClosingIInv'
<1>1. /\ ClosingTypeOK /\ listed' = DueRuns /\ doing = 0
      /\ UNCHANGED <<closing, through, doing, step, summaries>>
  BY DEF ClosingIInv, ClosingPass
<1>2. DueRuns \subseteq Months
  BY <1>1, ClosingAssumption DEF DueRuns, ClosingTypeOK, Months
<1>3. ListedOK'
  <2> SUFFICES ASSUME NEW m \in DueRuns PROVE
        /\ Claimable(m)
        /\ \A k \in Months : k < m => Settled(k) \/ k \in DueRuns
    BY <1>1 DEF ListedOK, Claimable, Retryable, Settled
  <2>1. m \in 1..through /\ Claimable(m) /\ \A k \in 1..(m - 1) : ~Blocks(k)
    BY DEF DueRuns, Claimable
  <2>2. ASSUME NEW k \in Months, k < m PROVE Settled(k) \/ k \in DueRuns
    <3>1. /\ k \in 1..(m - 1) /\ k \in 1..through /\ m \in Months
          /\ \A i \in 1..(k - 1) : i \in 1..(m - 1)
      BY <1>1, <1>2, <2>1, <2>2 DEF ClosingTypeOK, Months
    <3>2. ~Blocks(k) /\ \A i \in 1..(k - 1) : ~Blocks(i)
      BY <2>1, <3>1
    <3>3. closing[k].status \notin {"processing", "sending"}
      BY <1>1, <3>1, <2>2, ClosingAssumption DEF ClosingIInv, RunOK, Months
    <3>4. closing[k].status \in RunStatuses /\ closing[k].attempts \in 0..MaxAttempts
      BY <1>1, <2>2 DEF ClosingTypeOK
    <3>5. CASE Claimable(k)
      BY <3>1, <3>2, <3>5 DEF DueRuns, Claimable
    <3>6. CASE ~Claimable(k)
      BY <3>2, <3>3, <3>4, <3>6, ClosingAssumption
         DEF Claimable, Blocks, Retryable, Settled, RunStatuses
    <3> QED  BY <3>5, <3>6
  <2> QED  BY <2>1, <2>2
<1>4. ClosingTypeOK'
  BY <1>1, <1>2 DEF ClosingTypeOK
<1>5. \A m \in Months : RunOK(m)'
  BY <1>1 DEF ClosingIInv, RunOK
<1>6. DoingOK'
  BY <1>1 DEF DoingOK
<1> QED  BY <1>3, <1>4, <1>5, <1>6 DEF ClosingIInv

LEMMA ClaimIsInOrder ==
  ASSUME ClosingIInv, NEW m \in Months, ClaimRun(m)
  PROVE  ClosingIInv'
<1> DEFINE row == MonthRun("processing", closing[m].attempts + 1, FALSE)
<1>0. ClosingTypeOK /\ RunOK(m) /\ ListedOK /\ m \in listed /\ doing = 0
  BY DEF ClosingIInv, ClaimRun
<1>1. Claimable(m)
  BY <1>0 DEF ListedOK
<1>2. /\ closing' = [closing EXCEPT ![m] = row]
      /\ doing' = m /\ step' = "analysis" /\ listed' = listed \ {m}
      /\ UNCHANGED <<through, summaries>> /\ \A k \in listed : m <= k
  BY <1>0, <1>1 DEF ClaimRun, Claimable, ClosingTypeOK, MonthRun
<1>3. closing[m].attempts + 1 \in 0..MaxAttempts
  BY <1>0, <1>1, ClosingAssumption DEF RunOK, Claimable, Retryable, ClosingTypeOK
<1>4. /\ row \in [status : RunStatuses, attempts : 0..MaxAttempts, wait : BOOLEAN]
      /\ row.status = "processing"
  BY <1>3 DEF MonthRun, RunStatuses
<1> HIDE DEF row
<1>5. /\ closing' \in [Months -> [status : RunStatuses, attempts : 0..MaxAttempts,
                                  wait : BOOLEAN]]
      /\ closing'[m].status = "processing"
      /\ \A k \in Months \ {m} : closing'[k] = closing[k]
  BY <1>0, <1>2, <1>4 DEF ClosingTypeOK
<1>6. ClosingTypeOK'
  BY <1>0, <1>2, <1>5 DEF ClosingTypeOK, Months
<1>7. m # 0 /\ summaries[m] = 0
  BY <1>0, <1>1 DEF RunOK, Claimable, Retryable, Months
<1>8. ASSUME NEW k \in Months PROVE RunOK(k)'
  <2>1. closing[k].status \in {"processing", "sending"} => FALSE
    BY <1>0, <1>8 DEF ClosingIInv, RunOK, Months
  <2> QED  BY <1>2, <1>5, <1>7, <1>8, <2>1 DEF ClosingIInv, RunOK
<1>9. ASSUME NEW k \in Months, k < m PROVE Settled(k)'
  <2>1. k \notin listed /\ k # doing /\ k # m
    BY <1>0, <1>2, <1>9 DEF Months
  <2> QED  BY <1>0, <1>5, <1>9, <2>1 DEF ListedOK, Settled
<1>10. DoingOK'
  BY <1>2, <1>5, <1>7, <1>9 DEF DoingOK
<1>11. ListedOK'
  <2> SUFFICES ASSUME NEW n \in listed, n # m PROVE
        /\ Claimable(n)'
        /\ \A k \in Months : k < n => Settled(k)' \/ k \in listed' \/ k = doing'
    BY <1>2 DEF ListedOK
  <2>1. n \in Months /\ closing'[n] = closing[n]
    BY <1>0, <1>5 DEF ClosingTypeOK
  <2>2. Claimable(n)'
    BY <1>0, <2>1 DEF ListedOK, Claimable, Retryable
  <2>3. ASSUME NEW k \in Months, k < n PROVE Settled(k)' \/ k \in listed' \/ k = doing'
    <3>1. CASE k = m   BY <1>2, <3>1
    <3>2. CASE k # m
      <4>1. Settled(k) \/ k \in listed \/ k = doing
        BY <1>0, <2>3 DEF ListedOK
      <4>2. k # doing
        BY <1>0 DEF Months
      <4> QED  BY <1>2, <1>5, <3>2, <4>1, <4>2 DEF Settled
    <3> QED  BY <3>1, <3>2
  <2> QED  BY <2>2, <2>3
<1> QED  BY <1>6, <1>8, <1>10, <1>11 DEF ClosingIInv

LEMMA ReachesOnce ==
  ASSUME ClosingIInv, SummaryReaches
  PROVE  ClosingIInv'
<1>1. /\ ClosingTypeOK /\ DoingOK /\ doing \in Months /\ doing # 0 /\ step = "fenced"
      /\ summaries' = [summaries EXCEPT ![doing] = @ + 1] /\ step' = "posted"
      /\ UNCHANGED <<closing, through, listed, doing>>
  BY DoingIsMonth DEF ClosingIInv, SummaryReaches
<1>2. /\ summaries' \in [Months -> Nat] /\ summaries'[doing] = 1
      /\ \A k \in Months \ {doing} : summaries'[k] = summaries[k]
      /\ closing[doing].status = "sending"
  BY <1>1 DEF ClosingTypeOK, DoingOK
<1>3. ClosingTypeOK'
  BY <1>1, <1>2 DEF ClosingTypeOK
<1>4. ASSUME NEW m \in Months PROVE RunOK(m)'
  <2>1. CASE m = doing   BY <1>1, <1>2, <2>1 DEF ClosingIInv, RunOK
  <2>2. CASE m # doing   BY <1>1, <1>2, <2>2 DEF ClosingIInv, RunOK
  <2> QED  BY <2>1, <2>2
<1>5. DoingOK'
  BY <1>1, <1>2 DEF DoingOK, Settled
<1>6. ListedOK'
  BY <1>1 DEF ClosingIInv, ListedOK, Claimable, Retryable, Settled
<1> QED  BY <1>3, <1>4, <1>5, <1>6 DEF ClosingIInv

LEMMA WorkIsInOrder ==
  ASSUME ClosingIInv, ClosingStep
  PROVE  ClosingIInv'
<1>0. ClosingTypeOK /\ DoingOK /\ (doing # 0 => doing \in Months /\ RunOK(doing))
  BY DoingIsMonth DEF ClosingIInv
<1>1. CASE NothingToSay
  BY <1>0, <1>1, InHandKeeps DEF NothingToSay, RunStatuses, ClosingTypeOK
<1>2. CASE FenceSummary
  <2>1. closing[doing].wait \in BOOLEAN /\ summaries[doing] = 0
    BY <1>0, <1>2 DEF FenceSummary, ClosingTypeOK, DoingOK
  <2> QED  BY <1>0, <1>2, <2>1, InHandKeeps DEF FenceSummary, RunStatuses
<1>3. CASE SummarySent
  BY <1>0, <1>3, InHandKeeps DEF SummarySent, RunStatuses, ClosingTypeOK
<1>4. CASE SummaryFails
  <2>1. PICK s \in {"failed", "delivery_unknown"}, w \in BOOLEAN :
          Set(doing, s, w) /\ (s = "failed" => step # "posted")
    BY <1>4 DEF SummaryFails
  <2>2. s \in RunStatuses /\ (s = "failed" => summaries[doing] = 0)
    BY <1>0, <1>4, <2>1 DEF SummaryFails, RunStatuses, DoingOK
  <2> QED  BY <1>0, <1>4, <2>1, <2>2, InHandKeeps DEF SummaryFails, ClosingTypeOK
<1> QED
  BY <1>1, <1>2, <1>3, <1>4, PassIsInOrder, ClaimIsInOrder, ReachesOnce
     DEF ClosingStep

LEMMA ClockKeepsOrder ==
  ASSUME ClosingIInv, ClosingClock
  PROVE  ClosingIInv'
<1>1. CASE ScheduleReached
  BY <1>1, ClosingAssumption
     DEF ScheduleReached, ClosingIInv, ClosingTypeOK, RunOK, DoingOK, ListedOK,
         Claimable, Retryable, Settled
<1>2. CASE RetryDue
  <2>1. PICK m \in Months : Set(m, closing[m].status, FALSE)
    BY <1>2 DEF RetryDue
  <2>2. ClosingTypeOK /\ closing[m].status \in RunStatuses
        /\ UNCHANGED <<through, listed, doing, step, summaries>>
    BY <1>2 DEF RetryDue, ClosingIInv, ClosingTypeOK
  <2>3. /\ closing' \in [Months -> [status : RunStatuses, attempts : 0..MaxAttempts,
                                    wait : BOOLEAN]]
        /\ ~closing'[m].wait
        /\ \A k \in Months : /\ closing'[k].status = closing[k].status
                             /\ closing'[k].attempts = closing[k].attempts
                             /\ k # m => closing'[k] = closing[k]
    BY <2>1, <2>2, SetRun
  <2>4. ClosingTypeOK'
    BY <2>2, <2>3 DEF ClosingTypeOK
  <2>5. \A k \in Months : RunOK(k)'
    BY <2>2, <2>3 DEF ClosingIInv, RunOK
  <2>6. \A k \in Months : Settled(k)' <=> Settled(k)
    BY <2>3 DEF Settled
  <2>7. DoingOK'
    BY <2>2, <2>3, <2>6, DoingIsMonth DEF ClosingIInv, DoingOK
  <2>8. \A k \in Months : Claimable(k) => Claimable(k)'
    BY <2>3 DEF Claimable, Retryable
  <2>9. ListedOK'
    BY <2>2, <2>6, <2>8 DEF ClosingIInv, ListedOK, ClosingTypeOK
  <2> QED  BY <2>4, <2>5, <2>7, <2>9 DEF ClosingIInv
<1> QED  BY <1>1, <1>2 DEF ClosingClock

LEMMA RecoveredStatus ==
  ASSUME NEW r
  PROVE  /\ RecoveredRun(r).status \notin {"processing", "sending"}
         /\ RecoveredRun(r).status = "failed" => r.status \in {"processing", "failed"}
         /\ RecoveredRun(r).status \in {"none", "pending"} => RecoveredRun(r) = r
<1>1. CASE r.status = "processing"
  BY <1>1 DEF RecoveredRun, MonthRun
<1>2. CASE r.status = "sending"
  BY <1>2 DEF RecoveredRun, MonthRun
<1>3. CASE r.status \notin {"processing", "sending"}
  BY <1>3 DEF RecoveredRun
<1> QED  BY <1>1, <1>2, <1>3

LEMMA RestartKeepsOrder ==
  ASSUME ClosingIInv, ClosingRestart
  PROVE  ClosingIInv'
<1>1. /\ ClosingTypeOK /\ listed' = {} /\ doing' = 0 /\ step' = "analysis"
      /\ UNCHANGED <<through, summaries>>
      /\ \A m \in Months : closing'[m] = RecoveredRun(closing[m])
  BY DEF ClosingIInv, ClosingRestart
<1>2. closing' \in [Months -> [status : RunStatuses, attempts : 0..MaxAttempts,
                               wait : BOOLEAN]]
  BY <1>1 DEF ClosingRestart, ClosingTypeOK, RecoveredRun, MonthRun, RunStatuses
<1>3. ClosingTypeOK'
  BY <1>1, <1>2, ClosingAssumption DEF ClosingTypeOK
<1>4. ASSUME NEW m \in Months PROVE RunOK(m)'
  <2>1. /\ closing'[m].status \notin {"processing", "sending"}
        /\ closing'[m].status = "failed" =>
             closing[m].status \in {"processing", "failed"}
        /\ closing'[m].status \in {"none", "pending"} => closing'[m] = closing[m]
    BY <1>1, RecoveredStatus
  <2> QED  BY <1>1, <2>1 DEF ClosingIInv, RunOK
<1>5. DoingOK'
  BY <1>1 DEF DoingOK
<1>6. ListedOK'
  BY <1>1 DEF ListedOK
<1> QED  BY <1>3, <1>4, <1>5, <1>6 DEF ClosingIInv

LEMMA ClosingInvariant == ClosingSpec => []ClosingIInv
<1>1. ClosingInit => ClosingIInv
  <2> SUFFICES ASSUME ClosingInit PROVE ClosingIInv
    OBVIOUS
  <2>1. ClosingTypeOK
    BY ClosingAssumption DEF ClosingInit, ClosingTypeOK, MonthRun, RunStatuses
  <2> QED
    BY <2>1, ClosingAssumption
       DEF ClosingInit, ClosingIInv, RunOK, DoingOK, ListedOK, MonthRun
<1>2. ClosingIInv /\ [ClosingStep \/ ClosingClock \/ ClosingRestart]_closingVars
        => ClosingIInv'
  <2>1. ASSUME ClosingIInv, UNCHANGED closingVars PROVE ClosingIInv'
    BY <2>1 DEF closingVars, ClosingIInv, ClosingTypeOK, RunOK, DoingOK, ListedOK,
                Claimable, Retryable, Settled
  <2> QED  BY <2>1, WorkIsInOrder, ClockKeepsOrder, RestartKeepsOrder
<1> QED  BY <1>1, <1>2, PTL DEF ClosingSpec

\* The group reads a month's closing once at most, and a month is worked on only
\* when every older one is settled, for any number of months and of attempts.
THEOREM ClosedOnceInOrderHolds == ClosingSpec => []ClosedOnceInOrder
<1>1. ClosingIInv => ClosedOnceInOrder
  <2> SUFFICES ASSUME ClosingIInv PROVE ClosedOnceInOrder
    OBVIOUS
  <2>1. ClosedOnce
    BY DEF ClosingIInv, RunOK, ClosedOnce
  <2>2. ASSUME doing # 0, NEW k \in 1..(doing - 1) PROVE Settled(k)
    <3>1. doing \in Months
      BY <2>2, DoingIsMonth DEF ClosingIInv
    <3>2. k \in Months /\ k < doing
      BY <2>2, <3>1, ClosingAssumption DEF Months
    <3> QED  BY <2>2, <3>2 DEF ClosingIInv, DoingOK
  <2> QED  BY <2>1, <2>2 DEF ClosedOnceInOrder
<1> QED  BY <1>1, ClosingInvariant, PTL

-----------------------------------------------------------------------------
(***************************************************************************)
(* The rounds of questions                                                 *)
(***************************************************************************)
RoundStages == {"none", "gaps", "agent", "sent"}
RoundState == [at : RoundStages, begun : Nat, read : Nat, sent : Nat]

\* Nothing is dated later than today, nothing refers to a row that does not exist,
\* and the last row is no older than any question it stands for.
Stamped ==
  /\ date \in Nat /\ lastAsk \in [id : Nat, on : Nat] /\ lastAsk.on <= date
  /\ round \in [Rounds -> RoundState]
  /\ \A r \in Rounds : round[r].read <= lastAsk.id /\ round[r].sent <= date
  /\ kept \subseteq [on : Nat, row : Nat \ {0}]
  /\ \A a \in kept : a.row <= lastAsk.id /\ a.on <= lastAsk.on
  /\ asked \subseteq [on : Nat, read : Nat]
  /\ \A b \in asked : b.read <= lastAsk.id

\* Every question of the first rows, up to one, is AskEvery days old on day d.
Apart(questions, row, d) ==
  \A a \in questions : a.row <= row => a.on + AskEvery <= d

MemoryIInv ==
  /\ Stamped
  /\ \A r \in Rounds : round[r].at # "none" => Apart(kept, round[r].read, date)
  /\ AskedOncePerInterval

LEMMA StampedDay ==
  ASSUME Stamped
  PROVE  /\ \A r \in Rounds : round[r].read \in Nat /\ round[r].sent \in Nat
         /\ lastAsk.id \in Nat /\ lastAsk.on \in Nat /\ lastAsk.id + 1 \in Nat \ {0}
         /\ \A a \in kept : a.row \in Nat /\ a.on \in Nat
         /\ \A b \in asked : b.read \in Nat /\ b.on \in Nat
         /\ AskEvery \in Nat
  BY MemoryAssumption DEF Stamped, RoundState

\* A round that goes on, or ends, keeps the row it read.
LEMMA RoundGoesOn ==
  ASSUME Stamped, NEW r \in Rounds, NEW at \in RoundStages,
         round[r].at # "none",
         \/ round' = [round EXCEPT ![r].at = at]
         \/ round' = [round EXCEPT ![r] = NoRound]
  PROVE  /\ round' \in [Rounds -> RoundState]
         /\ \A s \in Rounds :
              /\ round'[s].read \in {0, round[s].read} /\ round'[s].sent \in {0, round[s].sent}
              /\ round'[s].at # "none" =>
                   round[s].at # "none" /\ round'[s].read = round[s].read
<1>1. round \in [Rounds -> RoundState]
  BY DEF Stamped
<1>2. /\ [round[r] EXCEPT !.at = at] \in RoundState
      /\ [round[r] EXCEPT !.at = at].read = round[r].read
      /\ [round[r] EXCEPT !.at = at].sent = round[r].sent
  BY <1>1 DEF RoundState
<1>3. /\ NoRound \in RoundState /\ NoRound.at = "none"
      /\ NoRound.read = 0 /\ NoRound.sent = 0
  BY DEF NoRound, RoundStages, RoundState
<1> HIDE DEF NoRound
<1>4. CASE round' = [round EXCEPT ![r].at = at]
  <2> DEFINE new == [round[r] EXCEPT !.at = at]
  <2>1. round' = [round EXCEPT ![r] = new]
    BY <1>4
  <2> HIDE DEF new
  <2>2. new \in RoundState /\ new.read = round[r].read /\ new.sent = round[r].sent
    BY <1>2 DEF new
  <2> QED  BY <1>1, <2>1, <2>2
<1>5. CASE round' = [round EXCEPT ![r] = NoRound]
  BY <1>1, <1>3, <1>5
<1> QED  BY <1>4, <1>5

LEMMA BeginRoundKeeps ==
  ASSUME MemoryIInv, NEW r \in Rounds, BeginRound(r)
  PROVE  MemoryIInv'
<1> DEFINE new == [at |-> "gaps", begun |-> date, read |-> lastAsk.id, sent |-> 0]
<1>0. /\ Stamped /\ UNCHANGED <<date, lastAsk, asked, kept>>
      /\ round' = [round EXCEPT ![r] = new]
      /\ lastAsk.id # 0 => date >= lastAsk.on + AskEvery
  BY DEF MemoryIInv, BeginRound, AskDue, history
<1>1. /\ new \in RoundState /\ new.read = lastAsk.id /\ new.sent = 0
      /\ round \in [Rounds -> RoundState] /\ date \in Nat
  BY <1>0, StampedDay DEF RoundStages, RoundState, Stamped
<1> HIDE DEF new
<1>2. /\ round' \in [Rounds -> RoundState] /\ round'[r] = new
      /\ \A s \in Rounds \ {r} : round'[s] = round[s]
  BY <1>0, <1>1
<1>3. Apart(kept, lastAsk.id, date)
  <2> SUFFICES ASSUME NEW a \in kept PROVE a.on + AskEvery <= date
    BY DEF Apart
  <2>1. lastAsk.id # 0 /\ a.on <= lastAsk.on
    BY <1>0, StampedDay DEF Stamped
  <2>2. a.on \in Nat /\ lastAsk.on \in Nat /\ AskEvery \in Nat /\ date \in Nat
    BY <1>0, <1>1, StampedDay
  <2> QED  BY <1>0, <2>1, <2>2
<1>4. Stamped'
  <2>1. \A s \in Rounds : round'[s].read <= lastAsk'.id /\ round'[s].sent <= date'
    BY <1>0, <1>1, <1>2, StampedDay DEF Stamped
  <2> QED  BY <1>0, <1>2, <2>1 DEF Stamped
<1>5. AskedOncePerInterval'
  BY <1>0 DEF MemoryIInv, AskedOncePerInterval
<1> QED  BY <1>0, <1>1, <1>2, <1>3, <1>4, <1>5 DEF MemoryIInv

LEMMA GroupAskedKeeps ==
  ASSUME MemoryIInv, NEW r \in Rounds, GroupAsked(r)
  PROVE  MemoryIInv'
<1> DEFINE new == [round[r] EXCEPT !.at = "sent", !.sent = date]
           b == [on |-> date, read |-> round[r].read]
<1>0. /\ Stamped /\ UNCHANGED <<date, lastAsk, kept>> /\ asked' = asked \union {b}
      /\ round' = [round EXCEPT ![r] = new]
      /\ Apart(kept, round[r].read, date)
  BY DEF MemoryIInv, GroupAsked
<1>1. /\ new \in RoundState /\ new.read = round[r].read /\ new.sent = date
      /\ round \in [Rounds -> RoundState] /\ date \in Nat
  BY <1>0 DEF RoundStages, RoundState, Stamped
<1>2. /\ b \in [on : Nat, read : Nat] /\ b.read = round[r].read /\ b.on = date
  BY <1>0, <1>1, StampedDay
<1> HIDE DEF new, b
<1>3. /\ round' \in [Rounds -> RoundState] /\ round'[r] = new
      /\ \A s \in Rounds \ {r} : round'[s] = round[s]
  BY <1>0, <1>1
<1>4. Stamped'
  <2>1. \A s \in Rounds : round'[s].read <= lastAsk'.id /\ round'[s].sent <= date'
    BY <1>0, <1>1, <1>3 DEF Stamped
  <2>2. asked' \subseteq [on : Nat, read : Nat] /\ \A c \in asked' : c.read <= lastAsk'.id
    BY <1>0, <1>2 DEF Stamped
  <2> QED  BY <1>0, <1>3, <2>1, <2>2 DEF Stamped
<1>5. \A s \in Rounds : round'[s].at # "none" => Apart(kept, round'[s].read, date)
  BY <1>0, <1>1, <1>3 DEF MemoryIInv
<1>6. AskedOncePerInterval'
  BY <1>0, <1>2 DEF MemoryIInv, Apart, AskedOncePerInterval
<1> QED  BY <1>0, <1>4, <1>5, <1>6 DEF MemoryIInv

LEMMA RoundRecordedKeeps ==
  ASSUME MemoryIInv, NEW r \in Rounds, RoundRecorded(r)
  PROVE  MemoryIInv'
<1> DEFINE a == [on |-> round[r].sent, row |-> lastAsk.id + 1]
<1>0. /\ Stamped /\ UNCHANGED <<date, asked>> /\ kept' = kept \union {a}
      /\ lastAsk' = [id |-> lastAsk.id + 1, on |-> date]
      /\ round' = [round EXCEPT ![r] = NoRound] /\ round[r].at # "none"
      /\ date \in Nat
  BY DEF MemoryIInv, Stamped, RoundRecorded, RoundEnds, Row
<1>1. /\ a \in [on : Nat, row : Nat \ {0}] /\ a.row = lastAsk.id + 1 /\ a.on <= date
      /\ lastAsk'.id = lastAsk.id + 1 /\ lastAsk'.on = date
      /\ lastAsk' \in [id : Nat, on : Nat]
  BY <1>0, StampedDay DEF Stamped
<1> HIDE DEF a
<1>2. /\ round' \in [Rounds -> RoundState]
      /\ \A s \in Rounds :
           /\ round'[s].read \in {0, round[s].read} /\ round'[s].sent \in {0, round[s].sent}
           /\ round'[s].at # "none" =>
                round[s].at # "none" /\ round'[s].read = round[s].read
  BY <1>0, RoundGoesOn DEF RoundStages
<1>3. Stamped'
  <2>1. \A s \in Rounds : round'[s].read <= lastAsk'.id /\ round'[s].sent <= date'
    BY <1>0, <1>1, <1>2, StampedDay DEF Stamped
  <2>2. \A c \in kept' : c.row <= lastAsk'.id /\ c.on <= lastAsk'.on
    BY <1>0, <1>1, StampedDay DEF Stamped
  <2>3. \A c \in asked' : c.read <= lastAsk'.id
    BY <1>0, <1>1, StampedDay DEF Stamped
  <2>4. kept' \subseteq [on : Nat, row : Nat \ {0}]
    BY <1>0, <1>1 DEF Stamped
  <2> QED  BY <1>0, <1>1, <1>2, <2>1, <2>2, <2>3, <2>4 DEF Stamped
<1>4. ASSUME NEW row \in Nat, row <= lastAsk.id, NEW d, Apart(kept, row, d)
      PROVE  Apart(kept', row, d)
  <2>1. ~(a.row <= row)
    BY <1>1, <1>4, StampedDay, <1>0
  <2> QED  BY <1>0, <1>4, <2>1 DEF Apart
<1>5. \A s \in Rounds : round'[s].at # "none" => Apart(kept', round'[s].read, date')
  <2> SUFFICES ASSUME NEW s \in Rounds, round'[s].at # "none"
               PROVE  Apart(kept', round[s].read, date)
    BY <1>0, <1>2
  <2>1. /\ Apart(kept, round[s].read, date)
        /\ round[s].read \in Nat /\ round[s].read <= lastAsk.id
    BY <1>0, <1>2, StampedDay DEF MemoryIInv, Stamped
  <2> QED  BY <1>4, <2>1
<1>6. AskedOncePerInterval'
  <2> SUFFICES ASSUME NEW b \in asked PROVE Apart(kept', b.read, b.on)
    BY <1>0 DEF AskedOncePerInterval, Apart
  <2>1. /\ Apart(kept, b.read, b.on)
        /\ b.read \in Nat /\ b.read <= lastAsk.id
    BY <1>0, StampedDay DEF MemoryIInv, Stamped, AskedOncePerInterval, Apart
  <2> QED  BY <1>4, <2>1
<1> QED  BY <1>3, <1>5, <1>6 DEF MemoryIInv

LEMMA OtherMemoryKeeps ==
  ASSUME MemoryIInv,
         \/ DatePasses \/ GapsChange \/ (\E q \in Questions : QuestionEntered(q))
         \/ (\E r \in Rounds : GapsListed(r) \/ RoundUnrecorded(r))
         \/ TurnStep \/ MemoryRestart \/ UNCHANGED memoryVars
  PROVE  MemoryIInv'
<1>0. Stamped /\ UNCHANGED <<lastAsk, asked, kept>>
  BY DEF MemoryIInv, DatePasses, GapsChange, QuestionEntered, GapsListed, RoundUnrecorded,
         TurnStep, BeginTurn, ToolCalled, Replies, Learns, MemoryRestart, memoryVars, history
<1>a. AskedOncePerInterval'
  BY <1>0 DEF MemoryIInv, AskedOncePerInterval
<1>1. CASE DatePasses
  <2>1. date \in Nat /\ date' \in Nat /\ date' = date + 1 /\ round' = round
    BY <1>0, <1>1 DEF DatePasses, Stamped
  <2>2. Stamped'
    BY <1>0, <2>1, StampedDay DEF Stamped
  <2>3. ASSUME NEW row, Apart(kept, row, date) PROVE Apart(kept, row, date')
    BY <1>0, <2>1, <2>3, StampedDay DEF Apart
  <2>4. \A r \in Rounds : round[r].at # "none" => Apart(kept, round[r].read, date')
    BY <2>3 DEF MemoryIInv
  <2> QED  BY <1>0, <1>a, <2>1, <2>2, <2>4 DEF MemoryIInv
<1>2. ASSUME NEW r \in Rounds, GapsListed(r) \/ RoundUnrecorded(r) PROVE MemoryIInv'
  <2>1. /\ round[r].at # "none" /\ UNCHANGED date
        /\ \/ round' = [round EXCEPT ![r].at = "agent"]
           \/ round' = [round EXCEPT ![r] = NoRound]
    BY <1>2 DEF GapsListed, RoundUnrecorded, RoundEnds
  <2>2. /\ round' \in [Rounds -> RoundState]
        /\ \A s \in Rounds :
             /\ round'[s].read \in {0, round[s].read} /\ round'[s].sent \in {0, round[s].sent}
             /\ round'[s].at # "none" =>
                  round[s].at # "none" /\ round'[s].read = round[s].read
    BY <1>0, <2>1, RoundGoesOn DEF RoundStages
  <2>3. Stamped'
    BY <1>0, <2>1, <2>2, StampedDay DEF Stamped
  <2>4. \A s \in Rounds : round'[s].at # "none" => Apart(kept, round'[s].read, date)
    BY <2>2 DEF MemoryIInv
  <2> QED  BY <1>0, <1>a, <2>1, <2>3, <2>4 DEF MemoryIInv
<1>3. CASE MemoryRestart
  <2>1. /\ NoRound \in RoundState /\ NoRound.at = "none"
        /\ NoRound.read = 0 /\ NoRound.sent = 0
    BY DEF NoRound, RoundStages, RoundState
  <2>2. round' = [r \in Rounds |-> NoRound] /\ UNCHANGED date
    BY <1>3 DEF MemoryRestart
  <2> HIDE DEF NoRound
  <2>3. Stamped'
    BY <1>0, <2>1, <2>2, StampedDay DEF Stamped
  <2> QED  BY <1>0, <1>a, <2>1, <2>2, <2>3 DEF MemoryIInv
<1>4. CASE UNCHANGED <<date, round>>
  BY <1>0, <1>4 DEF MemoryIInv, Stamped, AskedOncePerInterval, Apart
<1> QED
  BY <1>1, <1>2, <1>3, <1>4 DEF GapsChange, QuestionEntered, TurnStep, BeginTurn, ToolCalled,
                               Replies, Learns, memoryVars

\* A question on record when a round begins is AskEvery days old when that round
\* asks, for any number of rounds under way at a time, lost sends and restarts.
THEOREM AskedOncePerIntervalHolds == MemorySpec => []AskedOncePerInterval
<1>1. MemoryInit => MemoryIInv
  BY DEF MemoryInit, MemoryIInv, Stamped, NoRound, RoundStages, RoundState,
         AskedOncePerInterval
<1>2. MemoryIInv /\ [MemoryNext]_memoryVars => MemoryIInv'
  BY BeginRoundKeeps, GroupAskedKeeps, RoundRecordedKeeps, OtherMemoryKeeps
     DEF MemoryNext, RoundStep
<1>3. MemoryIInv => AskedOncePerInterval
  BY DEF MemoryIInv
<1> QED  BY <1>1, <1>2, <1>3, PTL DEF MemorySpec

-----------------------------------------------------------------------------
(***************************************************************************)
(* The notices                                                             *)
(***************************************************************************)

\* What a pass works on is scheduled, and only the seeded month is "pending".
Scheduled ==
  /\ doing <= through
  /\ \A m \in listed : m <= through
  /\ \A m \in Months : closing[m].status = "pending" => m = 1

\* A month that is scheduled before it is over has had its day.
Calendar ==
  /\ through <= ThisMonth
  /\ ThisMonth <= through => Reached

\* No closing of m begins any more.
Over(m) ==
  \/ closing[m].status \in {"silent", "sent", "delivery_unknown"}
  \/ closing[m].status = "failed" /\ closing[m].attempts = MaxAttempts

\* No closing of this month is sent today.
Quiet == (hour9 # "ahead" /\ ThisMonth > through) \/ Over(ThisMonth)

NoticeBegun == noticing = day \/ "notice" \in read

\* A closing sent today holds the notice back for the rest of the day.
ClosingHolds == touched /\ ThisMonth <= through /\ summaries[ThisMonth] # 0

DayOK ==
  /\ NoticeBegun => Quiet /\ "closing" \notin read
  /\ "closing" \in read => ClosingHolds
  /\ doing # 0 /\ step # "analysis" => fenced = day /\ (doing = ThisMonth => touched)

Dates ==
  /\ day \in Nat \ {0} /\ day <= MaxDay
  /\ noticing \in Nat /\ noticing <= day /\ fenced \in Nat /\ fenced <= day
  /\ hour9 \in Hours /\ touched \in BOOLEAN /\ read \subseteq {"notice", "closing"}

NoticesIInv == Dates /\ Scheduled /\ Calendar /\ DayOK

\* The days of a month follow each other.
LEMMA NextDay ==
  ASSUME NEW d \in Nat, NEW n \in Nat \ {0}
  PROVE  \/ /\ (d + 1) \div n = d \div n
            /\ (d + 1) % n = (d % n) + 1
         \/ (d + 1) \div n = (d \div n) + 1
  OBVIOUS

LEMMA MonthOfDay ==
  ASSUME NEW d \in Nat, NEW n \in Nat \ {0}, NEW k \in Nat, d < n * k
  PROVE  d \div n \in Nat /\ d \div n < k /\ d % n \in Nat /\ d % n < n
  OBVIOUS

LEMMA ThisMonthIsMonth ==
  ASSUME Dates
  PROVE  ThisMonth \in Months /\ DayOfMonth \in Nat
<1>1. /\ day - 1 \in Nat /\ DaysInMonth \in Nat \ {0} /\ MaxMonth \in Nat
      /\ day <= MaxDay /\ MaxDay <= DaysInMonth * MaxMonth /\ MaxDay \in Nat
      /\ day \in Nat
  BY NoticesAssumption, ClosingAssumption DEF Dates
<1> DEFINE k == DaysInMonth * MaxMonth
<1>2. k \in Nat
  BY <1>1
<1>3. day - 1 < k
  <2> HIDE DEF k
  <2> QED  BY <1>1, <1>2 DEF k
<1>4. /\ (day - 1) \div DaysInMonth \in Nat /\ (day - 1) \div DaysInMonth < MaxMonth
      /\ (day - 1) % DaysInMonth \in Nat
  BY <1>1, <1>3, MonthOfDay
<1> QED  BY <1>1, <1>4 DEF ThisMonth, DayOfMonth, Months

\* What a step of the closings, a retry that becomes due or a restart leaves as it was.
LEMMA ClosingsMove ==
  ASSUME ClosingIInv, Scheduled, ClosingStep \/ RetryDue \/ ClosingRestart
  PROVE  /\ UNCHANGED through
         /\ Scheduled'
         /\ \A m \in Months : /\ Over(m) => Over(m)'
                              /\ summaries[m] # 0 => summaries'[m] # 0
         /\ doing' # 0 /\ step' # "analysis" =>
              /\ doing' = doing /\ doing \in Months
              /\ \/ step # "analysis"
                 \/ FenceSummary /\ closing'[doing] # closing[doing]
<1>0. /\ ClosingTypeOK /\ DoingOK
      /\ doing # 0 => doing \in Months
      /\ \A m \in Months : RunOK(m)
      /\ 0 <= through /\ through \in Nat
  BY DoingIsMonth, ClosingAssumption DEF ClosingIInv, ClosingTypeOK
<1>1. /\ doing # 0 => ~Over(doing) /\ closing[doing].status # "pending"
      /\ \A m \in Months : doing # m =>
           closing[m].status \notin {"processing", "sending"}
  BY <1>0 DEF DoingOK, Over, RunOK
<1>2. CASE ClosingPass
  <2>1. /\ UNCHANGED <<closing, through, doing, step, summaries>> /\ doing = 0
        /\ listed' \subseteq 1..through
    BY <1>2 DEF ClosingPass, DueRuns
  <2> QED  BY <1>0, <2>1 DEF Scheduled, Over
<1>3. ASSUME NEW n \in Months, ClaimRun(n) PROVE
        /\ UNCHANGED <<through, summaries>> /\ Scheduled'
        /\ \A m \in Months : Over(m) => Over(m)'
        /\ doing' # 0 => step' = "analysis" \/ (doing' = doing /\ step' = step)
  <2>1. /\ n \in listed /\ listed' \subseteq listed /\ doing = 0
        /\ UNCHANGED <<through, summaries>>
    BY <1>3 DEF ClaimRun
  <2>2. CASE closing' = closing /\ doing' = doing /\ step' = step
    BY <2>1, <2>2 DEF Scheduled, Over
  <2>3. CASE /\ Claimable(n) /\ doing' = n /\ step' = "analysis"
             /\ closing' = [closing EXCEPT
                              ![n] = MonthRun("processing", @.attempts + 1, FALSE)]
    <3>1. closing'[n].status = "processing" /\ \A m \in Months \ {n} : closing'[m] = closing[m]
      BY <1>0, <2>3 DEF ClosingTypeOK, MonthRun
    <3>2. ~Over(n)
      BY <2>3, <1>0, ClosingAssumption DEF Over, Claimable, Retryable, ClosingTypeOK
    <3>3. \A m \in Months : Over(m) => Over(m)'
      BY <3>1, <3>2 DEF Over
    <3>4. Scheduled'
      BY <2>1, <2>3, <3>1 DEF Scheduled
    <3> QED  BY <2>1, <2>3, <3>3, <3>4
  <2> QED  BY <1>3, <2>2, <2>3 DEF ClaimRun, Claimable
<1>4. ASSUME doing # 0, NEW s \in RunStatuses \ {"pending"}, NEW w \in BOOLEAN,
             Set(doing, s, w), UNCHANGED <<through, summaries>>,
             listed' \subseteq listed, doing' \in {0, doing}
      PROVE  /\ Scheduled' /\ \A m \in Months : Over(m) => Over(m)'
             /\ closing'[doing].status = s
  <2>1. closing'[doing].status = s /\ \A m \in Months \ {doing} : closing'[m] = closing[m]
    BY <1>0, <1>4, SetRun
  <2>2. Scheduled'
    BY <1>0, <1>4, <2>1 DEF Scheduled
  <2> QED  BY <1>1, <1>4, <2>1, <2>2 DEF Over
<1>5. CASE NothingToSay
  <2>1. Scheduled' /\ \A m \in Months : Over(m) => Over(m)'
    BY <1>4, <1>5 DEF NothingToSay, RunStatuses
  <2> QED  BY <1>5, <2>1 DEF NothingToSay
<1>6. CASE FenceSummary
  <2>1. closing[doing].wait \in BOOLEAN /\ closing[doing].status = "processing"
    BY <1>0, <1>6 DEF FenceSummary, ClosingTypeOK
  <2>2. /\ Scheduled' /\ \A m \in Months : Over(m) => Over(m)'
        /\ closing'[doing].status = "sending"
    BY <1>4, <1>6, <2>1 DEF FenceSummary, RunStatuses
  <2> QED  BY <1>0, <1>6, <2>1, <2>2 DEF FenceSummary
<1>7. CASE SummaryReaches
  <2>1. /\ UNCHANGED <<closing, through, listed, doing>> /\ doing # 0 /\ step = "fenced"
        /\ summaries' = [summaries EXCEPT ![doing] = @ + 1]
    BY <1>7 DEF SummaryReaches
  <2>2. \A m \in Months : summaries[m] # 0 => summaries'[m] # 0
    BY <1>0, <2>1 DEF ClosingTypeOK
  <2> QED  BY <1>0, <2>1, <2>2 DEF Scheduled, Over
<1>8. CASE SummarySent
  <2>1. Scheduled' /\ \A m \in Months : Over(m) => Over(m)'
    BY <1>4, <1>8 DEF SummarySent, RunStatuses
  <2> QED  BY <1>8, <2>1 DEF SummarySent
<1>9. CASE SummaryFails
  <2>1. PICK s \in {"failed", "delivery_unknown"}, w \in BOOLEAN : Set(doing, s, w)
    BY <1>9 DEF SummaryFails
  <2>2. Scheduled' /\ \A m \in Months : Over(m) => Over(m)'
    BY <1>4, <1>9, <2>1 DEF SummaryFails, RunStatuses
  <2> QED  BY <1>9, <2>2 DEF SummaryFails
<1>10. CASE RetryDue
  <2>1. PICK n \in Months : Set(n, closing[n].status, FALSE)
    BY <1>10 DEF RetryDue
  <2>2. \A m \in Months : closing'[m].status = closing[m].status
                        /\ closing'[m].attempts = closing[m].attempts
    BY <1>0, <2>1, SetRun DEF ClosingTypeOK
  <2>3. UNCHANGED <<through, listed, doing, step, summaries>>
    BY <1>10 DEF RetryDue
  <2> QED  BY <1>0, <2>2, <2>3 DEF Scheduled, Over
<1>11. CASE ClosingRestart
  <2>1. /\ listed' = {} /\ doing' = 0 /\ UNCHANGED <<through, summaries>>
        /\ \A m \in Months : closing'[m] = RecoveredRun(closing[m])
    BY <1>11 DEF ClosingRestart
  <2>2. \A m \in Months : closing'[m].status = "pending" => closing[m].status = "pending"
    BY <2>1, RecoveredStatus
  <2>3. \A m \in Months : Over(m) => closing'[m] = closing[m]
    BY <2>1 DEF Over, RecoveredRun
  <2> QED  BY <1>0, <2>1, <2>2, <2>3 DEF Scheduled, Over
<1> QED
  BY <1>2, <1>3, <1>5, <1>6, <1>7, <1>8, <1>9, <1>10, <1>11, <1>0 DEF ClosingStep, ClaimRun

\* While neither the day nor its hour changes, nor does what follows from them.
LEMMA SameHour ==
  ASSUME UNCHANGED <<day, hour9>>
  PROVE  ThisMonth' = ThisMonth /\ (Reached' <=> Reached)
  BY DEF ThisMonth, Reached, DayOfMonth

\* The closings move: only a fence of this month's closing matters, and it touches the row.
LEMMA ClosingsKeepNotices ==
  ASSUME ClosingIInv, NoticesIInv,
         ClosingStep \/ RetryDue \/ ClosingRestart,
         UNCHANGED <<day, hour9, read>>, noticing' \in {noticing, 0},
         fenced' \in {fenced, day}, FenceSummary => fenced' = day,
         touched' \in BOOLEAN, touched => touched',
         FenceSummary /\ closing'[ThisMonth] # closing[ThisMonth] => touched'
  PROVE  NoticesIInv'
<1>1. /\ Dates /\ Scheduled /\ Calendar /\ DayOK
      /\ ThisMonth \in Months /\ ThisMonth' = ThisMonth /\ (Reached' <=> Reached)
  BY ThisMonthIsMonth, SameHour DEF NoticesIInv
<1>2. /\ UNCHANGED through /\ Scheduled'
      /\ \A m \in Months : /\ Over(m) => Over(m)'
                           /\ summaries[m] # 0 => summaries'[m] # 0
      /\ doing' # 0 /\ step' # "analysis" =>
           /\ doing' = doing /\ doing \in Months
           /\ \/ step # "analysis"
              \/ FenceSummary /\ closing'[doing] # closing[doing]
  BY <1>1, ClosingsMove
<1>3. Dates'
  <2>1. noticing' \in Nat /\ noticing' <= day /\ fenced' \in Nat /\ fenced' <= day
    BY <1>1 DEF Dates
  <2> QED  BY <1>1, <2>1 DEF Dates
<1>4. Calendar'
  BY <1>1, <1>2 DEF Calendar
<1>5. Over(ThisMonth) => Over(ThisMonth)'
  <2>1. Over(ThisMonth) => \A m \in Months : m = ThisMonth => Over(m)'
    BY <1>2
  <2> QED  BY <1>1, <2>1 DEF Over
<1>6. Quiet => Quiet'
  BY <1>1, <1>2, <1>5 DEF Quiet
<1>7. ClosingHolds => ClosingHolds'
  BY <1>1, <1>2 DEF ClosingHolds
<1>8. NoticeBegun' => NoticeBegun
  BY <1>1 DEF NoticeBegun, Dates
<1>9. doing' # 0 /\ step' # "analysis" => fenced' = day /\ (doing' = ThisMonth => touched')
  BY <1>1, <1>2 DEF DayOK
<1>10. DayOK'
  BY <1>1, <1>6, <1>7, <1>8, <1>9 DEF DayOK
<1> QED  BY <1>2, <1>3, <1>4, <1>10 DEF NoticesIInv

\* The closing of this month reaches the group on a day that has no notice, and holds it back.
LEMMA ClosingReachesKeeps ==
  ASSUME ClosingIInv, NoticesIInv, ClosingReaches
  PROVE  NoticesIInv'
<1>1. /\ Dates /\ Scheduled /\ Calendar /\ DayOK
      /\ ThisMonth \in Months /\ ThisMonth' = ThisMonth /\ (Reached' <=> Reached)
      /\ UNCHANGED <<day, hour9, notice, noticing, touched, fenced>>
  BY ThisMonthIsMonth, SameHour DEF NoticesIInv, ClosingReaches
<1>2. /\ doing # 0 /\ step = "fenced" /\ doing \in Months
      /\ closing[doing].status = "sending"
      /\ UNCHANGED <<closing, through, listed, doing>>
      /\ summaries' = [summaries EXCEPT ![doing] = @ + 1]
      /\ summaries \in [Months -> Nat]
  BY DoingIsMonth DEF ClosingReaches, SummaryReaches, ClosingIInv, ClosingTypeOK, DoingOK
<1>3. fenced = day /\ (doing = ThisMonth => touched)
  BY <1>1, <1>2 DEF DayOK
<1>4. summaries'[doing] # 0 /\ \A m \in Months : summaries[m] # 0 => summaries'[m] # 0
  BY <1>2
<1>5. Dates' /\ Scheduled' /\ Calendar'
  <2>1. read' \subseteq {"notice", "closing"}
    BY <1>1 DEF ClosingReaches, PostedToday, Dates
  <2> QED  BY <1>1, <1>2, <2>1 DEF Dates, Scheduled, Calendar
<1>6. Quiet => Quiet'
  BY <1>1, <1>2 DEF Quiet, Over
<1>7. ClosingHolds => ClosingHolds'
  BY <1>1, <1>2, <1>4 DEF ClosingHolds
<1>8. CASE doing = ThisMonth
  <2>1. read' = read \union {"closing"}
    BY <1>3, <1>8 DEF ClosingReaches, PostedToday
  <2>2. doing <= through /\ through \in Nat /\ doing \in Nat
    BY <1>1, <1>2, ClosingAssumption DEF Scheduled, ClosingIInv, ClosingTypeOK, Months
  <2>3. ~Quiet
    BY <1>2, <1>8, <2>2 DEF Quiet, Over
  <2>4. ~NoticeBegun
    BY <1>1, <2>3 DEF DayOK
  <2>5. ~NoticeBegun'
    BY <1>1, <2>1, <2>4 DEF NoticeBegun
  <2>6. ClosingHolds'
    BY <1>1, <1>2, <1>3, <1>4, <1>8, <2>2 DEF ClosingHolds
  <2>7. DayOK'
    BY <1>1, <1>2, <1>3, <2>5, <2>6 DEF DayOK
  <2> QED  BY <1>5, <2>7 DEF NoticesIInv
<1>9. CASE doing # ThisMonth
  <2>1. UNCHANGED read
    BY <1>9 DEF ClosingReaches
  <2>2. DayOK'
    BY <1>1, <1>2, <1>3, <1>6, <1>7, <1>9, <2>1 DEF DayOK, NoticeBegun
  <2> QED  BY <1>5, <2>2 DEF NoticesIInv
<1> QED  BY <1>8, <1>9

\* A notice begins on a quiet day only.
LEMMA BeginNoticeKeeps ==
  ASSUME ClosingIInv, NoticesIInv, BeginNotice
  PROVE  NoticesIInv'
<1>1. /\ Dates /\ Scheduled /\ Calendar /\ DayOK
      /\ ThisMonth \in Months /\ ThisMonth' = ThisMonth /\ (Reached' <=> Reached)
      /\ UNCHANGED <<closingVars, day, hour9, touched, fenced, read>>
      /\ noticing' = day /\ hour9 = "now" /\ ~OwnsHeartbeat
  BY ThisMonthIsMonth, SameHour DEF NoticesIInv, BeginNotice
<1>2. /\ ClosingTypeOK /\ DoingOK /\ RunOK(ThisMonth) /\ through \in Nat
      /\ ThisMonth \in Nat
  BY <1>1, ClosingAssumption DEF ClosingIInv, ClosingTypeOK, Months
<1>3. "closing" \notin read
  <2> SUFFICES ASSUME "closing" \in read PROVE FALSE
    OBVIOUS
  <2>1. Reached /\ touched /\ summaries[ThisMonth] # 0
    BY <1>1 DEF DayOK, ClosingHolds, Calendar
  <2>2. closing[ThisMonth].status \notin {"none", "pending", "processing", "failed"}
    BY <1>2, <2>1 DEF RunOK
  <2> QED  BY <1>1, <2>1, <2>2 DEF OwnsHeartbeat
<1>4. Quiet
  <2>1. CASE ThisMonth > through
    BY <1>1, <2>1 DEF Quiet
  <2>2. CASE ThisMonth <= through
    <3>1. /\ closing[ThisMonth].status \notin {"none", "processing"}
          /\ closing[ThisMonth].status = "failed" =>
               ~(closing[ThisMonth].attempts < MaxAttempts)
          /\ closing[ThisMonth].status # "failed" => ~touched
          /\ DueRuns = {}
      BY <1>1, <2>2 DEF OwnsHeartbeat, Calendar
    <3>2. /\ closing[ThisMonth].status \in RunStatuses
          /\ closing[ThisMonth].attempts \in 0..MaxAttempts
      BY <1>1, <1>2 DEF ClosingTypeOK
    <3>3. closing[ThisMonth].status # "sending"
      BY <1>1, <1>2, <3>1 DEF RunOK, DayOK, DoingOK, Months
    <3>4. closing[ThisMonth].status # "pending"
      <4> SUFFICES ASSUME closing[ThisMonth].status = "pending" PROVE FALSE
        OBVIOUS
      <4>1. ThisMonth = 1
        BY <1>1 DEF Scheduled
      <4>2. 1 \in DueRuns
        BY <1>2, <2>2, <4>1 DEF DueRuns
      <4> QED  BY <3>1, <4>2
    <3>5. Over(ThisMonth)
      BY <3>1, <3>2, <3>3, <3>4, ClosingAssumption DEF Over, RunStatuses
    <3> QED  BY <3>5 DEF Quiet
  <2> QED  BY <1>2, <2>1, <2>2
<1>5. Dates' /\ Scheduled' /\ Calendar'
  BY <1>1 DEF Dates, Scheduled, Calendar, closingVars
<1>6. Quiet' /\ (ClosingHolds' <=> ClosingHolds)
  BY <1>1, <1>4 DEF Quiet, Over, ClosingHolds, closingVars
<1>7. DayOK'
  BY <1>1, <1>3, <1>6 DEF DayOK, closingVars
<1> QED  BY <1>5, <1>7 DEF NoticesIInv

LEMMA HourStrikesKeeps ==
  ASSUME ClosingIInv, NoticesIInv, HourStrikes
  PROVE  NoticesIInv'
<1>1. /\ Dates /\ Scheduled /\ Calendar /\ DayOK
      /\ ThisMonth \in Months /\ ThisMonth' = ThisMonth /\ DayOfMonth' = DayOfMonth
      /\ hour9 = "ahead" /\ hour9' = "now" /\ DayOfMonth \in Nat
      /\ UNCHANGED <<day, noticing, touched, fenced, read>>
      /\ UNCHANGED <<closing, listed, doing, step, summaries>>
  BY ThisMonthIsMonth
     DEF NoticesIInv, HourStrikes, ThisMonth, DayOfMonth, ScheduleReached, closingVars
<1>2. /\ through \in Nat /\ ThisMonth \in Nat /\ MonthlyDay \in Nat
      /\ doing \in Nat /\ listed \subseteq Nat
  BY <1>1, ClosingAssumption, NoticesAssumption DEF ClosingIInv, ClosingTypeOK, Months
<1>3. /\ through' = through \/ (through' = through + 1 /\ DayOfMonth = MonthlyDay)
      /\ through' \in Nat /\ through <= through'
      /\ DayOfMonth = MonthlyDay => through' = through + 1
  BY <1>2 DEF HourStrikes, ScheduleReached, closingVars
<1>4. Reached' <=> (DayOfMonth > MonthlyDay \/ DayOfMonth = MonthlyDay)
  BY <1>1 DEF Reached
<1>5. Reached <=> DayOfMonth > MonthlyDay
  BY <1>1 DEF Reached
<1>6. Calendar'
  <2>1. DayOfMonth = MonthlyDay => ThisMonth > through
    BY <1>1, <1>2, <1>5 DEF Calendar
  <2>2. through' <= ThisMonth
    BY <1>1, <1>2, <1>3, <2>1 DEF Calendar
  <2>3. ThisMonth <= through' => Reached'
    BY <1>1, <1>2, <1>3, <1>4, <1>5 DEF Calendar
  <2> QED  BY <1>1, <2>2, <2>3 DEF Calendar
<1>7. Scheduled'
  <2>1. doing <= through' /\ \A m \in listed : m <= through'
    BY <1>1, <1>2, <1>3 DEF Scheduled
  <2> QED  BY <1>1, <2>1 DEF Scheduled
<1>8. Dates'
  BY <1>1 DEF Dates, Hours
<1>9. Quiet => Quiet'
  BY <1>1 DEF Quiet, Over
<1>10. ClosingHolds => ClosingHolds'
  BY <1>1, <1>2, <1>3 DEF ClosingHolds
<1>11. DayOK'
  BY <1>1, <1>9, <1>10 DEF DayOK, NoticeBegun
<1> QED  BY <1>6, <1>7, <1>8, <1>11 DEF NoticesIInv

LEMMA DayEndsKeeps ==
  ASSUME ClosingIInv, NoticesIInv, DayEnds
  PROVE  NoticesIInv'
<1>1. /\ Dates /\ Scheduled /\ Calendar /\ DayOK
      /\ ThisMonth \in Months /\ DayOfMonth \in Nat
      /\ hour9 = "over" /\ hour9' = "ahead" /\ day < MaxDay /\ day' = day + 1
      /\ touched' = FALSE /\ read' = {}
      /\ doing = 0 \/ step = "analysis"
      /\ UNCHANGED <<closing, through, listed, doing, step, summaries, noticing, fenced>>
  BY ThisMonthIsMonth DEF NoticesIInv, DayEnds, closingVars
<1>2. /\ day \in Nat /\ day - 1 \in Nat /\ MaxDay \in Nat /\ through \in Nat
      /\ DaysInMonth \in Nat \ {0} /\ MonthlyDay \in Nat
  BY <1>1, ClosingAssumption, NoticesAssumption DEF Dates, ClosingIInv, ClosingTypeOK
<1>3. Dates'
  <2>1. /\ noticing \in Nat /\ noticing <= day /\ fenced \in Nat /\ fenced <= day
    BY <1>1 DEF Dates
  <2>2. /\ day' \in Nat \ {0} /\ day' <= MaxDay /\ noticing <= day' /\ fenced <= day'
    BY <1>1, <1>2, <2>1
  <2>3. hour9' \in Hours /\ touched' \in BOOLEAN /\ read' \subseteq {"notice", "closing"}
    BY <1>1 DEF Hours
  <2> QED  BY <1>1, <2>1, <2>2, <2>3 DEF Dates
<1>4. ThisMonth \in Nat
  BY <1>1, ClosingAssumption DEF Months
<1>5. day' - 1 = (day - 1) + 1
  BY <1>1, <1>2
<1>6. \/ ThisMonth' = ThisMonth /\ DayOfMonth' = DayOfMonth + 1
      \/ ThisMonth' = ThisMonth + 1
  <2>1. \/ /\ ((day - 1) + 1) \div DaysInMonth = (day - 1) \div DaysInMonth
           /\ ((day - 1) + 1) % DaysInMonth = ((day - 1) % DaysInMonth) + 1
        \/ ((day - 1) + 1) \div DaysInMonth = ((day - 1) \div DaysInMonth) + 1
    BY <1>2, NextDay
  <2> QED  BY <1>5, <2>1 DEF ThisMonth, DayOfMonth
<1>7. Calendar'
  <2>1. CASE ThisMonth' = ThisMonth /\ DayOfMonth' = DayOfMonth + 1
    <3>1. ThisMonth <= through => DayOfMonth > MonthlyDay \/ DayOfMonth = MonthlyDay
      BY <1>1 DEF Calendar, Reached
    <3>2. ThisMonth <= through => Reached'
      BY <1>1, <1>2, <2>1, <3>1 DEF Reached
    <3> QED  BY <1>1, <2>1, <3>2 DEF Calendar
  <2>2. CASE ThisMonth' = ThisMonth + 1
    BY <1>1, <1>2, <1>4, <2>2 DEF Calendar
  <2> QED  BY <1>6, <2>1, <2>2
<1>8. ~NoticeBegun'
  BY <1>1, <1>2 DEF NoticeBegun, Dates
<1>9. DayOK'
  BY <1>1, <1>8 DEF DayOK
<1>10. Scheduled'
  BY <1>1 DEF Scheduled
<1> QED  BY <1>3, <1>7, <1>9, <1>10 DEF NoticesIInv

\* A notice ends, or the hour does.
LEMMA NoticeEndsKeeps ==
  ASSUME ClosingIInv, NoticesIInv,
         NoticeSent \/ NoticeSilent \/ NoticeFails \/ HourEnds
  PROVE  NoticesIInv'
<1>1. /\ Dates /\ Scheduled /\ Calendar /\ DayOK
      /\ ThisMonth \in Months /\ ThisMonth' = ThisMonth /\ DayOfMonth' = DayOfMonth
      /\ UNCHANGED <<closing, through, listed, doing, step, summaries, day, touched, fenced>>
      /\ noticing' \in {noticing, 0}
      /\ hour9' = hour9 \/ (hour9 = "now" /\ hour9' = "over")
  BY ThisMonthIsMonth
     DEF NoticesIInv, NoticeSent, NoticeSilent, NoticeFails, NoticeEnds, HourEnds,
         closingVars, ThisMonth, DayOfMonth
<1>2. read' = read \/ (noticing = day /\ read' = read \union {"notice"})
  BY DEF NoticeSent, NoticeSilent, NoticeFails, HourEnds, PostedToday
<1>3. Dates' /\ Scheduled' /\ Calendar'
  <2>1. Dates'
    <3>1. noticing' \in Nat /\ noticing' <= day
      BY <1>1 DEF Dates
    <3>2. read' \subseteq {"notice", "closing"} /\ hour9' \in Hours
      BY <1>1, <1>2 DEF Dates, Hours
    <3> QED  BY <1>1, <3>1, <3>2 DEF Dates
  <2>2. Scheduled'
    BY <1>1 DEF Scheduled
  <2>3. Reached' <=> Reached
    BY <1>1 DEF Reached
  <2> QED  BY <1>1, <2>1, <2>2, <2>3 DEF Calendar
<1>4. Quiet => Quiet'
  BY <1>1 DEF Quiet, Over
<1>5. ClosingHolds => ClosingHolds'
  BY <1>1 DEF ClosingHolds
<1>6. NoticeBegun' => NoticeBegun
  BY <1>1, <1>2 DEF NoticeBegun, Dates
<1>7. "closing" \in read' => "closing" \in read
  BY <1>2
<1>8. DayOK'
  BY <1>1, <1>4, <1>5, <1>6, <1>7 DEF DayOK
<1> QED  BY <1>3, <1>8 DEF NoticesIInv

LEMMA NoticesKeep ==
  ASSUME ClosingIInv, NoticesIInv,
         [NoticesStep \/ NoticesClock \/ NoticesRestart]_noticeVars
  PROVE  NoticesIInv'
<1>0. Dates
  BY DEF NoticesIInv
<1>1. CASE ClosingMoves
  <2>1. ClosingStep /\ ~FenceSummary
    BY <1>1 DEF ClosingMoves, ClosingStep, FenceSummary, ClosingPass, ClaimRun,
                NothingToSay, SummarySent, SummaryFails
  <2>2. /\ UNCHANGED <<day, hour9, noticing, fenced, read>>
        /\ touched' \in BOOLEAN /\ (touched => touched')
    BY <1>0, <1>1 DEF ClosingMoves, Touches
  <2> QED  BY <2>1, <2>2, ClosingsKeepNotices
<1>2. CASE ClosingFenced
  <2>1. ClosingStep
    BY <1>2 DEF ClosingFenced, ClosingStep
  <2>2. /\ UNCHANGED <<day, hour9, noticing, read>> /\ fenced' = day
        /\ touched' \in BOOLEAN /\ (touched => touched')
        /\ closing'[ThisMonth] # closing[ThisMonth] => touched'
    BY <1>0, <1>2 DEF ClosingFenced, Touches
  <2> QED  BY <2>1, <2>2, ClosingsKeepNotices
<1>3. CASE ClosingRetryDue
  <2>1. RetryDue /\ ~FenceSummary
    BY <1>3 DEF ClosingRetryDue, RetryDue, FenceSummary
  <2>2. UNCHANGED <<day, hour9, noticing, touched, fenced, read>> /\ touched \in BOOLEAN
    BY <1>0, <1>3 DEF ClosingRetryDue, Dates
  <2> QED  BY <2>1, <2>2, ClosingsKeepNotices
<1>4. CASE NoticesRestart
  <2>1. ClosingRestart /\ ~FenceSummary
    BY <1>4 DEF NoticesRestart, ClosingRestart, FenceSummary
  <2>2. /\ UNCHANGED <<day, hour9, fenced, read>> /\ noticing' = 0
        /\ touched' \in BOOLEAN /\ (touched => touched')
    BY <1>0, <1>4 DEF NoticesRestart, Touches
  <2> QED  BY <2>1, <2>2, ClosingsKeepNotices
<1>5. CASE UNCHANGED noticeVars
  BY <1>5 DEF noticeVars, closingVars, NoticesIInv, Dates, Scheduled, Calendar, DayOK,
              ThisMonth, DayOfMonth, Reached, Quiet, Over, NoticeBegun, ClosingHolds
<1> QED
  BY <1>1, <1>2, <1>3, <1>4, <1>5, ClosingReachesKeeps, BeginNoticeKeeps,
     HourStrikesKeeps, DayEndsKeeps, NoticeEndsKeeps
     DEF NoticesStep, NoticesClock

\* Beside the notices, the closings do what they do alone.
LEMMA NoticesAreClosings == NoticesSpec => ClosingSpec
<1>1. NoticesInit => ClosingInit
  BY DEF NoticesInit
<1>2. [NoticesStep \/ NoticesClock \/ NoticesRestart]_noticeVars
        => [ClosingStep \/ ClosingClock \/ ClosingRestart]_closingVars
  BY DEF NoticesStep, NoticesClock, NoticesRestart, noticeVars, closingVars,
         ClosingMoves, ClosingFenced, ClosingReaches, BeginNotice, NoticeSent,
         NoticeSilent, NoticeFails, NoticeEnds, ClosingRetryDue, HourStrikes, HourEnds,
         DayEnds, ClosingStep, ClosingClock
<1> QED  BY <1>1, <1>2, PTL DEF NoticesSpec, ClosingSpec

\* The day that reads the closing of its month reads no notice, whichever comes first,
\* however often either fails and is retried, and wherever the service restarts: a
\* notice begins only when no closing can be sent any more that day, and a closing
\* that was sent holds the notice back until the day is over.
THEOREM NoticeYieldsHolds == NoticesSpec => []NoticeYields
<1>1. NoticesInit => NoticesIInv
  <2> SUFFICES ASSUME NoticesInit PROVE NoticesIInv
    OBVIOUS
  <2>1. Dates
    <3>1. MaxDay \in Nat \ {0}
      BY NoticesAssumption
    <3>2. 1 <= MaxDay /\ hour9 \in Hours
      BY <3>1 DEF NoticesInit, Hours
    <3>3. touched \in BOOLEAN /\ read \subseteq {"notice", "closing"}
      BY DEF NoticesInit
    <3>4. /\ day \in Nat \ {0} /\ day <= MaxDay
          /\ noticing \in Nat /\ noticing <= day /\ fenced \in Nat /\ fenced <= day
      BY <3>2 DEF NoticesInit
    <3> QED  BY <3>2, <3>3, <3>4 DEF Dates
  <2>2. ThisMonth \in Nat /\ ThisMonth # 0
    BY <2>1, ThisMonthIsMonth, ClosingAssumption DEF Months
  <2> QED
    BY <2>1, <2>2, ClosingAssumption
       DEF NoticesInit, ClosingInit, MonthRun, NoticesIInv, Scheduled, Calendar, DayOK,
           NoticeBegun
<1>2. NoticesIInv => NoticeYields
  BY DEF NoticesIInv, DayOK, NoticeBegun, NoticeYields
<1> QED
  BY <1>1, <1>2, NoticesKeep, NoticesAreClosings, ClosingInvariant, PTL DEF NoticesSpec

-----------------------------------------------------------------------------
(***************************************************************************)
(* Who owns a conversation.                                                *)
(***************************************************************************)
GenerationState == [chat : Chats, by : Askers, source : Nat] \union {NoGeneration}

PendingQueues(q) == q \in [Chats -> Seq(Askers)]

\* A person owns what a person has taken and not given back.
CopilotIInv ==
  /\ owner \in [Chats -> HumanOwned \union {"open", "closed"}]
  /\ held \in [Chats -> {"no", "held", "overruled"}]
  /\ PendingQueues(pending)
  /\ generation \in [Generations -> GenerationState]
  /\ \A c \in Chats : held[c] = "held" => owner[c] \in HumanOwned
  /\ \A g \in Generations : generation[g].by = "router" => generation[g].chat \in groups

Asks(c) ==
  \/ OperatorAsks(c) \/ TimerFires(c) \/ \E message \in 1..written[c] : RouterAsks(c, message)

Owns(c) ==
  TakeOver(c) \/ Escalate(c) \/ Release(c) \/ ClosedByOperator(c) \/ Written(c) \/ AutoClosed(c)

Removes(c) == OperatorWrites(c) \/ \E k \in 1..Len(pending[c]) : Decided(c, k)

CopilotCases ==
  \/ \E c \in Chats : \/ Asks(c) \/ Owns(c) \/ Removes(c)
                      \/ OperatorSuggests(c) \/ OperatorRepliesOtherwise(c)
  \/ \E g \in Generations : Suggested(g) \/ NothingToSuggest(g) \/ NoReply(g)
  \/ CopilotRestart \/ UNCHANGED copilotVars

LEMMA CopilotSteps ==
  ASSUME [CopilotNext]_copilotVars
  PROVE  CopilotCases
  BY DEF CopilotNext, CopilotStep, OperatorStep, CopilotCases, Asks, Owns, Removes

\* Who begins a generation for which chat.
LEMMA AsksBegin ==
  ASSUME CopilotIInv, NEW c \in Chats, Asks(c)
  PROVE  /\ UNCHANGED <<ownership, pending, groups>>
         /\ generation' \in [Generations -> GenerationState]
         /\ \A g \in Generations :
              \/ generation'[g] = generation[g]
              \/ /\ generation[g] = NoGeneration /\ generation'[g].chat = c
                 /\ generation'[g].by = "operator" \/ owner[c] = "open"
                 /\ generation'[g].by = "router" => c \in groups
<1>1. ASSUME NEW g \in Generations, NEW by \in Askers, NEW source \in Nat,
             Begun(g, c, by, source)
      PROVE  /\ generation' \in [Generations -> GenerationState]
             /\ \A h \in Generations :
                  \/ generation'[h] = generation[h]
                  \/ generation[h] = NoGeneration /\ generation'[h].chat = c
                     /\ generation'[h].by = by
  <2> DEFINE new == [chat |-> c, by |-> by, source |-> source]
  <2>1. new \in GenerationState /\ new.chat = c /\ new.by = by
    BY DEF GenerationState
  <2>2. generation' = [generation EXCEPT ![g] = new] /\ generation[g] = NoGeneration
    BY <1>1 DEF Begun
  <2> HIDE DEF new
  <2> QED  BY <2>1, <2>2 DEF CopilotIInv
<1>2. {"debounce", "router", "operator"} \subseteq Askers /\ NoSource \in Nat
  BY DEF Askers, NoSource
<1>3. CASE OperatorAsks(c)
  BY <1>1, <1>2, <1>3 DEF OperatorAsks, suggestions, inbox
<1>4. CASE TimerFires(c)
  <2>1. UNCHANGED <<ownership, pending, groups>>
    BY <1>4 DEF TimerFires, suggestions, inbox
  <2>2. CASE UNCHANGED generation
    BY <2>1, <2>2 DEF CopilotIInv
  <2>3. CASE MayGenerate(c) /\ \E g \in Generations : Begun(g, c, "debounce", NoSource)
    <3>1. owner[c] = "open"
      BY <2>3 DEF MayGenerate
    <3> QED  BY <1>1, <1>2, <2>1, <2>3, <3>1
  <2> QED  BY <1>4, <2>2, <2>3 DEF TimerFires
<1>5. ASSUME NEW message \in 1..written[c], RouterAsks(c, message)
      PROVE  /\ UNCHANGED <<ownership, pending, groups>>
             /\ generation' \in [Generations -> GenerationState]
             /\ \A g \in Generations :
                  \/ generation'[g] = generation[g]
                  \/ /\ generation[g] = NoGeneration /\ generation'[g].chat = c
                     /\ generation'[g].by = "operator" \/ owner[c] = "open"
                     /\ generation'[g].by = "router" => c \in groups
  <2>1. UNCHANGED <<ownership, pending, groups>>
    BY <1>5 DEF RouterAsks, suggestions, inbox
  <2>2. CASE UNCHANGED generation
    BY <2>1, <2>2 DEF CopilotIInv
  <2>3. CASE /\ MayGenerate(c) /\ c \in groups
             /\ \E g \in Generations : Begun(g, c, "router", message)
    <3>1. owner[c] = "open" /\ message \in Nat
      BY <2>3 DEF MayGenerate
    <3> QED  BY <1>1, <1>2, <2>1, <2>3, <3>1
  <2> QED  BY <1>5, <2>2, <2>3 DEF RouterAsks
<1> QED  BY <1>3, <1>4, <1>5 DEF Asks

\* A person who takes a chat owns it, and only a person changes that.
LEMMA OwnsKeeps ==
  ASSUME CopilotIInv, NEW c \in Chats, Owns(c)
  PROVE  CopilotIInv' /\ UNCHANGED <<pending, generation, groups>>
<1>1. UNCHANGED <<pending, generation, groups>>
  BY DEF Owns, TakeOver, Escalate, Release, ClosedByOperator, Owned, Written, AutoClosed,
         suggestions, inbox
<1>2. \E status \in HumanOwned \union {"open", "closed"}, by \in {"no", "held", "overruled"} :
        /\ owner' = [owner EXCEPT ![c] = status] /\ held' = [held EXCEPT ![c] = by]
        /\ by = "held" => status \in HumanOwned
  <2>0. /\ owner[c] \in HumanOwned \union {"open", "closed"}
        /\ held[c] \in {"no", "held", "overruled"} /\ held = [held EXCEPT ![c] = held[c]]
        /\ held[c] = "held" => owner[c] \in HumanOwned
    BY DEF CopilotIInv
  <2>1. CASE TakeOver(c) \/ Escalate(c) \/ Release(c) \/ ClosedByOperator(c)
    BY <2>1 DEF TakeOver, Escalate, Release, ClosedByOperator, Owned, HumanOwned
  <2>2. CASE Written(c)
    <3>1. owner' = [owner EXCEPT ![c] = Reopened(owner[c])] /\ held' = held
      BY <2>2 DEF Written
    <3>2. /\ Reopened(owner[c]) \in HumanOwned \union {"open", "closed"}
          /\ owner[c] \in HumanOwned => Reopened(owner[c]) \in HumanOwned
      BY <2>0 DEF Reopened, HumanOwned
    <3> QED  BY <2>0, <3>1, <3>2
  <2>3. CASE AutoClosed(c)
    <3>1. owner' = [owner EXCEPT ![c] = "closed"] /\ held' = held /\ owner[c] = "open"
      BY <2>3 DEF AutoClosed, Stale
    <3> QED  BY <2>0, <3>1 DEF HumanOwned
  <2> QED  BY <2>1, <2>2, <2>3 DEF Owns
<1>3. PICK status \in HumanOwned \union {"open", "closed"}, by \in {"no", "held", "overruled"} :
        /\ owner' = [owner EXCEPT ![c] = status] /\ held' = [held EXCEPT ![c] = by]
        /\ by = "held" => status \in HumanOwned
  BY <1>2
<1>4. \A d \in Chats : held'[d] = "held" => owner'[d] \in HumanOwned
  BY <1>3 DEF CopilotIInv
<1> QED  BY <1>1, <1>3, <1>4 DEF CopilotIInv, PendingQueues

\* What is appended to the suggestions of a chat is its last one then.
LEMMA SavedAppears ==
  ASSUME PendingQueues(pending), NEW c \in Chats, NEW by \in Askers, SuggestionSaved(c, by)
  PROVE  PendingQueues(pending)' /\ \A d \in Chats : Appears(d) => d = c /\ by # "operator"
<1>1. /\ pending' = [pending EXCEPT ![c] = Append(pending[c], by)]
      /\ pending[c] \in Seq(Askers) /\ pending \in [Chats -> Seq(Askers)]
  BY DEF SuggestionSaved, PendingQueues
<1>2. /\ Append(pending[c], by) \in Seq(Askers)
      /\ Len(Append(pending[c], by)) = Len(pending[c]) + 1
      /\ Append(pending[c], by)[Len(pending[c]) + 1] = by
  BY <1>1
<1> QED  BY <1>1, <1>2 DEF PendingQueues, Appears

\* A part of a sequence of suggestions is one.
LEMMA PartOfPending ==
  ASSUME NEW s \in Seq(Askers), NEW m \in 1..(Len(s) + 1), NEW n \in 0..Len(s)
  PROVE  /\ SubSeq(s, m, n) \in Seq(Askers)
         /\ Len(SubSeq(s, m, n)) = IF m <= n THEN n - m + 1 ELSE 0
<1>1. Len(s) \in Nat /\ m \in Int /\ n \in Int /\ \A i \in m..n : i \in 1..Len(s)
  OBVIOUS
<1>2. \A i \in m..n : s[i] \in Askers
  BY <1>1, Seqs!ElementOfSeq
<1> QED  BY <1>1, <1>2, Seqs!SubSeqProperties

LEMMA RemovedShrinks ==
  ASSUME PendingQueues(pending), NEW c \in Chats, Removes(c)
  PROVE  PendingQueues(pending)' /\ \A d \in Chats : ~Appears(d)
<1>0. pending[c] \in Seq(Askers) /\ Len(pending[c]) \in Nat
  BY DEF PendingQueues
<1>1. \E s \in Seq(Askers) :
        Len(s) <= Len(pending[c]) /\ pending' = [pending EXCEPT ![c] = s]
  <2>1. CASE OperatorWrites(c) /\ pending' = pending
    BY <1>0, <2>1 DEF PendingQueues
  <2>2. CASE OperatorWrites(c) /\ pending' # pending
    <3> DEFINE rest == SubSeq(pending[c], 1, Len(pending[c]) - 1)
    <3>1. pending' = [pending EXCEPT ![c] = rest]
      BY <2>2 DEF OperatorWrites
    <3>2. rest \in Seq(Askers) /\ Len(rest) <= Len(pending[c])
      <4>1. CASE Len(pending[c]) > 0
        BY <1>0, <4>1, PartOfPending
      <4>2. CASE Len(pending[c]) = 0
        <5>1. rest = <<>>
          BY <1>0, <4>2, Seqs!SubSeqEmpty
        <5> HIDE DEF rest
        <5> QED  BY <4>2, <5>1
      <4> QED  BY <1>0, <4>1, <4>2
    <3> HIDE DEF rest
    <3> QED  BY <3>1, <3>2
  <2>3. ASSUME NEW k \in 1..Len(pending[c]), Decided(c, k)
        PROVE  \E s \in Seq(Askers) :
                 Len(s) <= Len(pending[c]) /\ pending' = [pending EXCEPT ![c] = s]
    <3> DEFINE l == SubSeq(pending[c], 1, k - 1)
               r == SubSeq(pending[c], k + 1, Len(pending[c]))
    <3>1. l \in Seq(Askers) /\ Len(l) = k - 1
      BY <1>0, PartOfPending
    <3>2. r \in Seq(Askers) /\ Len(r) = Len(pending[c]) - k
      BY <1>0, PartOfPending
    <3>3. pending' = [pending EXCEPT ![c] = l \o r]
      BY <2>3 DEF Decided
    <3> HIDE DEF l, r
    <3>4. l \o r \in Seq(Askers) /\ Len(l \o r) = Len(l) + Len(r)
      BY <3>1, <3>2, Seqs!ConcatProperties
    <3>5. Len(l \o r) <= Len(pending[c])
      BY <1>0, <3>1, <3>2, <3>4
    <3> QED  BY <3>3, <3>4, <3>5
  <2> QED  BY <2>1, <2>2, <2>3 DEF Removes
<1>2. PICK s \in Seq(Askers) :
        Len(s) <= Len(pending[c]) /\ pending' = [pending EXCEPT ![c] = s]
  BY <1>1
<1> QED  BY <1>0, <1>2 DEF PendingQueues, Appears

\* A generation that is over belonged to a chat.
LEMMA OverOfChat ==
  ASSUME CopilotIInv, NEW g \in Generations, GenerationOver(g)
  PROVE  /\ generation[g].chat \in Chats /\ generation[g].by \in Askers
         /\ generation' = [generation EXCEPT ![g] = NoGeneration]
         /\ generation' \in [Generations -> GenerationState]
         /\ \A h \in Generations : generation'[h] \in {generation[h], NoGeneration}
<1>1. generation[g] \in [chat : Chats, by : Askers, source : Nat]
  BY DEF CopilotIInv, GenerationOver, GenerationState
<1>2. NoGeneration \in GenerationState
  BY DEF GenerationState
<1> HIDE DEF NoGeneration
<1> QED  BY <1>1, <1>2 DEF GenerationOver, CopilotIInv

LEMMA SuggestedAppears ==
  ASSUME CopilotIInv, NEW g \in Generations, Suggested(g)
  PROVE  /\ CopilotIInv' /\ UNCHANGED groups
         /\ \A d \in Chats : Appears(d) => d = generation[g].chat
         /\ \A h \in Generations : generation'[h] \in {generation[h], NoGeneration}
<1>1. /\ GenerationOver(g) /\ UNCHANGED <<ownership, groups>>
      /\ SuggestionSaved(generation[g].chat, generation[g].by)
  BY DEF Suggested, inbox
<1>2. NoGeneration.by # "router"
  BY DEF NoGeneration
<1> QED  BY <1>1, <1>2, OverOfChat, SavedAppears DEF CopilotIInv, ownership

LEMMA CopilotKeeps ==
  ASSUME CopilotIInv, CopilotCases
  PROVE  CopilotIInv'
<1>0. NoGeneration.by # "router"
  BY DEF NoGeneration
<1>1. ASSUME NEW c \in Chats, Asks(c) PROVE CopilotIInv'
  BY <1>1, AsksBegin DEF CopilotIInv, PendingQueues, ownership
<1>2. ASSUME NEW c \in Chats, Removes(c) PROVE CopilotIInv'
  <2>1. UNCHANGED <<ownership, generation, groups>>
    BY <1>2 DEF Removes, OperatorWrites, Replied, Decided, inbox
  <2> QED  BY <1>2, <2>1, RemovedShrinks DEF CopilotIInv, ownership
<1>3. ASSUME NEW c \in Chats, OperatorSuggests(c) PROVE CopilotIInv'
  <2>1. /\ UNCHANGED <<ownership, generation, groups>>
        /\ SuggestionSaved(c, "operator") /\ "operator" \in Askers
    BY <1>3 DEF OperatorSuggests, Askers, inbox
  <2> QED  BY <2>1, SavedAppears DEF CopilotIInv, ownership
<1>4. ASSUME NEW g \in Generations, NoReply(g) PROVE CopilotIInv'
  <2> DEFINE c == generation[g].chat
  <2>1. /\ GenerationOver(g) /\ UNCHANGED <<pending, groups>>
        /\ owner' = [owner EXCEPT ![c] = "closed"]
        /\ held' = [held EXCEPT ![c] = IF held[c] = "held" THEN "overruled" ELSE held[c]]
    BY <1>4 DEF NoReply, suggestions, inbox
  <2>2. c \in Chats /\ generation' \in [Generations -> GenerationState]
    BY <2>1, OverOfChat
  <2> HIDE DEF c
  <2>3. /\ owner' \in [Chats -> HumanOwned \union {"open", "closed"}]
        /\ held' \in [Chats -> {"no", "held", "overruled"}]
        /\ \A d \in Chats : held'[d] = "held" => owner'[d] \in HumanOwned
    BY <2>1, <2>2 DEF CopilotIInv
  <2>4. \A h \in Generations : generation'[h].by = "router" => generation'[h].chat \in groups
    BY <1>0, <2>1, OverOfChat DEF CopilotIInv
  <2> QED  BY <2>1, <2>2, <2>3, <2>4 DEF CopilotIInv, PendingQueues
<1>5. ASSUME NEW g \in Generations, NothingToSuggest(g) PROVE CopilotIInv'
  BY <1>0, <1>5, OverOfChat
     DEF NothingToSuggest, CopilotIInv, PendingQueues, suggestions, ownership, inbox
<1>6. CASE CopilotRestart
  <2>1. generation' \in [Generations -> GenerationState]
    BY <1>6 DEF CopilotRestart, GenerationState
  <2> QED  BY <1>0, <1>6, <2>1
           DEF CopilotRestart, CopilotIInv, PendingQueues, suggestions, ownership, inbox
<1>7. CASE UNCHANGED copilotVars
  BY <1>7 DEF copilotVars, CopilotIInv, PendingQueues, suggestions, ownership, inbox
<1>8. ASSUME NEW c \in Chats, OperatorRepliesOtherwise(c) PROVE CopilotIInv'
  BY <1>8 DEF OperatorRepliesOtherwise, Replied, CopilotIInv, PendingQueues, ownership
<1> QED  BY <1>1, <1>2, <1>3, <1>4, <1>5, <1>6, <1>7, <1>8, OwnsKeeps, SuggestedAppears
         DEF CopilotCases

\* A conversation a person holds gets no generation and, one to one, no suggestion
\* but a person's, for any conversations, generations under way and messages.
THEOREM HeldIsSilentHolds == CopilotSpec => HeldIsSilent
<1>1. CopilotInit => CopilotIInv
  <2> SUFFICES ASSUME CopilotInit PROVE CopilotIInv
    OBVIOUS
  <2>1. PendingQueues(pending) /\ groups \subseteq Chats
    BY DEF CopilotInit, PendingQueues
  <2>2. NoGeneration \in GenerationState /\ NoGeneration.by # "router"
    BY DEF GenerationState, NoGeneration
  <2> HIDE DEF NoGeneration
  <2> QED  BY <2>1, <2>2 DEF CopilotInit, CopilotIInv
<1>2. CopilotIInv /\ [CopilotNext]_copilotVars => CopilotIInv'
  BY CopilotSteps, CopilotKeeps
<1>3. ASSUME CopilotIInv, [CopilotNext]_copilotVars, NEW c \in Chats, held[c] = "held"
      PROVE  /\ \A g \in Generations :
                  generation[g] = NoGeneration /\ generation'[g].chat = c
                    => generation'[g].by = "operator"
             /\ c \notin groups => ~Appears(c)
  <2>0. owner[c] \in HumanOwned /\ owner[c] # "open" /\ NoGeneration.chat # c
    BY <1>3, ChatsAssumption DEF CopilotIInv, HumanOwned, NoGeneration
  <2>1. CopilotCases
    BY <1>3, CopilotSteps
  <2>2. ASSUME NEW d \in Chats, Asks(d)
        PROVE  /\ \A g \in Generations :
                    generation[g] = NoGeneration /\ generation'[g].chat = c
                      => generation'[g].by = "operator"
               /\ ~Appears(c)
    <3>1. pending' = pending
      BY <1>3, <2>2, AsksBegin
    <3>2. ~Appears(c)
      BY <1>3, <3>1 DEF Appears, CopilotIInv, PendingQueues
    <3> QED  BY <1>3, <2>0, <2>2, <3>2, AsksBegin
  <2>3. ASSUME NEW g \in Generations, Suggested(g), c \notin groups PROVE ~Appears(c)
    <3>1. CASE generation[g].by = "operator"
      BY <1>3, <2>3, <3>1, OverOfChat, SavedAppears DEF Suggested, CopilotIInv
    <3>2. CASE generation[g].by # "operator" /\ generation[g].chat = c
      <4>1. MaySave(g)
        BY <2>3 DEF Suggested
      <4>2. generation[g].by = "debounce"
        <5>1. generation[g].by # "router"
          BY <1>3, <2>3, <3>2 DEF CopilotIInv
        <5> QED  BY <1>3, <2>3, <3>2, <5>1, OverOfChat DEF Suggested, Askers
      <4> QED  BY <2>0, <2>3, <3>2, <4>1, <4>2 DEF MaySave
    <3> QED  BY <1>3, <2>3, <3>1, <3>2, SuggestedAppears
  <2>4. ASSUME NEW g \in Generations, GenerationOver(g)
        PROVE  \A h \in Generations : generation'[h].chat = c => generation[h] # NoGeneration
    BY <1>3, <2>0, <2>4, OverOfChat
  <2>5. CASE \E g \in Generations : Suggested(g) \/ NothingToSuggest(g) \/ NoReply(g)
    <3>1. PICK g \in Generations : Suggested(g) \/ NothingToSuggest(g) \/ NoReply(g)
      BY <2>5
    <3>2. GenerationOver(g)
      BY <3>1 DEF Suggested, NothingToSuggest, NoReply
    <3>3. CASE UNCHANGED pending
      BY <1>3, <2>4, <3>2, <3>3 DEF Appears, CopilotIInv, PendingQueues
    <3>4. CASE Suggested(g)
      BY <2>3, <2>4, <3>2, <3>4
    <3> QED  BY <3>1, <3>3, <3>4 DEF NothingToSuggest, NoReply, suggestions
  <2>6. CASE \E d \in Chats : Removes(d)
    <3>1. PICK d \in Chats : Removes(d)
      BY <2>6
    <3>2. UNCHANGED generation
      BY <3>1 DEF Removes, OperatorWrites, Replied, Decided
    <3> QED  BY <1>3, <2>0, <3>1, <3>2, RemovedShrinks DEF CopilotIInv
  <2>7. CASE \E d \in Chats : OperatorSuggests(d)
    <3>1. PICK d \in Chats : OperatorSuggests(d)
      BY <2>7
    <3>2. UNCHANGED generation /\ SuggestionSaved(d, "operator") /\ "operator" \in Askers
      BY <3>1 DEF OperatorSuggests, Askers
    <3> QED  BY <1>3, <2>0, <3>2, SavedAppears DEF CopilotIInv
  <2>8. CASE UNCHANGED pending /\ (UNCHANGED generation \/ CopilotRestart)
    <3>1. ~Appears(c)
      BY <1>3, <2>8 DEF Appears, CopilotIInv, PendingQueues
    <3>2. \A g \in Generations : generation'[g].chat = c => generation[g] # NoGeneration
      BY <2>0, <2>8 DEF CopilotRestart
    <3> QED  BY <3>1, <3>2
  <2>9. CASE CopilotRestart \/ UNCHANGED copilotVars
    BY <2>8, <2>9 DEF CopilotRestart, copilotVars, suggestions
  <2>10. ASSUME NEW d \in Chats, Owns(d) \/ OperatorRepliesOtherwise(d)
         PROVE  UNCHANGED <<pending, generation>>
    BY <1>3, <2>10, OwnsKeeps DEF OperatorRepliesOtherwise, Replied
  <2> QED  BY <2>1, <2>2, <2>5, <2>6, <2>7, <2>8, <2>9, <2>10 DEF CopilotCases
<1>4. CopilotIInv /\ [CopilotNext]_copilotVars =>
        [\A c \in Chats : held[c] = "held" =>
           /\ \A g \in Generations :
                generation[g] = NoGeneration /\ generation'[g].chat = c
                  => generation'[g].by = "operator"
           /\ c \notin groups => ~Appears(c)]_copilotVars
  BY <1>3
<1> QED  BY <1>1, <1>2, <1>4, PTL DEF CopilotSpec, HeldIsSilent

-----------------------------------------------------------------------------
(***************************************************************************)
(* What an operator sends.                                                 *)
(***************************************************************************)

RepliesIInv ==
  /\ says \in [DashboardReplies -> {b \in Bodies : b.echo \in {b.text, Placeholder}}]
  /\ reply \in [DashboardReplies -> [status : {"none", "pending", "sent", "failed"},
                                     id : DashboardReplies \union {NoId}, fresh : BOOLEAN]]
  /\ sending \in [DashboardReplies -> {"none", "flying", "taken", "refused"}]
  /\ posted \in Seq(DashboardReplies)
  /\ \A y \in DashboardReplies :
       /\ reply[y].fresh => y \in ToSet(posted)
       /\ sending[y] # "none" \/ y \in awaiting => reply[y].status # "none"
       /\ reply[y].status = "sent" /\ ~says[y].media => reply[y].id = y
       /\ LET x == reply[y].id
          IN  x \notin {NoId, y} => says[x].text = says[y].text /\ reply[x].status # "none"

LEMMA RowOfReply ==
  ASSUME NEW r \in [status : {"none", "pending", "sent", "failed"},
                    id : DashboardReplies \union {NoId}, fresh : BOOLEAN],
         NEW s \in {"none", "pending", "sent", "failed"}, NEW f \in BOOLEAN,
         NEW i \in DashboardReplies \union {NoId}
  PROVE  /\ [r EXCEPT !.status = s, !.fresh = f] =
              [status |-> s, id |-> r.id, fresh |-> f]
         /\ [r EXCEPT !.status = s, !.id = i] = [status |-> s, id |-> i, fresh |-> r.fresh]
         /\ [r EXCEPT !.status = s] = [status |-> s, id |-> r.id, fresh |-> r.fresh]
         /\ [r EXCEPT !.fresh = f] = [status |-> r.status, id |-> r.id, fresh |-> f]
         /\ [r EXCEPT !.id = i] = [status |-> r.status, id |-> i, fresh |-> r.fresh]
<1>1. r = [status |-> r.status, id |-> r.id, fresh |-> r.fresh]
  OBVIOUS
<1> DEFINE q == [r EXCEPT !.status = s]
<1>2. q = [status |-> s, id |-> r.id, fresh |-> r.fresh]
  BY <1>1
<1> HIDE DEF q
<1>3. /\ [q EXCEPT !.fresh = f] = [status |-> s, id |-> r.id, fresh |-> f]
      /\ [q EXCEPT !.id = i] = [status |-> s, id |-> i, fresh |-> r.fresh]
  BY <1>2
<1>4. /\ [r EXCEPT !.status = s] = [status |-> s, id |-> r.id, fresh |-> r.fresh]
      /\ [r EXCEPT !.fresh = f] = [status |-> r.status, id |-> r.id, fresh |-> f]
      /\ [r EXCEPT !.id = i] = [status |-> r.status, id |-> i, fresh |-> r.fresh]
  BY <1>1
<1> QED  BY <1>2, <1>3, <1>4 DEF q

\* One row changes, and what it says of the others is still so.
LEMMA RowChanges ==
  ASSUME RepliesIInv, NEW y \in DashboardReplies, UNCHANGED says,
         NEW row \in [status : {"none", "pending", "sent", "failed"},
                      id : DashboardReplies \union {NoId}, fresh : BOOLEAN],
         reply' = [reply EXCEPT ![y] = row],
         sending' \in [DashboardReplies -> {"none", "flying", "taken", "refused"}],
         posted' \in Seq(DashboardReplies), ToSet(posted) \subseteq ToSet(posted'),
         \A z \in DashboardReplies \ {y} :
           sending'[z] # "none" \/ z \in awaiting' => sending[z] # "none" \/ z \in awaiting,
         row.fresh => y \in ToSet(posted'),
         row.status # "none" \/ (sending'[y] = "none" /\ y \notin awaiting'),
         reply[y].status # "none" => row.status # "none",
         row.status = "sent" /\ ~says[y].media => row.id = y,
         row.id \notin {NoId, y} =>
           says[row.id].text = says[y].text /\ reply[row.id].status # "none"
  PROVE  RepliesIInv'
<1>1. /\ reply' \in [DashboardReplies -> [status : {"none", "pending", "sent", "failed"},
                                          id : DashboardReplies \union {NoId}, fresh : BOOLEAN]]
      /\ reply'[y] = row /\ \A z \in DashboardReplies \ {y} : reply'[z] = reply[z]
  BY DEF RepliesIInv
<1>2. \A z \in DashboardReplies : reply[z].status # "none" => reply'[z].status # "none"
  BY <1>1
<1>3. ASSUME NEW z \in DashboardReplies
      PROVE  /\ reply'[z].fresh => z \in ToSet(posted')
             /\ sending'[z] # "none" \/ z \in awaiting' => reply'[z].status # "none"
             /\ reply'[z].status = "sent" /\ ~says'[z].media => reply'[z].id = z
             /\ LET x == reply'[z].id
                IN  x \notin {NoId, z} =>
                      says'[x].text = says'[z].text /\ reply'[x].status # "none"
  <2>1. CASE z = y
    <3>1. row.id \notin {NoId, y} => row.id \in DashboardReplies
      OBVIOUS
    <3> QED  BY <1>1, <1>2, <2>1, <3>1
  <2>2. CASE z # y
    <3>1. reply'[z] = reply[z]
      BY <1>1, <2>2
    <3>2. /\ reply[z].fresh => z \in ToSet(posted)
          /\ sending[z] # "none" \/ z \in awaiting => reply[z].status # "none"
          /\ reply[z].status = "sent" /\ ~says[z].media => reply[z].id = z
      BY DEF RepliesIInv
    <3>3. reply[z].id \notin {NoId, z} =>
            /\ reply[z].id \in DashboardReplies
            /\ says[reply[z].id].text = says[z].text /\ reply[reply[z].id].status # "none"
      BY DEF RepliesIInv
    <3> QED  BY <1>2, <2>2, <3>1, <3>2, <3>3
  <2> QED  BY <2>1, <2>2
<1>4. says' \in [DashboardReplies -> {b \in Bodies : b.echo \in {b.text, Placeholder}}]'
  BY DEF RepliesIInv, Bodies
<1> QED  BY <1>1, <1>3, <1>4 DEF RepliesIInv

LEMMA AppendedSet ==
  ASSUME NEW s \in Seq(DashboardReplies), NEW y \in DashboardReplies
  PROVE  /\ Append(s, y) \in Seq(DashboardReplies)
         /\ ToSet(s) \subseteq ToSet(Append(s, y)) /\ y \in ToSet(Append(s, y))
<1>1. /\ Append(s, y) \in Seq(DashboardReplies) /\ Len(Append(s, y)) = Len(s) + 1
      /\ \A i \in 1..Len(s) : Append(s, y)[i] = s[i]
      /\ Append(s, y)[Len(s) + 1] = y /\ Len(s) \in Nat
  OBVIOUS
<1>2. DOMAIN s = 1..Len(s) /\ DOMAIN Append(s, y) = 1..(Len(s) + 1)
  OBVIOUS
<1> QED  BY <1>1, <1>2 DEF ToSet

LEMMA RepliesStepKeeps ==
  ASSUME RepliesIInv, NEW y \in DashboardReplies,
         SendReply(y) \/ Arrives(y) \/ SendAnswered(y) \/ SendFails(y) \/ ReplyAges(y) \/ Echo(y)
  PROVE  RepliesIInv'
<1>1. /\ reply[y] \in [status : {"none", "pending", "sent", "failed"},
                       id : DashboardReplies \union {NoId}, fresh : BOOLEAN]
      /\ reply[y].fresh => y \in ToSet(posted)
      /\ sending[y] # "none" \/ y \in awaiting => reply[y].status # "none"
      /\ reply[y].status = "sent" /\ ~says[y].media => reply[y].id = y
      /\ reply[y].id \notin {NoId, y} =>
           says[reply[y].id].text = says[y].text /\ reply[reply[y].id].status # "none"
      /\ sending \in [DashboardReplies -> {"none", "flying", "taken", "refused"}]
      /\ posted \in Seq(DashboardReplies)
  BY DEF RepliesIInv
<1>2. CASE SendReply(y)
  <2> DEFINE row == [status |-> "pending", id |-> reply[y].id, fresh |-> TRUE]
  <2>1. reply' = [reply EXCEPT ![y] = row]
    <3>1. reply' = [reply EXCEPT ![y] = [reply[y] EXCEPT !.status = "pending", !.fresh = TRUE]]
      BY <1>2 DEF SendReply
    <3>2. [reply[y] EXCEPT !.status = "pending", !.fresh = TRUE] = row
      BY <1>1, RowOfReply
    <3> QED  BY <3>1, <3>2
  <2>2. /\ posted' = Append(posted, y) /\ sending' = [sending EXCEPT ![y] = "flying"]
        /\ awaiting' = awaiting \union {y} /\ UNCHANGED says
    BY <1>2 DEF SendReply
  <2>3. /\ posted' \in Seq(DashboardReplies) /\ ToSet(posted) \subseteq ToSet(posted')
        /\ y \in ToSet(posted')
    BY <1>1, <2>2, AppendedSet
  <2>4. /\ sending' \in [DashboardReplies -> {"none", "flying", "taken", "refused"}]
        /\ \A z \in DashboardReplies \ {y} :
             sending'[z] # "none" \/ z \in awaiting' => sending[z] # "none" \/ z \in awaiting
    BY <1>1, <2>2
  <2>5. row \in [status : {"none", "pending", "sent", "failed"},
                 id : DashboardReplies \union {NoId}, fresh : BOOLEAN]
        /\ row.status = "pending" /\ row.id = reply[y].id
    BY <1>1
  <2> HIDE DEF row
  <2> QED  BY <1>1, <2>1, <2>2, <2>3, <2>4, <2>5, RowChanges
<1>3. CASE Arrives(y)
  <2>1. PICK fate \in {"taken", "refused"} : sending' = [sending EXCEPT ![y] = fate]
    BY <1>3 DEF Arrives
  <2>2. UNCHANGED <<says, reply, posted, awaiting>> /\ sending[y] # "none"
    BY <1>3 DEF Arrives
  <2>3. /\ sending' \in [DashboardReplies -> {"none", "flying", "taken", "refused"}]
        /\ \A z \in DashboardReplies : sending'[z] # "none" => sending[z] # "none"
    BY <1>1, <2>1, <2>2
  <2> QED  BY <2>2, <2>3 DEF RepliesIInv, Bodies
<1>4. CASE SendAnswered(y)
  <2> DEFINE row == [status |-> "sent", id |-> IdRecorded(y), fresh |-> reply[y].fresh]
  <2>1. IdRecorded(y) \in {y, reply[y].id} /\ (~says[y].media => IdRecorded(y) = y)
    BY DEF IdRecorded
  <2> DEFINE i == IdRecorded(y)
  <2>5. i \in DashboardReplies \union {NoId}
    BY <1>1, <2>1
  <2>2. reply' = [reply EXCEPT ![y] = row]
    <3>1. reply' = [reply EXCEPT ![y] =
                      [reply[y] EXCEPT !.status = "sent", !.id = IdRecorded(y)]]
      BY <1>4 DEF SendAnswered
    <3> HIDE DEF i
    <3>2. [reply[y] EXCEPT !.status = "sent", !.id = i]
            = [status |-> "sent", id |-> i, fresh |-> reply[y].fresh]
      BY <1>1, <2>5, RowOfReply, ZenonT(30)
    <3> USE DEF i
    <3> QED  BY <3>1, <3>2
  <2>3. row \in [status : {"none", "pending", "sent", "failed"},
                 id : DashboardReplies \union {NoId}, fresh : BOOLEAN]
        /\ row.status = "sent" /\ row.id = IdRecorded(y) /\ row.fresh = reply[y].fresh
    BY <1>1, <2>1
  <2>4. awaiting' = awaiting \ {y} /\ UNCHANGED <<says, posted, sending>>
    BY <1>4 DEF SendAnswered
  <2> HIDE DEF row
  <2> QED  BY <1>1, <2>1, <2>2, <2>3, <2>4, RowChanges
<1>5. CASE SendFails(y)
  <2> DEFINE row == [status |-> "failed", id |-> reply[y].id, fresh |-> reply[y].fresh]
  <2>1. reply' = [reply EXCEPT ![y] = row]
    <3>1. reply' = [reply EXCEPT ![y] = [reply[y] EXCEPT !.status = "failed"]]
      BY <1>5 DEF SendFails
    <3>2. [reply[y] EXCEPT !.status = "failed"] = row
      BY <1>1, RowOfReply
    <3> QED  BY <3>1, <3>2
  <2>2. row \in [status : {"none", "pending", "sent", "failed"},
                 id : DashboardReplies \union {NoId}, fresh : BOOLEAN]
        /\ row.status = "failed" /\ row.id = reply[y].id /\ row.fresh = reply[y].fresh
    BY <1>1
  <2>3. awaiting' = awaiting \ {y} /\ UNCHANGED <<says, posted, sending>>
    BY <1>5 DEF SendFails
  <2> HIDE DEF row
  <2> QED  BY <1>1, <2>1, <2>2, <2>3, RowChanges
<1>6. CASE ReplyAges(y)
  <2> DEFINE row == [status |-> reply[y].status, id |-> reply[y].id, fresh |-> FALSE]
  <2>1. reply' = [reply EXCEPT ![y] = row]
    <3>1. reply' = [reply EXCEPT ![y] = [reply[y] EXCEPT !.fresh = FALSE]]
      BY <1>6 DEF ReplyAges
    <3>2. [reply[y] EXCEPT !.fresh = FALSE] = row
      BY <1>1, RowOfReply
    <3> QED  BY <3>1, <3>2
  <2>2. row \in [status : {"none", "pending", "sent", "failed"},
                 id : DashboardReplies \union {NoId}, fresh : BOOLEAN]
        /\ row.status = reply[y].status /\ row.id = reply[y].id /\ ~row.fresh
    BY <1>1
  <2>3. UNCHANGED <<says, posted, sending, awaiting>>
    BY <1>6 DEF ReplyAges
  <2> HIDE DEF row
  <2> QED  BY <1>1, <2>1, <2>2, <2>3, RowChanges
<1>7. CASE Echo(y)
  <2>1. UNCHANGED <<says, posted, sending, awaiting>> /\ sending[y] = "taken"
    BY <1>7 DEF Echo
  <2>2. CASE reply' = reply
    BY <2>1, <2>2 DEF RepliesIInv, Bodies
  <2>3. ASSUME NEW x \in Matches(says[y].echo), reply' = [reply EXCEPT ![x].id = y]
        PROVE  RepliesIInv'
    <3>1. /\ x \in ToSet(posted) /\ reply[x].fresh /\ reply[x].id = NoId
          /\ says[x].text = says[y].echo
      BY DEF Matches
    <3>2. x \in DashboardReplies
      BY <1>1, <3>1 DEF ToSet
    <3>3. /\ reply[x] \in [status : {"none", "pending", "sent", "failed"},
                           id : DashboardReplies \union {NoId}, fresh : BOOLEAN]
          /\ sending[x] # "none" \/ x \in awaiting => reply[x].status # "none"
          /\ reply[x].status = "sent" /\ ~says[x].media => reply[x].id = x
          /\ says[x].text \in Texts /\ says[y].echo \in {says[y].text, Placeholder}
      BY <3>2 DEF RepliesIInv, Bodies
    <3>4. ~(reply[x].status = "sent" /\ ~says[x].media)
      BY <3>1, <3>2, <3>3, RepliesAssumption
    <3>5. says[y].text = says[x].text
      BY <3>1, <3>3, RepliesAssumption
    <3> DEFINE row == [status |-> reply[x].status, id |-> y, fresh |-> reply[x].fresh]
    <3>6. reply' = [reply EXCEPT ![x] = row]
      <4>1. reply' = [reply EXCEPT ![x] = [reply[x] EXCEPT !.id = y]]
        BY <2>3
      <4>2. [reply[x] EXCEPT !.id = y] = row
        BY <3>3, RowOfReply
      <4> QED  BY <4>1, <4>2
    <3>7. row \in [status : {"none", "pending", "sent", "failed"},
                   id : DashboardReplies \union {NoId}, fresh : BOOLEAN]
          /\ row.status = reply[x].status /\ row.id = y /\ row.fresh = reply[x].fresh
      BY <3>3
    <3> HIDE DEF row
    <3> QED  BY <1>1, <2>1, <3>1, <3>2, <3>3, <3>4, <3>5, <3>6, <3>7, RowChanges
  <2> QED  BY <1>7, <2>2, <2>3 DEF Echo
<1> QED  BY <1>2, <1>3, <1>4, <1>5, <1>6, <1>7

LEMMA RepliesInvariant == RepliesSpec => []RepliesIInv
<1>1. RepliesInit => RepliesIInv
  <2> SUFFICES ASSUME RepliesInit PROVE RepliesIInv
    OBVIOUS
  <2> DEFINE unposted == [status |-> "none", id |-> NoId, fresh |-> FALSE]
  <2>1. /\ reply = [y \in DashboardReplies |-> unposted] /\ posted = <<>> /\ awaiting = {}
        /\ sending = [y \in DashboardReplies |-> "none"]
        /\ says \in [DashboardReplies -> {b \in Bodies : b.echo \in {b.text, Placeholder}}]
    BY DEF RepliesInit
  <2>2. /\ unposted \in [status : {"none", "pending", "sent", "failed"},
                      id : DashboardReplies \union {NoId}, fresh : BOOLEAN]
        /\ unposted.status = "none" /\ unposted.id = NoId /\ ~unposted.fresh
    OBVIOUS
  <2> HIDE DEF unposted
  <2>3. posted \in Seq(DashboardReplies)
    BY <2>1
  <2> QED  BY <2>1, <2>2, <2>3 DEF RepliesIInv
<1>2. RepliesIInv /\ [RepliesNext]_repliesVars => RepliesIInv'
  <2> SUFFICES ASSUME RepliesIInv, [RepliesNext]_repliesVars PROVE RepliesIInv'
    OBVIOUS
  <2>1. CASE UNCHANGED <<says, reply, posted, sending>> /\ awaiting' \in {{}, awaiting}
    BY <2>1 DEF RepliesIInv, Bodies
  <2> QED  BY <2>1, RepliesStepKeeps DEF RepliesNext, CopilotDies, repliesVars
<1> QED  BY <1>1, <1>2, PTL DEF RepliesSpec

\* The echo of a text known to be sent is never stored beside it, and of another reply
\* only if its row could not be told from the rest, for any replies, texts and media.
THEOREM ShownOnceHolds == RepliesSpec => ShownOnce
<1>1. RepliesIInv /\ [RepliesNext]_repliesVars =>
        [\A y \in echoes' \ echoes :
           /\ reply[y].status = "sent" => says[y].media
           /\ Unmatched(y)]_repliesVars
  <2> SUFFICES ASSUME RepliesIInv, RepliesNext, NEW y \in echoes', y \notin echoes
               PROVE  (reply[y].status = "sent" => says[y].media) /\ Unmatched(y)
    BY DEF repliesVars
  <2>1. y \in DashboardReplies /\ ~Known(y) /\ Matches(says[y].echo) = {}
    BY DEF RepliesNext, SendReply, Arrives, SendAnswered, SendFails, ReplyAges, CopilotDies, Echo
  <2>2. \A x \in DashboardReplies : reply[x].id # y
    BY <2>1 DEF Known
  <2>3. reply[y].status = "sent" => says[y].media
    BY <2>1, <2>2 DEF RepliesIInv
  <2>4. ASSUME says[y].echo = says[y].text, reply[y].fresh
        PROVE  \E x \in DashboardReplies \ {y} :
                 reply[x].status # "none" /\ says[x].text = says[y].text
    <3>1. y \in ToSet(posted)
      BY <2>1, <2>4 DEF RepliesIInv
    <3>2. reply[y].id # NoId
      BY <2>1, <2>4, <3>1 DEF Matches
    <3> DEFINE x == reply[y].id
    <3>3. x \in DashboardReplies \ {y}
      BY <2>1, <2>2, <3>2 DEF RepliesIInv
    <3>4. reply[x].status # "none" /\ says[x].text = says[y].text
      BY <2>1, <3>2, <3>3 DEF RepliesIInv
    <3> QED  BY <3>3, <3>4
  <2> QED  BY <2>3, <2>4 DEF Unmatched
<1> QED  BY <1>1, RepliesInvariant, PTL DEF RepliesSpec, ShownOnce

-----------------------------------------------------------------------------
(***************************************************************************)
(* Whose conversation a message is filed in.                               *)
(***************************************************************************)
Rows == [phone : Phones \union {NoPhone}, aliases : SUBSET Identifiers,
         name : PushNames \union {NoName}]

RowMap(db) == db = [c \in DOMAIN db |-> db[c]] /\ \A c \in DOMAIN db : db[c] \in Rows

MailRecords(mails) == \A f \in mails : f = [mail |-> f.mail, in |-> f.in]

\* Nobody is known by two conversations, a and b apart.
SeparateBut(db, a, b) ==
  \A c, d \in DOMAIN db :
    Aliases(db[c]) \intersect Aliases(db[d]) # {} => c = d \/ {c, d} = {a, b}

Separate(db) ==
  \A c, d \in DOMAIN db : Aliases(db[c]) \intersect Aliases(db[d]) # {} => c = d

\* A message is where its sender is known.
Placed(mails, db) ==
  \A f \in mails : f.mail \in Mails =>
    /\ f.in \in DOMAIN db /\ envelope[f.mail] \in Envelopes
    /\ envelope[f.mail].from \in Aliases(db[f.in])

IdentityIInv ==
  /\ born \in Nat /\ DOMAIN threads \subseteq 1..born /\ RowMap(threads) /\ MailRecords(filed)
  /\ envelope \in [Mails -> Envelopes \union {Unreceived}]
  /\ \A b \in bindings : b.phone \in Phones
  /\ rebound \in BOOLEAN
  /\ ~rebound => Separate(threads) /\ Placed(filed, threads)

LEMMA MatchingKnows ==
  ASSUME NEW db, RowMap(db), NEW id \in Identifiers
  PROVE  Matching(db, id) = {c \in DOMAIN db : id \in Aliases(db[c])}
  BY IdentityAssumption DEF Matching, Aliases, Identifiers

LEMMA AbsorbedKnows ==
  ASSUME NEW t \in Rows, NEW s \in Rows
  PROVE  /\ Absorbed(t, s) \in Rows
         /\ Aliases(Absorbed(t, s)) = Aliases(t) \union Aliases(s)
<1> DEFINE phone == IF t.phone # NoPhone THEN t.phone ELSE s.phone
           known == Aliases(t) \union Aliases(s)
           name == IF t.name # NoName THEN t.name ELSE s.name
<1>1. Absorbed(t, s) = [phone |-> phone, aliases |-> known \ {phone}, name |-> name]
  BY DEF Absorbed
<1>2. /\ known \subseteq Identifiers /\ NoPhone \notin known
      /\ phone \in Phones \union {NoPhone} /\ name \in PushNames \union {NoName}
      /\ phone = NoPhone \/ phone \in known
  BY IdentityAssumption DEF Rows, Aliases, Identifiers
<1> HIDE DEF phone, known, name
<1>3. Absorbed(t, s) \in Rows
  BY <1>1, <1>2 DEF Rows
<1>4. Aliases(Absorbed(t, s)) = known
  <2>1. Aliases(Absorbed(t, s)) = (known \ {phone}) \union ({phone} \ {NoPhone})
    BY <1>1 DEF Aliases
  <2> QED  BY <1>2, <2>1
<1> QED  BY <1>3, <1>4 DEF known

\* A database in which each conversation is known by as much, or more.
LEMMA PlacedMore ==
  ASSUME NEW mails, NEW db, NEW more, Placed(mails, db), DOMAIN db \subseteq DOMAIN more,
         \A c \in DOMAIN db : Aliases(db[c]) \subseteq Aliases(more[c])
  PROVE  Placed(mails, more)
  BY DEF Placed

LEMMA SeparateSame ==
  ASSUME NEW db, NEW same, Separate(db), DOMAIN db = DOMAIN same,
         \A c \in DOMAIN db : Aliases(db[c]) = Aliases(same[c])
  PROVE  Separate(same)
  BY DEF Separate

\* Two conversations become one, and its messages with them.
LEMMA MergedKeeps ==
  ASSUME NEW db, RowMap(db), MailRecords(filed),
         NEW target \in DOMAIN db, NEW source \in DOMAIN db, target # source
  PROVE  LET left == Merged(db, target, source)
         IN  /\ RowMap(left.threads) /\ DOMAIN left.threads = DOMAIN db \ {source}
             /\ MailRecords(left.filed) /\ left.into = target
             /\ Aliases(left.threads[target]) = Aliases(db[target]) \union Aliases(db[source])
             /\ SeparateBut(db, target, source) => Separate(left.threads)
             /\ Placed(filed, db) => Placed(left.filed, left.threads)
<1> DEFINE left == Merged(db, target, source)
           one == Absorbed(db[target], db[source])
<1>1. /\ left.threads = [c \in DOMAIN db \ {source} |-> IF c = target THEN one ELSE db[c]]
      /\ left.filed = {IF f.in = source THEN [f EXCEPT !.in = target] ELSE f : f \in filed}
      /\ left.into = target
  BY DEF Merged, Outcome
<1>2. /\ one \in Rows /\ Aliases(one) = Aliases(db[target]) \union Aliases(db[source])
  BY AbsorbedKnows DEF RowMap
<1> HIDE DEF left, one
<1>3. /\ DOMAIN left.threads = DOMAIN db \ {source} /\ left.threads[target] = one
      /\ \A c \in DOMAIN db \ {source, target} : left.threads[c] = db[c]
  BY <1>1
<1>4. RowMap(left.threads)
  <2>1. left.threads = [c \in DOMAIN left.threads |-> left.threads[c]]
    BY <1>1
  <2>2. \A c \in DOMAIN left.threads : left.threads[c] \in Rows
    BY <1>2, <1>3 DEF RowMap
  <2> QED  BY <2>1, <2>2 DEF RowMap
<1>5. ASSUME NEW g \in left.filed
      PROVE  \E f \in filed : /\ f.mail = g.mail /\ g = [mail |-> g.mail, in |-> g.in]
                              /\ g.in = IF f.in = source THEN target ELSE f.in
  <2>1. PICK f \in filed : g = IF f.in = source THEN [f EXCEPT !.in = target] ELSE f
    BY <1>1
  <2>2. f = [mail |-> f.mail, in |-> f.in]
    BY DEF MailRecords
  <2>3. [f EXCEPT !.in = target] = [mail |-> f.mail, in |-> target]
    BY <2>2
  <2>4. g = [mail |-> f.mail, in |-> IF f.in = source THEN target ELSE f.in]
    BY <2>1, <2>2, <2>3
  <2> QED  BY <2>4
<1>6. MailRecords(left.filed)
  BY <1>5 DEF MailRecords
<1>7. ASSUME SeparateBut(db, target, source) PROVE Separate(left.threads)
  <2> SUFFICES ASSUME NEW c \in DOMAIN left.threads, NEW d \in DOMAIN left.threads, c # d,
                      NEW id \in Aliases(left.threads[c]), id \in Aliases(left.threads[d])
               PROVE  FALSE
    BY DEF Separate
  <2>1. /\ c \in DOMAIN db /\ d \in DOMAIN db /\ c # source /\ d # source
    BY <1>3
  <2>2. \A x \in DOMAIN db, y \in DOMAIN db :
          id \in Aliases(db[x]) /\ id \in Aliases(db[y]) => x = y \/ {x, y} = {target, source}
    BY <1>7 DEF SeparateBut
  <2>3. CASE c # target /\ d # target
    BY <1>3, <2>1, <2>2, <2>3
  <2>4. CASE c = target
    BY <1>2, <1>3, <2>1, <2>2, <2>4
  <2>5. CASE d = target
    BY <1>2, <1>3, <2>1, <2>2, <2>5
  <2> QED  BY <2>3, <2>4, <2>5
<1>8. ASSUME Placed(filed, db) PROVE Placed(left.filed, left.threads)
  <2> SUFFICES ASSUME NEW g \in left.filed, g.mail \in Mails
               PROVE  /\ g.in \in DOMAIN left.threads /\ envelope[g.mail] \in Envelopes
                      /\ envelope[g.mail].from \in Aliases(left.threads[g.in])
    BY DEF Placed
  <2>1. PICK f \in filed : /\ f.mail = g.mail
                           /\ g.in = IF f.in = source THEN target ELSE f.in
    BY <1>5
  <2>2. /\ f.in \in DOMAIN db /\ envelope[g.mail] \in Envelopes
        /\ envelope[g.mail].from \in Aliases(db[f.in])
    BY <1>8, <2>1 DEF Placed
  <2>3. Aliases(db[f.in]) \subseteq Aliases(left.threads[g.in])
    BY <1>2, <1>3, <2>1, <2>2
  <2> QED  BY <1>3, <2>1, <2>2, <2>3
<1> QED  BY <1>1, <1>2, <1>3, <1>4, <1>6, <1>7, <1>8 DEF left

\* What a message leaves behind: the sender is known by the conversation it goes on with.
Sound(left, e) ==
  /\ RowMap(left.threads) /\ MailRecords(left.filed)
  /\ left.into \in DOMAIN left.threads /\ e.from \in Aliases(left.threads[left.into])
  /\ ~rebound => Separate(left.threads) /\ Placed(left.filed, left.threads)

LEMMA RenamedKeeps ==
  ASSUME NEW left, NEW c, NEW e \in Envelopes, Sound(left, e),
         left = Outcome(left.threads, left.filed, left.into)
  PROVE  /\ Sound(Renamed(left, c, e), e)
         /\ DOMAIN Renamed(left, c, e).threads = DOMAIN left.threads
<1>1. CASE ~(e.direction = "inbound" /\ e.name # NoName /\ c \in DOMAIN left.threads)
  BY <1>1 DEF Renamed
<1>2. CASE e.direction = "inbound" /\ e.name # NoName /\ c \in DOMAIN left.threads
  <2> DEFINE db == left.threads
             row == [db[c] EXCEPT !.name = e.name]
             new == [db EXCEPT ![c] = row]
  <2>1. Renamed(left, c, e) = [left EXCEPT !.threads = new]
    BY <1>2 DEF Renamed
  <2>2. [left EXCEPT !.threads = new] = Outcome(new, left.filed, left.into)
    BY DEF Outcome
  <2>3. e.name \in PushNames \union {NoName} /\ RowMap(db) /\ c \in DOMAIN db
    BY <1>2 DEF Envelopes, Sound
  <2>4. row \in Rows /\ Aliases(row) = Aliases(db[c])
    BY <2>3 DEF RowMap, Rows, Aliases
  <2> HIDE DEF row, db
  <2>5. /\ DOMAIN new = DOMAIN db /\ new[c] = row
        /\ \A d \in DOMAIN db \ {c} : new[d] = db[d]
        /\ new = [d \in DOMAIN new |-> new[d]]
    BY <2>3 DEF RowMap
  <2> HIDE DEF new
  <2>6. RowMap(new) /\ \A d \in DOMAIN db : Aliases(new[d]) = Aliases(db[d])
    BY <2>3, <2>4, <2>5 DEF RowMap
  <2>7. /\ Separate(db) => Separate(new)
        /\ Placed(left.filed, db) => Placed(left.filed, new)
    BY <2>5, <2>6, SeparateSame, PlacedMore
  <2>8. /\ Renamed(left, c, e).threads = new /\ Renamed(left, c, e).filed = left.filed
        /\ Renamed(left, c, e).into = left.into
    BY <2>1, <2>2 DEF Outcome
  <2> QED  BY <2>5, <2>6, <2>7, <2>8 DEF Sound, db
<1> QED  BY <1>1, <1>2

\* It is an outcome, and no conversation appears by it but those of db.
Fine(o, e, db) ==
  /\ Sound(o, e) /\ o = Outcome(o.threads, o.filed, o.into) /\ DOMAIN o.threads \subseteq DOMAIN db

LEMMA MergedFine ==
  ASSUME NEW db, RowMap(db), MailRecords(filed), NEW e,
         NEW t \in DOMAIN db, NEW s \in DOMAIN db, t # s,
         e.from \in Aliases(db[t]) \union Aliases(db[s]),
         ~rebound => SeparateBut(db, t, s) /\ Placed(filed, db)
  PROVE  Fine(Merged(db, t, s), e, db)
<1> DEFINE m == Merged(db, t, s)
<1>1. /\ RowMap(m.threads) /\ DOMAIN m.threads = DOMAIN db \ {s}
      /\ MailRecords(m.filed) /\ m.into = t
      /\ Aliases(m.threads[t]) = Aliases(db[t]) \union Aliases(db[s])
      /\ SeparateBut(db, t, s) => Separate(m.threads)
      /\ Placed(filed, db) => Placed(m.filed, m.threads)
  BY MergedKeeps
<1>2. m = Outcome(m.threads, m.filed, m.into)
  BY DEF Merged, Outcome
<1> HIDE DEF m
<1>3. Sound(m, e)
  BY <1>1 DEF Sound
<1> QED  BY <1>1, <1>2, <1>3 DEF Fine, m

\* The message of a customer who has a conversation.
LEMMA ContinuedSound ==
  ASSUME IdentityIInv, NEW e \in Envelopes, NEW c \in Matching(threads, e.from),
         NEW left \in Continued(c, e)
  PROVE  Sound(left, e) /\ DOMAIN left.threads \subseteq DOMAIN threads
<1>1. /\ RowMap(threads) /\ MailRecords(filed) /\ e.from \in Identifiers
      /\ ~rebound => Separate(threads) /\ Placed(filed, threads)
  BY DEF IdentityIInv, Envelopes
<1>2. c \in DOMAIN threads /\ e.from \in Aliases(threads[c]) /\ threads[c] \in Rows
  <2>1. Matching(threads, e.from) = {d \in DOMAIN threads : e.from \in Aliases(threads[d])}
    BY <1>1, MatchingKnows
  <2> QED  BY <1>1, <2>1 DEF RowMap
<1>3. ASSUME NEW db, RowMap(db), DOMAIN db = DOMAIN threads,
             \A d \in DOMAIN threads : Aliases(db[d]) = Aliases(threads[d])
      PROVE  /\ Fine(Outcome(db, filed, c), e, threads)
             /\ \A d \in DOMAIN db \ {c} :
                  Fine(Merged(db, c, d), e, threads) /\ Fine(Merged(db, d, c), e, threads)
  <2>1. ~rebound => Separate(db) /\ Placed(filed, db)
    BY <1>1, <1>3, SeparateSame, PlacedMore
  <2>2. Fine(Outcome(db, filed, c), e, threads)
    BY <1>1, <1>2, <1>3, <2>1 DEF Fine, Sound, Outcome
  <2>3. ASSUME NEW t \in DOMAIN db, NEW s \in DOMAIN db, t # s, c \in {t, s}
        PROVE  Fine(Merged(db, t, s), e, threads)
    <3>1. ~rebound => SeparateBut(db, t, s) /\ Placed(filed, db)
      BY <2>1 DEF Separate, SeparateBut
    <3>2. e.from \in Aliases(db[t]) \union Aliases(db[s])
      BY <1>2, <1>3, <2>3
    <3>3. Fine(Merged(db, t, s), e, db)
      BY <1>1, <1>3, <2>3, <3>1, <3>2, MergedFine
    <3> QED  BY <1>3, <3>3 DEF Fine
  <2> QED  BY <1>2, <1>3, <2>2, <2>3
<1>4. Fine(Outcome(threads, filed, c), e, threads)
  BY <1>1, <1>3
<1>5. ASSUME e.from \in Phones, threads[c].phone = NoPhone, NEW o \in NumberGiven(c, e)
      PROVE  Fine(o, e, threads)
  <2> DEFINE row == [threads[c] EXCEPT !.phone = e.from]
             db == [threads EXCEPT ![c] = row]
  <2>1. row \in Rows /\ Aliases(row) = Aliases(threads[c])
    BY <1>2, <1>5, IdentityAssumption DEF Rows, Aliases, Identifiers
  <2> HIDE DEF row
  <2>2. /\ DOMAIN db = DOMAIN threads /\ db[c] = row
        /\ \A d \in DOMAIN threads \ {c} : db[d] = threads[d]
        /\ db = [d \in DOMAIN db |-> db[d]]
    BY <1>1, <1>2 DEF RowMap
  <2>3. [threads EXCEPT ![c].phone = e.from] = db
    BY DEF row
  <2> HIDE DEF db
  <2>4. RowMap(db) /\ \A d \in DOMAIN threads : Aliases(db[d]) = Aliases(threads[d])
    BY <1>1, <2>1, <2>2 DEF RowMap
  <2>5. \/ o = Outcome(db, filed, c)
        \/ \E d \in Matching(db, e.from) \ {c} : o \in {Merged(db, d, c), Merged(db, c, d)}
    BY <2>3 DEF NumberGiven
  <2>6. \A d \in Matching(db, e.from) : d \in DOMAIN db /\ e.from \in Aliases(db[d])
    BY <1>1, <2>4, MatchingKnows
  <2> QED  BY <1>3, <2>2, <2>4, <2>5, <2>6
<1>6. ASSUME e.from \in Lids, NEW o \in Aliased(c, e)
      PROVE  Fine(o, e, threads)
  <2> DEFINE row == [threads[c] EXCEPT !.aliases = @ \union {e.from}]
             db == [threads EXCEPT ![c] = row]
  <2>1. row \in Rows /\ Aliases(row) = Aliases(threads[c])
    BY <1>1, <1>2, IdentityAssumption DEF Rows, Aliases
  <2> HIDE DEF row
  <2>2. /\ DOMAIN db = DOMAIN threads /\ db[c] = row
        /\ \A d \in DOMAIN threads \ {c} : db[d] = threads[d]
        /\ db = [d \in DOMAIN db |-> db[d]]
    BY <1>1, <1>2 DEF RowMap
  <2>3. [threads EXCEPT ![c].aliases = @ \union {e.from}] = db
    BY DEF row
  <2> HIDE DEF db
  <2>4. RowMap(db) /\ \A d \in DOMAIN threads : Aliases(db[d]) = Aliases(threads[d])
    BY <1>1, <2>1, <2>2 DEF RowMap
  <2>5. \/ o = Outcome(db, filed, c)
        \/ \E d \in Matching(db, e.from) \ {c} : o \in {Merged(db, d, c), Merged(db, c, d)}
    BY <2>3 DEF Aliased
  <2>6. \A d \in Matching(db, e.from) : d \in DOMAIN db /\ e.from \in Aliases(db[d])
    BY <1>1, <2>4, MatchingKnows
  <2> QED  BY <1>3, <2>2, <2>4, <2>5, <2>6
<1>7. PICK o : Fine(o, e, threads) /\ left = Renamed(o, c, e)
  BY <1>4, <1>5, <1>6 DEF Continued
<1> QED  BY <1>7, RenamedKeeps DEF Fine

\* A row more, for a sender nobody is known as.
LEMMA WithNew ==
  ASSUME IdentityIInv, NEW e \in Envelopes, Creates(e)
  PROVE  /\ born + 1 \notin DOMAIN threads /\ RowMap(With(e))
         /\ DOMAIN With(e) = DOMAIN threads \union {born + 1}
         /\ Aliases(With(e)[born + 1]) = {e.from}
         /\ \A c \in DOMAIN threads : With(e)[c] = threads[c] /\ e.from \notin Aliases(threads[c])
         /\ ~rebound => Separate(With(e)) /\ Placed(filed, With(e))
<1>1. /\ born \in Nat /\ DOMAIN threads \subseteq 1..born /\ RowMap(threads)
      /\ ~rebound => Separate(threads) /\ Placed(filed, threads)
  BY DEF IdentityIInv
<1>2. born + 1 \notin DOMAIN threads
  BY <1>1
<1> DEFINE row == NewRow(e)
<1>3. row \in Rows /\ Aliases(row) = {e.from}
  BY IdentityAssumption DEF NewRow, Rows, Aliases, Envelopes, Identifiers
<1> HIDE DEF row
<1>4. With(e) = [c \in DOMAIN threads \union {born + 1} |->
                   IF c = born + 1 THEN row ELSE threads[c]]
  BY DEF With, row
<1>5. /\ DOMAIN With(e) = DOMAIN threads \union {born + 1} /\ With(e)[born + 1] = row
      /\ \A c \in DOMAIN threads : With(e)[c] = threads[c]
      /\ With(e) = [c \in DOMAIN With(e) |-> With(e)[c]]
  BY <1>2, <1>4
<1>6. RowMap(With(e))
  BY <1>1, <1>3, <1>5 DEF RowMap
<1>7. \A c \in DOMAIN threads : e.from \notin Aliases(threads[c])
  <2>1. Matching(threads, e.from) = {} /\ e.from \in Identifiers
    BY DEF Creates, Envelopes
  <2>2. Matching(threads, e.from) = {c \in DOMAIN threads : e.from \in Aliases(threads[c])}
    BY <1>1, <2>1, MatchingKnows
  <2> QED  BY <2>1, <2>2
<1>8. ASSUME Separate(threads) PROVE Separate(With(e))
  BY <1>3, <1>5, <1>7, <1>8 DEF Separate
<1>9. ASSUME Placed(filed, threads) PROVE Placed(filed, With(e))
  BY <1>5, <1>9 DEF Placed
<1> QED  BY <1>1, <1>2, <1>3, <1>5, <1>6, <1>7, <1>8, <1>9

\* The number is also given to a conversation that has none.
LEMMA NumberedNew ==
  ASSUME IdentityIInv, NEW e \in Envelopes, Creates(e), NEW d \in Namesakes(e)
  PROVE  LET db == Numbered(e, d)
         IN  /\ d \in DOMAIN threads /\ RowMap(db)
             /\ DOMAIN db = DOMAIN threads \union {born + 1}
             /\ e.from \in Aliases(db[d])
             /\ ~rebound => SeparateBut(db, d, born + 1) /\ Placed(filed, db)
<1> DEFINE was == With(e)
<1>1. /\ born + 1 \notin DOMAIN threads /\ RowMap(was)
      /\ DOMAIN was = DOMAIN threads \union {born + 1}
      /\ Aliases(was[born + 1]) = {e.from}
      /\ \A c \in DOMAIN threads : was[c] = threads[c] /\ e.from \notin Aliases(threads[c])
      /\ ~rebound => Separate(was) /\ Placed(filed, was)
  BY WithNew
<1>2. d \in DOMAIN threads /\ threads[d].phone = NoPhone /\ e.from \in Phones
  BY DEF Namesakes
<1> HIDE DEF was
<1> DEFINE half == [was[d] EXCEPT !.phone = e.from]
           row == [half EXCEPT !.aliases = @ \union {e.from}]
           db == [was EXCEPT ![d] = row]
<1>3. was[d] \in Rows /\ was[d].phone = NoPhone
  BY <1>1, <1>2 DEF RowMap
<1>4. half \in Rows /\ half.aliases = was[d].aliases /\ half.phone = e.from
  BY <1>2, <1>3 DEF Rows
<1>5. row \in Rows /\ row.aliases = was[d].aliases \union {e.from} /\ row.phone = e.from
  <2> HIDE DEF half
  <2> QED  BY <1>2, <1>4 DEF Rows, Identifiers
<1>6. Numbered(e, d) = db
  BY <1>1, <1>2, ZenonT(30) DEF Numbered, was
<1> HIDE DEF row
<1>7. Aliases(row) = Aliases(was[d]) \union {e.from}
  BY <1>2, <1>3, <1>5, IdentityAssumption DEF Aliases
<1>8. /\ DOMAIN db = DOMAIN was /\ db[d] = row
      /\ \A c \in DOMAIN was \ {d} : db[c] = was[c]
      /\ db = [c \in DOMAIN db |-> db[c]]
  BY <1>1, <1>2 DEF RowMap
<1> HIDE DEF db
<1>9. RowMap(db)
  BY <1>1, <1>5, <1>8 DEF RowMap
<1>10. ASSUME Separate(was) PROVE SeparateBut(db, d, born + 1)
  <2> SUFFICES ASSUME NEW a \in DOMAIN db, NEW b \in DOMAIN db, a # b,
                      NEW id \in Aliases(db[a]), id \in Aliases(db[b])
               PROVE  {a, b} = {d, born + 1}
    BY DEF SeparateBut
  <2>1. \A x \in DOMAIN was : Aliases(db[x]) \subseteq Aliases(was[x]) \union {e.from}
    BY <1>7, <1>8
  <2>2. CASE id = e.from
    <3>1. \A x \in DOMAIN was \ {d, born + 1} : e.from \notin Aliases(db[x])
      BY <1>1, <1>8
    <3> QED  BY <1>8, <2>2, <3>1
  <2>3. CASE id # e.from
    <3>1. id \in Aliases(was[a]) /\ id \in Aliases(was[b])
      BY <1>8, <2>1, <2>3
    <3> QED  BY <1>8, <1>10, <3>1 DEF Separate
  <2> QED  BY <2>2, <2>3
<1>11. ASSUME Placed(filed, was) PROVE Placed(filed, db)
  <2>1. \A c \in DOMAIN was : Aliases(was[c]) \subseteq Aliases(db[c])
    BY <1>7, <1>8
  <2> QED  BY <1>8, <1>11, <2>1, PlacedMore
<1> QED  BY <1>1, <1>2, <1>6, <1>7, <1>8, <1>9, <1>10, <1>11

LEMMA OpenedSound ==
  ASSUME IdentityIInv, NEW e \in Envelopes, Creates(e), NEW left \in Opened(e)
  PROVE  Sound(left, e) /\ DOMAIN left.threads \subseteq 1..(born + 1)
<1>1. /\ born \in Nat /\ DOMAIN threads \union {born + 1} \subseteq 1..(born + 1)
      /\ MailRecords(filed)
  BY DEF IdentityIInv
<1>2. CASE left = Outcome(With(e), filed, born + 1)
  <2>1. /\ RowMap(With(e)) /\ DOMAIN With(e) = DOMAIN threads \union {born + 1}
        /\ Aliases(With(e)[born + 1]) = {e.from}
        /\ ~rebound => Separate(With(e)) /\ Placed(filed, With(e))
    BY WithNew
  <2> QED  BY <1>1, <1>2, <2>1 DEF Sound, Outcome
<1>3. ASSUME NEW d \in Namesakes(e),
             left \in {Merged(Numbered(e, d), d, born + 1), Merged(Numbered(e, d), born + 1, d)}
      PROVE  Sound(left, e) /\ DOMAIN left.threads \subseteq 1..(born + 1)
  <2> DEFINE db == Numbered(e, d)
  <2>1. /\ d \in DOMAIN threads /\ RowMap(db)
        /\ DOMAIN db = DOMAIN threads \union {born + 1}
        /\ e.from \in Aliases(db[d])
        /\ ~rebound => SeparateBut(db, d, born + 1) /\ Placed(filed, db)
    BY NumberedNew
  <2>2. d # born + 1
    BY <2>1, WithNew
  <2> HIDE DEF db
  <2>3. SeparateBut(db, d, born + 1) => SeparateBut(db, born + 1, d)
    BY DEF SeparateBut
  <2>4. Fine(Merged(db, d, born + 1), e, db) /\ Fine(Merged(db, born + 1, d), e, db)
    BY <1>1, <2>1, <2>2, <2>3, MergedFine
  <2> QED  BY <1>1, <1>3, <2>1, <2>4 DEF Fine, db
<1> QED  BY <1>2, <1>3 DEF Opened

-----------------------------------------------------------------------------
\* What a message says of itself stays; the message is known as its sender's.
LEMMA PlacedStays ==
  ASSUME NEW mails, NEW db, Placed(mails, db), NEW m \in Mails, NEW e \in Envelopes,
         envelope \in [Mails -> Envelopes \union {Unreceived}], Enveloped(m, e)
  PROVE  /\ Placed(mails, db)' /\ envelope'[m] = e
         /\ envelope' \in [Mails -> Envelopes \union {Unreceived}]
<1>1. /\ envelope'[m] = e /\ \A x \in Mails \ {m} : envelope'[x] = envelope[x]
      /\ envelope[m] \in {Unreceived, e}
      /\ envelope' \in [Mails -> Envelopes \union {Unreceived}]
  BY DEF Enveloped
<1>2. \A x \in Mails : envelope[x] \in Envelopes => envelope'[x] = envelope[x]
  BY <1>1, EnvelopeAssumption
<1> QED  BY <1>1, <1>2 DEF Placed

LEMMA OutcomeSound ==
  ASSUME IdentityIInv, NEW e \in Envelopes, NEW left \in Outcomes(e)
  PROVE  /\ Sound(left, e)
         /\ DOMAIN left.threads \subseteq 1..(IF Creates(e) THEN born + 1 ELSE born)
<1>1. CASE Creates(e)
  BY <1>1, OpenedSound DEF Outcomes
<1>2. CASE ~Creates(e)
  <2>1. PICK c \in Matching(threads, e.from) : left \in Continued(c, e)
    BY <1>2 DEF Outcomes
  <2>2. Sound(left, e) /\ DOMAIN left.threads \subseteq DOMAIN threads
    BY <2>1, ContinuedSound
  <2> QED  BY <1>2, <2>2 DEF IdentityIInv
<1> QED  BY <1>1, <1>2

\* The rows and messages of a step that leaves the numbers being bound.
LEMMA WebhookKeeps ==
  ASSUME IdentityIInv, NEW m \in Mails, NEW e \in Envelopes, Enveloped(m, e),
         NEW db, NEW mails, NEW n \in Nat,
         threads' = db, filed' = mails, born' = n,
         RowMap(db), MailRecords(mails), DOMAIN db \subseteq 1..n,
         bindings' \subseteq bindings, rebound' \in BOOLEAN,
         ~rebound' => ~rebound /\ Separate(db) /\ Placed(mails, db)'
  PROVE  IdentityIInv'
<1>1. envelope' \in [Mails -> Envelopes \union {Unreceived}]
  BY DEF IdentityIInv, Enveloped
<1>2. \A b \in bindings' : b.phone \in Phones
  BY DEF IdentityIInv
<1>3. RowMap(threads)' /\ MailRecords(filed)' /\ DOMAIN threads' \subseteq 1..born'
  BY DEF RowMap, MailRecords
<1>4. ASSUME ~rebound' PROVE Separate(threads)' /\ Placed(filed, threads)'
  <2>1. Separate(db) /\ Placed(mails, db)'
    BY <1>4
  <2> QED  BY <2>1 DEF Separate, Placed
<1> QED  BY <1>1, <1>2, <1>3, <1>4 DEF IdentityIInv

LEMMA DeliveredKeeps ==
  ASSUME IdentityIInv, NEW m \in Mails, NEW e \in Envelopes, Delivered1to1(m, e)
  PROVE  IdentityIInv'
<1>1. PICK left \in Outcomes(e) :
        threads' = left.threads /\ filed' = left.filed \union {[mail |-> m, in |-> left.into]}
  BY DEF Delivered1to1
<1> DEFINE n == IF Creates(e) THEN born + 1 ELSE born
           mails == left.filed \union {[mail |-> m, in |-> left.into]}
<1>2. /\ Enveloped(m, e) /\ born' = n /\ UNCHANGED <<bindings, rebound>>
      /\ n \in Nat /\ rebound \in BOOLEAN
      /\ envelope \in [Mails -> Envelopes \union {Unreceived}]
  BY DEF Delivered1to1, IdentityIInv
<1>3. Sound(left, e) /\ DOMAIN left.threads \subseteq 1..n
  BY OutcomeSound
<1>4. MailRecords(mails)
  BY <1>3 DEF Sound, MailRecords
<1>5. ASSUME ~rebound PROVE Placed(mails, left.threads)'
  <2>1. Placed(left.filed, left.threads)
    BY <1>3, <1>5 DEF Sound
  <2>2. Placed(left.filed, left.threads)' /\ envelope'[m] = e
    BY <1>2, <2>1, PlacedStays
  <2>3. left.into \in DOMAIN left.threads /\ e.from \in Aliases(left.threads[left.into])
    BY <1>3 DEF Sound
  <2> QED  BY <2>2, <2>3 DEF Placed
<1> HIDE DEF n, mails
<1>6. filed' = mails
  BY <1>1 DEF mails
<1> QED  BY <1>1, <1>2, <1>3, <1>4, <1>5, <1>6, WebhookKeeps DEF Sound

LEMMA DiesKeeps ==
  ASSUME IdentityIInv, NEW m \in Mails, NEW e \in Envelopes, DiesDelivering(m, e)
  PROVE  IdentityIInv'
<1> DEFINE n == IF Creates(e) THEN born + 1 ELSE born
<1>1. /\ Enveloped(m, e) /\ born' = n /\ bindings' = {}
      /\ n \in Nat /\ rebound \in BOOLEAN /\ MailRecords(filed) /\ DOMAIN threads \subseteq 1..born
      /\ born \in Nat /\ envelope \in [Mails -> Envelopes \union {Unreceived}]
  BY DEF DiesDelivering, IdentityIInv
<1>2. ASSUME NEW left \in Outcomes(e), threads' = left.threads, filed' = left.filed,
             rebound' = rebound
      PROVE  IdentityIInv'
  <2>1. Sound(left, e) /\ DOMAIN left.threads \subseteq 1..n
    BY OutcomeSound
  <2>2. ~rebound => Separate(left.threads) /\ Placed(left.filed, left.threads)'
    BY <1>1, <2>1, PlacedStays DEF Sound
  <2> HIDE DEF n
  <2> QED  BY <1>1, <1>2, <2>1, <2>2, WebhookKeeps DEF Sound
<1>3. ASSUME Creates(e), threads' = With(e), filed' = filed, rebound' = rebound
      PROVE  IdentityIInv'
  <2>1. /\ RowMap(With(e)) /\ DOMAIN With(e) \subseteq 1..n
        /\ ~rebound => Separate(With(e)) /\ Placed(filed, With(e))
    BY <1>1, <1>3, WithNew
  <2> DEFINE db == With(e)
             mails == filed
  <2>2. PICK d : d = db
    OBVIOUS
  <2>3. PICK f : f = mails
    OBVIOUS
  <2> HIDE DEF n, db, mails
  <2>4. ~rebound => Separate(d) /\ Placed(f, d)'
    <3>1. ~rebound => Separate(d) /\ Placed(f, d)
      BY <2>1, <2>2, <2>3 DEF db, mails
    <3> QED  BY <1>1, <3>1, PlacedStays
  <2>5. threads' = d /\ filed' = f /\ RowMap(d) /\ MailRecords(f) /\ DOMAIN d \subseteq 1..n
    BY <1>1, <1>3, <2>1, <2>2, <2>3 DEF db, mails
  <2> QED  BY <1>1, <1>3, <2>4, <2>5, WebhookKeeps
<1>4. ASSUME Creates(e), NEW d \in Namesakes(e), threads' = Numbered(e, d), rebound' = TRUE,
             filed' = filed
      PROVE  IdentityIInv'
  <2>1. /\ RowMap(Numbered(e, d)) /\ DOMAIN Numbered(e, d) = DOMAIN threads \union {born + 1}
    BY <1>4, NumberedNew
  <2>2. DOMAIN Numbered(e, d) \subseteq 1..n
    BY <1>1, <1>4, <2>1
  <2>3. /\ envelope' \in [Mails -> Envelopes \union {Unreceived}]
        /\ RowMap(threads') /\ MailRecords(filed')
    BY <1>1, <1>4, <2>1 DEF Enveloped
  <2> HIDE DEF n
  <2> QED  BY <1>1, <1>4, <2>2, <2>3 DEF IdentityIInv, RowMap, MailRecords
<1> QED  BY <1>2, <1>3, <1>4 DEF DiesDelivering

LEMMA BindingKeeps ==
  ASSUME IdentityIInv,
         \/ \E c \in 1..MaxConversations, p \in Phones : BindBegun(c, p)
         \/ \E b \in bindings : BindFinished(b)
         \/ UNCHANGED identityVars
  PROVE  IdentityIInv'
<1>1. CASE \/ \E c \in 1..MaxConversations, p \in Phones : BindBegun(c, p)
           \/ UNCHANGED identityVars
  <2>1. UNCHANGED <<threads, born, filed, envelope, rebound>>
    BY <1>1 DEF BindBegun, identityVars
  <2>2. \A b \in bindings' : b.phone \in Phones
    BY <1>1 DEF BindBegun, identityVars, IdentityIInv
  <2> QED  BY <2>1, <2>2 DEF IdentityIInv, RowMap, MailRecords, Separate, Placed
<1>2. ASSUME NEW b \in bindings, BindFinished(b) PROVE IdentityIInv'
  <2>1. /\ UNCHANGED <<born, envelope>> /\ bindings' \subseteq bindings /\ b.phone \in Phones
        /\ filed' = filed \union {[mail |-> Challenge, in |-> b.to]}
        /\ RowMap(threads) /\ MailRecords(filed) /\ DOMAIN threads \subseteq 1..born
        /\ born \in Nat /\ rebound \in BOOLEAN
        /\ envelope \in [Mails -> Envelopes \union {Unreceived}]
        /\ \A x \in bindings' : x.phone \in Phones
    BY <1>2 DEF BindFinished, IdentityIInv
  <2>2. MailRecords(filed')
    BY <2>1 DEF MailRecords
  <2>3. CASE b.to \notin DOMAIN threads
    <3>1. UNCHANGED <<threads, rebound>>
      BY <1>2, <2>3 DEF BindFinished
    <3>2. ~rebound => Separate(threads) /\ Placed(filed, threads)
      BY DEF IdentityIInv
    <3>3. ~rebound => Placed(filed, threads)'
      BY <2>1, <3>1, <3>2, IdentityAssumption DEF Placed
    <3> QED  BY <2>1, <2>2, <3>1, <3>2, <3>3 DEF IdentityIInv, RowMap, MailRecords, Separate
  <2>4. CASE b.to \in DOMAIN threads
    <3> DEFINE to == b.to
               row == [threads[to] EXCEPT !.phone = b.phone]
               db == [threads EXCEPT ![to] = row]
    <3>1. /\ threads' = db
          /\ rebound' = \/ rebound
                        \/ threads[to].phone \notin {NoPhone, b.phone}
                        \/ Matching(threads, b.phone) \ {to} # {}
      BY <1>2, <2>4 DEF BindFinished
    <3>2. threads[to] \in Rows
      BY <2>1, <2>4 DEF RowMap
    <3>3. row \in Rows /\ row.phone = b.phone /\ row.aliases = threads[to].aliases
      BY <2>1, <3>2 DEF Rows
    <3> HIDE DEF row
    <3>4. /\ DOMAIN db = DOMAIN threads /\ db[to] = row
          /\ \A c \in DOMAIN threads \ {to} : db[c] = threads[c]
          /\ db = [c \in DOMAIN db |-> db[c]]
      BY <2>1, <2>4 DEF RowMap
    <3> HIDE DEF db
    <3>5. RowMap(db)
      BY <2>1, <3>3, <3>4 DEF RowMap
    <3>6. ASSUME ~rebound' PROVE Separate(threads)' /\ Placed(filed, threads)'
      <4>1. /\ ~rebound /\ threads[to].phone \in {NoPhone, b.phone}
            /\ Matching(threads, b.phone) \ {to} = {}
        BY <3>1, <3>6
      <4>2. Separate(threads) /\ Placed(filed, threads)
        BY <4>1 DEF IdentityIInv
      <4>3. Aliases(row) = Aliases(threads[to]) \union {b.phone}
        BY <2>1, <3>3, <4>1, IdentityAssumption DEF Aliases, Identifiers
      <4>4. \A c \in DOMAIN threads \ {to} : b.phone \notin Aliases(threads[c])
        BY <2>1, <4>1, MatchingKnows DEF Identifiers
      <4>5. Separate(db)
        BY <3>4, <4>2, <4>3, <4>4 DEF Separate
      <4>6. \A c \in DOMAIN threads : Aliases(threads[c]) \subseteq Aliases(db[c])
        BY <3>4, <4>3
      <4>7. Placed(filed, db)
        BY <3>4, <4>2, <4>6, PlacedMore
      <4>8. \A f \in filed' : f.mail \in Mails =>
              /\ f.in \in DOMAIN db /\ envelope'[f.mail] \in Envelopes
              /\ envelope'[f.mail].from \in Aliases(db[f.in])
        BY <2>1, <4>7, IdentityAssumption DEF Placed
      <4>9. Separate(threads)'
        BY <3>1, <4>5 DEF Separate
      <4> QED  BY <3>1, <4>8, <4>9 DEF Placed
    <3>7. rebound' \in BOOLEAN
      BY <2>1, <3>1
    <3>8. RowMap(threads)' /\ MailRecords(filed)' /\ DOMAIN threads' \subseteq 1..born'
      BY <2>1, <2>2, <3>1, <3>4, <3>5 DEF RowMap, MailRecords
    <3> QED  BY <2>1, <3>6, <3>7, <3>8 DEF IdentityIInv
  <2> QED  BY <2>3, <2>4
<1> QED  BY <1>1, <1>2

LEMMA OperatorMergesKeeps ==
  ASSUME IdentityIInv, NEW target, NEW source, OperatorMerges(target, source)
  PROVE  IdentityIInv'
<1> DEFINE left == Merged(threads, target, source)
<1>1. /\ target \in DOMAIN threads /\ source \in DOMAIN threads /\ target # source
      /\ threads' = left.threads /\ filed' = left.filed
      /\ UNCHANGED <<born, envelope, bindings, rebound>>
      /\ RowMap(threads) /\ MailRecords(filed)
      /\ ~rebound => Separate(threads) /\ Placed(filed, threads)
  BY DEF OperatorMerges, IdentityIInv
<1>2. /\ RowMap(left.threads) /\ DOMAIN left.threads \subseteq DOMAIN threads
      /\ MailRecords(left.filed)
      /\ SeparateBut(threads, target, source) => Separate(left.threads)
      /\ Placed(filed, threads) => Placed(left.filed, left.threads)
  BY <1>1, MergedKeeps
<1>3. Separate(threads) => SeparateBut(threads, target, source)
  BY DEF Separate, SeparateBut
<1> HIDE DEF left
<1>4. ~rebound' => Separate(threads') /\ Placed(filed, threads)'
  BY <1>1, <1>2, <1>3 DEF Placed
<1> QED  BY <1>1, <1>2, <1>4 DEF IdentityIInv, RowMap, MailRecords, Separate

LEMMA IdentityInvariant == IdentitySpec => []IdentityIInv
<1>1. IdentityInit => IdentityIInv
  <2> SUFFICES ASSUME IdentityInit PROVE IdentityIInv
    OBVIOUS
  <2>1. /\ DOMAIN threads = {} /\ threads = [c \in DOMAIN threads |-> threads[c]]
        /\ born = 0 /\ filed = {} /\ bindings = {} /\ rebound = FALSE
        /\ envelope = [m \in Mails |-> Unreceived]
    BY DEF IdentityInit
  <2> QED  BY <2>1 DEF IdentityIInv, RowMap, MailRecords, Separate, Placed
<1>2. IdentityIInv /\ [IdentityNext]_identityVars => IdentityIInv'
  BY DeliveredKeeps, DiesKeeps, BindingKeeps, OperatorMergesKeeps DEF IdentityNext
<1> QED  BY <1>1, <1>2, PTL DEF IdentitySpec

\* A message lies in the one conversation that its sender's identifier leads to, for any
\* customers, identifiers and messages, merges, bindings and restarts.
THEOREM FiledWhereFoundHolds == IdentitySpec => []FiledWhereFound
<1>1. IdentityIInv => FiledWhereFound
  <2> SUFFICES ASSUME IdentityIInv, ~rebound, NEW f \in filed, f.mail \in Mails
               PROVE  Matching(threads, envelope[f.mail].from) = {f.in}
    BY DEF FiledWhereFound
  <2> DEFINE id == envelope[f.mail].from
  <2>1. /\ f.in \in DOMAIN threads /\ id \in Identifiers /\ id \in Aliases(threads[f.in])
        /\ RowMap(threads) /\ Separate(threads)
    BY DEF IdentityIInv, Placed, Envelopes
  <2>2. Matching(threads, id) = {c \in DOMAIN threads : id \in Aliases(threads[c])}
    BY <2>1, MatchingKnows
  <2>3. \A c \in DOMAIN threads : id \in Aliases(threads[c]) => c = f.in
    BY <2>1 DEF Separate
  <2> QED  BY <2>1, <2>2, <2>3
<1> QED  BY <1>1, IdentityInvariant, PTL

-----------------------------------------------------------------------------
(***************************************************************************)
(* The gateway: who looks after an instance.                               *)
(***************************************************************************)
Live == {"connecting", "open", "ended", "loggingOut"}

RecordMaps == [Records -> [sock : Sockets \union {NoSocket}, state : States,
                           timer : Sockets \union {NoSocket}]]
ConnMaps == [Sockets -> [phase : Phases, of : 0..MaxRecords, timer : Timers]]
StartMaps == [Starts -> [of : 0..MaxRecords, by : {"boot", "create", "reconnect", "repair"}]]

\* The socket of a record is its own, and has yet to report its closing.
HoldsItsOwn(rec, con) ==
  \A r \in Records : rec[r].sock # NoSocket =>
    con[rec[r].sock].of = r /\ con[rec[r].sock].phase \in Live

\* Someone looks after the instance.
Tended(n, con, sta) ==
  \/ n = 0
  \/ \E i \in Starts : sta[i].of # 0
  \/ \E s \in Sockets : con[s].phase \in Live \/ con[s].timer # "none"

GatewayIInv == GatewayTypeOK /\ HoldsItsOwn(record, conn) /\ InstanceIsTended

\* The same sockets of the same records live.
SameSockets(con, more) ==
  \A s \in Sockets : con[s].of = more[s].of /\ (con[s].phase \in Live <=> more[s].phase \in Live)

LEMMA EndingKeeps ==
  ASSUME NEW s \in Sockets \union {NoSocket}, NEW con \in ConnMaps,
         NEW phase \in {"ended", "loggingOut"}
  PROVE  /\ Ending(s, phase, con) \in ConnMaps /\ SameSockets(con, Ending(s, phase, con))
         /\ \A x \in Sockets : Ending(s, phase, con)[x].timer = con[x].timer
<1>1. CASE s = NoSocket \/ con[s].phase \notin {"connecting", "open"}
  BY <1>1 DEF Ending, SameSockets
<1>2. CASE s # NoSocket /\ con[s].phase \in {"connecting", "open"}
  <2> DEFINE c == [con[s] EXCEPT !.phase = phase]
             new == [con EXCEPT ![s] = c]
  <2>1. Ending(s, phase, con) = new /\ s \in Sockets
    BY <1>2 DEF Ending
  <2>2. con[s] \in [phase : Phases, of : 0..MaxRecords, timer : Timers]
    BY <2>1 DEF ConnMaps
  <2>3. /\ c \in [phase : Phases, of : 0..MaxRecords, timer : Timers]
        /\ c.of = con[s].of /\ c.timer = con[s].timer /\ c.phase = phase
    BY <2>2 DEF Phases
  <2> HIDE DEF c
  <2>4. new \in ConnMaps /\ new[s] = c /\ \A x \in Sockets \ {s} : new[x] = con[x]
    BY <2>1, <2>3 DEF ConnMaps
  <2> HIDE DEF new
  <2> QED  BY <1>2, <2>1, <2>3, <2>4 DEF SameSockets, Live
<1> QED  BY <1>1, <1>2

LEMMA SameHeld ==
  ASSUME NEW rec \in RecordMaps, NEW con, NEW more, HoldsItsOwn(rec, con), SameSockets(con, more)
  PROVE  HoldsItsOwn(rec, more)
  BY DEF HoldsItsOwn, SameSockets, RecordMaps

LEMMA InvariantParts ==
  ASSUME GatewayIInv
  PROVE  /\ made \in Nat /\ made <= MaxRecords /\ MaxRecords \in Nat
         /\ mapped \in 0..made /\ record \in RecordMaps /\ conn \in ConnMaps
         /\ start \in StartMaps /\ leaving \in [of : 0..MaxRecords, delete : BOOLEAN]
         /\ paired \in BOOLEAN /\ wanted \in BOOLEAN /\ gaveUp \in BOOLEAN
         /\ requests \in 0..MaxRequests /\ MaxRequests \in Nat
         /\ HoldsItsOwn(record, conn)
         /\ paired /\ wanted /\ ~gaveUp => Tended(made, conn, start)
  BY GatewayAssumption
     DEF GatewayIInv, GatewayTypeOK, InstanceIsTended, Tended, Live, RecordMaps, ConnMaps, StartMaps

LEMMA InvariantFromParts ==
  ASSUME made' \in 0..MaxRecords, mapped' \in 0..made', record' \in RecordMaps,
         conn' \in ConnMaps, start' \in StartMaps,
         leaving' \in [of : 0..MaxRecords, delete : BOOLEAN],
         paired' \in BOOLEAN, wanted' \in BOOLEAN, gaveUp' \in BOOLEAN,
         requests' \in 0..MaxRequests, HoldsItsOwn(record', conn'),
         paired' /\ wanted' /\ ~gaveUp' => Tended(made', conn', start')
  PROVE  GatewayIInv'
<1>1. GatewayTypeOK'
  <2>1. {paired', wanted', gaveUp'} \subseteq BOOLEAN
    OBVIOUS
  <2> QED  BY <2>1 DEF GatewayTypeOK, RecordMaps, ConnMaps, StartMaps
<1>2. HoldsItsOwn(record, conn)'
  BY DEF HoldsItsOwn
<1>3. InstanceIsTended'
  BY DEF InstanceIsTended, Tended, Live
<1> QED  BY <1>1, <1>2, <1>3 DEF GatewayIInv

\* A start begins, or the record's socket is alive: either way the instance is tended.
LEMMA LoadingTends ==
  ASSUME GatewayIInv, NEW i \in Starts, NEW r \in Records,
         NEW by \in {"boot", "create", "reconnect", "repair"},
         NEW con \in ConnMaps, SameSockets(conn, con), Loading(i, r, by, con)
  PROVE  /\ record' \in RecordMaps /\ conn' \in ConnMaps /\ start' \in StartMaps
         /\ HoldsItsOwn(record', conn') /\ \A n : Tended(n, conn', start')
<1>1. /\ record \in RecordMaps /\ start \in StartMaps /\ HoldsItsOwn(record, con)
      /\ r \in 0..MaxRecords /\ r # 0
  BY InvariantParts, SameHeld DEF Records
<1>2. CASE AlreadyConnected(r)
  <2>1. conn' = con /\ UNCHANGED <<record, start>> /\ record[r].sock # NoSocket
    BY <1>2 DEF Loading, AlreadyConnected
  <2>2. record[r].sock \in Sockets
    BY <1>1, <2>1 DEF RecordMaps
  <2>3. conn'[record[r].sock].phase \in Live
    BY <1>1, <2>1 DEF HoldsItsOwn
  <2> QED  BY <1>1, <2>1, <2>2, <2>3 DEF Tended
<1>3. CASE ~AlreadyConnected(r)
  <2> DEFINE row == [record[r] EXCEPT !.sock = NoSocket]
             job == [of |-> r, by |-> by]
  <2>1. /\ conn' = Ending(record[r].sock, "ended", con)
        /\ record' = [record EXCEPT ![r] = row] /\ start' = [start EXCEPT ![i] = job]
    BY <1>3 DEF Loading
  <2>2. record[r].sock \in Sockets \union {NoSocket}
    BY <1>1 DEF RecordMaps
  <2>3. conn' \in ConnMaps /\ SameSockets(con, conn')
    BY <2>1, <2>2, EndingKeeps
  <2>4. /\ row \in [sock : Sockets \union {NoSocket}, state : States,
                    timer : Sockets \union {NoSocket}]
        /\ row.sock = NoSocket
    BY <1>1 DEF RecordMaps
  <2>5. job \in [of : 0..MaxRecords, by : {"boot", "create", "reconnect", "repair"}]
        /\ job.of = r
    BY <1>1
  <2> HIDE DEF row, job
  <2>6. /\ record' \in RecordMaps /\ record'[r] = row
        /\ \A x \in Records \ {r} : record'[x] = record[x]
    BY <1>1, <2>1, <2>4 DEF RecordMaps
  <2>7. start' \in StartMaps /\ start'[i].of = r
    BY <1>1, <2>1, <2>5 DEF StartMaps
  <2>8. HoldsItsOwn(record, conn')
    BY <1>1, <2>3, SameHeld
  <2>9. HoldsItsOwn(record', conn')
    BY <2>4, <2>6, <2>8 DEF HoldsItsOwn
  <2> QED  BY <1>1, <2>3, <2>6, <2>7, <2>9 DEF Tended
<1> QED  BY <1>2, <1>3

LEMMA StartInstanceTends ==
  ASSUME GatewayIInv, NEW i \in Starts, NEW by \in {"boot", "create", "reconnect", "repair"},
         NEW con \in ConnMaps, SameSockets(conn, con), StartInstance(i, by, con)
  PROVE  /\ record' \in RecordMaps /\ conn' \in ConnMaps /\ start' \in StartMaps
         /\ HoldsItsOwn(record', conn') /\ \A n : Tended(n, conn', start')
         /\ made' \in 0..MaxRecords /\ mapped' \in 0..made'
<1>1. made \in Nat /\ made <= MaxRecords /\ MaxRecords \in Nat /\ mapped \in 0..made
  BY InvariantParts
<1>2. CASE mapped # 0
  <2>1. Loading(i, mapped, by, con) /\ UNCHANGED <<mapped, made>> /\ mapped \in Records
    BY <1>1, <1>2 DEF StartInstance, Records
  <2> QED  BY <1>1, <2>1, LoadingTends
<1>3. CASE mapped = 0
  <2>1. /\ Loading(i, made + 1, by, con) /\ made < MaxRecords
        /\ mapped' = made + 1 /\ made' = made + 1
    BY <1>3 DEF StartInstance
  <2>2. made + 1 \in Records /\ made' \in 0..MaxRecords /\ mapped' \in 0..made'
    BY <1>1, <2>1 DEF Records
  <2> QED  BY <2>1, <2>2, LoadingTends
<1> QED  BY <1>2, <1>3

LEMMA SameSocketsHere ==
  ASSUME NEW con
  PROVE  SameSockets(con, con)
  BY DEF SameSockets

LEMMA StartingKeeps ==
  ASSUME GatewayIInv, NEW i \in Starts,
         Create(i) \/ AutoStart(i) \/ \E s \in Sockets : TimerStarts(s, i)
  PROVE  GatewayIInv'
<1>1. /\ conn \in ConnMaps /\ leaving \in [of : 0..MaxRecords, delete : BOOLEAN]
      /\ paired \in BOOLEAN /\ wanted \in BOOLEAN /\ gaveUp \in BOOLEAN
      /\ requests \in 0..MaxRequests /\ MaxRequests \in Nat
  BY InvariantParts
<1>2. /\ leaving' = leaving /\ paired' = paired /\ wanted' \in BOOLEAN /\ gaveUp' \in BOOLEAN
      /\ requests' \in 0..MaxRequests
  <2>1. leaving' = leaving /\ paired' = paired /\ wanted' \in {TRUE, wanted}
        /\ gaveUp' \in {FALSE, gaveUp}
    BY DEF Create, AutoStart, TimerStarts
  <2>2. requests' = requests \/ (requests < MaxRequests /\ requests' = requests + 1)
    BY DEF Create, AutoStart, TimerStarts, Requested
  <2>3. requests' \in 0..MaxRequests
    BY <1>1, <2>2
  <2> QED  BY <1>1, <2>1, <2>3
<1>3. CASE Create(i) \/ AutoStart(i)
  <2>1. \E by \in {"boot", "create", "reconnect", "repair"} : StartInstance(i, by, conn)
    BY <1>3 DEF Create, AutoStart
  <2> QED  BY <1>1, <1>2, <2>1, StartInstanceTends, SameSocketsHere, InvariantFromParts
<1>4. ASSUME NEW s \in Sockets, TimerStarts(s, i) PROVE GatewayIInv'
  <2> DEFINE c == [conn[s] EXCEPT !.timer = "none"]
             con == [conn EXCEPT ![s] = c]
  <2>1. conn[s].timer \in {"boot", "create", "reconnect", "repair"}
        /\ StartInstance(i, conn[s].timer, con)
    BY <1>1, <1>4 DEF TimerStarts, ConnMaps, Timers
  <2>2. /\ c \in [phase : Phases, of : 0..MaxRecords, timer : Timers]
        /\ c.of = conn[s].of /\ c.phase = conn[s].phase
    BY <1>1 DEF ConnMaps, Timers
  <2> HIDE DEF c
  <2>3. con \in ConnMaps /\ con[s] = c /\ \A x \in Sockets \ {s} : con[x] = conn[x]
    BY <1>1, <2>2 DEF ConnMaps
  <2> HIDE DEF con
  <2>4. SameSockets(conn, con)
    BY <2>2, <2>3 DEF SameSockets
  <2> QED  BY <1>1, <1>2, <2>1, <2>3, <2>4, StartInstanceTends, InvariantFromParts
<1> QED  BY <1>3, <1>4

LEMMA LoadedKeeps ==
  ASSUME GatewayIInv, NEW i \in Starts, Loaded(i)
  PROVE  GatewayIInv'
<1> DEFINE r == start[i].of
<1>1. /\ made \in 0..MaxRecords /\ mapped \in 0..made /\ record \in RecordMaps
      /\ conn \in ConnMaps /\ start \in StartMaps /\ HoldsItsOwn(record, conn) /\ MaxRecords \in Nat
      /\ leaving \in [of : 0..MaxRecords, delete : BOOLEAN]
      /\ paired \in BOOLEAN /\ wanted \in BOOLEAN /\ gaveUp \in BOOLEAN
      /\ requests \in 0..MaxRequests
  BY InvariantParts
<1>2. /\ r # 0 /\ start' = [start EXCEPT ![i] = NotStarting]
      /\ UNCHANGED <<mapped, made, leaving, paired, wanted, gaveUp, requests>>
  BY DEF Loaded
<1>3. PICK s \in Sockets :
        /\ conn[s].phase = "unused"
        /\ conn' = [conn EXCEPT ![s] = [phase |-> "connecting", of |-> r, timer |-> "none"]]
        /\ record' = [record EXCEPT ![r].sock = s, ![r].state = "connecting"]
  BY DEF Loaded
<1>4. r \in Records /\ r \in 0..MaxRecords
  BY <1>1, <1>2 DEF StartMaps, Records
<1> DEFINE half == [record[r] EXCEPT !.sock = s]
           row == [half EXCEPT !.state = "connecting"]
<1>5. half \in [sock : Sockets \union {NoSocket}, state : States,
                timer : Sockets \union {NoSocket}] /\ half.sock = s
  BY <1>1, <1>4 DEF RecordMaps
<1>6. record' = [record EXCEPT ![r] = row]
  BY <1>1, <1>3, <1>4 DEF RecordMaps
<1> HIDE DEF half
<1>7. row \in [sock : Sockets \union {NoSocket}, state : States,
               timer : Sockets \union {NoSocket}] /\ row.sock = s
  BY <1>5 DEF States
<1> HIDE DEF row, r
<1>8. /\ record' \in RecordMaps /\ record'[r] = row
      /\ \A x \in Records \ {r} : record'[x] = record[x]
  BY <1>1, <1>4, <1>6, <1>7 DEF RecordMaps
<1>9. /\ conn' \in ConnMaps /\ conn'[s].of = r /\ conn'[s].phase = "connecting"
      /\ \A x \in Sockets \ {s} : conn'[x] = conn[x]
  BY <1>1, <1>3, <1>4 DEF ConnMaps, Phases, Timers
<1>10. start' \in StartMaps
  BY <1>1, <1>2 DEF StartMaps, NotStarting
<1>11. \A x \in Records : record[x].sock # s
  BY <1>1, <1>3, GatewayAssumption DEF HoldsItsOwn, Live
<1>12. HoldsItsOwn(record', conn')
  <2> SUFFICES ASSUME NEW x \in Records, record'[x].sock # NoSocket
               PROVE  conn'[record'[x].sock].of = x /\ conn'[record'[x].sock].phase \in Live
    BY DEF HoldsItsOwn
  <2>1. CASE x = r
    BY <1>7, <1>8, <1>9, <2>1 DEF Live
  <2>2. CASE x # r
    <3>1. record[x].sock \in Sockets \ {s} /\ record'[x] = record[x]
      BY <1>1, <1>8, <1>11, <2>2 DEF RecordMaps
    <3> QED  BY <1>1, <1>9, <3>1 DEF HoldsItsOwn
  <2> QED  BY <2>1, <2>2
<1>13. Tended(made', conn', start')
  BY <1>9 DEF Tended, Live
<1> QED  BY <1>1, <1>2, <1>8, <1>9, <1>10, <1>12, <1>13, InvariantFromParts

\* A process that starts knows of no record.
LEMMA ForgottenKeeps ==
  ASSUME GatewayIInv, Forgotten, made' = 0, paired' = paired, wanted' \in BOOLEAN,
         gaveUp' \in BOOLEAN, requests' = requests
  PROVE  GatewayIInv'
<1>1. /\ paired \in BOOLEAN /\ requests \in 0..MaxRequests /\ MaxRecords \in Nat
  BY InvariantParts
<1>2. /\ record' = [r \in Records |-> NewRecord] /\ conn' = [s \in Sockets |-> NewConn]
      /\ start' = [i \in Starts |-> NotStarting] /\ leaving' = NotLeaving /\ mapped' = 0
  BY DEF Forgotten
<1>3. /\ record' \in RecordMaps /\ conn' \in ConnMaps /\ start' \in StartMaps
      /\ leaving' \in [of : 0..MaxRecords, delete : BOOLEAN]
  BY <1>1, <1>2 DEF RecordMaps, ConnMaps, StartMaps, NewRecord, NewConn, NotStarting, NotLeaving,
                    States, Phases, Timers
<1>4. HoldsItsOwn(record', conn')
  BY <1>2 DEF HoldsItsOwn, NewRecord
<1>5. Tended(made', conn', start')
  BY DEF Tended
<1> QED  BY <1>1, <1>2, <1>3, <1>4, <1>5, InvariantFromParts

LEMMA ThrowsKeeps ==
  ASSUME GatewayIInv, NEW i \in Starts, StartThrows(i)
  PROVE  GatewayIInv'
<1>1. CASE start[i].by = "reconnect"
  BY <1>1, ForgottenKeeps, InvariantParts DEF StartThrows
<1>2. CASE start[i].by # "reconnect"
  <2>1. /\ start' = [start EXCEPT ![i] = NotStarting] /\ gaveUp' = TRUE
        /\ UNCHANGED <<mapped, made, record, conn, leaving, wanted, paired, requests>>
    BY <1>2 DEF StartThrows
  <2>2. start' \in StartMaps
    BY <2>1, InvariantParts DEF StartMaps, NotStarting
  <2>3. made' \in 0..MaxRecords
    BY <2>1, InvariantParts
  <2> QED  BY <2>1, <2>2, <2>3, InvariantParts, InvariantFromParts
<1> QED  BY <1>1, <1>2

LEMMA OpensKeeps ==
  ASSUME GatewayIInv, NEW s \in Sockets, Opens(s)
  PROVE  GatewayIInv'
<1> DEFINE r == conn[s].of
           c == [conn[s] EXCEPT !.phase = "open"]
<1>1. /\ made \in 0..MaxRecords /\ mapped \in 0..made /\ record \in RecordMaps
      /\ conn \in ConnMaps /\ start \in StartMaps /\ HoldsItsOwn(record, conn)
      /\ leaving \in [of : 0..MaxRecords, delete : BOOLEAN]
      /\ wanted \in BOOLEAN /\ gaveUp \in BOOLEAN /\ requests \in 0..MaxRequests
  BY InvariantParts
<1>2. /\ conn[s].phase = "connecting" /\ conn' = [conn EXCEPT ![s] = c] /\ paired' = TRUE
      /\ record' = [record EXCEPT ![r].state = "open"]
      /\ UNCHANGED <<mapped, made, start, leaving, wanted, gaveUp, requests>>
  BY DEF Opens
<1>3. /\ c \in [phase : Phases, of : 0..MaxRecords, timer : Timers]
      /\ c.of = conn[s].of /\ c.phase = "open"
  BY <1>1 DEF ConnMaps, Phases
<1> HIDE DEF c, r
<1>4. conn' \in ConnMaps /\ conn'[s] = c /\ \A x \in Sockets \ {s} : conn'[x] = conn[x]
  BY <1>1, <1>2, <1>3 DEF ConnMaps
<1>5. SameSockets(conn, conn')
  BY <1>2, <1>3, <1>4 DEF SameSockets, Live
<1>6. record' \in RecordMaps /\ \A x \in Records : record'[x].sock = record[x].sock
  BY <1>1, <1>2, ZenonT(30) DEF RecordMaps, States
<1>7. HoldsItsOwn(record, conn')
  BY <1>1, <1>5, SameHeld
<1>8. HoldsItsOwn(record', conn')
  BY <1>6, <1>7 DEF HoldsItsOwn
<1>9. Tended(made', conn', start')
  BY <1>3, <1>4 DEF Tended, Live
<1> QED  BY <1>1, <1>2, <1>4, <1>6, <1>8, <1>9, InvariantFromParts

LEMMA ClosesKeeps ==
  ASSUME GatewayIInv, NEW s \in Sockets, NEW loggedOut \in BOOLEAN, Closes(s, loggedOut)
  PROVE  GatewayIInv'
<1> DEFINE r == conn[s].of
           t == TimerAfter(s, loggedOut)
           half == [conn[s] EXCEPT !.phase = "closed"]
           c == [half EXCEPT !.timer = t]
           row == [sock |-> NoSocket, state |-> "disconnected", timer |-> s]
<1>1. /\ made \in 0..MaxRecords /\ mapped \in 0..made /\ record \in RecordMaps
      /\ conn \in ConnMaps /\ start \in StartMaps /\ HoldsItsOwn(record, conn)
      /\ leaving \in [of : 0..MaxRecords, delete : BOOLEAN] /\ paired \in BOOLEAN
      /\ wanted \in BOOLEAN /\ gaveUp \in BOOLEAN /\ requests \in 0..MaxRequests
  BY InvariantParts
<1>2. /\ conn' = [conn EXCEPT ![s].phase = "closed", ![s].timer = t]
      /\ record' = [record EXCEPT ![r] = row]
      /\ paired' = (paired /\ ~loggedOut)
      /\ UNCHANGED <<mapped, made, start, leaving, wanted, gaveUp, requests>>
  BY DEF Closes
<1>3. t \in Timers \ {"none"}
  BY DEF TimerAfter, Timers
<1> HIDE DEF t, r
<1>4. conn' = [conn EXCEPT ![s] = c]
  BY <1>1, <1>2 DEF ConnMaps
<1>5. half \in [phase : Phases, of : 0..MaxRecords, timer : Timers]
  BY <1>1 DEF ConnMaps, Phases
<1> HIDE DEF half
<1>6. /\ c \in [phase : Phases, of : 0..MaxRecords, timer : Timers] /\ c.timer = t
  BY <1>3, <1>5
<1> HIDE DEF c
<1>7. conn' \in ConnMaps /\ conn'[s] = c /\ \A x \in Sockets \ {s} : conn'[x] = conn[x]
  BY <1>1, <1>4, <1>6 DEF ConnMaps
<1>8. row \in [sock : Sockets \union {NoSocket}, state : States,
               timer : Sockets \union {NoSocket}] /\ row.sock = NoSocket
  BY DEF States
<1> HIDE DEF row
<1>9. /\ record' \in RecordMaps
      /\ \A x \in Records : record'[x] = IF x = r THEN row ELSE record[x]
  BY <1>1, <1>2, <1>8 DEF RecordMaps
<1>10. HoldsItsOwn(record', conn')
  <2> SUFFICES ASSUME NEW x \in Records, record'[x].sock # NoSocket
               PROVE  conn'[record'[x].sock].of = x /\ conn'[record'[x].sock].phase \in Live
    BY DEF HoldsItsOwn
  <2>1. x # r /\ record'[x] = record[x]
    BY <1>8, <1>9
  <2>2. record[x].sock \in Sockets /\ conn[record[x].sock].of = x
        /\ conn[record[x].sock].phase \in Live
    BY <1>1, <2>1 DEF HoldsItsOwn, RecordMaps
  <2>3. record[x].sock # s
    BY <2>1, <2>2 DEF r
  <2> QED  BY <1>7, <2>1, <2>2, <2>3
<1>11. Tended(made', conn', start')
  BY <1>3, <1>6, <1>7 DEF Tended
<1>12. paired' \in BOOLEAN
  BY <1>1, <1>2
<1> QED  BY <1>1, <1>2, <1>7, <1>9, <1>10, <1>11, <1>12, InvariantFromParts

LEMMA LeavingKeeps ==
  ASSUME GatewayIInv, Left \/ \E delete \in BOOLEAN : Leave(delete)
  PROVE  GatewayIInv'
<1>1. /\ made \in 0..MaxRecords /\ mapped \in 0..made /\ record \in RecordMaps
      /\ conn \in ConnMaps /\ start \in StartMaps /\ HoldsItsOwn(record, conn)
      /\ leaving \in [of : 0..MaxRecords, delete : BOOLEAN] /\ paired \in BOOLEAN
      /\ wanted \in BOOLEAN /\ gaveUp \in BOOLEAN
      /\ requests \in 0..MaxRequests /\ MaxRequests \in Nat /\ MaxRecords \in Nat
  BY InvariantParts
<1>2. ASSUME NEW delete \in BOOLEAN, Leave(delete) PROVE GatewayIInv'
  <2> DEFINE t == record[mapped].timer
             cleared == IF t = NoSocket THEN conn ELSE [conn EXCEPT ![t].timer = "none"]
             row == [record[mapped] EXCEPT !.timer = NoSocket]
  <2>1. /\ mapped # 0 /\ conn' = Ending(record[mapped].sock, "loggingOut", cleared)
        /\ record' = IF delete THEN record ELSE [record EXCEPT ![mapped] = row]
        /\ leaving' = [of |-> mapped, delete |-> delete] /\ wanted' = FALSE
        /\ UNCHANGED <<mapped, made, start, paired, gaveUp>> /\ requests' \in 0..MaxRequests
    BY <1>1, <1>2 DEF Leave, Requested
  <2>2. mapped \in Records /\ mapped \in 0..MaxRecords
    BY <1>1, <2>1 DEF Records
  <2>3. record[mapped].sock \in Sockets \union {NoSocket} /\ t \in Sockets \union {NoSocket}
    BY <1>1, <2>2 DEF RecordMaps
  <2> HIDE DEF t
  <2>4. cleared \in ConnMaps /\ SameSockets(conn, cleared)
    <3>1. CASE t = NoSocket
      BY <1>1, <3>1, SameSocketsHere
    <3>2. CASE t # NoSocket
      <4> DEFINE c == [conn[t] EXCEPT !.timer = "none"]
      <4>1. t \in Sockets /\ cleared = [conn EXCEPT ![t] = c]
        BY <2>3, <3>2
      <4>2. /\ c \in [phase : Phases, of : 0..MaxRecords, timer : Timers]
            /\ c.of = conn[t].of /\ c.phase = conn[t].phase
        BY <1>1, <4>1 DEF ConnMaps, Timers
      <4> HIDE DEF c, cleared
      <4>3. cleared \in ConnMaps /\ cleared[t] = c /\ \A x \in Sockets \ {t} : cleared[x] = conn[x]
        BY <1>1, <4>1, <4>2 DEF ConnMaps
      <4> QED  BY <4>1, <4>2, <4>3 DEF SameSockets
    <3> QED  BY <3>1, <3>2
  <2> HIDE DEF cleared
  <2>5. conn' \in ConnMaps /\ SameSockets(cleared, conn')
    BY <2>1, <2>3, <2>4, EndingKeeps
  <2>6. HoldsItsOwn(record, conn')
    BY <1>1, <2>4, <2>5, SameHeld
  <2>7. /\ row \in [sock : Sockets \union {NoSocket}, state : States,
                    timer : Sockets \union {NoSocket}] /\ row.sock = record[mapped].sock
    BY <1>1, <2>2 DEF RecordMaps
  <2> HIDE DEF row
  <2>8. record' \in RecordMaps /\ \A x \in Records : record'[x].sock = record[x].sock
    BY <1>1, <2>1, <2>2, <2>7 DEF RecordMaps
  <2>9. HoldsItsOwn(record', conn')
    BY <2>6, <2>8 DEF HoldsItsOwn
  <2>10. leaving' \in [of : 0..MaxRecords, delete : BOOLEAN]
    BY <2>1, <2>2
  <2> QED  BY <1>1, <2>1, <2>5, <2>8, <2>9, <2>10, InvariantFromParts
<1>3. CASE Left
  <2> DEFINE r == leaving.of
             half == [record[r] EXCEPT !.sock = NoSocket]
             row == [half EXCEPT !.state = "disconnected"]
  <2>1. /\ r # 0 /\ conn' = Ending(record[r].sock, "ended", conn) /\ paired' = FALSE
        /\ \/ mapped' = 0 /\ record' = record
           \/ /\ mapped' = mapped
              /\ record' = [record EXCEPT ![r].sock = NoSocket, ![r].state = "disconnected"]
        /\ leaving' = NotLeaving /\ UNCHANGED <<made, start, wanted, gaveUp, requests>>
    BY <1>3 DEF Left
  <2>2. r \in Records
    BY <1>1, <2>1 DEF Records
  <2> HIDE DEF r
  <2>3. record[r].sock \in Sockets \union {NoSocket}
    BY <1>1, <2>2 DEF RecordMaps
  <2>4. conn' \in ConnMaps /\ SameSockets(conn, conn')
    BY <1>1, <2>1, <2>3, EndingKeeps
  <2>5. HoldsItsOwn(record, conn')
    BY <1>1, <2>4, SameHeld
  <2>6. record' = record \/ record' = [record EXCEPT ![r] = row]
    BY <1>1, <2>1, <2>2 DEF RecordMaps
  <2>7. half \in [sock : Sockets \union {NoSocket}, state : States,
                  timer : Sockets \union {NoSocket}] /\ half.sock = NoSocket
    BY <1>1, <2>2 DEF RecordMaps
  <2> HIDE DEF half
  <2>8. row \in [sock : Sockets \union {NoSocket}, state : States,
                 timer : Sockets \union {NoSocket}] /\ row.sock = NoSocket
    BY <2>7 DEF States
  <2> HIDE DEF row
  <2>9. record' \in RecordMaps
        /\ \A x \in Records : record'[x].sock \in {record[x].sock, NoSocket}
    BY <1>1, <2>2, <2>6, <2>8 DEF RecordMaps
  <2>10. HoldsItsOwn(record', conn')
    BY <2>5, <2>9 DEF HoldsItsOwn
  <2>11. leaving' \in [of : 0..MaxRecords, delete : BOOLEAN] /\ mapped' \in 0..made'
    BY <1>1, <2>1 DEF NotLeaving
  <2> QED  BY <1>1, <2>1, <2>4, <2>9, <2>10, <2>11, InvariantFromParts
<1> QED  BY <1>2, <1>3

LEMMA GatewayInvariant == GatewaySpec => []GatewayIInv
<1>1. GatewayInit => GatewayIInv
  <2> SUFFICES ASSUME GatewayInit PROVE GatewayIInv
    OBVIOUS
  <2>1. /\ record = [r \in Records |-> NewRecord] /\ conn = [s \in Sockets |-> NewConn]
        /\ start = [i \in Starts |-> NotStarting] /\ leaving = NotLeaving
        /\ mapped = 0 /\ made = 0 /\ requests = 0
    BY DEF GatewayInit
  <2>2. GatewayTypeOK
    <3>1. {paired, wanted, gaveUp} \subseteq BOOLEAN
      BY DEF GatewayInit
    <3> QED
      BY <2>1, <3>1, GatewayAssumption
         DEF GatewayTypeOK, NewRecord, NewConn, NotStarting, NotLeaving, States, Phases, Timers
  <2>3. HoldsItsOwn(record, conn) /\ InstanceIsTended
    BY <2>1 DEF HoldsItsOwn, InstanceIsTended, NewRecord
  <2> QED  BY <2>2, <2>3 DEF GatewayIInv
<1>2. GatewayIInv /\ [GatewayStep \/ GatewayRestart]_gatewayVars => GatewayIInv'
  <2> SUFFICES ASSUME GatewayIInv, [GatewayStep \/ GatewayRestart]_gatewayVars
               PROVE  GatewayIInv'
    OBVIOUS
  <2>1. CASE GatewayRestart
    BY <2>1, ForgottenKeeps, InvariantParts DEF GatewayRestart
  <2>2. CASE UNCHANGED gatewayVars
    BY <2>2 DEF GatewayIInv, GatewayTypeOK, HoldsItsOwn, InstanceIsTended, gatewayVars
  <2>3. CASE GatewayStep
    BY <2>3, LoadedKeeps, ThrowsKeeps, StartingKeeps, OpensKeeps, ClosesKeeps, LeavingKeeps
       DEF GatewayStep
  <2> QED  BY <2>1, <2>2, <2>3
<1> QED  BY <1>1, <1>2, PTL DEF GatewaySpec

\* A paired instance that nobody asked to stop is never left alone, for any number of
\* sockets, starts, records and requests, however they overlap.
THEOREM InstanceIsTendedHolds == GatewaySpec => []InstanceIsTended
<1>1. GatewayIInv => InstanceIsTended
  BY DEF GatewayIInv
<1> QED  BY <1>1, GatewayInvariant, PTL
=============================================================================
