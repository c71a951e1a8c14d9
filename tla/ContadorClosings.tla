-------------------------- MODULE ContadorClosings --------------------------
(* The accountant's monthly closing (contador_monthly_runs in                *)
(* src/services/support-copilot/lib/contador-runtime.js, monthlySummary in   *)
(* contador.js): a timer looks for the months that are due, closes them in   *)
(* order and posts one summary per month to the group.                       *)
(*                                                                           *)
(* Months are numbered from the one the table was seeded with.  through is   *)
(* the last month whose schedule was reached.  A summary is a claim, an      *)
(* analysis (tools and the agent), a fence written before the post, the post *)
(* and its outcome; a worker's step goes from one await to the next.  A      *)
(* delivery_unknown row is left by an operator only, who is not modelled.    *)
EXTENDS Integers, FiniteSets

CONSTANTS MaxMonth,     \* bound: the months followed
          MaxAttempts   \* MAX_ATTEMPTS

ASSUME ClosingAssumption == MaxMonth \in Nat \ {0} /\ MaxAttempts \in Nat \ {0}

Months == 1..MaxMonth

VARIABLES closing,    \* the row of each month
          through,    \* the last month whose schedule was reached
          listed,     \* the due months this pass has not come to yet
          doing,      \* the month the pass is closing, 0 when none
          step,       \* how far it is: "analysis", "fenced" or "posted"
          summaries   \* summaries[m] that reached the group (history)

closingVars == <<closing, through, listed, doing, step, summaries>>

RunStatuses == {"none", "pending", "processing", "sending", "sent", "silent",
                "failed", "delivery_unknown"}

(* wait: next_attempt_at lies ahead.                                         *)
MonthRun(s, n, w) == [status |-> s, attempts |-> n, wait |-> w]

ClosingInit ==
  /\ closing = [m \in Months |-> IF m = 1 THEN MonthRun("pending", 0, FALSE)
                                          ELSE MonthRun("none", 0, FALSE)]
  /\ through = 0 /\ listed = {} /\ doing = 0 /\ step = "analysis"
  /\ summaries = [m \in Months |-> 0]

Set(m, s, w) == closing' = [closing EXCEPT ![m].status = s, ![m].wait = w]

Retryable(m) == closing[m].status = "failed" /\ closing[m].attempts < MaxAttempts

(* A row the scan of dueMonthlyRunMonths does not go past.                   *)
Blocks(m) == closing[m].status = "delivery_unknown" \/ (Retryable(m) /\ closing[m].wait)

(* Defect: the scan passes over a closing that waits for its retry.          *)
DueRunsOvertaking ==
  {m \in 1..through : \/ closing[m].status \in {"none", "pending"}
                      \/ Retryable(m) /\ ~closing[m].wait}

DueRuns ==
  {m \in 1..through :
     /\ closing[m].status \in {"none", "pending"} \/ (Retryable(m) /\ ~closing[m].wait)
     /\ \A k \in 1..(m - 1) : ~Blocks(k)}

(* The timer, unless a pass is running.                                      *)
ClosingPass ==
  /\ listed = {} /\ doing = 0 /\ DueRuns # {}
  /\ listed' = DueRuns
  /\ UNCHANGED <<closing, through, doing, step, summaries>>

(* The oldest month of the pass is claimed; one no longer claimable is       *)
(* passed over.                                                              *)
ClaimRun(m) ==
  /\ doing = 0 /\ m \in listed /\ \A k \in listed : m <= k
  /\ listed' = listed \ {m}
  /\ IF closing[m].status \in {"none", "pending"} \/ (Retryable(m) /\ ~closing[m].wait)
     THEN /\ closing' = [closing EXCEPT ![m] = MonthRun("processing", @.attempts + 1, FALSE)]
          /\ doing' = m /\ step' = "analysis"
     ELSE UNCHANGED <<closing, doing, step>>
  /\ UNCHANGED <<through, summaries>>

(* No data, or the agent has nothing to say.                                 *)
NothingToSay ==
  /\ doing # 0 /\ step = "analysis"
  /\ Set(doing, "silent", FALSE) /\ doing' = 0
  /\ UNCHANGED <<through, listed, step, summaries>>

(* beforeSend: the row leaves "processing" before anything is posted.        *)
FenceSummary ==
  /\ doing # 0 /\ step = "analysis" /\ closing[doing].status = "processing"
  /\ Set(doing, "sending", closing[doing].wait) /\ step' = "fenced"
  /\ UNCHANGED <<through, listed, doing, summaries>>

(* The summary reaches the group; the answer is still under way.             *)
SummaryReaches ==
  /\ doing # 0 /\ step = "fenced"
  /\ step' = "posted"
  /\ summaries' = [summaries EXCEPT ![doing] = @ + 1]
  /\ UNCHANGED <<closing, through, listed, doing>>

SummarySent ==
  /\ doing # 0 /\ step = "posted"
  /\ Set(doing, "sent", FALSE) /\ doing' = 0
  /\ UNCHANGED <<through, listed, step, summaries>>

(* An error ends the pass.  Before the fence, or as a definitive rejection   *)
(* (4xx), it is retried later; any other leaves the delivery unknown.        *)
SummaryFails ==
  /\ doing # 0
  /\ \/ step \in {"analysis", "fenced"} /\ Set(doing, "failed", TRUE)
     \/ step \in {"fenced", "posted"} /\ Set(doing, "delivery_unknown", FALSE)
  /\ doing' = 0 /\ listed' = {}
  /\ UNCHANGED <<through, step, summaries>>

ClosingStep ==
  \/ ClosingPass \/ (\E m \in Months : ClaimRun(m)) \/ NothingToSay \/ FenceSummary
  \/ SummaryReaches \/ SummarySent \/ SummaryFails

(* Time: the schedule of the next month is reached, a retry becomes due.     *)
ScheduleReached ==
  /\ through < MaxMonth /\ through' = through + 1
  /\ UNCHANGED <<closing, listed, doing, step, summaries>>

RetryDue ==
  /\ \E m \in Months : closing[m].wait /\ Set(m, closing[m].status, FALSE)
  /\ UNCHANGED <<through, listed, doing, step, summaries>>

ClosingClock == ScheduleReached \/ RetryDue

(* Defect: the fence is not told from the claim when a run was interrupted.  *)
RecoveredRunResent(r) ==
  IF r.status \in {"processing", "sending"} THEN MonthRun("failed", r.attempts, FALSE) ELSE r

(* recoverInterruptedContadorWork on a row.                                  *)
RecoveredRun(r) ==
  CASE r.status = "processing" -> MonthRun("failed", r.attempts, FALSE)
    [] r.status = "sending" -> MonthRun("delivery_unknown", r.attempts, FALSE)
    [] OTHER -> r

ClosingRestart ==
  /\ closing' = [m \in Months |-> RecoveredRun(closing[m])]
  /\ listed' = {} /\ doing' = 0 /\ step' = "analysis"
  /\ UNCHANGED <<through, summaries>>

ClosingSpec == ClosingInit /\ [][ClosingStep \/ ClosingClock \/ ClosingRestart]_closingVars
-----------------------------------------------------------------------------

ClosingTypeOK ==
  /\ closing \in [Months -> [status : RunStatuses, attempts : 0..MaxAttempts, wait : BOOLEAN]]
  /\ through \in 0..MaxMonth /\ listed \subseteq Months /\ doing \in 0..MaxMonth
  /\ step \in {"analysis", "fenced", "posted"}
  /\ summaries \in [Months -> Nat]

Settled(m) ==
  \/ closing[m].status \in {"sent", "silent"}
  \/ closing[m].status = "failed" /\ closing[m].attempts = MaxAttempts

(* The group reads a month's closing at most once, whatever fails and        *)
(* wherever the service restarts.                                            *)
ClosedOnce == \A m \in Months : summaries[m] <= 1

(* And a month is worked on only when every older one is settled: contador-  *)
(* runtime.js:597 "Never overtake an older closing that is waiting for       *)
(* retry", and an ambiguous delivery holds the later closings back.          *)
ClosedOnceInOrder ==
  /\ ClosedOnce
  /\ doing # 0 => \A k \in 1..(doing - 1) : Settled(k)
=============================================================================
