------------------------- MODULE SweepOrchestrator -------------------------
(* The nightly sweep (src/services/sweep-orchestrator.js): a process that    *)
(* goes SWEEP, IMPLEMENT, WAIT_CI, WAIT_REVIEW, MERGE over the findings of a *)
(* scan, batch by batch, cycle by cycle, saving its state to a file.         *)
(*                                                                           *)
(* GitHub is the other actor: people open the pull requests, push to them,   *)
(* the checks run and the reviewers' verdicts come and go while the process  *)
(* sleeps between two polls, and between its last look at a pull request and *)
(* the merge command.  A finding has at most one pull request.  A poll reads *)
(* the batch's pull requests in one step.  Deadlines are not clocked: a      *)
(* phase may time out at any poll, the whole run at any check of             *)
(* isTimedOut().  Messages, the scan itself, the task evidence and the       *)
(* report are left out.                                                      *)
EXTENDS Naturals, FiniteSets

CONSTANTS Findings,      \* what a scan may find
          NoFinding,     \* nothing
          BatchSize,     \* BATCH_SIZE
          MaxCycles,     \* MAX_CYCLES
          MaxObserved,   \* CI_FIX_MAX_ATTEMPTS
          MaxPushes      \* bound: pushes to one pull request

ASSUME SweepAssumption ==
  /\ NoFinding \notin Findings
  /\ BatchSize \in Nat \ {0} /\ MaxCycles \in Nat \ {0}
  /\ MaxObserved \in Nat /\ MaxPushes \in Nat

VARIABLES at,         \* where the process is; "off" when none runs
          status,     \* state.status in memory
          cycle,      \* state.cycle in memory
          current,    \* state.currentCycle: the prStatus of the batch's findings
          failed,     \* ciFixAttempts of the batch's findings (no run reads
                      \* the saved ones again)
          todo,       \* the cycle's findings in no batch yet
          queue,      \* the pull requests still to be looked at for merging
          snap,       \* the one whose merge command is about to run, or NoFinding
          fruitful,   \* something was merged in this cycle
          saved,      \* the state file
          pr          \* pr[f], the pull request on GitHub

procVars == <<at, status, cycle, current, failed, todo, queue, snap, fruitful, saved>>
sweepVars == <<procVars, pr>>

Places == {"off", "loop", "presweep", "scan", "record", "prs", "ci", "review", "merge"}
Statuses == {"SWEEP", "IMPLEMENT", "WAIT_CI", "WAIT_REVIEW", "MERGE", "DONE", "STALLED", "ERROR"}

(* "open" is pr_created and what a poll leaves unsettled; "unmerged" is every *)
(* way not to be merged (a base that is not ours, a conflict, an error).     *)
PrStatuses == {"pending", "open", "ci_green", "blocked", "reviewed", "merged", "unmerged"}

(* currentCycle: a function on the batch's findings, empty when it is null.  *)
NoBatch == [f \in {} |-> "pending"]
Fresh == [status |-> "SWEEP", cycle |-> 1, current |-> NoBatch]
Batch == DOMAIN current

PrRecord == [state : {"none", "open", "merged"}, issue : BOOLEAN,
             ci : {"pending", "failing", "green"},
             approved : BOOLEAN, pushes : 0..MaxPushes]

SweepInit ==
  /\ at = "off" /\ status = "SWEEP" /\ cycle = 1 /\ current = NoBatch
  /\ failed = [f \in Findings |-> 0]
  /\ todo = {} /\ queue = {} /\ snap = NoFinding /\ fruitful = FALSE
  /\ saved = Fresh
  /\ pr = [f \in Findings |-> [state |-> "none", issue |-> FALSE, ci |-> "pending",
                               approved |-> FALSE, pushes |-> 0]]

-----------------------------------------------------------------------------
(* GitHub                                                                    *)

Touch(f, r) ==
  /\ pr' = [pr EXCEPT ![f] = r]
  /\ UNCHANGED procVars

(* A person opens the pull request of a recorded issue.                      *)
OpenPr(f) ==
  /\ pr[f].state = "none" /\ pr[f].issue
  /\ Touch(f, [pr[f] EXCEPT !.state = "open"])

(* The checks of the current revision end.                                   *)
ChecksEnd(f) ==
  /\ pr[f].state = "open" /\ pr[f].ci = "pending"
  /\ \E c \in {"failing", "green"} : Touch(f, [pr[f] EXCEPT !.ci = c])

(* The current revision is approved, or its approval is withdrawn.           *)
Verdict(f) ==
  /\ pr[f].state = "open"
  /\ Touch(f, [pr[f] EXCEPT !.approved = ~@])

(* A push makes a revision without checks and without a verdict.             *)
Push(f) ==
  /\ pr[f].state = "open" /\ pr[f].pushes < MaxPushes
  /\ Touch(f, [pr[f] EXCEPT !.ci = "pending", !.approved = FALSE, !.pushes = @ + 1])

-----------------------------------------------------------------------------
(* The process                                                               *)

SaveState(st, cy, cu) == saved' = [status |-> st, cycle |-> cy, current |-> cu]

Go(place, st, cy, cu) ==
  /\ at' = place /\ status' = st /\ cycle' = cy /\ current' = cu

(* A run loads the file, and forgets a finished run's.                       *)
StartSweep ==
  /\ at = "off"
  /\ LET s == IF saved.status \in {"DONE", "STALLED", "ERROR"} THEN Fresh ELSE saved
     IN  Go("loop", s.status, s.cycle, s.current) /\ saved' = s
  /\ fruitful' = FALSE /\ failed' = [f \in Findings |-> 0]
  /\ UNCHANGED <<todo, queue, snap, pr>>

(* The head of the main loop.  A state that is neither SWEEP nor without a   *)
(* current cycle matches no branch of it: the loop turns without a step.     *)
LoopAgain ==
  /\ at = "loop" /\ cycle <= MaxCycles
  /\ status = "SWEEP" \/ current = NoBatch
  /\ at' = "presweep"
  /\ queue' = {f \in Findings : pr[f].state = "open" /\ pr[f].approved}
  /\ UNCHANGED <<status, cycle, current, failed, todo, snap, fruitful, saved, pr>>

(* The loop is left with MAX_CYCLES or the total timeout; the state is saved. *)
LoopEnds ==
  /\ at = "loop"
  /\ at' = "off" /\ SaveState(status, cycle, current)
  /\ UNCHANGED <<status, cycle, current, failed, todo, queue, snap, fruitful, pr>>

(* The revision is read again right before the merge command; anything but   *)
(* an approved verdict on a mergeable pull request for our branch skips it.  *)
Look(f) ==
  /\ snap = NoFinding /\ f \in queue
  /\ \/ /\ pr[f].state = "open" /\ pr[f].approved
        /\ snap' = f /\ UNCHANGED current
        /\ UNCHANGED saved
     \/ /\ UNCHANGED snap
        /\ current' = IF f \in Batch THEN [current EXCEPT ![f] = "unmerged"] ELSE current
        /\ UNCHANGED saved \/ (f \in Batch /\ SaveState(status, cycle, current'))
  /\ queue' = queue \ {f}
  /\ UNCHANGED <<at, status, cycle, failed, todo, fruitful, pr>>

(* gh pr merge: done, refused, or done and reported as failed (its timeout). *)
(* The command names the pull request, not the revision that was read.       *)
MergeCommand ==
  /\ snap # NoFinding
  /\ \E done \in BOOLEAN, told \in BOOLEAN :
        /\ told => done
        /\ done => pr[snap].state = "open"
        /\ pr' = IF done THEN [pr EXCEPT ![snap].state = "merged"] ELSE pr
        /\ current' = IF snap \in Batch
                      THEN [current EXCEPT ![snap] = IF told THEN "merged" ELSE "unmerged"]
                      ELSE current
        /\ fruitful' = (fruitful \/ (told /\ snap \in Batch))
  /\ snap' = NoFinding
  /\ IF at = "merge" THEN SaveState(status, cycle, current') ELSE UNCHANGED saved
  /\ UNCHANGED <<at, status, cycle, failed, todo, queue>>

PresweepEnds ==
  /\ at = "presweep" /\ queue = {} /\ snap = NoFinding
  /\ at' = "scan"
  /\ UNCHANGED <<status, cycle, current, failed, todo, queue, snap, fruitful, saved, pr>>

(* Covered by an open pull request or by the open issue of an earlier cycle. *)
Covered(f) == pr[f].state = "open" \/ pr[f].issue

(* Defect: a cycle whose findings are all covered is not counted.            *)
ScanUncounted ==
  /\ at = "scan"
  /\ \E raw \in SUBSET {f \in Findings : pr[f].state # "merged"} :
        LET new == {f \in raw : ~Covered(f)}
        IN  IF raw = {}
            THEN Go("off", "DONE", cycle, current) /\ SaveState("DONE", cycle, current) /\ UNCHANGED todo
            ELSE IF new = {}
            THEN Go("loop", status, cycle, current) /\ UNCHANGED <<todo, saved>>
            ELSE Go("record", status, cycle, current) /\ todo' = new /\ UNCHANGED saved
  /\ fruitful' = FALSE
  /\ UNCHANGED <<failed, queue, snap, pr>>

(* The scan, and what is left of it once the covered findings are dropped.   *)
Scan ==
  /\ at = "scan"
  /\ \E raw \in SUBSET {f \in Findings : pr[f].state # "merged"} :
        LET new == {f \in raw : ~Covered(f)}
        IN  \/ /\ raw = {}
               /\ Go("off", "DONE", cycle, current) /\ SaveState("DONE", cycle, current)
               /\ UNCHANGED todo
            \/ /\ raw # {} /\ new = {}
               /\ Go("loop", status, cycle + 1, current) /\ SaveState(status, cycle + 1, current)
               /\ UNCHANGED todo
            \/ /\ new # {}
               /\ Go("record", status, cycle, current) /\ todo' = new
               /\ UNCHANGED saved
  /\ fruitful' = FALSE
  /\ UNCHANGED <<failed, queue, snap, pr>>

(* The snapshot cannot be prepared: the run ends in ERROR.                   *)
ScanBlocked ==
  /\ at = "scan"
  /\ Go("off", "ERROR", cycle, current) /\ SaveState("ERROR", cycle, current)
  /\ UNCHANGED <<failed, todo, queue, snap, fruitful, pr>>

(* The next batch: an issue each, found or created.  A failure drops the     *)
(* finding, also when GitHub made the issue; a batch of none is skipped.     *)
RecordBatch ==
  /\ at = "record" /\ snap = NoFinding
  /\ \E B \in SUBSET todo : \E made \in SUBSET B, kept \in SUBSET B :
        /\ B # {} /\ Cardinality(B) <= BatchSize /\ kept \subseteq made
        /\ Cardinality(B) < BatchSize => B = todo
        /\ todo' = todo \ B
        /\ pr' = [f \in Findings |-> IF f \in made THEN [pr[f] EXCEPT !.issue = TRUE] ELSE pr[f]]
        /\ IF kept = {}
           THEN Go("record", status, cycle, NoBatch) /\ SaveState(status, cycle, NoBatch)
           ELSE LET cu == [f \in kept |-> "pending"]
                IN  Go("prs", "IMPLEMENT", cycle, cu) /\ SaveState("IMPLEMENT", cycle, cu)
  /\ failed' = [f \in Findings |-> 0]
  /\ UNCHANGED <<queue, snap, fruitful>>

(* Drop the batch and go on with the next.                                   *)
SkipBatch(st) == Go("record", st, cycle, NoBatch) /\ SaveState(st, cycle, NoBatch)

(* A poll for the pull requests, and the timeout that goes on without the    *)
(* missing ones.                                                             *)
PollPrs(timeout) ==
  /\ at = "prs"
  /\ LET seen == [f \in Batch |-> IF current[f] = "pending" /\ pr[f].state = "open"
                                  THEN "open" ELSE current[f]]
         have == {f \in Batch : seen[f] # "pending"}
     IN  IF have = Batch
         THEN Go("ci", "WAIT_CI", cycle, seen) /\ SaveState("WAIT_CI", cycle, seen)
         ELSE IF ~timeout
         THEN Go("prs", status, cycle, seen) /\ SaveState(status, cycle, seen)
         ELSE IF have = {}
         THEN SkipBatch(status)
         ELSE LET cu == [f \in have |-> seen[f]]
              IN  Go("ci", "WAIT_CI", cycle, cu) /\ SaveState("WAIT_CI", cycle, cu)
  /\ UNCHANGED <<failed, todo, queue, snap, fruitful, pr>>

(* What a poll of the checks makes of a finding; a pull request that cannot  *)
(* be read any more is pending.                                              *)
Failing(f) == pr[f].state = "open" /\ pr[f].ci = "failing"

CiStatus(f) ==
  IF current[f] = "ci_green" THEN "ci_green"
  ELSE CASE pr[f].state # "open" \/ pr[f].ci = "pending" -> "open"
         [] pr[f].ci = "green" -> "ci_green"
         [] OTHER -> IF failed[f] < MaxObserved THEN "open" ELSE "blocked"

PollCi(timeout) ==
  /\ at = "ci"
  /\ LET seen == [f \in Batch |-> CiStatus(f)]
         live == {f \in Batch : seen[f] # "blocked"}
         green == {f \in Batch : seen[f] = "ci_green"}
     IN  /\ failed' = [f \in Findings |-> IF f \in Batch /\ seen[f] = "open" /\ Failing(f)
                                          THEN failed[f] + 1 ELSE failed[f]]
         /\ IF live = {} \/ (timeout /\ green = {})
            THEN SkipBatch(status)
            ELSE IF live = green \/ timeout
            THEN Go("review", "WAIT_REVIEW", cycle, seen) /\ SaveState("WAIT_REVIEW", cycle, seen)
            ELSE Go("ci", status, cycle, seen) /\ SaveState(status, cycle, seen)
  /\ UNCHANGED <<todo, queue, snap, fruitful, pr>>

ReviewStatus(f) ==
  IF current[f] \in {"blocked", "reviewed"} \/ pr[f].state # "open" THEN current[f]
  ELSE IF pr[f].approved THEN "reviewed" ELSE current[f]

(* mergePRs runs whatever this phase ends with, on what it saw reviewed.     *)
PollReviews(timeout) ==
  /\ at = "review"
  /\ LET seen == [f \in Batch |-> ReviewStatus(f)]
         reviewed == {f \in Batch : seen[f] = "reviewed"}
     IN  IF timeout \/ \A f \in Batch : seen[f] \in {"blocked", "reviewed"}
         THEN /\ Go("merge", "MERGE", cycle, seen) /\ SaveState("MERGE", cycle, seen)
              /\ queue' = reviewed
         ELSE /\ Go("review", status, cycle, seen) /\ SaveState(status, cycle, seen)
              /\ UNCHANGED queue
  /\ UNCHANGED <<failed, todo, snap, fruitful, pr>>

MergeEnds ==
  /\ at = "merge" /\ queue = {} /\ snap = NoFinding
  /\ SkipBatch(status)
  /\ UNCHANGED <<failed, todo, queue, snap, fruitful, pr>>

(* No batch is left, or no time: the next cycle, or STALLED if the cycle     *)
(* merged nothing.                                                           *)
CycleEnds ==
  /\ at = "record"
  /\ Go(IF fruitful THEN "loop" ELSE "off", IF fruitful THEN "SWEEP" ELSE "STALLED",
        cycle + 1, NoBatch)
  /\ SaveState(status', cycle + 1, NoBatch)
  /\ todo' = {}
  /\ UNCHANGED <<failed, queue, snap, fruitful, pr>>

(* The process is killed: what it had not saved is gone.                     *)
SweepKilled ==
  /\ at # "off"
  /\ at' = "off" /\ todo' = {} /\ queue' = {} /\ snap' = NoFinding
  /\ status' = "SWEEP" /\ cycle' = 1 /\ current' = NoBatch /\ fruitful' = FALSE
  /\ failed' = [f \in Findings |-> 0]
  /\ UNCHANGED <<saved, pr>>

GitHubStep == \E f \in Findings : OpenPr(f) \/ ChecksEnd(f) \/ Verdict(f) \/ Push(f)

SweepStep ==
  \/ StartSweep \/ LoopAgain \/ LoopEnds \/ (\E f \in Findings : Look(f))
  \/ MergeCommand \/ PresweepEnds \/ Scan \/ ScanBlocked \/ RecordBatch
  \/ (\E t \in BOOLEAN : PollPrs(t) \/ PollCi(t) \/ PollReviews(t))
  \/ MergeEnds \/ CycleEnds

(* What a run does to come to its end: every wait has a timeout, every       *)
(* command one too, and the loop a total of its own.                         *)
SweepWork ==
  \/ LoopAgain \/ LoopEnds \/ (\E f \in Findings : Look(f)) \/ MergeCommand
  \/ PresweepEnds \/ Scan \/ ScanBlocked \/ RecordBatch
  \/ PollPrs(TRUE) \/ PollCi(TRUE) \/ PollReviews(TRUE) \/ MergeEnds \/ CycleEnds

SweepSpec == SweepInit /\ [][SweepStep \/ GitHubStep \/ SweepKilled]_sweepVars
-----------------------------------------------------------------------------

SweepTypeOK ==
  /\ at \in Places /\ status \in Statuses /\ cycle \in 1..(MaxCycles + 1)
  /\ Batch \subseteq Findings /\ \A f \in Batch : current[f] \in PrStatuses
  /\ failed \in [Findings -> 0..MaxObserved]
  /\ todo \subseteq Findings /\ queue \subseteq Findings
  /\ snap \in Findings \cup {NoFinding} /\ fruitful \in BOOLEAN
  /\ saved.status \in Statuses /\ saved.cycle \in 1..(MaxCycles + 1)
  /\ pr \in [Findings -> PrRecord]

(* A run of the sweep ends, whatever GitHub answers and however long it      *)
(* takes: no pull request is waited for, looked at or merged for ever, and   *)
(* the cycles are counted (MAX_CYCLES).                                      *)
SweepEnds == at # "off" ~> at = "off"
=============================================================================
