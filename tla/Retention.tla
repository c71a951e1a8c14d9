------------------------------ MODULE Retention ------------------------------
(***************************************************************************)
(* What mobile telemetry stores and deletes                                *)
(* (src/services/mobile-telemetry/routes/ingest.js, lib/retention*.js).    *)
(*                                                                         *)
(* A batch from the app becomes one row of mobile_raw and its events rows  *)
(* of mobile_events that refer to it, in one transaction.  Every six hours *)
(* a worker thread deletes what is older than the TTL: first events, then  *)
(* raw rows, a chunk per statement, while batches go on coming in.  Each   *)
(* statement commits by itself.  The main thread waits for the worker's    *)
(* message, its end, or a time-out of thirty minutes, and plans the next   *)
(* sweep.  A database born before the index on raw_id is not swept until   *)
(* somebody migrates it.                                                   *)
(***************************************************************************)
EXTENDS Naturals, FiniteSets
LOCAL INSTANCE Functions

CONSTANTS
  Uploads,      \* the batches of the app
  MaxEvents,    \* bound: events in a batch (250 in the code)
  Chunk,        \* CHUNK_SIZE
  MaxSweepFaults  \* bound: failing statements and time-outs of sweeps

ASSUME RetentionAssumption ==
  MaxEvents \in Nat /\ Chunk \in Nat \ {0} /\ MaxSweepFaults \in Nat

VARIABLES
  raw,        \* the batches with a row in mobile_raw
  events,     \* events[u], the rows of mobile_events that refer to u
  expired,    \* the batches received longer ago than the TTL
  indexed,    \* whether an index on raw_id exists
  sweeper,    \* the worker thread: its stage and what its cutoff covers
  report,     \* what the thread has told the main thread, not yet handled
  active,     \* this.active of the runner is not null
  timer,      \* a sweep is scheduled
  faults

retentionVars == <<raw, events, expired, indexed, sweeper, report, active, timer, faults>>

Stages == {"idle", "validate", "events", "raw"}
Idle == [stage |-> "idle", cutoff |-> {}]

RetentionInit ==
  /\ raw = {} /\ events = [u \in Uploads |-> 0] /\ expired = {}
  /\ indexed \in BOOLEAN
  /\ sweeper = Idle /\ report = {} /\ active = FALSE /\ timer = TRUE
  /\ faults = 0

-----------------------------------------------------------------------------
\* The raw row and the events of a batch, in one transaction.
IngestBatch(u, n) ==
  /\ raw' = raw \cup {u}
  /\ events' = [events EXCEPT ![u] = n]

\* A batch is stored; a request refused or a transaction that fails leaves
\* nothing behind.
Ingest(u, n) ==
  /\ u \notin raw \cup expired
  /\ IngestBatch(u, n)
  /\ UNCHANGED <<expired, indexed, sweeper, report, active, timer, faults>>

Expires(u) ==
  /\ u \in raw \ expired
  /\ expired' = expired \cup {u}
  /\ UNCHANGED <<raw, events, indexed, sweeper, report, active, timer, faults>>

\* scripts/migrate-mobile-raw-id-index.js --apply
Migrate ==
  /\ ~indexed /\ indexed' = TRUE
  /\ UNCHANGED <<raw, events, expired, sweeper, report, active, timer, faults>>

-----------------------------------------------------------------------------
\* The timer fires.  Six hours have passed since the last thread was done with,
\* and its exit has been handled.
StartRetention ==
  /\ timer /\ ~active /\ report = {} /\ sweeper = Idle
  /\ timer' = FALSE /\ active' = TRUE
  /\ sweeper' = [stage |-> "validate", cutoff |-> expired]
  /\ UNCHANGED <<raw, events, expired, indexed, report, faults>>

\* The thread posts its message and ends.
Reports(message) ==
  /\ sweeper' = Idle
  /\ report' = report \cup {message, "exit"}

Validate ==
  /\ sweeper.stage = "validate"
  /\ IF indexed THEN sweeper' = [sweeper EXCEPT !.stage = "events"] /\ UNCHANGED report
     ELSE Reports("failed")
  /\ UNCHANGED <<raw, events, expired, indexed, active, timer, faults>>

Total(f) == FoldFunction(+, 0, f)

\* The expired events, and what of them one statement may leave: at most Chunk
\* fewer, in no order, and none if they all fit.
Doomed == [u \in Uploads |-> IF u \in sweeper.cutoff THEN events[u] ELSE 0]
Left ==
  {f \in [Uploads -> 0..MaxEvents] :
     /\ \A u \in Uploads : f[u] <= Doomed[u]
     /\ Total(f) = IF Total(Doomed) <= Chunk THEN 0 ELSE Total(Doomed) - Chunk}

\* A full chunk is followed by another one.
NextStage(deleted, stage, next) == IF deleted < Chunk THEN next ELSE stage

DeleteEvents ==
  /\ sweeper.stage = "events"
  /\ \E f \in Left :
       events' = [u \in Uploads |-> IF u \in sweeper.cutoff THEN f[u] ELSE events[u]]
  /\ sweeper' = [sweeper EXCEPT !.stage =
       NextStage(IF Total(Doomed) <= Chunk THEN Total(Doomed) ELSE Chunk, "events", "raw")]
  /\ UNCHANGED <<raw, expired, indexed, report, active, timer, faults>>

\* A chunk of raw rows; one that an event refers to fails the statement.
DeleteRaw ==
  /\ sweeper.stage = "raw"
  /\ \E S \in SUBSET (raw \cap sweeper.cutoff) :
       /\ Cardinality(S) = IF Cardinality(raw \cap sweeper.cutoff) <= Chunk
                           THEN Cardinality(raw \cap sweeper.cutoff) ELSE Chunk
       /\ IF \E u \in S : events[u] > 0
          THEN Reports("failed") /\ UNCHANGED raw
          ELSE /\ raw' = raw \ S
               /\ IF NextStage(Cardinality(S), "raw", "done") = "raw"
                  THEN UNCHANGED <<sweeper, report>> ELSE Reports("ok")
  /\ UNCHANGED <<events, expired, indexed, active, timer, faults>>

\* The database is locked or broken: the statement does nothing and ends the
\* sweep.  Or the thread is lost without a word.
StatementFails ==
  /\ sweeper # Idle /\ faults < MaxSweepFaults
  /\ faults' = faults + 1
  /\ Reports("failed") \/ (sweeper' = Idle /\ report' = report \cup {"exit"})
  /\ UNCHANGED <<raw, events, expired, indexed, active, timer>>

RetentionWork == Validate \/ DeleteEvents \/ DeleteRaw

-----------------------------------------------------------------------------
\* Defect: the next sweep is planned where the result is logged.
ReplannedAfterSuccess(message) == message = "ok"

\* The next sweep is planned in the finally branch.
Replanned(message) == TRUE

\* finish: the message settles the run, unless its time is over already.
HandleReport ==
  /\ \E message \in report \ {"exit"} :
       /\ report' = report \ {message}
       /\ timer' = IF active THEN Replanned(message) ELSE timer
  /\ active' = FALSE
  /\ UNCHANGED <<raw, events, expired, indexed, sweeper, faults>>

\* The exit, after the message; it settles a run that nothing else has.
HandleExit ==
  /\ report = {"exit"}
  /\ report' = {}
  /\ active' = FALSE
  /\ timer' = IF active THEN Replanned("exit") ELSE timer
  /\ UNCHANGED <<raw, events, expired, indexed, sweeper, faults>>

\* Thirty minutes are over: the thread ends after its statement, if it has not
\* just posted its message.
SweepTimesOut ==
  /\ active /\ faults < MaxSweepFaults
  /\ faults' = faults + 1
  /\ sweeper' = Idle /\ report' = report \cup {"exit"}
  /\ active' = FALSE /\ timer' = Replanned("timeout")
  /\ UNCHANGED <<raw, events, expired, indexed>>

\* The service restarts: the thread dies with it, and a sweep is planned for
\* thirty seconds later.
RetentionRestart ==
  /\ sweeper' = Idle /\ report' = {} /\ active' = FALSE /\ timer' = TRUE
  /\ UNCHANGED <<raw, events, expired, indexed, faults>>

RetentionStep ==
  \/ \E u \in Uploads : Expires(u) \/ \E n \in 0..MaxEvents : Ingest(u, n)
  \/ Migrate \/ StartRetention \/ RetentionWork \/ StatementFails
  \/ HandleReport \/ HandleExit \/ SweepTimesOut

-----------------------------------------------------------------------------
RetentionTypeOK ==
  /\ raw \subseteq Uploads /\ expired \subseteq Uploads
  /\ events \in [Uploads -> 0..MaxEvents]
  /\ sweeper \in [stage : Stages, cutoff : SUBSET Uploads]
  /\ report \subseteq {"ok", "failed", "exit"}
  /\ {indexed, active, timer} \subseteq BOOLEAN
  /\ faults \in 0..MaxSweepFaults

\* Once the index is there, an expired batch is deleted in the end, whatever
\* sweeps fail, time out or die half-way.  It includes that events go first: a
\* raw row an event refers to would make every sweep fail (retention.js:2).
ExpiredIsDeleted == \A u \in Uploads : (indexed /\ u \in expired) ~> u \notin raw
=============================================================================
