------------------------- MODULE StationInvestigator -------------------------
(***************************************************************************)
(* services/support-copilot/lib/station-investigator-runtime.js: how a     *)
(* WhatsApp message that mentions the bot is claimed, charged against the  *)
(* daily limit, investigated by the central API and answered.              *)
(*                                                                         *)
(* The row of a message in station_investigation_jobs is all the state     *)
(* that survives a restart.  It is worked on by webhook handlers (first    *)
(* delivery and replays of the provider) and by one periodic sweep; each   *)
(* gives way at every await: the configuration, the central API and the    *)
(* send to WhatsApp.  Between two awaits the code runs alone, so a step    *)
(* below is what happens from one await to the next.                       *)
(*                                                                         *)
(* Time is what a row says of it: its lease has run out (aged), its next   *)
(* attempt is due, its reservation is older than a day.  updated_at is     *)
(* compared only for equality with a value read before; "fresh" means that *)
(* nothing has written the row since.                                      *)
(***************************************************************************)
EXTENDS Naturals, FiniteSets

CONSTANTS
  Messages,     \* messages of one brand and one conversation
  Handlers,     \* webhook requests in flight
  Sweeper,      \* deliverDueStationInvestigations
  NoMessage,    \* not a message
  DailyLimit,   \* policy.dailyLimit
  MaxAttempts,  \* STATION_JOB_MAX_ATTEMPTS
  MaxCrashes    \* bound on restarts of the process

ASSUME StationAssumption ==
  /\ IsFiniteSet(Messages) /\ NoMessage \notin Messages
  /\ Sweeper \notin Handlers
  /\ DailyLimit \in Nat /\ MaxCrashes \in Nat
  /\ MaxAttempts \in Nat \ {0}

VARIABLES
  job,     \* station_investigation_jobs, by message
  generic, \* messages with a row in agent_media_jobs, or one in contador_jobs
           \* that was there before a row of job
  human,   \* a person owns the conversation
  wire,    \* what became of the answer of each attempt
  worker,  \* the handlers and the sweep's current job
  pass,    \* the sweep's list of due jobs
  crashes

vars == <<job, generic, human, wire, worker, pass, crashes>>

-----------------------------------------------------------------------------
Workers  == Handlers \cup {Sweeper}
Attempts == 1 .. MaxAttempts
InFlight == {"reserved", "processing", "sending"}
Settled  == {"review", "sent", "delivery_unknown", "failed"}
Statuses == {"none", "claimed", "retry"} \cup InFlight \cup Settled

\* status "none": there is no row.  quota: quota_reserved_at is NULL (none),
\* a reservation of the last day (held), a day old (expired), or the
\* created_at the start-up migration put there (assumed).
Row == [status : Statuses, attempts : 0 .. MaxAttempts, aged : BOOLEAN,
        due : BOOLEAN, quota : {"none", "held", "assumed", "expired"},
        old : BOOLEAN]

NoRow == [status |-> "none", attempts |-> 0, aged |-> FALSE, due |-> FALSE,
          quota |-> "none", old |-> FALSE]

Wire == {"unsent", "flying", "taken", "lost"}

\* prior, charged: status of the row when it was read, and whether it held a
\* reservation; fresh: the row is as it was then; try: the attempt.
Idle == [pc |-> "idle", msg |-> NoMessage, prior |-> "none",
         charged |-> FALSE, fresh |-> FALSE, try |-> 0]

\* sending: the jobs listed with that status; fresh: those not written since.
NoPass == [todo |-> {}, sending |-> {}, fresh |-> {}]

Init ==
  /\ job = [m \in Messages |-> NoRow]
  /\ generic = {}
  /\ human = FALSE
  /\ wire = [m \in Messages |-> [k \in Attempts |-> "unsent"]]
  /\ worker = [p \in Workers |-> Idle]
  /\ pass = NoPass
  /\ crashes = 0

-----------------------------------------------------------------------------
Charged(row) == row.quota \in {"held", "assumed"}

\* Defect: a job that is done no longer counts.
LimitOfOpenJobs(m) ==
  Cardinality({n \in Messages \ {m} :
     Charged(job[n]) /\ job[n].status \notin Settled \cup {"claimed"}}) >= DailyLimit

\* dailyLimitReached, without the message itself
LimitReached(m) ==
  \/ DailyLimit = 0
  \/ Cardinality({n \in Messages \ {m} :
        Charged(job[n]) /\ job[n].status # "claimed"}) >= DailyLimit

Msg(p) == worker[p].msg
RowOf(p) == job[Msg(p)]

\* Worker p goes on as w; nothing is written.
Goto(p, w) ==
  /\ worker' = [worker EXCEPT ![p] = w]
  /\ UNCHANGED <<job, generic, human, wire, pass, crashes>>

\* Worker p goes on as w and writes its row: updated_at is new.
Record(p, w, row) ==
  /\ job' = [job EXCEPT ![Msg(p)] = [row EXCEPT !.aged = FALSE]]
  /\ worker' = [q \in Workers |->
       LET x == IF q = p THEN w ELSE worker[q]
       IN  IF x.msg = Msg(p) THEN [x EXCEPT !.fresh = FALSE] ELSE x]
  /\ pass' = [pass EXCEPT !.fresh = @ \ {Msg(p)}]
  /\ UNCHANGED <<generic, human, crashes>>

Write(p, w, row) == Record(p, w, row) /\ UNCHANGED wire

\* p's route returns; the sweep still handles a "failDue" or "reschedule".
After(p, outcome) ==
  IF p = Sweeper THEN [Idle EXCEPT !.pc = outcome, !.msg = Msg(p)] ELSE Idle

-----------------------------------------------------------------------------
(***************************************************************************)
(* prepareStationInvestigation up to its first await                       *)
(***************************************************************************)

\* ingest-evolution: a first delivery, or a replay nobody owns yet.
Start(h, m) ==
  /\ worker[h].pc = "idle"
  /\ m \notin generic
  /\ job[m].status \in {"none", "claimed"}
  /\ Goto(h, [Idle EXCEPT !.pc = "start", !.msg = m])

\* STATION_JOB_MAX_ATTEMPTS, wherever it is asked for
Exhausted(row) == row.attempts >= MaxAttempts

Resumable(row) == row.status \in {"reserved", "processing"} /\ row.aged
DueRetry(row)  == row.status = "retry" /\ row.due

\* Nothing to do for this worker.
OthersTurn(row) ==
  \/ row.status \in Settled
  \/ row.status \in InFlight /\ ~row.aged
  \/ row.status = "retry" /\ ~row.due

ReadRow(p) ==
  LET row == RowOf(p) IN
  /\ worker[p].pc = "start"
  /\ \/ /\ row.status = "sending" /\ row.aged
        /\ Write(p, Idle, [row EXCEPT !.status = "delivery_unknown"])
     \/ /\ OthersTurn(row)
        /\ Goto(p, Idle)
     \/ /\ DueRetry(row) \/ Resumable(row)
        /\ Exhausted(row)
        /\ Write(p, Idle, [row EXCEPT !.status = "failed", !.due = FALSE])
     \/ /\ row.status = "none" /\ Msg(p) \in generic
        /\ Goto(p, [worker[p] EXCEPT !.pc = "generic"])
     \/ /\ \/ row.status = "claimed"
           \/ row.status = "none" /\ Msg(p) \notin generic
           \/ (DueRetry(row) \/ Resumable(row)) /\ ~Exhausted(row)
        /\ Goto(p, [worker[p] EXCEPT !.pc = "config", !.prior = row.status,
                                     !.charged = Charged(row), !.fresh = TRUE])

-----------------------------------------------------------------------------
(***************************************************************************)
(* prepareStationInvestigation after the configuration has been loaded     *)
(***************************************************************************)
AtConfig(p) == worker[p].pc = "config"
First(p)    == worker[p].prior = "none"

\* Without a row the message is not claimed: it goes to the media router or to
\* the Contador ("generic"), or to nobody.
Decline(p, outcome) ==
  IF First(p)
  THEN \E w \in {Idle, [worker[p] EXCEPT !.pc = "generic"]} : Goto(p, w)
  ELSE Goto(p, After(p, outcome))

\* queueClaimedRetry
Requeued(row) == [row EXCEPT !.status = "retry", !.due = TRUE]

ConfigUnavailable(p) ==
  /\ AtConfig(p)
  /\ IF worker[p].prior = "claimed" /\ RowOf(p).status = "claimed"
     THEN Write(p, After(p, "reschedule"), Requeued(RowOf(p)))
     ELSE Decline(p, "reschedule")

\* Disabled, conversation not allowed, or no structured mention.
PolicyDeclines(p) ==
  /\ AtConfig(p)
  /\ \E outcome \in {"reschedule", "failDue"} : Decline(p, outcome)

HumanOwned(p) ==
  /\ AtConfig(p) /\ human
  /\ Goto(p, After(p, "failDue"))

GenericOwned(p) ==
  /\ AtConfig(p) /\ ~human
  /\ First(p) /\ Msg(p) \in generic
  /\ Goto(p, [worker[p] EXCEPT !.pc = "generic"])

\* persistStationOwnership: INSERT OR IGNORE, unless genericPipelineJob finds a
\* row of either queue.
Owns(p) == AtConfig(p) /\ ~human /\ ~(First(p) /\ Msg(p) \in generic)

OwnedRow(p) ==
  IF First(p) /\ RowOf(p).status = "none"
  THEN [NoRow EXCEPT !.status = "claimed"] ELSE RowOf(p)

\* The row is inserted if it was missing, and p stops there.
OwnAndStop(p) ==
  IF OwnedRow(p) = RowOf(p) THEN Goto(p, After(p, "reschedule"))
  ELSE Write(p, After(p, "reschedule"), OwnedRow(p))

KillSwitch(p) ==
  /\ Owns(p)
  /\ OwnAndStop(p)

CentralUnavailable(p) ==
  /\ Owns(p)
  /\ IF OwnedRow(p).status = "claimed"
     THEN Write(p, After(p, "reschedule"), Requeued(OwnedRow(p)))
     ELSE Goto(p, After(p, "reschedule"))

\* reserveDailySlot, then the context: if it cannot be built, or its
\* confidence is low, releaseDailySlot.
Reserve(p) ==
  /\ Owns(p) /\ worker[p].prior \in {"none", "claimed"}
  /\ \/ /\ OwnedRow(p).status # "claimed"
        /\ Goto(p, Idle)
     \/ /\ OwnedRow(p).status = "claimed" /\ LimitReached(Msg(p))
        /\ OwnAndStop(p)
     \/ /\ OwnedRow(p).status = "claimed" /\ ~LimitReached(Msg(p))
        /\ \/ Write(p, After(p, "failDue"), [OwnedRow(p) EXCEPT !.quota = "none"])
           \/ Write(p, [worker[p] EXCEPT !.pc = "ready"],
                    [OwnedRow(p) EXCEPT !.status = "reserved", !.quota = "held"])

\* A retry or an expired lease whose context cannot be built:
\* failStaleReservedWithoutChargingQuota for a reservation.
ContextFails(p) ==
  /\ Owns(p) /\ worker[p].prior \in {"retry", "reserved", "processing"}
  /\ IF worker[p].prior = "reserved" /\ worker[p].fresh
     THEN Write(p, After(p, "failDue"),
                [RowOf(p) EXCEPT !.status = "failed", !.quota = "none"])
     ELSE Goto(p, After(p, "failDue"))

\* quotaReservationExpired of the row as it was read
Lapsed(p) == ~worker[p].charged \/ RowOf(p).quota = "expired"

\* reacquireDailySlot does not touch updated_at.
Reacquire(p) ==
  /\ worker' = [worker EXCEPT ![p].pc = "ready"]
  /\ job' = [job EXCEPT ![Msg(p)].quota = "held"]
  /\ UNCHANGED <<generic, human, wire, pass, crashes>>

Resume(p) ==
  LET ready == [worker[p] EXCEPT !.pc = "ready"] IN
  /\ Owns(p) /\ worker[p].prior \in {"retry", "reserved", "processing"}
  /\ \/ ~Lapsed(p) /\ Goto(p, ready)
     \/ Lapsed(p) /\ ~worker[p].fresh /\ Goto(p, Idle)
     \/ Lapsed(p) /\ worker[p].fresh /\ Charged(RowOf(p)) /\ Goto(p, ready)
     \/ /\ Lapsed(p) /\ worker[p].fresh /\ ~Charged(RowOf(p))
        /\ IF LimitReached(Msg(p)) THEN Goto(p, After(p, "reschedule"))
           ELSE Reacquire(p)

-----------------------------------------------------------------------------
(***************************************************************************)
(* routeStationInvestigation                                               *)
(***************************************************************************)
Acquirable(row) ==
  /\ ~Exhausted(row)
  /\ row.status = "reserved" \/ DueRetry(row)
       \/ (row.status = "processing" /\ row.aged)

Acquire(p) ==
  LET row == RowOf(p) IN
  /\ worker[p].pc = "ready"
  /\ IF Acquirable(row)
     THEN Write(p, [worker[p] EXCEPT !.pc = "asking", !.try = row.attempts + 1],
                [row EXCEPT !.status = "processing", !.due = FALSE,
                            !.attempts = @ + 1])
     ELSE Goto(p, Idle)

\* The catch block: retry or failed, whatever the row says by then.
GivenUp(row) ==
  [row EXCEPT !.status = IF Exhausted(row) THEN "failed" ELSE "retry",
              !.due = FALSE]

AskFails(p) ==
  /\ worker[p].pc = "asking"
  /\ Write(p, Idle, GivenUp(RowOf(p)))

AskReview(p) ==
  /\ worker[p].pc = "asking"
  /\ Write(p, Idle, [RowOf(p) EXCEPT !.status = "review"])

AskHuman(p) ==
  /\ worker[p].pc = "asking" /\ human
  /\ IF RowOf(p).status = "processing"
     THEN Write(p, After(p, "failDue"), [RowOf(p) EXCEPT !.status = "failed"])
     ELSE Goto(p, After(p, "failDue"))

AskSend(p) ==
  /\ worker[p].pc = "asking" /\ ~human
  /\ IF RowOf(p).status = "processing"
     THEN /\ Record(p, [worker[p] EXCEPT !.pc = "sending"],
                    [RowOf(p) EXCEPT !.status = "sending"])
          /\ wire' = [wire EXCEPT ![Msg(p)][worker[p].try] = "flying"]
     ELSE Goto(p, Idle)

\* Evolution answers with the id of the message.
SendTaken(p) ==
  LET m == Msg(p) k == worker[p].try IN
  /\ worker[p].pc = "sending" /\ wire[m][k] \in {"flying", "taken"}
  /\ wire' = [wire EXCEPT ![m][k] = "taken"]
  /\ Record(p, Idle, [RowOf(p) EXCEPT !.status = "sent"])

\* Evolution answers with a 4xx: isDefinitiveDeliveryRejection.
SendRefused(p) ==
  LET m == Msg(p) k == worker[p].try IN
  /\ worker[p].pc = "sending" /\ wire[m][k] \in {"flying", "lost"}
  /\ wire' = [wire EXCEPT ![m][k] = "lost"]
  /\ Record(p, Idle, GivenUp(RowOf(p)))

\* Defect: any failed send is tried again.
SendUnclearRetried(p) ==
  worker[p].pc = "sending" /\ Write(p, Idle, GivenUp(RowOf(p)))

\* No answer, a 5xx, or an answer without an id.
SendUnclear(p) ==
  /\ worker[p].pc = "sending"
  /\ IF RowOf(p).status = "sending"
     THEN Write(p, Idle, [RowOf(p) EXCEPT !.status = "delivery_unknown"])
     ELSE Goto(p, Idle)

\* persistMediaJob looks for a station job first.  enqueueContadorMessage does
\* not, but a row it makes beside one is no longer looked for: only a message
\* without a station job is asked about (SupportPipeline has both rows).
GenericClaim(h) ==
  /\ worker[h].pc = "generic"
  /\ generic' = IF RowOf(h).status = "none" THEN generic \cup {Msg(h)} ELSE generic
  /\ worker' = [worker EXCEPT ![h] = Idle]
  /\ UNCHANGED <<job, human, wire, pass, crashes>>

-----------------------------------------------------------------------------
(***************************************************************************)
(* deliverDueStationInvestigations                                         *)
(***************************************************************************)
\* Defect: a send that never came back is not looked for.
DueButSending == {m \in Messages :
                    DueRetry(job[m]) \/ Resumable(job[m])}

DueJobs == {m \in Messages :
              DueRetry(job[m]) \/ (job[m].status \in InFlight /\ job[m].aged)}

BeginPass ==
  /\ worker[Sweeper].pc = "idle" /\ pass.todo = {} /\ DueJobs # {}
  /\ pass' = [todo |-> DueJobs, fresh |-> DueJobs,
              sending |-> {m \in DueJobs : job[m].status = "sending"}]
  /\ UNCHANGED <<job, generic, human, wire, worker, crashes>>

\* Job m of the list is dealt with at once: row is written if m is fresh.
Settle(m, row) ==
  /\ worker[Sweeper].pc = "idle" /\ m \in pass.todo
  /\ pass' = [pass EXCEPT !.todo = @ \ {m}, !.fresh = @ \ {m}]
  /\ IF m \in pass.fresh
     THEN /\ job' = [job EXCEPT ![m] = [row EXCEPT !.aged = FALSE]]
          /\ worker' = [q \in Workers |->
               IF Msg(q) = m THEN [worker[q] EXCEPT !.fresh = FALSE]
               ELSE worker[q]]
     ELSE UNCHANGED <<job, worker>>
  /\ UNCHANGED <<generic, human, wire, crashes>>

\* reconcileStaleSending
SweepSending(m) ==
  /\ m \in pass.sending
  /\ Settle(m, [job[m] EXCEPT !.status = "delivery_unknown"])

\* The source message is gone: failDueJobIfUnchanged, and an unused
\* reservation is released.
SweepOrphan(m) ==
  /\ m \notin pass.sending
  /\ Settle(m, [job[m] EXCEPT !.status = "failed", !.due = FALSE,
                  !.quota = IF job[m].status = "reserved" THEN "none" ELSE @])

SweepRoute(m) ==
  /\ worker[Sweeper].pc = "idle" /\ m \in pass.todo \ pass.sending
  /\ worker' = [worker EXCEPT ![Sweeper] = [Idle EXCEPT !.pc = "start", !.msg = m]]
  /\ pass' = [pass EXCEPT !.todo = @ \ {m}]
  /\ UNCHANGED <<job, generic, human, wire, crashes>>

\* failDueJobIfUnchanged or rescheduleDueJobIfUnchanged
Dispose(p, row) ==
  IF Msg(p) \in pass.fresh THEN Write(p, Idle, row) ELSE Goto(p, Idle)

FailDue(p) ==
  /\ worker[p].pc = "failDue"
  /\ Dispose(p, [RowOf(p) EXCEPT !.status = "failed", !.due = FALSE])

Reschedule(p) ==
  /\ worker[p].pc = "reschedule"
  /\ Dispose(p, [RowOf(p) EXCEPT !.status = "retry", !.due = FALSE])

-----------------------------------------------------------------------------
(***************************************************************************)
(* Time, the network, people and restarts                                  *)
(***************************************************************************)
Working(m, pcs) == \E p \in Workers : Msg(p) = m /\ worker[p].pc \in pcs

\* The request to the central API is aborted after 45 seconds, the lease is
\* 120: it never runs out under a worker that asks.
LeaseExpires(m) ==
  /\ job[m].status \in InFlight /\ ~job[m].aged
  /\ ~Working(m, {"ready", "asking"})
  /\ job' = [job EXCEPT ![m].aged = TRUE]
  /\ UNCHANGED <<generic, human, wire, worker, pass, crashes>>

RetryFallsDue(m) ==
  /\ job[m].status = "retry" /\ ~job[m].due
  /\ job' = [job EXCEPT ![m].due = TRUE]
  /\ UNCHANGED <<generic, human, wire, worker, pass, crashes>>

\* A day after the row was created, and a day after its reservation.  No
\* time passes at "ready", which runs on to Acquire.
DayPasses(m) ==
  /\ job[m].status # "none" /\ ~job[m].old
  /\ ~Working(m, {"ready"})
  /\ job' = [job EXCEPT ![m].old = TRUE,
               ![m].quota = IF @ = "assumed" THEN "expired" ELSE @]
  /\ UNCHANGED <<generic, human, wire, worker, pass, crashes>>

QuotaExpires(m) ==
  /\ job[m].quota = "held" /\ job[m].old
  /\ ~Working(m, {"ready"})
  /\ job' = [job EXCEPT ![m].quota = "expired"]
  /\ UNCHANGED <<generic, human, wire, worker, pass, crashes>>

\* A send whose sender may no longer listen still arrives, or does not.
Arrive(m, k) ==
  /\ wire[m][k] = "flying"
  /\ \E end \in {"taken", "lost"} : wire' = [wire EXCEPT ![m][k] = end]
  /\ UNCHANGED <<job, generic, human, worker, pass, crashes>>

\* routes/conversations.js: takeover and release.
Handover ==
  /\ human' = ~human
  /\ UNCHANGED <<job, generic, wire, worker, pass, crashes>>

\* Every start runs the migration of lib/db.js: a row that is not claimed and
\* has no reservation is given its creation time as one.
Backfilled(row) ==
  IF row.quota = "none" /\ row.status \notin {"none", "claimed"}
  THEN [row EXCEPT !.quota = IF row.old THEN "expired" ELSE "assumed"]
  ELSE row

Restart ==
  /\ crashes < MaxCrashes
  /\ crashes' = crashes + 1
  /\ job' = [m \in Messages |-> Backfilled(job[m])]
  /\ worker' = [p \in Workers |-> Idle]
  /\ pass' = NoPass
  /\ UNCHANGED <<generic, human, wire>>

-----------------------------------------------------------------------------
Prepare(p) ==
  \/ ConfigUnavailable(p) \/ PolicyDeclines(p) \/ HumanOwned(p)
  \/ GenericOwned(p) \/ KillSwitch(p) \/ CentralUnavailable(p)
  \/ Reserve(p) \/ ContextFails(p) \/ Resume(p)

Ask(p)  == AskFails(p) \/ AskReview(p) \/ AskHuman(p) \/ AskSend(p)
Send(p) == SendTaken(p) \/ SendRefused(p) \/ SendUnclear(p)

Work(p) ==
  \/ ReadRow(p) \/ Prepare(p) \/ Acquire(p) \/ Ask(p) \/ Send(p)
  \/ GenericClaim(p) \/ FailDue(p) \/ Reschedule(p)

Sweep == BeginPass \/ \E m \in Messages :
                        SweepSending(m) \/ SweepOrphan(m) \/ SweepRoute(m)

Tick(m) == LeaseExpires(m) \/ RetryFallsDue(m) \/ DayPasses(m) \/ QuotaExpires(m)

Next ==
  \/ \E h \in Handlers, m \in Messages : Start(h, m)
  \/ \E p \in Workers : Work(p)
  \/ Sweep
  \/ \E m \in Messages : Tick(m)
  \/ \E m \in Messages, k \in Attempts : Arrive(m, k)
  \/ Handover
  \/ Restart

\* Every await ends: the requests have time-outs, of the code or of fetch.
\* The sweep runs every 30 seconds, and time passes.
Fairness ==
  /\ \A p \in Workers : WF_vars(Work(p))
  /\ WF_vars(Sweep)
  /\ \A m \in Messages : WF_vars(LeaseExpires(m))

Spec == Init /\ [][Next]_vars /\ Fairness

-----------------------------------------------------------------------------
PCs == {"idle", "start", "config", "ready", "asking", "sending", "generic",
        "failDue", "reschedule"}

\* Types; an idle worker, and only an idle one, has no message.
TypeOK ==
  /\ job \in [Messages -> Row]
  /\ generic \subseteq Messages
  /\ human \in BOOLEAN
  /\ wire \in [Messages -> [Attempts -> Wire]]
  /\ worker \in [Workers -> [pc : PCs, msg : Messages \cup {NoMessage},
                             prior : Statuses, charged : BOOLEAN,
                             fresh : BOOLEAN, try : 0 .. MaxAttempts]]
  /\ \A p \in Workers : worker[p].pc = "idle" <=> worker[p].msg = NoMessage
  /\ pass \in [todo : SUBSET Messages, sending : SUBSET Messages,
               fresh : SUBSET Messages]
  /\ crashes \in 0 .. MaxCrashes

Live(m) == {k \in Attempts : wire[m][k] \in {"flying", "taken"}}

\* An answer that is out, or may still arrive, is on record: no later attempt
\* can start, whoever writes the row, in whatever order.  Only the statuses
\* that nobody resumes stand for it.
LiveIsRecorded ==
  \A m \in Messages : Live(m) # {} =>
    job[m].status \in {"sending", "delivery_unknown", "sent"}

\* "The generic media pipeline and station ownership are mutually exclusive":
\* a message never has a job of both, though each checks for the other's.
OneOwner == \A m \in generic : job[m].status = "none"

\* Over any day at most DailyLimit messages of the brand are charged, not
\* counting those charged by the start-up migration.
WithinLimit ==
  Cardinality({m \in Messages : job[m].quota = "held"}) <= DailyLimit

\* Over any day at most DailyLimit messages of the brand are investigated,
\* outage retries that were never charged before included.
LimitHonoured ==
  Cardinality({m \in Messages : Charged(job[m]) /\ job[m].attempts > 0})
    <= DailyLimit

\* A job that was answered, sent to review or has failed stays so: no late
\* worker and no step of a sweep overwrites it.
FinalIsFinal ==
  [][\A m \in Messages : job[m].status \in {"sent", "review", "failed"} =>
       job'[m].status = job[m].status]_vars

\* A due job, or one whose worker died, does not stay that way: the sweep
\* takes it up, and some attempt comes to an end.
Open(m) == job[m].status \in InFlight \/ DueRetry(job[m])
OpenIsResolved == \A m \in Messages : Open(m) ~> ~Open(m)

-----------------------------------------------------------------------------
\* A message is being answered while an attempt flies, and has been once one
\* was taken; "twice" is no state of AnswerOnce.
Said(m) ==
  IF Live(m) = {} THEN "quiet"
  ELSE IF \E k \in Live(m) : Live(m) # {k} THEN "twice"
  ELSE IF \E k \in Live(m) : wire[m][k] = "taken" THEN "said" ELSE "speaking"

Answers == INSTANCE AnswerOnce WITH said <- [m \in Messages |-> Said(m)]

\* The investigator answers a message at most once, and starts no answer in a
\* conversation a person owns.
AnswersOnce == Answers!Spec
=============================================================================
