# Verification of Turbo Station Monitor

TLA+ models of the parts of `turbo-station-monitor` whose correctness depends on
the order of events: several detection ticks, deploy workers or restarts at once,
messages whose fate is known late, files written between two steps.  TLC checks
small instances exhaustively; TLAPS proves theorems for every value of the
constants.

## 1. The system

The repository is a set of Node services on one machine, run by PM2, that watch a
network of chargers.  Paths are relative to `src/`.

| Component | State | Operations | Talks to |
| --- | --- | --- | --- |
| OCPP collector (`services/smart-collector.js`, `state-tracker.js`) | `ocpp.db`, last-seen times, restart cooldown | stream log lines, store events, restart the stream | `ocpp.db`, read by the alert engine |
| Vercel drain (`services/vercel-drain.js`, `scripts/cleanup-vercel.js`) | `vercel.db`: rows and per-request aggregates | ingest a batch, upsert a request, delete old rows | Vercel delivers batches at least once |
| Alert engine (`services/alert-engine.js`, `atomic-json.js`, `pricing-log-alerts.js`, `partner-fault-notifier.js`) | `alerts.db`; debounce, backoff and incident files | a tick every two minutes: retry unsent, eight detectors, save, post, burst, clean up | reads the databases; posts to the support API |
| Monitor auto-deploy (`services/lib/monitor-auto-deploy.js`, `scripts/deploy-monitor.js`, spawned by `services/github-webhook.js`) | checkout, marker, progress and lock files, running services | wait for CI, lock, merge, install, restart, check, mark | GitHub, git, npm, PM2 |
| Support copilot (`services/support-copilot/`) | conversations, jobs, proposals in SQLite; sessions and claims in memory | ingest webhooks, suggest, answer, escalate, sweep | Evolution API, models, Next.js |
| - station investigator | jobs: claimed, reserved, processing, retry, sending, sent, review, failed, delivery_unknown; daily quota | claim, run, send, sweep | human handoff |
| - partner assistant | jobs, attempts | claim, run, sweep | Hermes, Evolution API |
| - human handoff | owner of a conversation | claim, release | the routes and both runtimes |
| - financial approval | proposals, classifications | propose, ask, approve by quoting, execute, recover | Evolution API |
| - contador (accountant) | jobs, monthly and daily runs, rounds of questions, facts | answer a document or question, close a month, notice, ask, learn | model, accounting backend, Evolution API |
| - suggestions, agent router | pending suggestions, timers; media jobs, outbox | generate, decide, auto-close; classify a document, hand it over | model, central API |
| - identity, operator replies | conversations by number and LID; outbound messages | look up, create, merge, bind; send, match the echo | WhatsApp gateway |
| WhatsApp gateway (`services/whatsapp-gateway/`) | a socket, a state and a timer per instance | start, reconnect, disconnect, delete, repair | WhatsApp (Baileys), the support webhook |
| Mobile telemetry (`services/mobile-telemetry/`) | `mobile.db`; heatmap cache and in-flight queries; one retention worker | ingest, query, retain | worker threads |
| Auto-rollback watchdog (`services/auto-rollback-watchdog.js`, `lib/auto-rollback-policy.js`) | state file: watch, proposal, attempt, cooldown | observe, propose, take a confirmation, roll back, verify | Vercel, GitHub, the support API |
| Sweeps and reviews (`services/sweep-orchestrator.js`, `reconcile.js`, `lib/review-verdicts.js`) | files of verdicts and evidence | scan pull requests, dispatch agents | GitHub |
| Deployment hooks, budget, blog, status webhook, Hermes profile, scripts | small files or none | forward, log, generate | external services |

How they interact: through SQLite files (collector and drain write, the alert
engine reads), through the support API (alert engine, deploy notifications), and
through PM2, which restarts every one of them, and whose restart of the webhook
also ends the workers it spawned.

What is hard about it, and which properties matter:

- *Alert engine.*  `setInterval(tick)` does not wait for the tick before it.  The
  gates must page once per incident over overlapping ticks, restarts, damaged
  files and their own garbage collection.  A POST is accepted long before it is
  delivered; what is marked as sent must have been delivered, an alert must not
  be posted twice while the first message may still arrive, and it must not be
  forgotten.
- *Auto-deploy.*  A worker can stop between any two steps, a later worker resumes
  from the files; several workers wait for one lock; one of them kills the others.
  What runs must be what the marker says, unless some record will repair it;
  nothing is marked unverified; production never goes back.
- *Support copilot queues.*  Leases, retries, a human taking over while an answer
  is being written, a restart between sending and recording.  A mention is
  answered at most once, by one pipeline, never over a person, within a daily
  limit, and no job stays open for ever.
- *The webhook before the queues.*  Four queues look for each other's rows before or
  after an await, on first deliveries and on replays; only one of them may answer.
  What a customer writes under a number and under a LID belongs together; what an
  operator writes comes back as an echo and must not be shown twice.
- *Accounting.*  Nothing is booked without the operator's timely yes, asked once; no
  reply, closing or notice is repeated because an answer was lost, and a closing
  does not overtake an older one.
- *Suggestions.*  The model answers minutes after the conversation was read.
- *Detectors, notices to partners.*  A debounce is consumed when an alert is thought
  of, which is not when it is saved or sent.
- *Watchdog.*  A rollback of production is attempted at most once per watch, however
  ticks, confirmations and deaths are ordered.
- *Collector, drain.*  Entries come late, twice or not at all; buffers and tables,
  two state files, rows and counters are written at different times.
- *Gateway.*  Sockets, timers, starts and removals of one instance overlap.
- *Sweep.*  It waits for other people's pull requests and must end.
- *Telemetry.*  A worker thread is replaced while callers wait for it and its last
  events are on their way; rows are deleted in chunks while others come in.

`PROJECT.json` lists all components with their status, and the hazards with the
line where each bites and the properties that cover it.

## 2. Modules

| Module | Models | Runs |
| --- | --- | --- |
| `ChargerFaults` | the charger-fault path: detection, the incident gate and the backoff gate, their files | `ChargerFaults`, `ChargerFaultsRecovery` |
| `ChargerFaultsProofs` | theorems about `ChargerFaults` | TLAPS |
| `AlertDelivery` | from a detected alert to a confirmed WhatsApp message | `AlertDelivery`, `AlertDeliveryOverlap` |
| `AlertDeliveryProofs` | theorems about `AlertDelivery` | TLAPS |
| `MonitorDeploy` | the deploy workers of successive pushes | `MonitorDeploy`, `MonitorDeployRevert`, `MonitorDeployOwner` |
| `MonitorDeployProofs` | theorems about `MonitorDeploy` | TLAPS |
| `AnswerOnce` | what the station investigator promises: at most one answer, never over a person | refined by `StationInvestigator` |
| `StationInvestigator` | its jobs, from a mention in WhatsApp to the answer | `StationInvestigator`, `StationLimitRestart` |
| `StationInvestigatorProofs` | theorems about both | TLAPS |
| `InboundMessages` | the messages the parts of the support copilot share | |
| `Consent` | what a financial approval promises | refined by `FinancialApproval` |
| `FinancialApproval` | a receipt from the proposal to its booking | `Workers`, and in `SupportPipeline` |
| `ContadorJobs` | the accountant's job queue with the fence of its replies | `Workers`, and in `SupportPipeline` |
| `PartnerAssistant` | a mention by a partner, from claim to answer or review | `Workers`, and in `SupportPipeline` |
| `SweepOrchestrator` | the nightly sweep over pull requests | `Workers` |
| `AgentRouter` | media jobs and outbox; composes `FinancialApproval` and `ContadorJobs` | in `SupportPipeline` |
| `SupportPipeline` | the webhook of group messages; composes `AgentRouter` and `PartnerAssistant` | `Services` |
| `ContadorClosings`, `ContadorNotices` | monthly closings, and the daily notice beside them | `Services` |
| `ContadorMemory` | questions to the group, facts learnt | `Services` |
| `CopilotConversation` | suggestions under a changing owner | `Services`, `CopilotTakeover` |
| `CustomerIdentity` | which conversation a customer's message belongs to | `Services` |
| `OperatorReplies` | messages from the dashboard, their answers and echoes | `Services` |
| `Detectors`, `PartnerNotifier` | the other detectors and their debounce; notices to partners | `Services` |
| `AutoRollback` | the rollback watchdog | `Services` |
| `VercelDrain` | batches of log entries, rows and counters | `Services` |
| `LogCollector`, `ChargerTracker` | the OCPP log: buffers and tables; beliefs about chargers | `Services` |
| `WhatsAppGateway` | the life of one instance | `Services` |
| `HeatmapQueries`, `Retention` | the demand map of mobile telemetry; what it stores and deletes | `Workers` |
| `Workers`, `Services` | one behaviour follows one of several services that share no state | |
| `SupportPipelineProofs` | theorems about `SupportPipeline` and the queues it composes: `FinancialApproval`, `ContadorJobs`, `PartnerAssistant`, `AgentRouter` | TLAPS |
| `CopilotProofs` | theorems about the rest of the copilot and the gateway: `ContadorClosings`, `ContadorNotices`, `ContadorMemory`, `CopilotConversation`, `OperatorReplies`, `CustomerIdentity`, `WhatsAppGateway` | TLAPS |
| `MonitorProofs` | theorems about `Detectors`, `PartnerNotifier`, `AutoRollback`, `VercelDrain`, `LogCollector`, `ChargerTracker` | TLAPS |
| `ServicesProofs` | every theorem of the three modules above, for the specification of the `Services` run | TLAPS |
| `MC...` | constants and symmetry for TLC | |

An action stands for a stretch of code between two points where another actor can
run: in Node, between two `await`s; in the worker, between two effects on disk,
git or PM2.  Operators keep the names the code uses.  An operator whose comment
begins with `Defect:` is not used by the specification: it is a plausible bug of
the operator that follows, and shows that the properties notice it.

### ChargerFaults

One charger.  `rows` is what `ocpp.db` holds of it: a timestamp, a connector
(or none), an operational status or a fault, and its error code.  `incidents` and
`backoff` are `this.cableTheftState` and `this.chargerFaultBackoff`,
`incidentFile` and `backoffFile` their files.  `Detect` is `detectChargerFaults`
with both gates, which runs without yielding; `Dispatch` one round of the dispatch
loop in `runDetection`; `Cleanup` the calls after it in `tick`; `Start` the
constructor.  `Persist` is `writeJsonAtomic` with the error swallowed: each file
takes the new value or keeps the old one.  `Report`, `Elapse`, `CorruptFile` and
`Crash` are the environment.

One tick may save a file several times, once per touched record; they are one
write of the last value here, since a process that dies within the synchronous
stretch leaves an earlier prefix of the same tick, and a tick whose alerts never
left memory.

Checked: a connector bursts again only after an operational status of its own
(`NoReburstWhileOpen`); a rebuild of a damaged file does not page again about a
theft clearly in progress (`RebuildKeepsSilence`); a connector is silenced only by
a theft it reported (`SilenceHasCause`); two alerts about one error are the
promised window apart, over restarts and garbage collection (`BackoffHonoured`).
The first and the last exempt failed writes, the code's answer to which is to log
and go on.  An unreadable backoff file, which the code reads as an empty one, is left
out: what is promised of the windows does not survive it.

`ChargerFaultsRecovery` refutes a comment of the code: *"A later theft on the same
connector, after a recovery, is a fresh incident and bursts again"*.  The record
keeps the time of detection, and a recovery is looked for after that.  If the
connector recovers before the tick that detects the theft, the recovery is older than
the record: a second theft, reported after that tick, finds no recovery and stays
silent.

### AlertDelivery

`table` is `alerts.db`, `msgs` the messages of the support API, `tick[t]` the local
variables of a tick in flight.  The retry pass is `BeginTick` (the query),
`FetchStatuses` (one request), then a row at a time `LateConfirm`, `SkipRow` or
`Resend`; `Detect` and `SaveAndPost` are `runDetection`; `PostFails`,
`PostAccepted` and `Confirm` are `sendWhatsappAlert` with `recordWaMessageId` and
`markAlertSent` in its callers.  Statuses read by `FetchStatuses` are used rows
later, as in the code.

The support API, its message ids and Evolution are outside the repository and
modelled from how the engine uses them: a message is pending until it is sent or
has failed, and neither changes again.

`setInterval` starts a tick whatever the one before is doing, so ticks may overlap.
`raced` remembers the alerts that a starting tick read while another one had them in
hand.  Checked: what is marked sent was delivered (`SentMeansDelivered`); no second
message about one alert unless the first has failed (`NoVisibleDuplicate`, exempt are
lost answers, restarts and alerts that raced); a message on record is replaced only
after it has failed, or over an id recorded since the tick read its row
(`ReplacedUnlessOvertaken`, over lost answers and restarts); a saved alert is confirmed
or its window ends (`SavedIsSentOrExpires`).  A behaviour of the run follows two alerts
through ticks of one slot, or one alert through ticks that overlap (`focus`).

`AlertDeliveryOverlap` shows the exemption to be the code's: it refutes *"Once a POST
has a wa_message_id, only an explicit 'failed' status may trigger a replacement POST"*
with nothing failing: the second tick reads
the row while the first is polling for the delivery and has recorded no id yet, and
posts the alert again.  A tick lasts longer than two minutes when enough alerts are
dispatched (up to 6.5 s of polls and 2 s of pause each), or a `fetch`, which has no
timeout, hangs.

### MonitorDeploy

Commits are numbers along `main`; `Code` and `Deps` say which version of each
service and package a commit holds, so `git diff` is a comparison.  `worker[k]` is
the worker of commit `k`; its `pc` follows `deployMonitor` and the script around
it.  `marker`, `progress` and `lock` are its files, `head` the checkout, `running`
and `modules` what is loaded and installed.  The marker is emptied before it is
written (`EmptyMarker`, `Mark`), and at a first deployment there is none; a worker
that cannot read one takes the checkout for what is deployed (`deployedSha`), as it
stands before the merge.  A step that changes something and the
step that records it are two actions (`Restart` and `RecordRestart`, `StartInstall`,
`FinishInstall` and `RecordInstall`).  `StepFails` is an exception, `Die` a killed
worker, `Recycle` PM2 starting a crashed service again from the current checkout.
`RestartWebhook` is the deferred restart; by the comment on `SELF_SERVICE` it takes
every worker the webhook spawned with it.

Checked: every service runs the marked code, or a record will have it restarted or
checked (`RunsTheMarkedCode`); packages are those on record (`InstalledAsRecorded`);
a commit is marked only when every service ever restarted that has a health endpoint
(`Probed`; the alert engine, for one, has none and is passed over) has been healthy
since (`MarkedIsVerified`); what counts as deployed and the checkout never move back
(`NeverGoesBack`).
`RunsTheMarkedCode` exempts two windows by name, `loose` (changed, not yet
recorded) and `cleared` (struck off `pendingHealth`, marker not yet written), and
`InstalledAsRecorded` the first.  What a stop inside them leads to is shown by the
next run.  A third gap is in `loose` as well: while no marker can be read, a worker
that moves the checkout and fails leaves the next one a checkout that counts as
deployed, so the services (and packages without a record) that differ are forgotten.
A first deployment that fails after the merge meets it, and a worker that dies
between the two writes of the marker and is followed by one that fails.

`MonitorDeployRevert` refutes *"it does not mark a SHA as deployed before
installation, restart, health verification, and `pm2 save` succeed"*: a restart was
applied but not recorded, then the change is reverted, the diff from the marker is
empty for that service, and the revert is marked as deployed while the service
runs the reverted code.  `MonitorDeployOwner` refutes *"The newer worker remains
responsible for publishing"* without any fault: the deferred restart of an earlier
worker ends the newest one while it waits for its CI; commits that were coalesced
into it stay unpublished, unannounced, until somebody pushes or runs the script.

### StationInvestigator

`job[m]` is the row of message `m` in `station_investigation_jobs`, all that
survives a restart; `generic` the messages with a row of the generic pipeline
(`agent_media_jobs` or `contador_jobs`); `wire[m][k]` what became
of the answer of attempt `k`, whether or not anybody still listens.  `worker[p]`
is a webhook request in flight or the sweep's current job, `pass` the rest of the
sweep's list with the rows as it read them.  Timestamps appear as what the code
asks of them: `aged` (the lease has run out), `due` (`next_attempt_at`), the state
of the reservation, and, for `updated_at`, `fresh`: not written since it was read.

A step is what runs between two awaits.  A request reads the row (`Start`,
`ReadRow`), loads the configuration, and then does the rest of
`prepareStationInvestigation` at once, ending in one of the disjuncts of `Prepare`;
at `ready` only a microtask lies before `Acquire`, so no time passes there.  `Ask`
and `Send` are the four outcomes of the central API and the three of `sendText`.
`GenericClaim` is `persistMediaJob` or `enqueueContadorMessage`, the other pipeline;
a row the Contador gets beside a station job is looked for by nobody here and is in
`SupportPipeline`.  The sweep is `BeginPass`, one
of `SweepSending`, `SweepOrphan` and `SweepRoute` a job, and `FailDue` or
`Reschedule` for what its route returned; `deliveringStationInvestigations` keeps it
to one.  `Restart` runs the migration of `lib/db.js` over all rows, as every start
does.

The request to the central API is aborted after 45 s and the lease is 120 s, so no
lease runs out under a worker that asks (`LeaseExpires`).  It may under one that
sends: `sendText` has no time-out of its own.  WhatsApp and Evolution are outside
the repository: an answer that flies is taken or lost, a 2xx with an id means that it
was taken and a 4xx that it was not.

`AnswerOnce` has per message *quiet*, *speaking* and *said*.  `Said` maps the answers
on the wire to it; two of them out at once would map to a value `AnswerOnce` does
not have.

Checked: the investigator implements `AnswerOnce` (`AnswersOnce`); an answer that is
out, or may still arrive, stands in a status nobody resumes (`LiveIsRecorded`); a
message never has a job of both pipelines (`OneOwner`); a finished job stays
finished, whoever comes late (`FinalIsFinal`); an open job comes to an end, whichever
step its worker died in (`OpenIsResolved`); concurrent messages do not exceed the
daily limit (`WithinLimit`).  `LiveIsRecorded`, `OneOwner` and `FinalIsFinal` are
not checked by a run, since they are theorems (section 5).  The type invariants of all
modules were checked under the bounds of section 3 and are no property of a run
either.  `delivery_unknown` is not among the finished states of
`FinalIsFinal`: the sender may still learn that it was taken or refused.  A job that
stays `claimed` over the daily limit is not open: only a replay retries it.

`StationLimitRestart` refutes the documented limit (*"atomically acquires a new daily
slot immediately before investigation resumes"*; the tests say the same of outage
retries that were never charged).  A mention that arrives during an outage is
queued as `retry` with no reservation.  The migration takes it for a row from before
the column existed and gives it one, dated at its creation, without asking for the
limit.  After the restart it passes for charged and is investigated on top of a day
that is already full.  `WithinLimit` therefore counts the reservations the code
itself made.

### Workers and Services

Most services are processes of their own (`ecosystem.config.js`), or timers and
handlers of one process that write different tables.  A product of them would only
multiply their states.  `Workers` and `Services` extend the modules and add `focus`:
a behaviour follows one service while the others stand still, so that one run
explores each of them completely.  Where parts do share rows they are composed for
real: `SupportPipeline` runs the webhook, the media jobs, the approvals, the
accountant and the partner assistant over the same messages, and `ContadorNotices`
the closings and the notices over the same table.  `CopilotTakeover` runs
`CopilotConversation` by itself.

### FinancialApproval, and Consent

`proposal[r]` is the row of `contador_financial_proposals`, `ledger` the
classifications.  Time is what a row says of it: its next attempt is `due`, its
question is past its time (`late`).  A pass gives way only while a question is on its
way to Evolution.  Writing the status and sending are separate steps, so is claiming
an execution and executing it.  `Consent` has per receipt an answer (*open*, *yes*,
*no*, *void*), whether its question lapsed, and the booked receipts; `Agreement` maps
the statuses to it.  Checked: the refinement (`BookedByConsent`), that a question that
may have arrived is not put again (`AskedAgainOnlyIfRefused`), and that every
proposal ends (`ProposalEnds`) while the feature is on.

### ContadorJobs

`contadorJob[m]` is the job with its `reply_status`, the fence that is set before the
request leaves; `replies[m]` counts, as history, what Evolution took or may have
taken.  Checked: one answer at most (`AnsweredOnce`), and every job ends
(`JobIsHandled`), with two exceptions the code has: while a model is down a pass gives
up all later jobs, so one older job can starve them, and a process that dies between
`reply_status = 'delivery_unknown'` and the job's own status leaves it `processing`
for ever (`Stranded`).

### PartnerAssistant

An attempt is an actor: a lease of five minutes can run out while Hermes or Evolution
is awaited, the next attempt starts, and `settle` asks nobody whose the row is.
Checked: a claimed message comes to an end (`ClaimIsHandled`), except a job whose last
attempt died or was overwritten by an older one, which nothing takes up
(`Orphaned`).  The module has `SentMeansAnswered`, too, which the instance satisfies.
That an answer may be sent twice, after a lost response or a lapsed lease, is what the
code does and no property forbids.

### SweepOrchestrator

The phases of the sweep with the file it resumes from; GitHub (people, checks,
reviewers) moves between two polls and between the last look at a pull request and the
merge.  Checked: a run ends (`SweepEnds`).  A resumed run whose status is not SWEEP and
whose cycle is open does nothing until `isTimedOut` ends it; the property holds
because that check is not optional.

### AgentRouter and SupportPipeline

A handler stores the message, awaits the configuration and decides in one go; a replay
runs beside it.  An investigation looks for a row of either generic queue
(`GenericFree`); a partner claim that throws is logged, and the message goes on as if the
partner were not served.  Media jobs are claimed by a row, and what they did and
`completed` are two writes; a picture classified as `station_support` waits for a draft
of the answer before its analysis is written (`AsksForDraft`, `Drafted`).  Checked: a
recognized document reaches exactly one outlet (`OneOutlet`), and one queue answers a
message unless a replay overtakes the first handler (`OneAnswererInOrder`; it can, and
then two may).

### ContadorClosings, ContadorNotices, ContadorMemory

`closing[m]` is the row of a month, `summaries[m]` what the group got.  A worker goes
from one await to the next: analysis, fence, post, outcome.  Checked: a month is closed
at most once and never before an older one is settled (`ClosedOnceInOrder`); no notice on
a day with a closing (`NoticeYields`, `docs/CONTADOR.md:268`); a question reaches the
group within the days of an earlier one only if the earlier one was not on record when
its own round began (`AskedOncePerInterval`), over rounds that overlap.  Sending and
recording a question are two steps: a round that fails after the gateway took the message
leaves no row, and the next round asks again.  Visible in the models, and no promise of
the code: one `delivery_unknown` month stops the daily notices until somebody reconciles
it; a fact learnt after the reply is lost in a restart; a notice is repeated after an
ambiguous send.

### CopilotConversation, CustomerIdentity, OperatorReplies

Generations read the conversation, wait for the model for minutes, and then decide;
the customer, the operator and the auto-close worker go on.  `held` remembers a takeover
or an escalation until a person gives the conversation back.  Checked: as long as it is
held, neither a timer nor the router asks the model, and what was asked before makes no
suggestion appear in a one-to-one conversation (`HeldIsSilent`), whatever the customer
writes and the auto-close worker does.  One thing ends it without a person: `[NO_REPLY]`
of a generation that was under way closes the conversation without looking at its owner
(`copilot.js:861-874`; `held` is then `"overruled"`), and the next message reopens it.

`CopilotTakeover` refutes *"While the status is `assigned` or `escalated` the
conversation is HUMAN-OWNED and no AI path may suggest, auto-send, investigate or answer
in it"* (`lib/human-handoff.js:14-15`): in a group the customer writes, the timer fires
and the model is asked, a person takes the conversation over, and the suggestion is saved
all the same, since `createGroupSuggestion` looks at the owner before the model only
(`auto-suggest.js:56` and 78-88).  The one-to-one path reads the row again
(`ingest-evolution.js:1200-1202`).

Two smaller things the code does are in the model, and no property is about them:
`createGroupSuggestion` cancels the timer of its conversation before it looks, so a
picture classified as `station_support` (`agent-router.js:228`) cancels that of a
one-to-one conversation without a suggestion in its place; and an operator's reply
supersedes the newest pending suggestion only, and only if it is a text.

`CustomerIdentity` has the lookup by number or LID, creation, merges by alias and by
name, binding by an operator, and deaths between the statements.  Checked: a message
lies in the one conversation its sender's identifier leads to (`FiledWhereFound`),
unless a number was bound over another.  Two branches of the webhook (backfill with
auto-merge, `ingest-evolution.js:828-855`, and merge by LID alias, 857-874) never find
a duplicate in a reachable state of the model, whatever their comment says.

In `OperatorReplies` the row is stored first, then sent; answer and echo come in any
order.  Checked: an echo is stored beside its reply only if the code could not tell the
rows apart (`ShownOnce` with `Unmatched`: a medium without a caption, two minutes
later, or a twin of the same text).

### Detectors and PartnerNotifier

All detectors of a tick are one step; the alerts they return are saved one by one with
deliveries in between, while further ticks start.  A freshness that cannot be read counts
as none, so it raises a stall (`IngestStalls`).  A detector that throws loses what it has
let through the debounce by then: those are the three that go on to read or write
something after asking it (`AskBeforeTheEnd`); the others return what they asked for, and
`detectIngestStalls` catches its own reads.  Checked: a debounced subject is
quiet because an alert about it was returned (`SilencedByAnAlert`), and one alert per
window (`AlertedOncePerWindow`) as long as the cache could be written.  A debounce is
consumed before the evidence is read, so a read that fails costs an hour; such
failures are exempt, and stale alerts are in the property by name.  Notices to
partners overlap and look at the debounce once: a notice asked for after an earlier
one is known to be sent is held back (`ToldOncePerWindow`), overlapping ones are not.

### AutoRollback

A tick works on its own copy of the state file and writes it back whole.  The verdict
of the error counts, the smoke test, the attestation and the kill switch are choices;
the confirmation is written by an ingress outside the repository.  Checked: Vercel is
asked at most once per watch (`OneAttemptPerWatch`).  A confirmation written while a
tick is under way is lost under its save, though a proposal that stands is
not saved again.

### VercelDrain, LogCollector, ChargerTracker

The drain writes a batch in one transaction and answers; the answer may be lost, and
Vercel posts again.  Checked: what Vercel takes for delivered is stored
(`AckedIsStored`); excepted is an entry whose timestamp is no date, which `INSERT OR
IGNORE` drops in silence and the counters count all the same (`Traced`).  The counters do
drift with redelivery, by whole batches (`CountedTogether`, a theorem).  In the collector
polls overlap, and each is answered (`Served`) at one time and handled at another, so an
older answer may set the cursor back; an answer holds at most `PollLimit` entries.  An
entry that was processed is in exactly one place, however often a transaction of the
flush throws (`StoredAsProcessed`).  The tracker spares from a restart only a charger
whose transaction is an active one of its own (`SparedIsCharging`), unless the process
died between the two files.

### WhatsAppGateway

A record, its sockets, the timer each closed socket arms, and the awaits in
`startInstance` and the routes.  Checked: an instance that is paired and that nobody
asked to stop is never left without a socket, a timer or a start
(`InstanceIsTended`).

### HeatmapQueries and Retention

The demand map has a cache, the queries under way, a runner with one worker thread and
a deadline per query, and the thread, which may be stuck, fail or die; its events
arrive after it was replaced.  Checked: every request ends, by its deadline if by
nothing else (`QueryEnds`): no caller is forgotten and no key blocked.  A deadline
takes the worker and with it the queries other callers have just started; they are
told it was theirs.

`Retention` deletes statement by statement, while batches come in.  Checked: once the
index is there, whatever has expired is deleted in the end (`ExpiredIsDeleted`), which
includes that events go before the raw rows they refer to.  The exit of a thread is
handled before the next sweep starts, six hours later: `HandleExit` clears whatever run
is active, and would clear a newer one.

## 3. Bounds

| Run | Bounds | Why they are enough |
| --- | --- | --- |
| `ChargerFaults` | 2 connectors and null, 1 error code, 2 ticks in flight, 3 rows, 6 time steps, 1 crash, 1 file fault | theft, recovery and theft are three rows; windows are scaled to 1..5 keeping the order the code has them in where it matters, so that each of them passes within the clock; symmetry over ticks and real connectors, which no action or property tells apart |
| `ChargerFaultsRecovery` | 1 connector, 1 tick, no fault | the smallest instance with the trace |
| `AlertDelivery` | 2 alerts, 1 tick slot, 1 restart, or 1 alert and 2 tick slots; window 1, 1 fault | the POST limit of one pass is 1, so a second row is deferred; `MaxMsgs` = 6 never binds: at most one message per alert, fault, restart and overlapping tick |
| `AlertDeliveryOverlap` | 1 alert, 2 tick slots, no fault | the smallest instance with the trace |
| `MonitorDeploy` | 3 pushes, 2 immediate services and the webhook, 1 package, 1 fault, 1 rerun | commit 2 reverts commit 1, commit 3 changes the reverted service again; an earlier, a current and a newer worker coexist |
| `MonitorDeployRevert` | 2 pushes, 1 fault | the smallest instance with the trace |
| `MonitorDeployOwner` | 3 pushes, no fault | an owed, a deferring and a killed worker |
| `StationInvestigator` | 3 attempts, 1 restart, limit 1; 1 message, 2 webhook requests and the sweep, or 2 messages, 1 request and the sweep, with nobody taking over and every answer sent to review (`scene`) | messages share only the limit and the owner; an attempt that is out, a stale one and a next one coexist, as do a first delivery, a replay and a sweep; a third request does what the second can; two messages race for the last slot, one of them resuming, and what becomes of an answer does not change what is charged |
| `StationLimitRestart` | as above, 1 attempt | the smallest instance with the trace |
| `Workers` | 2 messages (1 for the partner assistant), 1 operator, 2 questions, executions, attempts and tries; 2 findings, batches of 1, 1 cycle, 1 push and 1 observed fix; 1 restart | a retry after a refusal and one after a restart exist for each; two rows meet in one pass; a second batch follows the first; messages of the partner assistant share nothing but the owner |
| - demand map | 2 requests, 2 keys, room for 1 entry, life and deadline 1 of 2 time units, 1 dying thread, 1 restart | an entry is evicted, expires and is joined; a thread is replaced with its events on their way; 3 requests were checked by themselves |
| - retention | 2 batches of up to 2 events, chunks of 1, 2 failures, 1 restart | a sweep needs several chunks and is interrupted twice |
| `Services`: pipeline | 2 messages, one of which arrives by webhook, 1 replay, 1 restart, 1 media and 1 event attempt | first delivery, replay, and a restart between any two writes; the second message keeps the operators total |
| - closings, notices | 2 months of 3 days, the monthly day in the middle, 2 attempts | an older closing waits while a newer falls due, days before, on and after the monthly one |
| - memory | 1 question, 2 rounds at a time, a round every 2 of 3 days, 2 tool calls, 1 turn | two rounds overlap, one of them goes on over a day's end, and a round is begun after either is on record; a turn learns |
| - copilot | 1 conversation, direct or group, 2 generations, 2 messages written, 2 pending suggestions | two generations overlap with a takeover, a release, a new message and an auto-close; conversations share nothing but the generations' number |
| - identity | 2 messages, 2 numbers, 1 LID, 1 name, 3 conversations, 1 binding | two identifiers of one customer in either order, merged or bound, and a third conversation to merge with |
| - replies | 2 replies, 2 texts | twins, and different ones, in every order |
| - detectors, notifier | 1 of 2 stations, 1 route, kind, charger watched; windows of 2 of 3 time units, 1 failure; 2 cases, 2 calls | two ticks and a window between them; the case without a group |
| - rollback | 2 releases, window 1, cooldown 2, clock 3, 1 deploy by others | a watch, a proposal that expires, a new release under it |
| - drain | 2 batches, 2 entries of any kind, 2 posts | an entry in both batches, each posted again |
| - collector | 2 entries (1 an event), 2 requests of 1 entry each | socket and polls deliver the same entry, and an older answer comes after a newer one |
| - tracker | 1 charger, transactions 1..2, limits 0 or 1 of 2 minutes, 1 late entry | two connectors; limits keep their order; a longer clock (3 minutes) was checked by itself; sparing by the meter reading needs more time than this and does not occur |
| - gateway | 3 sockets, 2 starts, 2 records, 2 requests | two starts overlap, and a socket of a deleted record comes back |

Deadlock is checked in `AlertDelivery`: an engine can always start another tick.
`StationInvestigator` rests when all its jobs are done (that none stays open is
`OpenIsResolved`).  `ChargerFaults` stops when its clock reaches
`MaxTime` and its budgets are spent, `MonitorDeploy` when all pushes have been
handled; both say `CHECK_DEADLOCK FALSE`, and so do `Workers` and `Services`, where
a service that has done what the bounds allow rests.

## 4. Fairness

`AlertDelivery` assumes that a tick in flight goes on and that the next one is
started (`setInterval`, and PM2 restarts the process), and that Evolution resolves
every message.  A tick that hangs in a `fetch` violates the first; the code does
not prevent that, and the liveness result does not cover it.  `MonitorDeploy`
assumes that GitHub completes every CI run and that a living worker goes on (the
waits for CI and for the lock are bounded in the code).  `StationInvestigator`
assumes that every await ends (the configuration and the central API have time-outs
of 10 and 45 s, and `fetch` gives up on a send after minutes), that the sweep runs
(`setInterval`, 30 s) and that time passes.  Faults and restarts are bounded and
never fair, nor are people.

`Workers` assumes weak fairness of each worker while it is followed: its timer fires
(`setInterval`) and what it awaits ends (all calls of the approval, the accountant and
the partner assistant have time-outs or end with the connection), and time passes for
rows that wait.  Of the sweep only its own polls and time-outs are fair, not GitHub or
the people behind it.  The properties of `Services` are safety.
For the demand map timers fire, a due one before more time passes, and nothing is
assumed of the thread that answers the queries; retention goes on sweeping, and the end
of a sweep is handled.

## 5. Proofs

Every safety property that a passing run checks is also a theorem, for every value of
the constants.  A theorem assumes what the modules state of their constants
(`DeliveryAssumption`, `WindowsAssumption`, ...), which TLC evaluates on every run, and
nothing else.

Each proof follows the same plan: an inductive invariant that adds to the property what
the code relies on over an `await`, a lemma per kind of step, one step per action, and a
last temporal step.  The inductive invariants were checked by TLC first, on the
instances of section 3.

### Alert engine

`AlertDeliveryProofs` proves, for any set of alerts, any number of overlapping
ticks and any bounds,

- `TypeCorrect`: `Spec => []TypeOK`, and
- `SentIsDelivered`: `Spec => []SentMeansDelivered`.

The only assumption is `DeliveryAssumption`, which types the constants and keeps
`NoAlert` out of `Alerts`.  `SentMeansDelivered` is not inductive: nothing in it
says that the id on a row belongs to a message about that very alert, nor that a
"sent" a tick remembers was true.  `IInv` adds

- `GoodRow`: the id on record is one of the API's messages and is about the row's
  alert; a row marked sent has a delivered message;
- `GoodTick`: the same of the ids, statuses and the posted message in a tick's
  local variables, however long ago they were read;
- `lost <= faults`, which bounds the history counter.

The argument is monotonicity: the API's messages only grow (`AppendGrows`) and a
"sent" is final (`ResolveGrows`), so what a row or a tick knows stays true
(`RowSurvives`, `TickSurvives`).  The steps then fall into four kinds: a tick moves
without touching the table (`TickMoves`), the table is written (`TableWrites`,
`ConfirmStep`), a message is posted (`PostStep`), the environment acts
(`EnvironmentStep`).

`NoVisibleDuplicateHolds` and `ReplacedUnlessOvertakenHolds` are about any number of
overlapping ticks.  `DInv` says what a tick knows over its awaits (`Knows`): what it saw
as failed has failed, and of an alert that has not raced, the id it read is the one on
record, and what it has found was never posted.  `Apart` says that what two ticks have in
hand has raced: a tick that starts is the only one that can take up what another has.
`OneAlive` then says that a message of any other alert that has not failed is the one on
record or the one in hand, as long as no answer was lost and no restart forgot the one
in hand.

`ChargerFaultsProofs` proves, for any connectors, error codes, tiers, rows, overlapping
ticks, crashes and file faults, `TypeCorrect` and all four properties of the run:
`NoReburstHolds`, `RebuildKeepsSilenceHolds`, `SilenceHasCauseHolds` and
`BackoffHonouredHolds`.  They assume `WindowsAssumption`: no promised window is longer
than `BackoffGcAge`, after which the code forgets a backoff (a day and a week in the
source), and the query looks back at all.  The gate follows from three facts:

- `Remembers`: each theft alert, in memory and on file, is behind a recovery, or its
  connector's gate is `Shut`, or a rebuild forgot it that could not see it open;
- `Apart`: two alerts of a connector therefore have a recovery or such a rebuild
  between them;
- `Kept`: a readable file is what the engine knows, as long as every write succeeded,
  so that a restart at any point loses nothing.

`cleanupCableTheftState` forgets only what a recovery has ended (`CleanupForgets`).
`Caused` and `Covers` are the same for the causes and the backoff.  The rows are finite
and dated one at a time (`Dated`), and the proofs pick the least or the latest of them
(`Least`, `Greatest`).

### Auto-deploy

`MonitorDeployProofs` proves, for any set of services and packages, any history of
commits (`Code` and `Deps` are arbitrary), with or without a marker, and any number of
pushes, failures, deaths and reruns,

- `TypeCorrect`: `Spec => []TypeOK`,
- `ServicesRunTheMarkedCode`: `Spec => []RunsTheMarkedCode`,
- `PackagesAreOnRecord`: `Spec => []InstalledAsRecorded`,
- `MarkingIsVerified`: `Spec => MarkedIsVerified`, and
- `ProductionNeverGoesBack`: `Spec => NeverGoesBack`.

The only assumption is `DeployAssumption`: the bounds are numbers, the webhook is a
service, services, packages, commits and markers like `Free` are told apart.  None
of the invariants is inductive: whether `EmptyMarker` keeps them depends on what the worker
that marks has planned and applied, in how many attempts.  `IInv` adds

- `GoodWorker`: only the holder of the lock is past the lock; past its second look
  at `main`, nothing on record is newer than its commit (`RecordsUpTo`); once it has
  planned, `OnPlan` says what its plan covers, what of it is on record, and at which
  stage which part is complete;
- `RunsItsBaseline`: unless it changed off the record, an immediate service runs the
  code of the revision its progress entry names, or of `deployedSha` when it has none:
  the fact by which a later worker may skip a restart;
- `HealthyOrAwaited`: a probed service that awaits no health check has passed one
  since it started: the fact by which the marker may move.

Most steps leave the records alone (`RecordsAlone`: pushes, CI, waiting workers,
failures, deaths, PM2).  The others are the holder's, and need to be looked at for
the holder only (`HolderMoves`), one lemma per stage.  `IInv` holds on the instance
TLC checks, too (as an invariant of the `MonitorDeploy` bounds).

### Support copilot and gateway

`StationInvestigatorProofs` proves, for any finite set of messages, any number of
webhook requests, attempts and restarts and any daily limit,

- `TypeCorrect`: `Spec => []TypeOK`,
- `LiveIsRecordedHolds`: `Spec => []LiveIsRecorded`,
- `OneOwnerHolds`: `Spec => []OneOwner`,
- `FinishedStays`: `Spec => FinalIsFinal`,
- `WithinLimitHolds`: `Spec => []WithinLimit`, and
- `AnswersOnceHolds`: `Spec => AnswersOnce`, the refinement of `AnswerOnce`.

The only assumption is `StationAssumption`: the bounds are numbers, the sweep is no
webhook request, `NoMessage` no message.  `IInv` says what a worker may rely on over
an await:

- `AskingHolds`, `SendingHolds`: the row of a worker that asks is still processing,
  with its lease and its attempt; that of one that sends was at most given up as
  unknown; `OneAtWork`: nobody else asks or sends for the same message;
- `LiveIsLast`: only the last attempt can be out, and only in a recorded status;
- `FreshMeansAsRead`, `PassHolds`: a row that is fresh has the status that was read,
  which is why an update guarded by `updated_at` is safe.

Each write is then either guarded by a status or a revision that makes the row
`Free` of others (`FreeRows`, `StopWriteKeeps`) or made by the one worker at work on
it (`BusyFacts`, `BusyWriteKeeps`); `RecordKeeps` has the common part.  The same
facts show that no write meets a finished job (`WriteStays`).  For the
refinement, `SaidByOne` and `OneAnswerChanges` reduce what was said of a message to
the one attempt that can be out, and `OnlySendsSpeak` makes every other step of a
worker a stutter.  `IInv` holds on the instances TLC checks, too.  For the limit,
`Uncharged` adds that a job which is new or only claimed holds no slot; every step then
reserves nothing, or one slot after it has counted them in the same transaction
(`Reserves`).

`SupportPipelineProofs` takes the queues one by one, for any messages, operators,
bounds and changes of the environment from one start to the next, and then all of them
over the same messages:

- *The approval:* `ApprovalTypeCorrect`, `AskedAgainOnlyIfRefusedHolds`,
  `LedgerMatchesHolds`, and `BookedByConsentHolds`, the refinement of `Consent`.
  `RowOK` strengthens: a row that may be sent again has all its questions refused and
  one left, and a receipt is in the ledger exactly when its row is executed, which is
  why `Classify` books what was not booked.  Most steps only give a row another status
  (`StatusKeeps`).  For the refinement, `Withdrawing` covers every step that books
  nothing and passes no time: the answers it changes were open and become void.
- *The accountant's jobs:* `ContadorTypeCorrect`, `AnsweredOnceHolds`: the count of
  replies is 1 exactly when `reply_status` is not NULL (`JobCounted`), and the job in
  hand is claimed, and fenced before its request is under way (`InHand`).
- *The partner assistant:* its types, and that a job marked as sent was answered
  (`AtWork`).
- *The whole:* `WholeSpec` is the pipeline with everything the three queues do to their
  rows meanwhile, which the `Services` run leaves to the runs of the queues.
  `QueuesCompose`: in it each queue behaves as it does by itself.  `WholeKeepsPromises`:
  `OneAnswererInOrder`, `OneOutlet`, `AnsweredOnce`, `SentMeansAnswered`,
  `AskedAgainOnlyIfRefused` and `LedgerMatches` hold together.  `Given` says that
  a message whose analysis is written has been handed out and is not read again, because
  `Recognize` writes both at once; `QueueOwned` gives each message, by its kind and the
  handlers still under way, to one queue, and every step to the rows is then made by
  that one (`RouteOwns`, `WebhookOwns`).  TLC checked both on `WholeSpec` to depth 18,
  which does not exhaust it; the theorem does not need it.  `OneOutletHolds` and
  `OneAnswererInOrderHolds` are the same of `PipelineSpec`.

`CopilotProofs` proves, of the copilot's parts beside those queues and of the gateway,

- `ClosedOnceInOrderHolds`: the order is not inductive by itself, since a pass works off
  a list it made before the awaits.  `ListedOK` says that a listed month is still
  claimable, and that whatever is older is settled, in hand or listed before it; `RunOK`
  that nothing of a month reached the group before its fence;
- `NoticeYieldsHolds`: a notice begins only when no closing can be read any more that day
  (`Quiet`), and a closing that was read today holds the notice back (`ClosingHolds`);
  `Calendar` and `Scheduled` tie day, month and what is due together, for months of any
  length.  `NoticesAreClosings`: beside the notices the closings do what they do alone;
- `AskedOncePerIntervalHolds`: the last row on record is no older than any question on record
  (`Stamped`), so the days of all those are over for a round that was let in by it
  (`Apart`);
- `HeldIsSilentHolds`: as long as a conversation is held it is in a status a person owns
  (in `CopilotIInv`), whoever wrote it last, and the router's generations are of groups; so
  the looks at the status before and after the model are enough;
- `ShownOnceHolds`: a text that is known to be sent has its own id on record, where its
  echo finds it, and a row with a foreign id has the same text (`RepliesIInv`): only a
  twin, or a medium whose echo has no text, can be mistaken;
- `FiledWhereFoundHolds`: no two conversations answer to one identifier (`Separate`),
  and a message lies where its sender is known (`Placed`).  A merge keeps the union of
  the identifiers; within a delivery two conversations may share some until they are
  merged (`SeparateBut`).  `EnvelopeAssumption` keeps the value for "not yet received"
  out of the envelopes;
- `InstanceIsTendedHolds`: the socket a record holds is its own and has yet to report
  its closing (`HoldsItsOwn`); so whoever drops it leaves a timer, a start or a
  closing report behind.

### Detectors, notices, watchdog, drain, collector

`MonitorProofs` proves

- `AlertedOncePerWindowHolds`, `SilencedByAnAlertHolds`: every entry of the debounce
  cache is backed by an alert of its time (`Backed`), every alert whose window has not
  passed is in the cache and, while it could be written, in the file (`Held`); the
  detectors of one tick find disjoint subjects, none of them debounced (`SoundFinds`);
- `ToldOncePerWindowHolds`: a notice that is known to be sent has a record in memory and on
  file that is no older (`Remembers`), so that a call asked for later does not come too
  early after it (`NotEarly`);
- `RollbackTypeCorrect`, `OneAttemptPerWatchHolds`: Vercel has been asked only if the
  file says so, and a tick under way agrees with the file about it (`Recorded`), so that
  the copy it writes back does not forget an attempt;
- `DrainTypeCorrect`, `AckedIsStoredHolds`, `CountedTogetherHolds`: rows and counters of a
  batch are written in one transaction;
- `StoredAsProcessedHolds`: inductive with the types; a transaction that throws leaves
  its table and its buffer as they were, one that commits moves all of one to the other;
- `SparedIsChargingHolds`: the transaction a charger names is an active one of its own,
  unless the process died between the two files (`NamesItsOwn`), while health checks and
  recoveries write the same records (`UpdatedKeepsTransaction`).

`ServicesProofs` ties these to what TLC runs.  `ServicesCompose`: a behaviour of
`ServicesSpec` is one of each of the thirteen specifications, so following one of them
under a `focus` adds nothing to it; `ServicesKeepPromises`: all sixteen properties of
the `Services` run are theorems of `ServicesSpec`.  The theorems about the approval
and the accountant's jobs are about `ApprovalSpec` and `ContadorSpec`, whose actions are
those the `Workers` run follows.

### Only model-checked

Liveness under fairness: `SavedIsSentOrExpires`, `OpenIsResolved`, `ProposalEnds`,
`JobIsHandled`, `ClaimIsHandled`, `SweepEnds`, `QueryEnds`, `ExpiredIsDeleted`.  It is out
of the prover's reach, as are the violations, which are counterexamples.  For
`SweepOrchestrator`, `HeatmapQueries` and `Retention`, whose only property is of that
kind, there is no theorem yet.

## 6. Not modelled

Formats, message texts, `LIMIT`s of queries (a status page of fifty messages is an
"unknown" status), and the urgent and partner copies of alerts on the way of
`AlertDelivery`, which are best effort and unrecorded.  Of the station investigator:
the contents of context and answer, the limit of five jobs a sweep, several
conversations and brands (they share nothing but the sweep).  The lock file of the
deploy is assumed atomic.

Of the support copilot: prompts, tools of the models, redaction, read-only routes,
staff conversations, the automatic sending of suggestions (the route never selects the
setting that would enable it), `requestHandoff` and `resolveHandoff` (nothing calls
them).  Of the sweep: the scan, the parsing of verdicts, `reconcile.js` and the
evidence guard, which are functions of files.  Of the watchdog: how the verdict is
computed from counts.  Of the collector: parsing, statistics, the health endpoint.
Of the gateway: QR codes, groups, profile queries.

Components left out, with the reason in `PROJECT.json`: deployment hooks, payment
webhook, budget and tasks, blog, Hermes profile, scripts: they keep no state between
requests, or a file one process rewrites.  Of mobile telemetry the other read-only
routes and the dumps of user logs.

Behaviour met while modelling that no document contradicts, and that a maintainer may
want to know, is noted at the hazards in `PROJECT.json` and under the modules above.

## 7. Plan

1. Done: `ChargerFaults`, `AlertDelivery`, `MonitorDeploy`, `StationInvestigator` as an
   implementation of `AnswerOnce`, and the proofs about the last three.
2. Done: the support copilot's queues and their webhook, `Workers`, `Services`, mobile
   telemetry.
3. Done: all safety properties as theorems, `ServicesSpec` as a composition.
4. `PartnerAssistant` against `AnswerOnce`, to state exactly when it fails; `Workers` as
   a composition, like `Services`.
5. `DeployLock`: the lock file step by step; the abstract lock of `MonitorDeploy` as
   the specification it should implement.
6. Safety of mobile telemetry, with proofs: the callers, the cache and the runner agree
   on what is under way; no event refers to a raw row that is about to be deleted.
