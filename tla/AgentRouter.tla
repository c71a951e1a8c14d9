---------------------------- MODULE AgentRouter ----------------------------
(***************************************************************************)
(* services/support-copilot/lib/agent-router.js: a message with a document *)
(* (or about a charger) is kept as a durable media job, classified by a    *)
(* model, and handed to the accounting agent, to a financial approval or,  *)
(* as an event, to the central API.                                        *)
(*                                                                         *)
(* A media job gives way while the configuration, the model and the        *)
(* suggestion for the group are awaited; the claim of its row keeps every  *)
(* other run off it.  Its last write is one of its own, so that a crash    *)
(* may come between what it has done and "completed".  Left out: the       *)
(* order of the jobs and the limits of a pass, the pause of all jobs when  *)
(* the model is down (a job's own next attempt stands for it), direct      *)
(* conversations, and who the partner of a receipt is.                     *)
(***************************************************************************)
EXTENDS FinancialApproval, ContadorJobs

CONSTANTS
  MaxMediaAttempts,  \* MEDIA_JOB_MAX_ATTEMPTS
  MaxEventAttempts   \* MAX_DELIVERY_ATTEMPTS

ASSUME RouterAssumption ==
  MaxMediaAttempts \in Nat \ {0} /\ MaxEventAttempts \in Nat \ {0}

VARIABLES
  mediaJob,   \* agent_media_jobs
  analysis,   \* agent_media_analyses: "none", "error", or what the message is
  suggested,  \* messages the group copilot has drafted an answer to
  event,      \* agent_event_outbox
  mediaRun,   \* per message, how far processMediaJob has come with it
  eventPass   \* the events deliverDueEvents still has to post; the first is on its way

routerVars == <<mediaJob, analysis, suggested, event, mediaRun, eventPass>>

-----------------------------------------------------------------------------
\* energy_invoice, expense_receipt, station_support, and support_attention for
\* every other kind
Kinds     == {"invoice", "expense", "station", "other"}
MediaOpen == {"pending", "retry", "waiting_model"}
MediaEnds == {"completed", "failed"}

\* From the payload: kind, an image or a document, and deferEnergyInvoiceEvent.
MediaJob == [status : {"none", "processing"} \cup MediaOpen \cup MediaEnds,
             attempts : Nat, due : BOOLEAN,
             kind : {"image", "other"}, defer : BOOLEAN]
NoMediaJob == [status |-> "none", attempts |-> 0, due |-> FALSE,
               kind |-> "other", defer |-> FALSE]

Event   == [status : {"none", "pending", "retry", "delivered", "needs_attention"},
            attempts : 0 .. MaxEventAttempts, due : BOOLEAN]
NoEvent == [status |-> "none", attempts |-> 0, due |-> FALSE]

RouterInit ==
  /\ mediaJob = [m \in Messages |-> NoMediaJob]
  /\ analysis = [m \in Messages |-> "none"]
  /\ suggested = {}
  /\ event = [m \in Messages |-> NoEvent]
  /\ mediaRun = [m \in Messages |-> "idle"]
  /\ eventPass = {}

-----------------------------------------------------------------------------
Outbox == <<event, eventPass>>
Others == <<approvalVars, contadorVars>>

\* The run of a media job goes on to a stage.
Run(m, stage) == mediaRun' = [mediaRun EXCEPT ![m] = stage]

\* persistMediaJob of a message the station investigator has no job of
PersistMediaJob(m, kind, defer) ==
  /\ mediaJob' = IF mediaJob[m].status # "none" THEN mediaJob
                 ELSE [mediaJob EXCEPT ![m] = [NoMediaJob EXCEPT
                         !.status = "pending", !.due = TRUE,
                         !.kind = kind, !.defer = defer]]
  /\ UNCHANGED <<analysis, suggested, Outbox, mediaRun>>

\* What follows the classification of m as kind.
Handoff(kind) == IF kind = "other" THEN "handoff" ELSE "complete"

\* shouldDeferEnergyInvoice: the group of the message is the Contador's.
ForContador(m, kind) == kind = "invoice" /\ mediaJob[m].defer

\* processMediaJob up to the first await of routeInboundMessage.  A message
\* that was classified before is not classified again.
ClaimMediaJob(m) ==
  /\ mediaRun[m] = "idle"
  /\ mediaJob[m].status \in MediaOpen /\ mediaJob[m].due
  /\ mediaJob' = [mediaJob EXCEPT ![m].status = "processing", ![m].attempts = @ + 1]
  /\ IF analysis[m] \in Kinds THEN Run(m, Handoff(analysis[m])) ELSE Run(m, "config")
  /\ IF ForContador(m, analysis[m]) THEN Defer(m, mediaJob[m].kind)
     ELSE UNCHANGED contadorVars
  /\ UNCHANGED <<analysis, suggested, Outbox, approvalVars>>

\* loadConfig: the agents are on, and may look at this message.
Eligible(m) ==
  /\ mediaRun[m] = "config" /\ Run(m, "classify")
  /\ UNCHANGED <<mediaJob, analysis, suggested, Outbox, Others>>

\* They are off, or the limit of the day is reached: deliverSkippedMediaFallback
\* queues it for the Contador, or drafts an answer for the group.
Declined(m) ==
  /\ mediaRun[m] = "config"
  /\ \/ Enqueue(m, mediaJob[m].kind) /\ Run(m, "complete")
     \/ Run(m, "handoff") /\ UNCHANGED contadorVars
  /\ UNCHANGED <<mediaJob, analysis, suggested, Outbox, approvalVars>>

\* createGroupSuggestion, of which the source message is the identity
Suggest(m) ==
  /\ mediaRun[m] = "handoff"
  /\ suggested' = suggested \cup {m}
  /\ Run(m, "complete")
  /\ UNCHANGED <<mediaJob, analysis, Outbox, Others>>

\* persistEvent: INSERT OR IGNORE
PersistEvent(m) ==
  event' = IF event[m].status # "none" THEN event
           ELSE [event EXCEPT ![m] = [NoEvent EXCEPT !.status = "pending", !.due = TRUE]]

\* Defect: an approval does not keep the event from going out too.
OutletOfBoth(m, kind, known) ==
  IF ForContador(m, kind)
    THEN Defer(m, mediaJob[m].kind) /\ UNCHANGED <<event, approvalVars>>
  ELSE IF kind = "expense" /\ approval.on
    THEN Propose(m, known) /\ PersistEvent(m) /\ UNCHANGED contadorVars
  ELSE PersistEvent(m) /\ UNCHANGED Others

\* Who is given a message that was classified as kind: the Contador, else a
\* financial approval that handles it, else the central API.
Outlet(m, kind, known) ==
  IF ForContador(m, kind)
    THEN Defer(m, mediaJob[m].kind) /\ UNCHANGED <<event, approvalVars>>
  ELSE IF kind = "expense" /\ approval.on
    THEN Propose(m, known) /\ UNCHANGED <<event, contadorVars>>
  ELSE PersistEvent(m) /\ UNCHANGED Others

\* The model says station_support: createGroupSuggestion is awaited first, and
\* whether it drafts an answer or fails, the run goes on.
AsksForDraft(m) ==
  /\ mediaRun[m] = "classify" /\ Run(m, "draft")
  /\ UNCHANGED <<mediaJob, analysis, suggested, Outbox, Others>>

Drafted(m) ==
  /\ mediaRun[m] = "draft" /\ m \notin suggested
  /\ suggested' = suggested \cup {m}
  /\ Run(m, "draft")
  /\ UNCHANGED <<mediaJob, analysis, Outbox, Others>>

\* The model has read the message: its analysis and what follows from it are
\* one transaction.
Recognize(m, kind, known) ==
  /\ mediaRun[m] = "classify" \/ (mediaRun[m] = "draft" /\ kind = "station")
  /\ analysis' = [analysis EXCEPT ![m] = kind]
  /\ Outlet(m, kind, known)
  /\ Run(m, Handoff(kind))
  /\ UNCHANGED <<mediaJob, suggested, eventPass>>

\* The row of a job whose run has failed; a model that is down costs nothing.
FailedMedia(row, modelDown) ==
  IF modelDown
    THEN [row EXCEPT !.status = "waiting_model", !.attempts = @ - 1, !.due = FALSE]
  ELSE [row EXCEPT !.status = IF row.attempts < MaxMediaAttempts THEN "retry" ELSE "failed",
                   !.due = FALSE]

ModelFails(m, down) ==
  /\ mediaRun[m] = "classify"
  /\ analysis' = [analysis EXCEPT ![m] = "error"]
  /\ mediaJob' = [mediaJob EXCEPT ![m] = FailedMedia(@, down)]
  /\ Run(m, "idle")
  /\ UNCHANGED <<suggested, Outbox, Others>>

\* No configuration, or no draft.
RunFails(m) ==
  /\ mediaRun[m] \in {"config", "handoff"}
  /\ mediaJob' = [mediaJob EXCEPT ![m] = FailedMedia(@, FALSE)]
  /\ Run(m, "idle")
  /\ UNCHANGED <<analysis, suggested, Outbox, Others>>

CompleteMediaJob(m) ==
  /\ mediaRun[m] = "complete"
  /\ mediaJob' = [mediaJob EXCEPT ![m].status = "completed"]
  /\ Run(m, "idle")
  /\ UNCHANGED <<analysis, suggested, Outbox, Others>>

-----------------------------------------------------------------------------
(***************************************************************************)
(* deliverDueEvents                                                        *)
(***************************************************************************)
\* A pass that finds nothing to post is over at once.
BeginEventPass ==
  /\ eventPass = {}
  /\ eventPass' = {m \in Messages : event[m].status \in {"pending", "retry"} /\ event[m].due}
  /\ eventPass' # {}
  /\ UNCHANGED <<mediaJob, analysis, suggested, event, mediaRun, Others>>

Posted(m) ==
  /\ m \in eventPass /\ eventPass' = eventPass \ {m}
  /\ UNCHANGED <<mediaJob, analysis, suggested, mediaRun, Others>>

EventTaken(m) ==
  /\ Posted(m)
  /\ event' = [event EXCEPT ![m].status = "delivered", ![m].attempts = @ + 1]

\* An error, a time-out or any status but 2xx; the API may have taken it.
EventFails(m) ==
  /\ Posted(m)
  /\ event' = [event EXCEPT ![m].attempts = @ + 1, ![m].due = FALSE,
       ![m].status = IF event[m].attempts + 1 >= MaxEventAttempts THEN "needs_attention"
                     ELSE "retry"]

-----------------------------------------------------------------------------
MediaFallsDue(m) ==
  /\ mediaJob[m].status \in MediaOpen /\ ~mediaJob[m].due
  /\ mediaJob' = [mediaJob EXCEPT ![m].due = TRUE]
  /\ UNCHANGED <<analysis, suggested, Outbox, mediaRun, Others>>

EventFallsDue(m) ==
  /\ event[m].status = "retry" /\ ~event[m].due
  /\ event' = [event EXCEPT ![m].due = TRUE]
  /\ UNCHANGED <<mediaJob, analysis, suggested, mediaRun, eventPass, Others>>

\* startAgentEventWorker
RecoveredMedia(row) ==
  IF row.status = "processing" THEN [row EXCEPT !.status = "retry", !.due = TRUE]
  ELSE row

\* An event that was on its way has its old row and is posted again.
RouterRestart ==
  /\ mediaJob' = [m \in Messages |-> RecoveredMedia(mediaJob[m])]
  /\ mediaRun' = [m \in Messages |-> "idle"]
  /\ eventPass' = {}
  /\ UNCHANGED <<analysis, suggested, event>>

-----------------------------------------------------------------------------
MediaWork(m) ==
  \/ ClaimMediaJob(m) \/ Eligible(m) \/ Declined(m) \/ Suggest(m)
  \/ AsksForDraft(m) \/ Drafted(m)
  \/ \E kind \in Kinds, known \in BOOLEAN : Recognize(m, kind, known)
  \/ \E down \in BOOLEAN : ModelFails(m, down)
  \/ RunFails(m) \/ CompleteMediaJob(m)

EventWork ==
  \/ BeginEventPass
  \/ \E m \in Messages : EventTaken(m) \/ EventFails(m)

RouterClock(m) == MediaFallsDue(m) \/ EventFallsDue(m)

RouterStep ==
  \/ \E m \in Messages : MediaWork(m) \/ RouterClock(m)
  \/ EventWork

-----------------------------------------------------------------------------
RouterTypeOK ==
  /\ mediaJob \in [Messages -> MediaJob]
  /\ analysis \in [Messages -> Kinds \cup {"none", "error"}]
  /\ suggested \subseteq Messages
  /\ event \in [Messages -> Event]
  /\ mediaRun \in [Messages -> {"idle", "config", "classify", "draft", "handoff", "complete"}]
  /\ eventPass \subseteq Messages

\* Exactly one of three is given a message that was recognized: the Contador if
\* it is an invoice of its group, else an approval or the central API, and never
\* both, whatever crash or failed step made the job run again.
OneOutlet ==
  \A m \in Messages :
    /\ analysis[m] \in Kinds =>
         IF ForContador(m, analysis[m])
           THEN contadorJob[m].status # "none" /\ event[m].status = "none"
           ELSE proposal[m].status = "none" <=> event[m].status # "none"
    /\ proposal[m].status # "none" => event[m].status = "none"
=============================================================================
