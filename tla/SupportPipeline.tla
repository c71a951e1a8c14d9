-------------------------- MODULE SupportPipeline --------------------------
(***************************************************************************)
(* services/support-copilot/routes/ingest-evolution.js, the webhook of     *)
(* group messages, together with the queues it feeds: who answers a        *)
(* message is decided here, by rows in four tables that nobody locks.      *)
(*                                                                         *)
(* A handler stores the message, awaits the configuration, and decides in  *)
(* one go.  A replay of the webhook runs beside it.  Left out: direct      *)
(* conversations, outbound messages, drafts for the group that leave no    *)
(* row, and a quoted expense decision, which the central API answers.      *)
(***************************************************************************)
EXTENDS AgentRouter, PartnerAssistant

CONSTANTS
  Delivered,    \* bound: the messages whose webhooks arrive
  MaxReplays,   \* bound: webhooks delivered again
  MaxRestarts   \* bound: restarts of the process

ASSUME PipelineAssumption ==
  /\ Delivered \subseteq Messages
  /\ MaxReplays \in Nat /\ MaxRestarts \in Nat

VARIABLES
  nature,      \* what each message is
  stored,      \* messages
  handler,     \* the webhook handlers that await the configuration
  station,     \* station_investigation_jobs: no row, one claimed, one further on
  overlapped,  \* messages replayed while their first handler was waiting
  replays, restarts

webhookVars == <<nature, stored, handler, station, overlapped, replays>>
pipelineVars ==
  <<webhookVars, restarts, approvalVars, contadorVars, routerVars, partnerVars>>

-----------------------------------------------------------------------------
\* An image or PDF, a bank statement, an answer that quotes a draft of the
\* Contador, a text that asks for a look at a charger, any other text.
Natures == [kind : {"media", "ofx", "quote", "request", "text"}, mention : BOOLEAN]

\* loadConfig: an error, or whom it lets serve the group.  A claim of the partner
\* assistant that throws is logged and the message goes on, as if it did not serve.
Configs == {[down |-> TRUE, partner |-> FALSE, station |-> FALSE]} \cup
           [down : {FALSE}, partner : BOOLEAN, station : BOOLEAN]

PipelineInit ==
  /\ ApprovalInit /\ ContadorInit /\ RouterInit /\ PartnerInit
  /\ nature \in [Messages -> Natures]
  /\ stored = {} /\ overlapped = {}
  /\ handler = [m \in Messages |-> {}]
  /\ station = [m \in Messages |-> "none"]
  /\ replays = 0 /\ restarts = 0

-----------------------------------------------------------------------------
Queues == <<approvalVars, contadorVars, routerVars, partnerVars>>

\* The first delivery, up to the configuration.
Deliver(m) ==
  /\ m \notin stored /\ Yielded
  /\ stored' = stored \cup {m}
  /\ handler' = [handler EXCEPT ![m] = @ \cup {"first"}]
  /\ UNCHANGED <<nature, station, overlapped, replays, restarts, Queues>>

\* durableReplayOwner
OwnedDurably(m) ==
  station[m] = "further" \/ mediaJob[m].status # "none" \/ contadorJob[m].status # "none"

\* A webhook for a message that is stored already.
Redeliver(m) ==
  /\ m \in stored /\ Yielded /\ "again" \notin handler[m]
  /\ replays < MaxReplays
  /\ replays' = replays + 1
  /\ IF OwnedDurably(m)
       THEN UNCHANGED <<handler, overlapped>>
       ELSE /\ handler' = [handler EXCEPT ![m] = @ \cup {"again"}]
            /\ overlapped' = IF "first" \in handler[m] THEN overlapped \cup {m}
                             ELSE overlapped
  /\ UNCHANGED <<nature, stored, station, restarts, Queues>>

-----------------------------------------------------------------------------
(***************************************************************************)
(* What a handler h of m does once it has the configuration: each operator *)
(* says what becomes of the queues and of station.                         *)
(***************************************************************************)
Ends(m, h) == handler' = [handler EXCEPT ![m] = @ \ {h}]

\* genericPipelineJob finds no row.
GenericFree(m) == mediaJob[m].status = "none" /\ contadorJob[m].status = "none"

\* 503, so that the provider delivers the message again.
Refused503(m, h, config) ==
  /\ config.down
  /\ \/ nature[m].kind = "quote"
     \/ /\ nature[m].kind \in {"request", "text"} /\ nature[m].mention
        /\ station[m] = "none" /\ GenericFree(m)
        /\ h = "again" => partnerJob[m].status = "none"

\* enqueueContadorMessage: nothing if the Contador is off, or does not care.
ToContador(m) ==
  /\ UNCHANGED station
  /\ \/ Enqueue(m, "other")
     \/ UNCHANGED contadorVars
  /\ UNCHANGED <<approvalVars, routerVars, partnerVars>>

PartnerServes(m, config) == config.partner /\ nature[m].mention

ToPartner(m) ==
  /\ IF human THEN UNCHANGED partnerVars
     ELSE \E auto \in BOOLEAN : ClaimPartner(m, auto)
  /\ UNCHANGED <<station, approvalVars, contadorVars, routerVars>>

\* prepareStationInvestigation claims the message: it has its row already, or it
\* mentions the bot and neither of the other queues has one.
StationServes(m, config) ==
  \/ station[m] # "none"
  \/ config.station /\ nature[m].mention /\ GenericFree(m)

ToStation(m) ==
  /\ IF station[m] # "none" \/ human THEN UNCHANGED station
     ELSE station' = [station EXCEPT ![m] = "claimed"]
  /\ UNCHANGED Queues

\* routeInboundMessageDurably
ToMedia(m) ==
  /\ UNCHANGED station
  /\ \E kind \in {"image", "other"}, defer \in {FALSE, contadorOn} :
       PersistMediaJob(m, kind, defer)
  /\ UNCHANGED <<approvalVars, contadorVars, partnerVars>>

ToNobody == UNCHANGED station /\ UNCHANGED Queues

\* Defect: the station investigator is asked before the partner assistant, and
\* what it claims is not kept from the media router.
RouteFirstUnordered(m, config) ==
  CASE nature[m].kind \in {"quote", "ofx"} -> ToContador(m)
    [] nature[m].kind = "media" /\ ~PartnerServes(m, config) -> ToMedia(m)
    [] OTHER -> IF PartnerServes(m, config) THEN
                  /\ station' = [station EXCEPT ![m] = "claimed"]
                  /\ \E auto \in BOOLEAN : ClaimPartner(m, auto)
                  /\ UNCHANGED <<approvalVars, contadorVars, routerVars>>
                ELSE ToStation(m)

\* The order of a first delivery.
RouteFirst(m, config) ==
  CASE nature[m].kind \in {"quote", "ofx"} -> ToContador(m)
    [] OTHER ->
       IF PartnerServes(m, config) THEN ToPartner(m)
       ELSE IF StationServes(m, config) THEN ToStation(m)
       ELSE IF nature[m].kind \in {"media", "request"} THEN ToMedia(m)
       ELSE ToContador(m)

\* The order of a replay: who owns the message is looked up, and the partner
\* assistant never takes it anew; a text nobody owns is not routed again.
RouteAgain(m, config) ==
  CASE nature[m].kind \in {"quote", "ofx"} -> ToContador(m)
    [] OTHER ->
       IF partnerJob[m].status # "none" THEN ToNobody
       ELSE IF StationServes(m, config) THEN ToStation(m)
       ELSE IF nature[m].kind = "media" THEN ToMedia(m)
       ELSE ToNobody

Refuse503(m, h) ==
  /\ h \in handler[m] /\ Yielded
  /\ \E config \in Configs : Refused503(m, h, config)
  /\ Ends(m, h)
  /\ UNCHANGED <<nature, stored, station, overlapped, replays, restarts, Queues>>

Route(m, h) ==
  /\ h \in handler[m] /\ Yielded
  /\ \E config \in Configs :
       /\ ~Refused503(m, h, config)
       /\ IF h = "first" THEN RouteFirst(m, config) ELSE RouteAgain(m, config)
  /\ Ends(m, h)
  /\ UNCHANGED <<nature, stored, overlapped, replays, restarts>>

\* routeStationInvestigation goes on with a claim.
StationProceeds(m) ==
  /\ station[m] = "claimed"
  /\ station' = [station EXCEPT ![m] = "further"]
  /\ UNCHANGED <<nature, stored, handler, overlapped, replays, restarts, Queues>>

-----------------------------------------------------------------------------
\* One process, one restart: every queue recovers its own rows.
Restart ==
  /\ restarts < MaxRestarts
  /\ restarts' = restarts + 1
  /\ ApprovalRestart /\ ContadorRestart /\ RouterRestart /\ PartnerRestart
  /\ handler' = [m \in Messages |-> {}]
  /\ UNCHANGED <<nature, stored, station, overlapped, replays>>

\* The media queue makes rows of the others.  What the others do with their rows
\* neither makes nor removes one, and is checked without the webhook.
QueueStep ==
  /\ \/ RouterStep /\ UNCHANGED partnerVars
     \/ HandOver /\ UNCHANGED <<approvalVars, contadorVars, routerVars>>
  /\ UNCHANGED <<webhookVars, restarts>>

PipelineNext ==
  \/ \E m \in Delivered : Deliver(m) \/ Redeliver(m) \/ StationProceeds(m)
  \/ \E m \in Delivered, h \in {"first", "again"} : Route(m, h) \/ Refuse503(m, h)
  \/ QueueStep
  \/ Restart

PipelineSpec == PipelineInit /\ [][PipelineNext]_pipelineVars

-----------------------------------------------------------------------------
PipelineTypeOK ==
  /\ RouterTypeOK
  /\ nature \in [Messages -> Natures]
  /\ stored \subseteq Delivered
  /\ handler \in [Messages -> SUBSET {"first", "again"}]
  /\ station \in [Messages -> {"none", "claimed", "further"}]
  /\ overlapped \subseteq stored
  /\ replays \in 0 .. MaxReplays /\ restarts \in 0 .. MaxRestarts

\* The queues that answer m: a job of the Contador that a media job made is not
\* an answerer of its own.
Answerers(m) ==
  {q \in {"station", "partner", "media", "contador"} :
     \/ q = "station" /\ station[m] # "none"
     \/ q = "partner" /\ partnerJob[m].status # "none"
     \/ q = "media" /\ mediaJob[m].status # "none"
     \/ q = "contador" /\ contadorJob[m].status # "none" /\ mediaJob[m].status = "none"}

\* At most one queue answers a message, over crashes, replays and refused
\* webhooks, as long as no replay overtakes the first handler.
OneAnswererInOrder ==
  \A m \in Messages \ overlapped : Cardinality(Answerers(m)) <= 1
=============================================================================
