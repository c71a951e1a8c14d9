------------------------------ MODULE Services ------------------------------
(***************************************************************************)
(* Services of the station monitor that share no state: the webhook of the *)
(* support copilot with the queues it feeds, the accountant's closings and *)
(* what it asks and learns, who owns a conversation, whose it is and what  *)
(* is sent in it, the detectors of the alert engine and its notices to     *)
(* partners, the rollback watchdog, the log drain, the OCPP collector and  *)
(* what it believes of the chargers, and the WhatsApp gateway.             *)
(* ecosystem.config.js starts most of them as processes of their own; the  *)
(* parts of the support copilot are timers and handlers that write         *)
(* different tables.  A behaviour of this module follows one of them       *)
(* (focus) while the others stand still.                                   *)
(***************************************************************************)
EXTENDS SupportPipeline, ContadorNotices, ContadorMemory, CopilotConversation,
        CustomerIdentity, OperatorReplies, Detectors, PartnerNotifier, AutoRollback,
        VercelDrain, LogCollector, ChargerTracker, WhatsAppGateway

VARIABLE focus  \* the service this behaviour follows

accountantVars == <<noticeVars, memoryVars>>
conversationVars == <<copilotVars, identityVars, repliesVars>>
supportVars == <<pipelineVars, accountantVars, conversationVars>>
alertVars == <<detectorVars, notifierVars>>
ocppVars == <<logVars, trackerVars>>
monitorVars == <<alertVars, rollbackVars, drainVars, ocppVars, gatewayVars>>
servicesVars == <<focus, supportVars, monitorVars>>

-----------------------------------------------------------------------------
\* What is open at the start of a service that is not followed is fixed.
Fixed(name, choice) == focus = name \/ choice

ServicesInit ==
  /\ focus \in {"pipeline", "closings", "memory", "copilot", "identity", "replies",
                "detectors", "notifier", "rollback", "drain", "collector", "tracker", "gateway"}
  /\ PipelineInit
  /\ Fixed("pipeline",
           /\ ~approval.on /\ approval.operator = CHOOSE o \in Operators : TRUE
           /\ ~contadorOn /\ ~human)
  /\ \A m \in Messages :
       (focus = "pipeline" /\ m \in Delivered)
         \/ nature[m] = [kind |-> "text", mention |-> FALSE]
  /\ NoticesInit /\ CopilotInit /\ IdentityInit
  /\ Fixed("copilot", groups = {})
  /\ MemoryInit
  /\ Fixed("memory", gaps)
  /\ RepliesInit
  /\ Fixed("replies", LET one == CHOOSE b \in Bodies : ~b.media
                      IN  says = [y \in DashboardReplies |-> one])
  /\ DetectorInit
  /\ Fixed("detectors", watched = CHOOSE W \in SUBSET Names : Cardinality(W) = MaxWatched)
  /\ NotifierInit
  /\ Fixed("notifier", liveMode)
  /\ RollbackInit
  /\ Fixed("rollback", live = (CHOOSE sha \in Releases : TRUE) /\ phase = "shadow")
  /\ DrainInit
  /\ Fixed("drain", (\A e \in Entries : kind[e] = "noise")
                      /\ \A b \in Batches : content[b] = {})
  /\ LogInit /\ TrackerInit
  /\ GatewayInit
  /\ Fixed("gateway", ~paired)

Follow(name, work) == focus = name /\ work /\ UNCHANGED focus

ServicesNext ==
  \/ /\ Follow("pipeline", PipelineNext)
     /\ UNCHANGED <<accountantVars, conversationVars, monitorVars>>
  \/ /\ Follow("closings", NoticesStep \/ NoticesClock \/ NoticesRestart)
     /\ UNCHANGED <<pipelineVars, memoryVars, conversationVars, monitorVars>>
  \/ /\ Follow("memory", MemoryNext)
     /\ UNCHANGED <<pipelineVars, noticeVars, conversationVars, monitorVars>>
  \/ /\ Follow("copilot", CopilotNext)
     /\ UNCHANGED <<pipelineVars, accountantVars, identityVars, repliesVars, monitorVars>>
  \/ /\ Follow("identity", IdentityNext)
     /\ UNCHANGED <<pipelineVars, accountantVars, copilotVars, repliesVars, monitorVars>>
  \/ /\ Follow("replies", RepliesNext)
     /\ UNCHANGED <<pipelineVars, accountantVars, copilotVars, identityVars, monitorVars>>
  \/ /\ Follow("detectors", DetectorNext)
     /\ UNCHANGED <<supportVars, notifierVars, rollbackVars, drainVars, ocppVars, gatewayVars>>
  \/ /\ Follow("notifier", NotifierNext)
     /\ UNCHANGED <<supportVars, detectorVars, rollbackVars, drainVars, ocppVars, gatewayVars>>
  \/ /\ Follow("rollback", RollbackStep \/ RollbackRestart)
     /\ UNCHANGED <<supportVars, alertVars, drainVars, ocppVars, gatewayVars>>
  \/ /\ Follow("drain", DrainStep \/ DrainRestart)
     /\ UNCHANGED <<supportVars, alertVars, rollbackVars, ocppVars, gatewayVars>>
  \/ /\ Follow("collector", LogStep \/ LogRestart)
     /\ UNCHANGED <<supportVars, alertVars, rollbackVars, drainVars, trackerVars, gatewayVars>>
  \/ /\ Follow("tracker", TrackerNext)
     /\ UNCHANGED <<supportVars, alertVars, rollbackVars, drainVars, logVars, gatewayVars>>
  \/ /\ Follow("gateway", GatewayStep \/ GatewayRestart)
     /\ UNCHANGED <<supportVars, alertVars, rollbackVars, drainVars, ocppVars>>

ServicesSpec == ServicesInit /\ [][ServicesNext]_servicesVars

-----------------------------------------------------------------------------
\* The values of the service that is followed are of their kinds.
ServicesTypeOK ==
  CASE focus = "pipeline" -> PipelineTypeOK
    [] focus = "closings" -> NoticesTypeOK
    [] focus = "memory" -> MemoryTypeOK
    [] focus = "copilot" -> CopilotTypeOK
    [] focus = "identity" -> IdentityTypeOK
    [] focus = "replies" -> RepliesTypeOK
    [] focus = "detectors" -> DetectorTypeOK
    [] focus = "notifier" -> NotifierTypeOK
    [] focus = "rollback" -> RollbackTypeOK
    [] focus = "drain" -> DrainTypeOK
    [] focus = "collector" -> LogTypeOK
    [] focus = "tracker" -> TrackerTypeOK
    [] focus = "gateway" -> GatewayTypeOK
=============================================================================
