---------------------------- MODULE ServicesProofs ----------------------------
(***************************************************************************)
(* Proofs about Services: a behaviour that follows one service is, for     *)
(* every service, one of its own specification, so that what is proved of  *)
(* the services in SupportPipelineProofs, CopilotProofs and MonitorProofs  *)
(* holds of the specification that TLC runs.                               *)
(***************************************************************************)
EXTENDS Services, SupportPipelineProofs, CopilotProofs, MonitorProofs

-----------------------------------------------------------------------------
LEMMA ServicesStart ==
  ASSUME ServicesInit
  PROVE  /\ PipelineInit /\ NoticesInit /\ MemoryInit
         /\ CopilotInit /\ IdentityInit /\ RepliesInit
         /\ DetectorInit /\ NotifierInit /\ RollbackInit /\ DrainInit
         /\ LogInit /\ TrackerInit /\ GatewayInit
  BY DEF ServicesInit

\* A step of one service leaves the variables of the others alone.
LEMMA SupportStep ==
  ASSUME [ServicesNext]_servicesVars
  PROVE  /\ [PipelineNext]_pipelineVars
         /\ [NoticesStep \/ NoticesClock \/ NoticesRestart]_noticeVars
         /\ [MemoryNext]_memoryVars
         /\ [CopilotNext]_copilotVars
         /\ [IdentityNext]_identityVars
         /\ [RepliesNext]_repliesVars
<1> USE DEF accountantVars, conversationVars, supportVars
<1>1. CASE UNCHANGED supportVars
  BY <1>1
<1>2. CASE UNCHANGED servicesVars
  BY <1>2 DEF servicesVars
<1> QED  BY <1>1, <1>2 DEF ServicesNext, Follow

LEMMA MonitorStep ==
  ASSUME [ServicesNext]_servicesVars
  PROVE  /\ [DetectorNext]_detectorVars
         /\ [NotifierNext]_notifierVars
         /\ [RollbackStep \/ RollbackRestart]_rollbackVars
         /\ [DrainStep \/ DrainRestart]_drainVars
         /\ [LogStep \/ LogRestart]_logVars
         /\ [TrackerNext]_trackerVars
         /\ [GatewayStep \/ GatewayRestart]_gatewayVars
<1> USE DEF alertVars, ocppVars, monitorVars
<1>1. CASE UNCHANGED monitorVars
  BY <1>1
<1>2. CASE UNCHANGED servicesVars
  BY <1>2 DEF servicesVars
<1> QED  BY <1>1, <1>2 DEF ServicesNext, Follow

\* Whichever service a behaviour follows, every one of them does what it does by
\* itself: running them under one focus adds no behaviour to any.
THEOREM ServicesCompose ==
  ServicesSpec => /\ PipelineSpec /\ NoticesSpec /\ MemorySpec
                  /\ CopilotSpec /\ IdentitySpec /\ RepliesSpec
                  /\ DetectorSpec /\ NotifierSpec /\ RollbackSpec /\ DrainSpec
                  /\ LogSpec /\ TrackerSpec /\ GatewaySpec
<1>1. ServicesSpec => /\ PipelineSpec /\ NoticesSpec /\ MemorySpec
                      /\ CopilotSpec /\ IdentitySpec /\ RepliesSpec
  BY ServicesStart, SupportStep, PTL
  DEF ServicesSpec, PipelineSpec, NoticesSpec, MemorySpec, CopilotSpec, IdentitySpec,
      RepliesSpec
<1>2. ServicesSpec => /\ DetectorSpec /\ NotifierSpec /\ RollbackSpec /\ DrainSpec
                      /\ LogSpec /\ TrackerSpec /\ GatewaySpec
  BY ServicesStart, MonitorStep, PTL
  DEF ServicesSpec, DetectorSpec, NotifierSpec, RollbackSpec, DrainSpec, LogSpec,
      TrackerSpec, GatewaySpec
<1> QED  BY <1>1, <1>2

\* Every property that is checked of the services on the small instance holds for
\* any messages, months, conversations, stations, releases, batches, entries and
\* sockets, and any bounds on failures and restarts.
THEOREM ServicesKeepPromises ==
  ServicesSpec => /\ []OneOutlet /\ []OneAnswererInOrder
                  /\ []ClosedOnceInOrder /\ []NoticeYields /\ []AskedOncePerInterval
                  /\ HeldIsSilent /\ []FiledWhereFound /\ ShownOnce
                  /\ []SilencedByAnAlert /\ []AlertedOncePerWindow /\ []ToldOncePerWindow
                  /\ []OneAttemptPerWatch /\ []AckedIsStored
                  /\ []StoredAsProcessed /\ []SparedIsCharging /\ []InstanceIsTended
  BY ServicesCompose, OneOutletHolds, OneAnswererInOrderHolds, NoticesAreClosings,
     ClosedOnceInOrderHolds, NoticeYieldsHolds, AskedOncePerIntervalHolds,
     HeldIsSilentHolds, FiledWhereFoundHolds, ShownOnceHolds, SilencedByAnAlertHolds,
     AlertedOncePerWindowHolds, ToldOncePerWindowHolds, OneAttemptPerWatchHolds,
     AckedIsStoredHolds, StoredAsProcessedHolds, SparedIsChargingHolds,
     InstanceIsTendedHolds
=============================================================================
