------------------------------- MODULE Workers -------------------------------
(***************************************************************************)
(* Six workers that owe an end to what they are given: the financial       *)
(* approvals, the jobs of the Contador and the partner assistant, which    *)
(* are timers of the support copilot; the nightly sweep, a process of its  *)
(* own; and the two of mobile telemetry, the demand map and the retention. *)
(* Their rows lie in different tables and files.  A behaviour of this      *)
(* module follows one of them (focus), over the restarts of its process,   *)
(* while the others stand still.                                           *)
(***************************************************************************)
EXTENDS FinancialApproval, ContadorJobs, PartnerAssistant, SweepOrchestrator,
        HeatmapQueries, Retention

CONSTANTS
  Mentions,     \* bound: the messages the partner assistant may be asked about
  MaxRestarts   \* bound: restarts of the process

ASSUME WorkersAssumption == Mentions \subseteq Messages /\ MaxRestarts \in Nat

VARIABLES
  focus,    \* the worker this behaviour follows
  restarts

supportVars == <<approvalVars, contadorVars, partnerVars>>
telemetryVars == <<heatmapVars, retentionVars>>
workersVars == <<focus, restarts, supportVars, sweepVars, telemetryVars>>

-----------------------------------------------------------------------------
\* What is open at the start of a worker that is not followed is fixed.
Fixed(name, choice) == focus = name \/ choice

WorkersInit ==
  /\ focus \in {"approval", "contador", "partner", "sweep", "heatmap", "retention"}
  /\ restarts = 0
  /\ ApprovalInit
  /\ Fixed("approval", ~approval.on /\ approval.operator = CHOOSE o \in Operators : TRUE)
  /\ ContadorInit /\ Fixed("contador", ~contadorOn)
  /\ PartnerInit /\ Fixed("partner", ~human)
  /\ SweepInit
  /\ HeatmapInit /\ Fixed("heatmap", keyOf = [q \in Requests |-> CHOOSE k \in Keys : TRUE])
  /\ RetentionInit /\ Fixed("retention", indexed)

\* What a worker does, or a restart of its process.
Runs(name, work, restart) ==
  /\ focus = name /\ UNCHANGED focus
  /\ \/ work /\ UNCHANGED restarts
     \/ restarts < MaxRestarts /\ restart /\ restarts' = restarts + 1

WorkersNext ==
  \/ /\ Runs("approval",
             ApprovalStep \/ \E r \in Messages, known \in BOOLEAN : Propose(r, known),
             ApprovalRestart)
     /\ UNCHANGED <<contadorVars, partnerVars, sweepVars, telemetryVars>>
  \/ /\ Runs("contador",
             ContadorStep \/ \E m \in Messages, kind \in {"image", "other"} :
                               Enqueue(m, kind) \/ Defer(m, kind),
             ContadorRestart)
     /\ UNCHANGED <<approvalVars, partnerVars, sweepVars, telemetryVars>>
  \/ /\ Runs("partner",
             PartnerStep \/ \E m \in Mentions, auto \in BOOLEAN : ClaimPartner(m, auto),
             PartnerRestart)
     /\ UNCHANGED <<approvalVars, contadorVars, sweepVars, telemetryVars>>
  \/ /\ Runs("sweep", SweepStep \/ GitHubStep, SweepKilled)
     /\ UNCHANGED <<supportVars, telemetryVars>>
  \/ /\ Runs("heatmap", HeatmapStep, HeatmapRestart)
     /\ UNCHANGED <<supportVars, sweepVars, retentionVars>>
  \/ /\ Runs("retention", RetentionStep, RetentionRestart)
     /\ UNCHANGED <<supportVars, sweepVars, heatmapVars>>

\* Each worker goes on while it has work, and time passes for the rows that wait
\* for it.  Nothing is asked of the thread that answers the queries of the demand
\* map: it may be stuck.
WorkersFairness ==
  /\ WF_approvalVars(focus = "approval" /\ ApprovalWork)
  /\ WF_approvalVars(focus = "approval" /\ \E r \in Messages : ApprovalClock(r))
  /\ WF_contadorVars(focus = "contador" /\ ContadorWork)
  /\ \A m \in Messages : WF_contadorVars(focus = "contador" /\ JobFallsDue(m))
  /\ WF_partnerVars(focus = "partner" /\ \E m \in Messages : PartnerWork(m) \/ PartnerClock(m))
  /\ WF_sweepVars(focus = "sweep" /\ SweepWork)
  /\ WF_heatmapVars(focus = "heatmap" /\ HeatmapClock)
  /\ WF_heatmapVars(focus = "heatmap" /\ DeadlinePasses)
  /\ WF_retentionVars(focus = "retention" /\ (StartRetention \/ RetentionWork))
  /\ WF_retentionVars(focus = "retention" /\ (HandleReport \/ HandleExit))

WorkersSpec == WorkersInit /\ [][WorkersNext]_workersVars /\ WorkersFairness
=============================================================================
