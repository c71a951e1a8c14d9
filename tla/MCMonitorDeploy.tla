--------------------------- MODULE MCMonitorDeploy ---------------------------
(***************************************************************************)
(* MonitorDeploy for TLC: what four commits contain.                       *)
(***************************************************************************)
EXTENDS MonitorDeploy

CONSTANTS copilot, engine, root

\* Commit 2 reverts what commit 1 did to the copilot and to the packages.
MCCode ==
  [k \in Sha |-> [s \in Services |->
     CASE s = copilot -> <<0, 1, 0, 2>>[k + 1]
       [] s = engine  -> <<0, 0, 1, 1>>[k + 1]
       [] s = Webhook -> <<0, 1, 1, 1>>[k + 1]]]

MCDeps == [k \in Sha |-> [p \in Packages |-> <<0, 1, 0, 0>>[k + 1]]]
=============================================================================
