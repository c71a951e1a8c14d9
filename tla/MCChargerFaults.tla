--------------------------- MODULE MCChargerFaults ---------------------------
(***************************************************************************)
(* ChargerFaults for TLC: the windows of the code scaled down, in their    *)
(* real order, so that a short clock crosses each of them.                 *)
(***************************************************************************)
EXTENDS ChargerFaults, TLC

CONSTANTS c1, c2

\* Two real connectors and rows that name none.
MCConnectors == {c1, c2, NoConnector}

\* Two tiers stand for the three of the code.
MCTiers == <<[after |-> 0, window |-> 1], [after |-> 1, window |-> 4]>>

Symmetry == Permutations(Ticks) \cup Permutations({c1, c2})
=============================================================================
