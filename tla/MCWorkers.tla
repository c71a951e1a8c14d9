----------------------------- MODULE MCWorkers -----------------------------
(***************************************************************************)
(* Workers for TLC.                                                        *)
(***************************************************************************)
EXTENDS Workers, TLC
=============================================================================
