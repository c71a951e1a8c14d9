------------------------ MODULE MCStationInvestigator ------------------------
(***************************************************************************)
(* StationInvestigator for TLC.  A behaviour is of one of two scenes: two  *)
(* webhook requests and the sweep work on one message, or two messages     *)
(* compete for the slots of the day, one request at a time, in a           *)
(* conversation nobody takes over and with no answer fit to be sent.       *)
(***************************************************************************)
EXTENDS StationInvestigator, TLC

VARIABLE scene

OneMessage == CHOOSE m \in Messages : TRUE
OneHandler == CHOOSE h \in Handlers : TRUE

SceneInit == Init /\ scene \in {"message", "limit"}

InScene ==
  /\ scene = "message" => \A p \in Workers : Msg(p)' \in {OneMessage, NoMessage}
  /\ scene = "limit" => /\ \A h \in Handlers \ {OneHandler} : worker'[h] = Idle
                        /\ ~human' /\ wire' = wire

SceneSpec ==
  /\ SceneInit
  /\ [][Next /\ InScene /\ UNCHANGED scene]_<<vars, scene>>
  /\ Fairness
=============================================================================
