--------------------------- MODULE MCAlertDelivery ---------------------------
(***************************************************************************)
(* AlertDelivery for TLC.  A behaviour follows (focus) either all alerts   *)
(* through ticks of one slot, over a restart, or one alert through ticks   *)
(* that overlap.                                                           *)
(***************************************************************************)
EXTENDS AlertDelivery, TLC

CONSTANTS OneTick, OneAlert  \* bounds: the slot, or the alert, that is followed

VARIABLE focus

InFocus ==
  IF focus = "alerts" THEN \A t \in Ticks \ {OneTick} : tick'[t] = Idle
  ELSE detected' \subseteq {OneAlert} /\ crashes' = 0

FocusedInit == Init /\ focus \in {"alerts", "ticks"}

FocusedSpec ==
  /\ FocusedInit
  /\ [][Next /\ InFocus /\ UNCHANGED focus]_<<vars, focus>>
  /\ \A t \in Ticks : WF_vars(TickStep(t) /\ InFocus)
  /\ \A m \in MsgId : WF_vars(Deliver(m))
=============================================================================
