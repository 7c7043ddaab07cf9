------------------------------ MODULE MCAlerts ------------------------------
(***************************************************************************)
(* Instances of Alerts for TLC.                                            *)
(***************************************************************************)
EXTENDS Alerts, TLC

CONSTANT a1

Cooldown1 == (a1 :> 1)
Below1 == (a1 :> "lt")
=============================================================================
