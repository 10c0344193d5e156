------------------------------ MODULE MCAlerts ------------------------------
(* Two workers, so that one can acknowledge while the other is escalated.   *)
EXTENDS Alerts

CONSTANTS w1, w2

MCWorkers == {w1, w2}
=============================================================================
