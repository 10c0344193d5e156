---------------------------- MODULE MCFreshness ----------------------------
(* One source; NoFaults is for instances with more of them.                 *)
EXTENDS Freshness

Faults(crash, evidence, commander, reset) ==
    [f \in FaultKinds |-> CASE f = "crash" -> crash
                            [] f = "evidence" -> evidence
                            [] f = "commander" -> commander
                            [] f = "reset" -> reset]
NoFaults == Faults(0, 0, 0, 0)
AnyFault == Faults(1, 1, 1, 1)
=============================================================================
