--------------------------- MODULE MCCaseEvidence ---------------------------
(* A small case: one limited kind and one site sensor, one worker, one     *)
(* zone, two documents that state rules.                                   *)
EXTENDS CaseEvidence, TLC

MCSiteRule == [k \in SiteKinds |-> [dir |-> "min", limit |-> 1]]
Symmetric == Permutations(Documents)
=============================================================================
