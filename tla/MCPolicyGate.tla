---------------------------- MODULE MCPolicyGate ----------------------------
(* The type that needs an approval, as declared in                           *)
(* config/openshell-policy.yaml, and a type it does not declare, which the   *)
(* policy refuses as it does one declared with deny.  A proposal carries     *)
(* nothing, all that the policy asks about, or an empty approver name and a  *)
(* path that may not be exported.                                            *)
EXTENDS PolicyGate, TLC

Entry(effect, blockedWhen, requires) ==
    [effect |-> effect, blockedWhen |-> blockedWhen, requires |-> requires]

MCPolicy ==
    [t \in {"issue_lift_clearance"} |->
        Entry("require_approval", {"HOLD", "ESCALATE"}, {"policy_evidence"})]
MCTypes == DOMAIN MCPolicy \cup {"undeclared"}
MCPayloads ==
    {Empty,
     [approvedBy |-> "ana", caseDecision |-> "none",
      evidenceTypes |-> {"policy_evidence"}, outside |-> {}],
     [Empty EXCEPT !.approvedBy = NoOne, !.outside = MCTypes]}
Symmetric == Permutations(Handlers)
=============================================================================
