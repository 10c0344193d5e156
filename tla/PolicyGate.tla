----------------------------- MODULE PolicyGate -----------------------------
(***************************************************************************)
(* Proposed actions and their human approval (agents/policy_gate, the      *)
(* action part of packages/runtime/openshell.py and of the policy file).   *)
(*                                                                         *)
(* A request reads the case, then its evidence, evaluates the policy and   *)
(* logs the verdict, and last writes the action record; an approval also   *)
(* read the record first.  Requests are HTTP handlers: they take no lock,  *)
(* and the case goes on being decided while they run.                      *)
(***************************************************************************)
EXTENDS Naturals, Sequences

CONSTANTS
    Types,          \* action types that can be asked for
    Policy,         \* declared types: [effect, blockedWhen, requires]
    EvidenceTypes,  \* evidence types the policy can require
    People,         \* who requests and approves
    NoOne,          \* the empty approver name
    Payloads,       \* what a proposal can carry
    Unset,          \* a key that the payload does not have
    Handlers,       \* concurrent requests
    MaxActions,     \* bound on action records
    MaxDecisions    \* no approval decision starts once so many are answered

Effects == {"allow", "deny", "require_approval"}
Decisions == {"ESCALATE", "HOLD", "CONDITIONAL_APPROVAL"}

\* The payload is a dictionary of the caller's.  Of its keys the policy reads
\* these, and a tier and a path: outside are the types whose constraints the
\* tier or the path of the payload fails.
PayloadType ==
    [approvedBy : People \cup {NoOne, Unset},
     caseDecision : Decisions \cup {"none", Unset},
     evidenceTypes : (SUBSET EvidenceTypes) \cup {Unset},
     outside : SUBSET Types]
Empty == [approvedBy |-> Unset, caseDecision |-> Unset, evidenceTypes |-> Unset,
          outside |-> {}]

ASSUME PolicyAssumption ==
    /\ DOMAIN Policy \subseteq Types
    /\ \A t \in DOMAIN Policy :
          Policy[t] \in [effect : Effects, blockedWhen : SUBSET Decisions,
                         requires : SUBSET EvidenceTypes]
    /\ NoOne \notin People /\ Unset \notin People \cup {NoOne}
    /\ Payloads \subseteq PayloadType
    /\ MaxActions \in Nat /\ MaxDecisions \in Nat

VARIABLES
    decision,    \* CASES decision
    evidence,    \* the evidence types present for the case
    actions,     \* ACTIONS: a sequence of [type, payload, status, approvedBy, audit]
    policyLog,   \* POLICY_LOG entries [subject, type, effect]
    handler,     \* handler[h]: the request it serves and what it has read
    decided      \* decided[a]: people whose decision on a was answered (history)

vars == <<decision, evidence, actions, policyLog, handler, decided>>

Free == [pc |-> "free", kind |-> "none", type |-> "none", payload |-> Empty,
         by |-> NoOne, action |-> 0, audit |-> <<>>, seen |-> "ESCALATE", effect |-> "deny"]

ActionIds == 1..MaxActions

Init ==
    /\ decision = "ESCALATE" /\ evidence = {}
    /\ actions = <<>> /\ policyLog = {}
    /\ handler = [h \in Handlers |-> Free]
    /\ decided = <<>>

-----------------------------------------------------------------------------
\* The commander decides again, or a specialist writes evidence.
CaseMoves ==
    /\ \/ decision' \in Decisions /\ UNCHANGED evidence
       \/ \E t \in EvidenceTypes : evidence' = evidence \cup {t} /\ UNCHANGED decision
    /\ UNCHANGED <<actions, policyLog, handler, decided>>

DefaultEffect == "deny"

\* evaluate_action: undeclared is denied; then the case decision, the evidence
\* and the payload's tier and path; then the declared effect, which a named
\* approver turns to allow.
EvaluateAction(type, context) ==
    IF type \notin DOMAIN Policy THEN DefaultEffect
    ELSE IF \/ context.caseDecision \in Policy[type].blockedWhen
            \/ ~(Policy[type].requires \subseteq context.evidenceTypes)
            \/ type \in context.outside
         THEN "deny"
    ELSE IF Policy[type].effect = "require_approval" /\ context.approvedBy # NoOne
         THEN "allow"
    ELSE Policy[type].effect

ProposeAction(h, type, payload, by) ==
    /\ handler[h].pc = "free" /\ Len(actions) < MaxActions
    /\ handler' = [handler EXCEPT ![h] =
                     [Free EXCEPT !.pc = "case", !.kind = "propose",
                                  !.type = type, !.payload = payload, !.by = by]]
    /\ UNCHANGED <<decision, evidence, actions, policyLog, decided>>

\* decide_approval finds the record; a rejection asks nothing else.
DecideApproval(h, a, by, approve) ==
    /\ handler[h].pc = "free" /\ a \in DOMAIN actions
    /\ Len(decided) < MaxDecisions
    /\ handler' = [handler EXCEPT ![h] =
                     [Free EXCEPT !.pc = IF approve THEN "case" ELSE "write",
                                  !.kind = IF approve THEN "approve" ELSE "reject",
                                  !.type = actions[a].type,
                                  !.payload = actions[a].payload, !.by = by,
                                  !.action = a, !.audit = actions[a].audit]]
    /\ UNCHANGED <<decision, evidence, actions, policyLog, decided>>

ReadCase(h) ==
    /\ handler[h].pc = "case"
    /\ handler' = [handler EXCEPT ![h].pc = "evidence", ![h].seen = decision]
    /\ UNCHANGED <<decision, evidence, actions, policyLog, decided>>

\* A key of the payload replaces the one of the same name.
Over(given, own) == IF given = Unset THEN own ELSE given

\* What the policy is asked about: the case and, for an approval, who approves,
\* with the payload spread over them.
PolicyContext(req) ==
    [approvedBy |-> Over(req.payload.approvedBy,
                         IF req.kind = "approve" THEN req.by ELSE NoOne),
     caseDecision |-> Over(req.payload.caseDecision, req.seen),
     evidenceTypes |-> Over(req.payload.evidenceTypes, evidence),
     outside |-> req.payload.outside]

\* The evidence is read, the policy evaluated and the verdict logged.
Evaluate(h) ==
    LET req == handler[h]
        effect == EvaluateAction(req.type, PolicyContext(req))
    IN  /\ req.pc = "evidence"
        /\ handler' = [handler EXCEPT ![h].pc = "write", ![h].effect = effect]
        /\ policyLog' = policyLog \cup
              {[subject |-> req.by, type |-> req.type, effect |-> effect]}
        /\ UNCHANGED <<decision, evidence, actions, decided>>

\* Mutant: the effect is stored as the status.
ProposedStatusRaw(effect) == effect

ProposedStatus(effect) ==
    CASE effect = "allow" -> "APPROVED"
      [] effect = "deny" -> "BLOCKED"
      [] effect = "require_approval" -> "AWAITING_APPROVAL"

InsertAction(h) ==
    LET req == handler[h]
    IN  /\ req.pc = "write" /\ req.kind = "propose" /\ Len(actions) < MaxActions
        /\ actions' = Append(actions,
              [type |-> req.type, payload |-> req.payload,
               status |-> ProposedStatus(req.effect), approvedBy |-> NoOne,
               audit |-> <<[by |-> req.by, event |-> "proposed"]>>])
        /\ handler' = [handler EXCEPT ![h] = Free]
        /\ UNCHANGED <<decision, evidence, policyLog, decided>>

\* Mutant: the first approver stays on the record.
FirstApprover(req, before) ==
    IF before = NoOne /\ req.kind = "approve" THEN req.by ELSE before

ApproverAfter(req, before) == IF req.kind = "approve" THEN req.by ELSE NoOne

\* Mutant: whatever is not denied is executed.
StatusUnlessDenied(req) ==
    IF req.kind # "approve" THEN "REJECTED"
    ELSE IF req.effect = "deny" THEN "BLOCKED" ELSE "EXECUTED"

StatusAfter(req) ==
    IF req.kind # "approve" THEN "REJECTED"
    ELSE IF req.effect = "allow" THEN "EXECUTED" ELSE "BLOCKED"

\* The record is overwritten whatever its status has become, with the audit
\* read at the start and one entry more.
UpdateAction(h) ==
    LET req == handler[h]
        record == actions[req.action]
        entry == [by |-> req.by, event |-> req.kind]
    IN  /\ req.pc = "write" /\ req.kind # "propose"
        /\ actions' = [actions EXCEPT ![req.action] =
              [record EXCEPT !.status = StatusAfter(req),
                             !.approvedBy = ApproverAfter(req, record.approvedBy),
                             !.audit = Append(req.audit, entry)]]
        /\ decided' = Append(decided, [action |-> req.action, entry |-> entry])
        /\ handler' = [handler EXCEPT ![h] = Free]
        /\ UNCHANGED <<decision, evidence, policyLog>>

\* The process dies with its requests; the case store keeps the rest.
Crash ==
    /\ handler' = [h \in Handlers |-> Free]
    /\ UNCHANGED <<decision, evidence, actions, policyLog, decided>>

Next ==
    \/ CaseMoves
    \/ \E h \in Handlers :
          \/ \E t \in Types, p \in Payloads, by \in People : ProposeAction(h, t, p, by)
          \/ \E a \in ActionIds, by \in People \cup {NoOne}, approve \in BOOLEAN :
                DecideApproval(h, a, by, approve)
          \/ ReadCase(h) \/ Evaluate(h) \/ InsertAction(h) \/ UpdateAction(h)
    \/ Crash

Spec == Init /\ [][Next]_vars

-----------------------------------------------------------------------------
ActionStatuses == {"BLOCKED", "AWAITING_APPROVAL", "APPROVED", "REJECTED", "EXECUTED"}
Entries == [by : People \cup {NoOne}, event : {"proposed", "approve", "reject"}]

ActionType == [type : Types, payload : PayloadType, status : ActionStatuses,
               approvedBy : People \cup {NoOne}, audit : Seq(Entries)]
RequestType == [pc : {"free", "case", "evidence", "write"},
                kind : {"none", "propose", "approve", "reject"},
                type : Types \cup {"none"}, payload : PayloadType, by : People \cup {NoOne},
                action : Nat, audit : Seq(Entries), seen : Decisions,
                effect : Effects]

TypeOK ==
    /\ decision \in Decisions /\ evidence \subseteq EvidenceTypes
    /\ actions \in Seq(ActionType)
    /\ policyLog \subseteq [subject : People \cup {NoOne}, type : Types,
                            effect : Effects]
    /\ handler \in [Handlers -> RequestType]
    /\ \A h \in Handlers :
          /\ handler[h].pc # "free" =>
                handler[h].type \in Types /\ handler[h].kind # "none"
          /\ handler[h].kind \in {"approve", "reject"}
                => handler[h].action \in DOMAIN actions
    /\ decided \in Seq([action : Nat, entry : Entries])

Refused(type) == type \notin DOMAIN Policy \/ Policy[type].effect = "deny"
NeedsApproval(type) ==
    type \in DOMAIN Policy /\ Policy[type].effect = "require_approval"

LastEntry(action) == action.audit[Len(action.audit)]

RunsLogged(action) ==
    action.status \in {"APPROVED", "EXECUTED"} =>
        /\ ~Refused(action.type)
        /\ [subject |-> LastEntry(action).by, type |-> action.type,
            effect |-> "allow"] \in policyLog
        /\ (NeedsApproval(action.type) /\ action.payload.approvedBy \notin People) =>
              /\ action.payload.approvedBy = Unset
              /\ action.status = "EXECUTED"
              /\ action.approvedBy \in People

\* Whatever requests overlap and whichever process dies, an action the policy
\* refuses never runs; one that runs was allowed to the person of its last
\* audit entry, and the policy log shows it; and one that needs an approval
\* runs only if a named person approved it or its own payload names an
\* approver.  (propose_action, decide_approval, evaluate_action.)
RunsOnlyIfLogged == \A a \in DOMAIN actions : RunsLogged(actions[a])

Explained(action) ==
    LET last == LastEntry(action)
    IN  /\ last.event = "proposed" <=>
              action.status \in {"AWAITING_APPROVAL", "APPROVED"}
              \/ (action.status = "BLOCKED" /\ Len(action.audit) = 1)
        /\ last.event = "reject" <=> action.status = "REJECTED"
        /\ last.event = "approve" => action.approvedBy = last.by

\* The last entry of the audit trail explains the status of the record, even
\* when two decisions on it overlap: approved and rejected are never mixed.
\* (decide_approval writes both in one update.)
AuditExplainsStatus == \A a \in DOMAIN actions : Explained(actions[a])

-----------------------------------------------------------------------------
(* What the documentation says and the code does not keep. *)

\* "Requires a named human approver before a lift clearance can be issued":
\* what needs an approval runs only for a person on its record.  (A payload
\* with approvedBy has it APPROVED by its proposal.)
NamedApprover ==
    \A a \in DOMAIN actions :
        (NeedsApproval(actions[a].type) /\ actions[a].status \in {"APPROVED", "EXECUTED"})
            => actions[a].approvedBy \in People

\* "refused outright while the case decision is HOLD or ESCALATE": no step
\* executes an action while the decision of the case forbids it.
RefusedWhileBlocked ==
    [][\A a \in DOMAIN actions :
          (actions'[a].status = "EXECUTED" /\ actions[a].status # "EXECUTED")
              => decision \notin Policy[actions[a].type].blockedWhen]_vars

\* "The Policy Gate creates an auditable proposed action": every decision
\* that was answered is in the audit trail of its action.
DecisionsAudited ==
    \A i \in DOMAIN decided :
        \E j \in DOMAIN actions[decided[i].action].audit :
            actions[decided[i].action].audit[j] = decided[i].entry
=============================================================================
