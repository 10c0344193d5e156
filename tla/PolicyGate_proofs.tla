-------------------------- MODULE PolicyGate_proofs --------------------------
(***************************************************************************)
(* Proofs about what leaves the system: proposed actions (PolicyGate), for *)
(* every policy, every set of people and any number of requests and        *)
(* records; and alerts to workers (Alerts), for any number of alerts,      *)
(* sweeps and acknowledgements.                                            *)
(***************************************************************************)
EXTENDS PolicyGate, Alerts, TLAPS

\* The steps of Next.  (Next is expanded here once.)
LEMMA NextRequests ==
    ASSUME Next
    PROVE  \/ CaseMoves
           \/ \E h \in Handlers, t \in Types, p \in Payloads, by \in People :
                 ProposeAction(h, t, p, by)
           \/ \E h \in Handlers, a \in ActionIds, by \in People \cup {NoOne},
                 approve \in BOOLEAN : DecideApproval(h, a, by, approve)
           \/ \E h \in Handlers : ReadCase(h)
           \/ \E h \in Handlers : Evaluate(h)
           \/ \E h \in Handlers : InsertAction(h)
           \/ \E h \in Handlers : UpdateAction(h)
           \/ Crash
BY DEF Next

\* The policy answers with one of its effects.
LEMMA EvaluateType ==
    ASSUME NEW type, NEW context
    PROVE  EvaluateAction(type, context) \in Effects
<1>1. \A t \in DOMAIN Policy : Policy[t].effect \in Effects
  BY PolicyAssumption
<1> QED
  BY <1>1 DEF EvaluateAction, DefaultEffect, Effects

\* What it allows is not refused, and what needs an approval is allowed for a
\* named approver only.
LEMMA AllowedMeans ==
    ASSUME NEW type, NEW context, EvaluateAction(type, context) = "allow"
    PROVE  ~Refused(type) /\ (NeedsApproval(type) => context.approvedBy # NoOne)
BY PolicyAssumption DEF EvaluateAction, DefaultEffect, Refused, NeedsApproval

LEMMA FreeType == Free \in RequestType
<1>1. Empty \in PayloadType
  BY DEF Empty, PayloadType
<1> QED
  BY <1>1 DEF Free, RequestType, Decisions, Effects

\* A record is only ever added at the end or replaced in place.
LEMMA Appended ==
    ASSUME NEW T, NEW s \in Seq(T), NEW e \in T
    PROVE  /\ Append(s, e) \in Seq(T) /\ Len(Append(s, e)) = Len(s) + 1
           /\ DOMAIN Append(s, e) = 1..(Len(s) + 1)
           /\ DOMAIN s \subseteq DOMAIN Append(s, e)
           /\ Append(s, e)[Len(s) + 1] = e
           /\ \A i \in DOMAIN s : Append(s, e)[i] = s[i]
OBVIOUS

-----------------------------------------------------------------------------
\* The record an insert adds.
Inserted(req) ==
    [type |-> req.type, payload |-> req.payload,
     status |-> ProposedStatus(req.effect), approvedBy |-> NoOne,
     audit |-> <<[by |-> req.by, event |-> "proposed"]>>]

LEMMA ProposedStatuses ==
    ASSUME NEW effect \in Effects
    PROVE  /\ ProposedStatus(effect) \in ActionStatuses
           /\ ProposedStatus(effect) \in {"APPROVED", "BLOCKED", "AWAITING_APPROVAL"}
           /\ ProposedStatus(effect) = "APPROVED" <=> effect = "allow"
<1>1. CASE effect = "allow"
  BY <1>1 DEF ProposedStatus, ActionStatuses
<1>2. CASE effect = "deny"
  BY <1>2 DEF ProposedStatus, ActionStatuses
<1>3. CASE effect = "require_approval"
  BY <1>3 DEF ProposedStatus, ActionStatuses
<1> QED
  BY <1>1, <1>2, <1>3 DEF Effects

LEMMA InsertedType ==
    ASSUME TypeOK, NEW h \in Handlers, handler[h].pc = "write"
    PROVE  Inserted(handler[h]) \in ActionType
<1> DEFINE req == handler[h]
<1>1. req \in RequestType /\ req.type \in Types /\ req.payload \in PayloadType
  BY DEF TypeOK, RequestType
<1>2. ProposedStatus(req.effect) \in ActionStatuses
  BY <1>1, ProposedStatuses DEF RequestType
<1>3. <<[by |-> req.by, event |-> "proposed"]>> \in Seq(Entries)
  BY <1>1 DEF RequestType, Entries
<1> QED
  BY <1>1, <1>2, <1>3 DEF Inserted, ActionType

\* The record an update leaves in the place of another.
Entry(req) == [by |-> req.by, event |-> req.kind]

LEMMA Updated ==
    ASSUME TypeOK, NEW h \in Handlers, UpdateAction(h)
    PROVE  LET req == handler[h]
               a == req.action
           IN  /\ a \in DOMAIN actions /\ Entry(req) \in Entries
               /\ actions' \in Seq(ActionType) /\ DOMAIN actions' = DOMAIN actions
               /\ actions'[a].type = actions[a].type
               /\ actions'[a].payload = actions[a].payload
               /\ actions'[a].status = StatusAfter(req)
               /\ actions'[a].approvedBy = IF req.kind = "approve" THEN req.by ELSE NoOne
               /\ actions'[a].audit = Append(req.audit, Entry(req))
               /\ \A b \in DOMAIN actions : b # a => actions'[b] = actions[b]
<1> DEFINE req == handler[h]
           a == req.action
           record == actions[a]
           new == [record EXCEPT !.status = StatusAfter(req),
                                 !.approvedBy = ApproverAfter(req, record.approvedBy),
                                 !.audit = Append(req.audit, Entry(req))]
<1>1. req \in RequestType /\ req.kind \in {"approve", "reject"}
  BY DEF TypeOK, RequestType, UpdateAction
<1>2. actions \in Seq(ActionType) /\ a \in DOMAIN actions /\ record \in ActionType
  BY <1>1 DEF TypeOK
<1>3. actions' = [actions EXCEPT ![a] = new]
  BY DEF UpdateAction, Entry
<1>4. Entry(req) \in Entries /\ Append(req.audit, Entry(req)) \in Seq(Entries)
  BY <1>1 DEF RequestType, Entries, Entry
<1>5. StatusAfter(req) \in ActionStatuses
  BY DEF StatusAfter, ActionStatuses
<1>6. ApproverAfter(req, record.approvedBy) \in People \cup {NoOne}
  BY <1>1 DEF ApproverAfter, RequestType
<1>7. new \in ActionType
  BY <1>2, <1>4, <1>5, <1>6 DEF ActionType
<1>8. /\ new.type = record.type /\ new.payload = record.payload /\ new.status = StatusAfter(req)
      /\ new.approvedBy = ApproverAfter(req, record.approvedBy)
      /\ new.audit = Append(req.audit, Entry(req))
  BY <1>2 DEF ActionType
<1>9. /\ actions' \in Seq(ActionType) /\ DOMAIN actions' = DOMAIN actions
      /\ actions'[a] = new /\ \A b \in DOMAIN actions : b # a => actions'[b] = actions[b]
  BY <1>2, <1>3, <1>7
<1> QED
  BY <1>2, <1>4, <1>8, <1>9 DEF ApproverAfter

-----------------------------------------------------------------------------
LEMMA TypeInit == Init => TypeOK
BY FreeType DEF Init, TypeOK, Decisions, Free

\* A step that only moves one request.
LEMMA OneRequest ==
    ASSUME TypeOK, NEW h \in Handlers, NEW new \in RequestType,
           handler' = [handler EXCEPT ![h] = new],
           new.pc # "free" => new.type \in Types /\ new.kind # "none",
           new.kind \in {"approve", "reject"} => new.action \in DOMAIN actions',
           DOMAIN actions \subseteq DOMAIN actions'
    PROVE  /\ handler' \in [Handlers -> RequestType]
           /\ \A g \in Handlers :
                 /\ handler'[g].pc # "free" =>
                       handler'[g].type \in Types /\ handler'[g].kind # "none"
                 /\ handler'[g].kind \in {"approve", "reject"}
                       => handler'[g].action \in DOMAIN actions'
           /\ handler'[h] = new
           /\ \A g \in Handlers : g # h => handler'[g] = handler[g]
BY DEF TypeOK

\* Becoming free is such a step.
LEMMA OneFreed ==
    ASSUME TypeOK, NEW h \in Handlers,
           handler' = [handler EXCEPT ![h] = Free],
           DOMAIN actions \subseteq DOMAIN actions'
    PROVE  /\ handler' \in [Handlers -> RequestType]
           /\ \A g \in Handlers :
                 /\ handler'[g].pc # "free" =>
                       handler'[g].type \in Types /\ handler'[g].kind # "none"
                 /\ handler'[g].kind \in {"approve", "reject"}
                       => handler'[g].action \in DOMAIN actions'
           /\ handler'[h] = Free
           /\ \A g \in Handlers : g # h => handler'[g] = handler[g]
<1>1. Free.pc = "free" /\ Free.kind = "none"
  BY DEF Free
<1> QED
  BY <1>1, FreeType, OneRequest

LEMMA TypeStep == TypeOK /\ [Next]_vars => TypeOK'
<1> SUFFICES ASSUME TypeOK, [Next]_vars
             PROVE  TypeOK'
  OBVIOUS
<1>1. CASE UNCHANGED vars
  BY <1>1 DEF vars, TypeOK
<1>2. CASE CaseMoves
  BY <1>2 DEF CaseMoves, TypeOK
<1>3. ASSUME NEW h \in Handlers, NEW t \in Types, NEW p \in Payloads, NEW by \in People,
             ProposeAction(h, t, p, by)
      PROVE  TypeOK'
  <2> DEFINE new == [Free EXCEPT !.pc = "case", !.kind = "propose", !.type = t,
                                 !.payload = p, !.by = by]
  <2>0. p \in PayloadType
    BY PolicyAssumption
  <2>1. /\ new \in RequestType /\ new.type \in Types
        /\ new.kind = "propose"
    BY <2>0, FreeType DEF RequestType
  <2>2. handler' = [handler EXCEPT ![h] = new] /\ actions' = actions
    BY <1>3 DEF ProposeAction
  <2> QED
    BY <1>3, <2>1, <2>2, OneRequest DEF ProposeAction, TypeOK
<1>4. ASSUME NEW h \in Handlers, NEW a \in ActionIds, NEW by \in People \cup {NoOne},
             NEW approve \in BOOLEAN, DecideApproval(h, a, by, approve)
      PROVE  TypeOK'
  <2> DEFINE new == [Free EXCEPT !.pc = IF approve THEN "case" ELSE "write",
                                 !.kind = IF approve THEN "approve" ELSE "reject",
                                 !.type = actions[a].type,
                                 !.payload = actions[a].payload, !.by = by,
                                 !.action = a, !.audit = actions[a].audit]
  <2>1. a \in DOMAIN actions /\ a \in Nat /\ actions[a] \in ActionType
    BY <1>4 DEF DecideApproval, TypeOK, ActionIds
  <2>2. /\ actions[a].type \in Types /\ actions[a].audit \in Seq(Entries)
        /\ actions[a].payload \in PayloadType
    BY <2>1 DEF ActionType
  <2>3. /\ new \in RequestType /\ new.type \in Types
        /\ new.kind \in {"approve", "reject"} /\ new.action = a
    BY <2>1, <2>2, FreeType DEF RequestType
  <2>4. handler' = [handler EXCEPT ![h] = new] /\ actions' = actions
    BY <1>4 DEF DecideApproval
  <2> QED
    BY <1>4, <2>1, <2>3, <2>4, OneRequest DEF DecideApproval, TypeOK
<1>5. ASSUME NEW h \in Handlers, ReadCase(h)
      PROVE  TypeOK'
  <2> DEFINE new == [handler[h] EXCEPT !.pc = "evidence", !.seen = decision]
  <2>1. handler[h] \in RequestType /\ handler[h].pc = "case"
    BY <1>5 DEF ReadCase, TypeOK
  <2>2. /\ new \in RequestType /\ new.type = handler[h].type
        /\ new.kind = handler[h].kind /\ new.action = handler[h].action
    BY <2>1 DEF RequestType, TypeOK
  <2>3. handler' = [handler EXCEPT ![h] = new] /\ actions' = actions
    BY <1>5 DEF ReadCase, TypeOK
  <2>4. /\ handler[h].type \in Types /\ handler[h].kind # "none"
        /\ handler[h].kind \in {"approve", "reject"} => handler[h].action \in DOMAIN actions
    BY <2>1 DEF TypeOK
  <2> QED
    BY <1>5, <2>2, <2>3, <2>4, OneRequest DEF ReadCase, TypeOK
<1>6. ASSUME NEW h \in Handlers, Evaluate(h)
      PROVE  TypeOK'
  <2> DEFINE req == handler[h]
             effect == EvaluateAction(req.type, PolicyContext(req))
             new == [req EXCEPT !.pc = "write", !.effect = effect]
  <2>1. req \in RequestType /\ req.pc = "evidence" /\ effect \in Effects
    BY <1>6, EvaluateType DEF Evaluate, TypeOK
  <2>2. /\ new \in RequestType /\ new.type = req.type
        /\ new.kind = req.kind /\ new.action = req.action
    BY <2>1 DEF RequestType
  <2>3. handler' = [handler EXCEPT ![h] = new] /\ actions' = actions
    BY <1>6 DEF Evaluate, TypeOK
  <2>4. /\ req.type \in Types /\ req.kind # "none" /\ req.by \in People \cup {NoOne}
        /\ req.kind \in {"approve", "reject"} => req.action \in DOMAIN actions
    BY <2>1 DEF TypeOK, RequestType
  <2>5. policyLog' \subseteq [subject : People \cup {NoOne}, type : Types, effect : Effects]
    BY <1>6, <2>1, <2>4 DEF Evaluate, TypeOK
  <2> QED
    BY <1>6, <2>2, <2>3, <2>4, <2>5, OneRequest DEF Evaluate, TypeOK
<1>7. ASSUME NEW h \in Handlers, InsertAction(h)
      PROVE  TypeOK'
  <2>1. actions' = Append(actions, Inserted(handler[h])) /\ Inserted(handler[h]) \in ActionType
    BY <1>7, InsertedType DEF InsertAction, Inserted
  <2>2. actions' \in Seq(ActionType) /\ DOMAIN actions \subseteq DOMAIN actions'
    BY <2>1, Appended DEF TypeOK
  <2> QED
    BY <1>7, <2>2, OneFreed DEF InsertAction, TypeOK
<1>8. ASSUME NEW h \in Handlers, UpdateAction(h)
      PROVE  TypeOK'
  <2>1. /\ actions' \in Seq(ActionType) /\ DOMAIN actions' = DOMAIN actions
        /\ Entry(handler[h]) \in Entries
    BY <1>8, Updated
  <2>2. handler[h].action \in Nat
    BY DEF TypeOK, RequestType
  <2>3. decided' \in Seq([action : Nat, entry : Entries])
    BY <1>8, <2>1, <2>2 DEF UpdateAction, TypeOK, Entry
  <2> QED
    BY <1>8, <2>1, <2>3, OneFreed DEF UpdateAction, TypeOK
<1>9. CASE Crash
  <2>1. Free.pc = "free" /\ Free.kind = "none"
    BY DEF Free
  <2> QED
    BY <1>9, <2>1, FreeType DEF Crash, TypeOK
<1> QED
  BY <1>1, <1>2, <1>3, <1>4, <1>5, <1>6, <1>7, <1>8, <1>9, NextRequests

\* Type correctness: requests, records and log entries keep their shapes, and
\* an approval works on a record that exists.
THEOREM TypeCorrect == Spec => []TypeOK
BY TypeInit, TypeStep, PTL DEF Spec

-----------------------------------------------------------------------------
\* What a request has established by the time it writes: an approval works on
\* the type and payload of its record and has read its audit, and what was
\* allowed was logged, for a named person where the payload names none and an
\* approval is needed.
Established(req) ==
    /\ req.pc \in {"case", "evidence"} => req.kind \in {"propose", "approve"}
    /\ req.kind \in {"approve", "reject"} =>
          /\ req.type = actions[req.action].type
          /\ req.payload = actions[req.action].payload
          /\ req.audit # <<>>
    /\ (req.pc = "write" /\ req.kind # "reject" /\ req.effect = "allow") =>
          /\ ~Refused(req.type)
          /\ [subject |-> req.by, type |-> req.type, effect |-> "allow"] \in policyLog
          /\ (NeedsApproval(req.type) /\ req.payload.approvedBy \notin People) =>
                /\ req.payload.approvedBy = Unset
                /\ req.kind = "approve" /\ req.by \in People

Sound(action) == action.audit # <<>> /\ RunsLogged(action) /\ Explained(action)

IInv ==
    /\ TypeOK
    /\ \A h \in Handlers : Established(handler[h])
    /\ \A a \in DOMAIN actions : Sound(actions[a])

LEMMA IInvInit == Init => IInv
BY TypeInit DEF Init, IInv, Established, Free

\* A request that does not move keeps what it has established: types of
\* records do not change and log entries stay.
LEMMA OthersEstablished ==
    ASSUME IInv, NEW h \in Handlers, handler'[h] = handler[h],
           policyLog \subseteq policyLog',
           \A a \in DOMAIN actions : /\ actions'[a].type = actions[a].type
                                     /\ actions'[a].payload = actions[a].payload
    PROVE  Established(handler[h])'
<1>1. Established(handler[h])
  BY DEF IInv
<1>2. handler[h].kind \in {"approve", "reject"} => handler[h].action \in DOMAIN actions
  BY DEF IInv, TypeOK
<1> QED
  BY <1>1, <1>2 DEF Established, Refused, NeedsApproval

\* A record that is not written stays sound.
LEMMA OthersSound ==
    ASSUME IInv, NEW a \in DOMAIN actions, actions'[a] = actions[a],
           policyLog \subseteq policyLog'
    PROVE  Sound(actions[a])'
<1>1. Sound(actions[a])
  BY DEF IInv
<1> QED
  BY <1>1 DEF Sound, RunsLogged, Explained, LastEntry, Refused, NeedsApproval

\* A step of one request that writes no record.
LEMMA NoRecordWritten ==
    ASSUME IInv, TypeOK', NEW h \in Handlers, actions' = actions,
           policyLog \subseteq policyLog',
           \A g \in Handlers : g # h => handler'[g] = handler[g],
           Established(handler[h])'
    PROVE  IInv'
<1>1. \A g \in Handlers : Established(handler[g])'
  BY OthersEstablished
<1>2. \A a \in DOMAIN actions : Sound(actions[a])'
  BY OthersSound
<1> QED
  BY <1>1, <1>2 DEF IInv

\* A request that ends has nothing to establish.
LEMMA FreedEstablished ==
    ASSUME NEW h \in Handlers, handler'[h] = Free
    PROVE  Established(handler[h])'
BY DEF Established, Free

-----------------------------------------------------------------------------
LEMMA ProposeStep ==
    ASSUME IInv, TypeOK', NEW h \in Handlers, NEW t \in Types, NEW p \in Payloads,
           NEW by \in People, ProposeAction(h, t, p, by)
    PROVE  IInv'
<1> DEFINE new == [Free EXCEPT !.pc = "case", !.kind = "propose", !.type = t,
                               !.payload = p, !.by = by]
<1>1. handler' = [handler EXCEPT ![h] = new] /\ UNCHANGED <<actions, policyLog>>
  BY DEF ProposeAction
<1>2. handler'[h] = new /\ \A g \in Handlers : g # h => handler'[g] = handler[g]
  BY <1>1 DEF IInv, TypeOK
<1>3. new.pc = "case" /\ new.kind = "propose"
  BY DEF Free
<1>4. Established(handler[h])'
  BY <1>2, <1>3 DEF Established
<1> QED
  BY <1>1, <1>2, <1>4, NoRecordWritten

\* An approval takes type, payload and audit from the record it found.
LEMMA DecideStep ==
    ASSUME IInv, TypeOK', NEW h \in Handlers, NEW a \in ActionIds,
           NEW by \in People \cup {NoOne}, NEW approve \in BOOLEAN,
           DecideApproval(h, a, by, approve)
    PROVE  IInv'
<1> DEFINE new == [Free EXCEPT !.pc = IF approve THEN "case" ELSE "write",
                               !.kind = IF approve THEN "approve" ELSE "reject",
                               !.type = actions[a].type,
                                 !.payload = actions[a].payload, !.by = by,
                               !.action = a, !.audit = actions[a].audit]
<1>1. /\ handler' = [handler EXCEPT ![h] = new] /\ UNCHANGED <<actions, policyLog>>
      /\ a \in DOMAIN actions
  BY DEF DecideApproval
<1>2. handler'[h] = new /\ \A g \in Handlers : g # h => handler'[g] = handler[g]
  BY <1>1 DEF IInv, TypeOK
<1>3. actions[a].audit # <<>>
  BY <1>1 DEF IInv, Sound
<1>4. /\ new.pc = IF approve THEN "case" ELSE "write"
      /\ new.kind = IF approve THEN "approve" ELSE "reject"
      /\ new.type = actions[a].type /\ new.payload = actions[a].payload
      /\ new.action = a /\ new.audit = actions[a].audit
  BY DEF Free
<1> HIDE DEF new
<1>5. Established(handler[h])'
  BY <1>1, <1>2, <1>3, <1>4 DEF Established
<1> QED
  BY <1>1, <1>2, <1>5, NoRecordWritten

LEMMA ReadStep ==
    ASSUME IInv, TypeOK', NEW h \in Handlers, ReadCase(h)
    PROVE  IInv'
<1> DEFINE new == [handler[h] EXCEPT !.pc = "evidence", !.seen = decision]
<1>1. handler[h] \in RequestType /\ handler[h].pc = "case" /\ Established(handler[h])
  BY DEF ReadCase, IInv, TypeOK
<1>2. handler' = [handler EXCEPT ![h] = new] /\ UNCHANGED <<actions, policyLog>>
  BY DEF ReadCase, IInv, TypeOK
<1>3. handler'[h] = new /\ \A g \in Handlers : g # h => handler'[g] = handler[g]
  BY <1>2 DEF IInv, TypeOK
<1>4. /\ new.pc = "evidence" /\ new.kind = handler[h].kind /\ new.type = handler[h].type
      /\ new.payload = handler[h].payload
      /\ new.action = handler[h].action /\ new.audit = handler[h].audit
  BY <1>1 DEF RequestType
<1>5. Established(handler[h])'
  BY <1>1, <1>2, <1>3, <1>4 DEF Established
<1> QED
  BY <1>2, <1>3, <1>5, NoRecordWritten

\* What the policy allows is neither refused nor without its named approver,
\* and the verdict is logged in the same step.
LEMMA EvaluateStep ==
    ASSUME IInv, TypeOK', NEW h \in Handlers, Evaluate(h)
    PROVE  IInv'
<1> DEFINE req == handler[h]
           effect == EvaluateAction(req.type, PolicyContext(req))
           new == [req EXCEPT !.pc = "write", !.effect = effect]
<1>1. req \in RequestType /\ req.pc = "evidence" /\ Established(req)
  BY DEF Evaluate, IInv, TypeOK
<1>2. /\ handler' = [handler EXCEPT ![h] = new] /\ actions' = actions
      /\ policyLog' = policyLog \cup
            {[subject |-> req.by, type |-> req.type, effect |-> effect]}
  BY DEF Evaluate, IInv, TypeOK
<1>3. handler'[h] = new /\ \A g \in Handlers : g # h => handler'[g] = handler[g]
  BY <1>2 DEF IInv, TypeOK
<1>4. /\ new.pc = "write" /\ new.kind = req.kind /\ new.type = req.type
      /\ new.action = req.action /\ new.audit = req.audit /\ new.by = req.by
      /\ new.effect = effect /\ new.payload = req.payload
  BY <1>1 DEF RequestType
<1>5. effect = "allow" => /\ ~Refused(req.type)
                          /\ NeedsApproval(req.type) => PolicyContext(req).approvedBy # NoOne
  BY AllowedMeans
\* An approver that the payload does not name is the one who approves.
<1>6. effect = "allow" /\ NeedsApproval(req.type) /\ req.payload.approvedBy \notin People
         => /\ req.payload.approvedBy = Unset
            /\ req.kind = "approve" /\ req.by \in People
  <2>1. PolicyContext(req).approvedBy =
           IF req.payload.approvedBy = Unset
           THEN IF req.kind = "approve" THEN req.by ELSE NoOne
           ELSE req.payload.approvedBy
    BY DEF PolicyContext, Over
  <2>2. req.payload.approvedBy \in People \cup {NoOne, Unset} /\ req.by \in People \cup {NoOne}
    BY <1>1 DEF RequestType, PayloadType
  <2> QED
    BY <1>5, <2>1, <2>2
<1>7. [subject |-> req.by, type |-> req.type, effect |-> effect] \in policyLog'
  BY <1>2
<1> HIDE DEF effect, new
<1>8. Established(handler[h])'
  BY <1>1, <1>2, <1>3, <1>4, <1>5, <1>6, <1>7 DEF Established, Refused, NeedsApproval
<1> QED
  BY <1>2, <1>3, <1>8, NoRecordWritten

\* A proposal that was allowed needs no approval, or its payload names an
\* approver.
LEMMA InsertStep ==
    ASSUME IInv, TypeOK', NEW h \in Handlers, InsertAction(h)
    PROVE  IInv'
<1> DEFINE req == handler[h]
           last == Len(actions) + 1
<1>1. /\ req \in RequestType /\ req.pc = "write" /\ req.kind = "propose"
      /\ Established(req) /\ actions \in Seq(ActionType)
  BY DEF InsertAction, IInv, TypeOK
<1>2. /\ actions' = Append(actions, Inserted(req)) /\ policyLog' = policyLog
      /\ handler' = [handler EXCEPT ![h] = Free]
  BY DEF InsertAction, Inserted
<1>3. Inserted(req) \in ActionType
  BY <1>1, InsertedType DEF IInv
<1>4. /\ DOMAIN actions' = 1..last /\ DOMAIN actions \subseteq DOMAIN actions'
      /\ actions'[last] = Inserted(req)
      /\ \A a \in DOMAIN actions : actions'[a] = actions[a]
      /\ DOMAIN actions = 1..Len(actions) /\ Len(actions) \in Nat
  BY <1>1, <1>2, <1>3, Appended
<1>5. handler'[h] = Free /\ \A g \in Handlers : g # h => handler'[g] = handler[g]
  BY <1>2 DEF IInv, TypeOK
<1>6. \A g \in Handlers : Established(handler[g])'
  BY <1>2, <1>4, <1>5, OthersEstablished, FreedEstablished
<1>7. ASSUME NEW a, a = last
      PROVE  Sound(actions[a])'
  <2>1. /\ Inserted(req).type = req.type /\ Inserted(req).status = ProposedStatus(req.effect)
        /\ Inserted(req).payload = req.payload
        /\ Inserted(req).audit = <<[by |-> req.by, event |-> "proposed"]>>
    BY DEF Inserted
  <2>2. /\ ProposedStatus(req.effect) \in {"APPROVED", "BLOCKED", "AWAITING_APPROVAL"}
        /\ ProposedStatus(req.effect) = "APPROVED" <=> req.effect = "allow"
    BY <1>1, ProposedStatuses DEF RequestType
  <2>3. /\ Inserted(req).audit # <<>> /\ Len(Inserted(req).audit) = 1
        /\ Inserted(req).audit[1] = [by |-> req.by, event |-> "proposed"]
    BY <2>1
  <2>4. LastEntry(actions'[a]).by = req.by /\ LastEntry(actions'[a]).event = "proposed"
    BY <1>4, <1>7, <2>3 DEF LastEntry
  <2>5. RunsLogged(actions[a])'
    <3>1. /\ actions'[a].type = req.type /\ actions'[a].payload = req.payload
          /\ actions'[a].status = ProposedStatus(req.effect)
      BY <1>4, <1>7, <2>1
    <3>2. actions'[a].status \in {"APPROVED", "EXECUTED"} => req.effect = "allow"
      BY <2>2, <3>1
    <3> QED
      BY <1>1, <1>2, <2>4, <3>1, <3>2
         DEF RunsLogged, Established, LastEntry, Refused, NeedsApproval
  <2>6. Explained(actions[a])'
    <3>1. actions'[a].status = ProposedStatus(req.effect) /\ Len(actions'[a].audit) = 1
      BY <1>4, <1>7, <2>1, <2>3
    <3> QED
      BY <2>2, <2>4, <3>1 DEF Explained, LastEntry
  <2> QED
    BY <1>4, <1>7, <2>3, <2>5, <2>6 DEF Sound
<1>8. \A a \in DOMAIN actions : Sound(actions[a])'
  BY <1>2, <1>4, OthersSound
<1>9. \A a \in DOMAIN actions' : Sound(actions[a])'
  BY <1>4, <1>7, <1>8
<1> QED
  BY <1>6, <1>9 DEF IInv

\* Status, approver and audit entry are written together, from one request.
LEMMA UpdateStep ==
    ASSUME IInv, TypeOK', NEW h \in Handlers, UpdateAction(h)
    PROVE  IInv'
<1> DEFINE req == handler[h]
           a == req.action
<1>1. /\ req \in RequestType /\ req.pc = "write" /\ req.kind \in {"approve", "reject"}
      /\ Established(req)
  BY DEF UpdateAction, IInv, TypeOK, RequestType
<1>2. /\ a \in DOMAIN actions /\ Entry(req) \in Entries /\ DOMAIN actions' = DOMAIN actions
      /\ actions'[a].type = actions[a].type /\ actions'[a].payload = actions[a].payload
      /\ actions'[a].status = StatusAfter(req)
      /\ actions'[a].approvedBy = IF req.kind = "approve" THEN req.by ELSE NoOne
      /\ actions'[a].audit = Append(req.audit, Entry(req))
      /\ \A b \in DOMAIN actions : b # a => actions'[b] = actions[b]
  BY Updated DEF IInv
<1>3. handler' = [handler EXCEPT ![h] = Free] /\ policyLog' = policyLog
  BY DEF UpdateAction
<1>4. handler'[h] = Free /\ \A g \in Handlers : g # h => handler'[g] = handler[g]
  BY <1>3 DEF IInv, TypeOK
<1>5. \A g \in Handlers : Established(handler[g])'
  BY <1>2, <1>3, <1>4, OthersEstablished, FreedEstablished
<1>6. /\ Len(Append(req.audit, Entry(req))) > 1
      /\ Append(req.audit, Entry(req))[Len(Append(req.audit, Entry(req)))] = Entry(req)
      /\ Append(req.audit, Entry(req)) # <<>>
  <2>1. req.audit \in Seq(Entries) /\ req.audit # <<>>
    BY <1>1 DEF RequestType, Established
  <2> QED
    BY <1>2, <2>1
<1>7. ASSUME NEW b, b = a
      PROVE  Sound(actions[b])'
  <2>1. RunsLogged(actions[b])'
    <3>1. LastEntry(actions'[b]).by = req.by
      BY <1>2, <1>6, <1>7 DEF LastEntry, Entry
    <3> QED
      BY <1>1, <1>2, <1>3, <1>7, <3>1
         DEF RunsLogged, Established, StatusAfter, LastEntry, Refused, NeedsApproval
  <2>2. Explained(actions[b])'
    BY <1>1, <1>2, <1>6, <1>7 DEF Explained, StatusAfter, LastEntry, Entry
  <2> QED
    BY <1>2, <1>6, <1>7, <2>1, <2>2 DEF Sound
<1>8. ASSUME NEW b \in DOMAIN actions, b # a
      PROVE  Sound(actions[b])'
  BY <1>2, <1>3, <1>8, OthersSound
<1>9. \A b \in DOMAIN actions : Sound(actions[b])'
  BY <1>7, <1>8
<1> QED
  BY <1>2, <1>5, <1>9 DEF IInv

-----------------------------------------------------------------------------
LEMMA IInvStep == IInv /\ [Next]_vars => IInv'
<1> SUFFICES ASSUME IInv, [Next]_vars
             PROVE  IInv'
  OBVIOUS
<1>1. TypeOK'
  BY TypeStep DEF IInv
<1>2. CASE UNCHANGED <<actions, policyLog, handler>>
  <2>1. \A h \in Handlers : Established(handler[h])'
    BY <1>2, OthersEstablished
  <2>2. \A a \in DOMAIN actions : Sound(actions[a])'
    BY <1>2, OthersSound
  <2> QED
    BY <1>1, <1>2, <2>1, <2>2 DEF IInv
<1>3. CASE Crash
  <2>1. \A h \in Handlers : Established(handler[h])'
    BY <1>3, FreedEstablished DEF Crash
  <2>2. \A a \in DOMAIN actions : Sound(actions[a])'
    BY <1>3, OthersSound DEF Crash
  <2> QED
    BY <1>1, <1>3, <2>1, <2>2 DEF IInv, Crash
<1>4. CASE UNCHANGED vars
  BY <1>2, <1>4 DEF vars
<1>5. CASE CaseMoves
  BY <1>2, <1>5 DEF CaseMoves
<1> QED
  BY <1>1, <1>3, <1>4, <1>5, NextRequests, ProposeStep, DecideStep, ReadStep,
     EvaluateStep, InsertStep, UpdateStep

LEMMA Invariant == Spec => []IInv
BY IInvInit, IInvStep, PTL DEF Spec

\* For every policy, every set of payloads and any overlap of requests and
\* crashes: what the policy refuses never runs; what runs was allowed to the
\* person of its last audit entry and logged; and what needs an approval runs
\* only if a named person approved it or its own payload names an approver.
THEOREM RunsOnlyIfLoggedAlways == Spec => []RunsOnlyIfLogged
<1>1. IInv => RunsOnlyIfLogged
  BY DEF IInv, Sound, RunsOnlyIfLogged
<1> QED
  BY <1>1, Invariant, PTL

\* However decisions overlap, the last audit entry of a record is of the
\* decision that set its status.
THEOREM AuditExplainsStatusAlways == Spec => []AuditExplainsStatus
<1>1. IInv => AuditExplainsStatus
  BY DEF IInv, Sound, AuditExplainsStatus
<1> QED
  BY <1>1, Invariant, PTL

-----------------------------------------------------------------------------
(* Alerts and their acknowledgement (Alerts) *)


\* The steps of AlertsNext.  (AlertsNext is expanded here once.)
LEMMA NextActions ==
    ASSUME AlertsNext
    PROVE  \/ \E w \in Workers, t \in Tiers : DispatchFind(w, t)
           \/ DispatchInsert
           \/ \E w \in Workers : AcknowledgeFirst(w)
           \/ \E i \in Ids : AcknowledgeById(i)
           \/ \E i \in Ids : DeadlinePasses(i)
           \/ StartSweep
           \/ \E i \in Ids : Expire(i)
           \/ EscalateFind
           \/ EscalateInsert
           \/ EndSweep
           \/ AlertsCrash
BY DEF AlertsNext, Sweep

\* What a change of status leaves alone.
LEMMA StatusSet ==
    ASSUME notes \in Seq(NoteType), NEW i \in DOMAIN notes,
           NEW st \in {"SENT", "ACKNOWLEDGED", "EXPIRED"}, SetStatus(i, st)
    PROVE  /\ notes' \in Seq(NoteType)
           /\ Len(notes') = Len(notes) /\ DOMAIN notes' = DOMAIN notes
           /\ notes'[i].status = st
           /\ \A j \in DOMAIN notes :
                 /\ notes'[j].worker = notes[j].worker
                 /\ notes'[j].tier = notes[j].tier
                 /\ j # i => notes'[j] = notes[j]
<1>1. notes' = [notes EXCEPT ![i].status = st]
  BY DEF SetStatus
<1>2. [notes[i] EXCEPT !.status = st] \in NoteType
  <2>1. notes[i] \in NoteType
    OBVIOUS
  <2> QED
    BY <2>1 DEF NoteType
<1>3. notes' \in Seq(NoteType) /\ Len(notes') = Len(notes) /\ DOMAIN notes' = DOMAIN notes
  BY <1>1, <1>2
<1>4. \A j \in DOMAIN notes : notes[j] \in NoteType
  OBVIOUS
<1> QED
  BY <1>1, <1>3, <1>4 DEF NoteType

\* What an insert adds and leaves alone.
LEMMA AlertInserted ==
    ASSUME notes \in Seq(NoteType), NEW w \in Workers, NEW t \in Tiers,
           Insert(w, t)
    PROVE  /\ notes' \in Seq(NoteType)
           /\ Len(notes') = Len(notes) + 1 /\ DOMAIN notes' = 1..(Len(notes) + 1)
           /\ DOMAIN notes \subseteq DOMAIN notes'
           /\ notes'[Len(notes) + 1] = [worker |-> w, tier |-> t, status |-> "SENT"]
           /\ \A j \in DOMAIN notes : notes'[j] = notes[j]
BY DEF Insert, NoteType

LEMMA NoteWorker ==
    ASSUME notes \in Seq(NoteType), NEW i \in DOMAIN notes
    PROVE  notes[i].worker \in Workers
<1>1. notes[i] \in NoteType
  OBVIOUS
<1> QED
  BY <1>1 DEF NoteType

-----------------------------------------------------------------------------
LEMMA AlertsTypeInit == AlertsInit => AlertsTypeOK
BY DEF AlertsInit, AlertsTypeOK, NoteType, AtRest, NoAlert, Ids

LEMMA AlertsTypeStep == AlertsTypeOK /\ [AlertsNext]_alertVars => AlertsTypeOK'
<1> SUFFICES ASSUME AlertsTypeOK, [AlertsNext]_alertVars
             PROVE  AlertsTypeOK'
  OBVIOUS
<1> USE DEF AlertsTypeOK
<1>1. CASE UNCHANGED alertVars
  BY <1>1 DEF alertVars
<1>2. ASSUME NEW w \in Workers, NEW t \in Tiers, DispatchFind(w, t)
      PROVE  AlertsTypeOK'
  BY <1>2 DEF DispatchFind
<1>3. CASE DispatchInsert
  <2>1. dispatcher.worker \in Workers /\ dispatcher.tier \in Tiers
    BY <1>3 DEF DispatchInsert
  <2> QED
    BY <1>3, <2>1, AlertInserted DEF DispatchInsert
<1>4. ASSUME NEW w \in Workers, AcknowledgeFirst(w)
      PROVE  AlertsTypeOK'
  BY <1>4, StatusSet DEF AcknowledgeFirst
<1>5. ASSUME NEW i \in Ids, AcknowledgeById(i)
      PROVE  AlertsTypeOK'
  BY <1>5, StatusSet DEF AcknowledgeById
<1>6. ASSUME NEW i \in Ids, DeadlinePasses(i)
      PROVE  AlertsTypeOK'
  BY <1>6 DEF DeadlinePasses
<1>7. CASE StartSweep
  BY <1>7 DEF StartSweep, AtRest
<1>8. ASSUME NEW i \in Ids, Expire(i)
      PROVE  AlertsTypeOK'
  <2>1. i \in DOMAIN notes
    BY <1>8 DEF Expire
  <2>2. expiries' \in [Ids -> Nat]
    BY <1>8 DEF Expire
  <2> QED
    BY <1>8, <2>1, <2>2, StatusSet DEF Expire, MarkExpired
<1>9. CASE EscalateFind
  BY <1>9 DEF EscalateFind
<1>10. CASE EscalateInsert
  <2>1. notes[escalator.note].worker \in Workers
    BY <1>10, NoteWorker DEF EscalateInsert
  <2>2. /\ notes' \in Seq(NoteType)
        /\ DOMAIN notes \subseteq DOMAIN notes'
    BY <1>10, <2>1, AlertInserted DEF EscalateInsert, Tiers
  <2> QED
    BY <1>10, <2>2 DEF EscalateInsert
<1>11. CASE EndSweep
  BY <1>11 DEF EndSweep, AtRest
<1>12. CASE AlertsCrash
  BY <1>12 DEF AlertsCrash, AtRest
<1> QED
  BY <1>1, <1>2, <1>3, <1>4, <1>5, <1>6, <1>7, <1>8, <1>9, <1>10, <1>11,
     <1>12, NextActions

\* Type correctness: alerts are only ever added or given another status, and
\* the sweep works on alerts that exist.
THEOREM AlertsTypeCorrect == AlertsSpec => []AlertsTypeOK
BY AlertsTypeInit, AlertsTypeStep, PTL DEF AlertsSpec

-----------------------------------------------------------------------------
\* A handled alert is never outstanding again, and is in no snapshot of the
\* sweep: this is what makes ExpiresOnce inductive.
HandledAlert(i) ==
    /\ expiries[i] = 1
    /\ i \in DOMAIN notes /\ notes[i].status # "SENT" /\ i \notin escalator.todo
Handled == \A i \in Ids : expiries[i] = 0 \/ HandledAlert(i)

\* A deadline is handled at most once, whatever acknowledgements, dispatches,
\* sweeps and restarts come in between.
THEOREM DeadlineHandledOnce == AlertsSpec => []ExpiresOnce
<1>1. AlertsInit => Handled
  BY DEF AlertsInit, Handled, Ids
<1>2. AlertsTypeOK /\ AlertsTypeOK' /\ Handled /\ [AlertsNext]_alertVars => Handled'
  <2> SUFFICES ASSUME AlertsTypeOK, AlertsTypeOK', Handled, [AlertsNext]_alertVars,
                      NEW k \in Ids
               PROVE  expiries'[k] = 0 \/ HandledAlert(k)'
    BY DEF Handled
  <2>0. expiries[k] = 0 \/ HandledAlert(k)
    BY DEF Handled
  <2> USE DEF AlertsTypeOK, HandledAlert
  <2>1. CASE UNCHANGED alertVars
    BY <2>0, <2>1 DEF alertVars
  <2>2. ASSUME NEW w \in Workers, NEW t \in Tiers, DispatchFind(w, t)
        PROVE  expiries'[k] = 0 \/ HandledAlert(k)'
    BY <2>0, <2>2 DEF DispatchFind
  <2>3. CASE DispatchInsert
    <3>1. dispatcher.worker \in Workers /\ dispatcher.tier \in Tiers
      BY <2>3 DEF DispatchInsert
    <3> QED
      BY <2>0, <2>3, <3>1, AlertInserted DEF DispatchInsert
  <2>4. ASSUME NEW w \in Workers, AcknowledgeFirst(w)
        PROVE  expiries'[k] = 0 \/ HandledAlert(k)'
    BY <2>0, <2>4, StatusSet DEF AcknowledgeFirst
  <2>5. ASSUME NEW i \in Ids, AcknowledgeById(i)
        PROVE  expiries'[k] = 0 \/ HandledAlert(k)'
    BY <2>0, <2>5, StatusSet DEF AcknowledgeById
  <2>6. ASSUME NEW i \in Ids, DeadlinePasses(i)
        PROVE  expiries'[k] = 0 \/ HandledAlert(k)'
    BY <2>0, <2>6 DEF DeadlinePasses
  <2>7. CASE StartSweep
    BY <2>0, <2>7 DEF StartSweep, AtRest
  <2>8. ASSUME NEW i \in Ids, Expire(i)
        PROVE  expiries'[k] = 0 \/ HandledAlert(k)'
    <3>1. i \in DOMAIN notes /\ i \in escalator.todo
      BY <2>8 DEF Expire
    <3>2. /\ DOMAIN notes' = DOMAIN notes
          /\ notes'[i].status = "EXPIRED"
          /\ \A j \in DOMAIN notes : j # i => notes'[j] = notes[j]
      BY <2>8, <3>1, StatusSet DEF Expire, MarkExpired
    <3>3. escalator'.todo = escalator.todo \ {i}
      BY <2>8 DEF Expire
    <3>4. CASE k = i
      BY <2>0, <2>8, <3>1, <3>2, <3>3, <3>4 DEF Expire
    <3>5. CASE k # i
      BY <2>0, <2>8, <3>2, <3>3, <3>5 DEF Expire
    <3> QED
      BY <3>4, <3>5
  <2>9. CASE EscalateFind
    BY <2>0, <2>9 DEF EscalateFind
  <2>10. CASE EscalateInsert
    <3>1. notes[escalator.note].worker \in Workers /\ "ESCALATE" \in Tiers
      BY <2>10, NoteWorker DEF EscalateInsert, Tiers
    <3> QED
      BY <2>0, <2>10, <3>1, AlertInserted DEF EscalateInsert
  <2>11. CASE EndSweep
    BY <2>0, <2>11 DEF EndSweep, AtRest
  <2>12. CASE AlertsCrash
    BY <2>0, <2>12 DEF AlertsCrash, AtRest
  <2> QED
    BY <2>1, <2>2, <2>3, <2>4, <2>5, <2>6, <2>7, <2>8, <2>9, <2>10, <2>11,
       <2>12, NextActions
<1>3. Handled => ExpiresOnce
  BY DEF Handled, HandledAlert, ExpiresOnce
<1> QED
  BY AlertsTypeInit, AlertsTypeStep, <1>1, <1>2, <1>3, PTL DEF AlertsSpec

-----------------------------------------------------------------------------
\* Without a crash every stop order that expired is followed by an ESCALATE
\* alert to its worker, or the sweep is about to send it.
THEOREM ExpiryEscalates == AlertsSpec => []EscalatesWithoutCrash
<1> DEFINE Escalated(i) ==
        \/ EscalateSent(notes[i].worker)
        \/ escalator.note = i /\ escalator.pc \in {"find", "insert"}
<1>1. AlertsInit => EscalatesWithoutCrash
  BY DEF AlertsInit, EscalatesWithoutCrash, ExpiredStopEscalated
<1>2. AlertsTypeOK /\ AlertsTypeOK' /\ EscalatesWithoutCrash /\ [AlertsNext]_alertVars
        => EscalatesWithoutCrash'
  <2> SUFFICES ASSUME AlertsTypeOK, AlertsTypeOK', EscalatesWithoutCrash, [AlertsNext]_alertVars,
                      crashes' = 0, NEW k \in DOMAIN notes',
                      notes'[k].status = "EXPIRED",
                      notes'[k].tier = "STOP_ACK_REQUIRED"
               PROVE  Escalated(k)'
    BY DEF EscalatesWithoutCrash, ExpiredStopEscalated
  <2> USE DEF AlertsTypeOK
  <2>0. ASSUME UNCHANGED crashes, k \in DOMAIN notes,
               notes[k].status = "EXPIRED", notes[k].tier = "STOP_ACK_REQUIRED"
        PROVE  Escalated(k)
    BY <2>0 DEF EscalatesWithoutCrash, ExpiredStopEscalated
  <2>a. ASSUME UNCHANGED <<crashes, notes, escalator>>
        PROVE  Escalated(k)'
    BY <2>0, <2>a DEF EscalateSent
  \* An acknowledgement, or a new alert, leaves expired alerts as they are.
  <2>b. ASSUME UNCHANGED <<crashes, escalator>>,
               DOMAIN notes \subseteq DOMAIN notes',
               \A j \in DOMAIN notes : /\ notes'[j].worker = notes[j].worker
                                       /\ notes'[j].tier = notes[j].tier,
               k \in DOMAIN notes, notes[k].status = "EXPIRED"
        PROVE  Escalated(k)'
    BY <2>0, <2>b DEF EscalateSent
  <2>1. CASE UNCHANGED alertVars
    BY <2>a, <2>1 DEF alertVars
  <2>2. ASSUME NEW w \in Workers, NEW t \in Tiers, DispatchFind(w, t)
        PROVE  Escalated(k)'
    BY <2>a, <2>2 DEF DispatchFind
  <2>3. CASE DispatchInsert
    <3>1. dispatcher.worker \in Workers /\ dispatcher.tier \in Tiers
      BY <2>3 DEF DispatchInsert
    <3>2. /\ DOMAIN notes' = 1..(Len(notes) + 1)
          /\ DOMAIN notes \subseteq DOMAIN notes'
          /\ notes'[Len(notes) + 1] = [worker |-> dispatcher.worker,
                                       tier |-> dispatcher.tier, status |-> "SENT"]
          /\ \A j \in DOMAIN notes : notes'[j] = notes[j]
      BY <2>3, <3>1, AlertInserted DEF DispatchInsert
    <3>3. k \in DOMAIN notes /\ notes[k].status = "EXPIRED"
      BY <3>2
    <3>4. UNCHANGED <<crashes, escalator>>
      BY <2>3 DEF DispatchInsert
    <3>5. \A j \in DOMAIN notes : /\ notes'[j].worker = notes[j].worker
                                  /\ notes'[j].tier = notes[j].tier
      BY <3>2
    <3> QED
      BY <2>b, <3>2, <3>3, <3>4, <3>5
  <2>4. ASSUME NEW w \in Workers, AcknowledgeFirst(w)
        PROVE  Escalated(k)'
    BY <2>b, <2>4, StatusSet DEF AcknowledgeFirst
  <2>5. ASSUME NEW i \in Ids, AcknowledgeById(i)
        PROVE  Escalated(k)'
    BY <2>b, <2>5, StatusSet DEF AcknowledgeById
  <2>6. ASSUME NEW i \in Ids, DeadlinePasses(i)
        PROVE  Escalated(k)'
    BY <2>a, <2>6 DEF DeadlinePasses
  <2>7. CASE StartSweep
    BY <2>0, <2>7 DEF StartSweep, AtRest, EscalateSent
  <2>8. ASSUME NEW i \in Ids, Expire(i)
        PROVE  Escalated(k)'
    <3>1. i \in DOMAIN notes /\ escalator.pc = "sweep"
      BY <2>8 DEF Expire
    <3>2. /\ DOMAIN notes' = DOMAIN notes
          /\ \A j \in DOMAIN notes : /\ notes'[j].worker = notes[j].worker
                                     /\ notes'[j].tier = notes[j].tier
                                     /\ j # i => notes'[j] = notes[j]
      BY <2>8, <3>1, StatusSet DEF Expire, MarkExpired
    <3>3. CASE k = i
      BY <2>8, <3>2, <3>3 DEF Expire
    <3>4. CASE k # i
      <4>1. EscalateSent(notes[k].worker)
        BY <2>0, <2>8, <3>1, <3>2, <3>4 DEF Expire
      <4> QED
        BY <3>2, <4>1 DEF EscalateSent
    <3> QED
      BY <3>3, <3>4
  <2>9. CASE EscalateFind
    <3>1. k \in DOMAIN notes /\ Escalated(k)
      BY <2>0, <2>9 DEF EscalateFind
    <3>2. escalator'.note = escalator.note /\ UNCHANGED notes
      BY <2>9 DEF EscalateFind
    <3>3. CASE Outstanding(notes[escalator.note].worker, "ESCALATE")
      BY <3>1, <3>2, <3>3 DEF Outstanding, EscalateSent
    <3>4. CASE ~Outstanding(notes[escalator.note].worker, "ESCALATE")
      <4>1. escalator'.pc = "insert"
        BY <2>9, <3>4 DEF EscalateFind
      <4> QED
        BY <3>1, <3>2, <4>1 DEF EscalateSent
    <3> QED
      BY <3>3, <3>4
  <2>10. CASE EscalateInsert
    <3>1. notes[escalator.note].worker \in Workers /\ "ESCALATE" \in Tiers
      BY <2>10, NoteWorker DEF EscalateInsert, Tiers
    <3>2. /\ Len(notes) + 1 \in DOMAIN notes'
          /\ DOMAIN notes' = 1..(Len(notes) + 1)
          /\ notes'[Len(notes) + 1] =
                [worker |-> notes[escalator.note].worker, tier |-> "ESCALATE",
                 status |-> "SENT"]
          /\ \A j \in DOMAIN notes : j \in DOMAIN notes' /\ notes'[j] = notes[j]
      BY <2>10, <3>1, AlertInserted DEF EscalateInsert
    <3>3. k \in DOMAIN notes /\ notes[k].status = "EXPIRED"
      BY <3>2
    <3>4. Escalated(k)
      BY <2>0, <2>10, <3>2, <3>3 DEF EscalateInsert
    <3>5. CASE EscalateSent(notes[k].worker)
      BY <3>2, <3>3, <3>5 DEF EscalateSent
    <3>6. CASE escalator.note = k
      BY <3>2, <3>3, <3>6 DEF EscalateSent
    <3> QED
      BY <3>4, <3>5, <3>6
  <2>11. CASE EndSweep
    BY <2>0, <2>11 DEF EndSweep, AtRest, EscalateSent
  <2>12. CASE AlertsCrash
    BY <2>12 DEF AlertsCrash
  <2> QED
    BY <2>1, <2>2, <2>3, <2>4, <2>5, <2>6, <2>7, <2>8, <2>9, <2>10, <2>11,
       <2>12, NextActions
<1> QED
  BY AlertsTypeInit, AlertsTypeStep, <1>1, <1>2, PTL DEF AlertsSpec
=============================================================================
