--------------------------- MODULE CaseLoop_proofs ---------------------------
(***************************************************************************)
(* Proofs about CaseLoop, for every set of inputs, lift plans and scenes,  *)
(* any number of events, imports and faults, and every interleaving.       *)
(***************************************************************************)
EXTENDS CaseLoop, FiniteSetTheorems, TLAPS

\* The steps of Next.  (Next is expanded here once.)
LEMMA NextActions ==
    ASSUME Next
    PROVE  \/ \E input \in Inputs : Ingest(input)
           \/ \E id \in Ids : RecordEvent(id)
           \/ FeedDelivers
           \/ \E id \in Ids : DirectCall(id)
           \/ Schedule
           \/ \E agent \in Agents : RunSpecialist(agent)
           \/ RecordOnly \/ EnsureRules \/ RetrieveRules \/ DecideReads
           \/ LoadEvidence \/ Persist \/ CommanderFails \/ Dispatch
           \/ \E v \in Versions : StartImport(v)
           \/ \E c \in UNION Versions : InsertChunk(c)
           \/ Redecide
           \/ ResetEvidence \/ ResetRows \/ ResetCase
           \/ Crash \/ ScriptImportEnds \/ FeedReopens
BY DEF Next, HandlerStep, RequestStep, Agents

-----------------------------------------------------------------------------
(* Sequences *)

LEMMA AppendRange ==
    ASSUME NEW S, NEW s \in Seq(S), NEW e \in S
    PROVE  /\ Append(s, e) \in Seq(S) /\ Len(Append(s, e)) = Len(s) + 1
           /\ DOMAIN s = 1..Len(s) /\ Len(s) \in Nat
           /\ DOMAIN Append(s, e) = 1..(Len(s) + 1)
           /\ Append(s, e)[Len(s) + 1] = e
           /\ \A i \in DOMAIN s : Append(s, e)[i] = s[i]
           /\ Range(Append(s, e)) = Range(s) \cup {e}
<1>1. /\ Append(s, e) \in Seq(S) /\ Len(Append(s, e)) = Len(s) + 1
      /\ DOMAIN s = 1..Len(s) /\ Len(s) \in Nat
      /\ DOMAIN Append(s, e) = 1..(Len(s) + 1)
      /\ Append(s, e)[Len(s) + 1] = e
      /\ \A i \in DOMAIN s : Append(s, e)[i] = s[i]
  OBVIOUS
<1>2. Range(s) \cup {e} \subseteq Range(Append(s, e))
  <2> HIDE DEF Range
  <2>1. \A i \in 1..Len(s) : i \in 1..(Len(s) + 1)
    BY <1>1
  <2> QED
    BY <1>1, <2>1 DEF Range
<1>3. Range(Append(s, e)) \subseteq Range(s) \cup {e}
  BY <1>1 DEF Range
<1> QED
  BY <1>1, <1>2, <1>3

LEMMA TailRange ==
    ASSUME NEW S, NEW s \in Seq(S), s # <<>>
    PROVE  /\ Tail(s) \in Seq(S) /\ Len(Tail(s)) = Len(s) - 1 /\ Len(s) > 0
           /\ DOMAIN s = 1..Len(s) /\ Len(s) \in Nat
           /\ DOMAIN Tail(s) = 1..(Len(s) - 1)
           /\ \A i \in 1..(Len(s) - 1) : Tail(s)[i] = s[i + 1]
           /\ Head(s) = s[1] /\ Head(s) \in S
           /\ Range(s) = {Head(s)} \cup Range(Tail(s))
<1>1. /\ Tail(s) \in Seq(S) /\ Len(Tail(s)) = Len(s) - 1 /\ Len(s) > 0
      /\ DOMAIN s = 1..Len(s) /\ Len(s) \in Nat
      /\ DOMAIN Tail(s) = 1..(Len(s) - 1)
      /\ \A i \in 1..(Len(s) - 1) : Tail(s)[i] = s[i + 1]
      /\ Head(s) = s[1] /\ Head(s) \in S
  OBVIOUS
<1>2. {Head(s)} \cup Range(Tail(s)) \subseteq Range(s)
  BY <1>1 DEF Range
<1>3. ASSUME NEW i \in 1..Len(s)
      PROVE  s[i] \in {Head(s)} \cup Range(Tail(s))
  <2>1. CASE i = 1
    BY <1>1, <2>1
  <2>2. CASE i # 1
    <3>1. i - 1 \in DOMAIN Tail(s) /\ Tail(s)[i - 1] = s[i]
      BY <1>1, <2>2
    <3> QED
      BY <3>1 DEF Range
  <2> QED
    BY <2>1, <2>2
<1>4. Range(s) \subseteq {Head(s)} \cup Range(Tail(s))
  BY <1>1, <1>3 DEF Range
<1> QED
  BY <1>1, <1>2, <1>4

LEMMA RangeOf ==
    ASSUME NEW S, NEW s \in Seq(S)
    PROVE  Range(s) \subseteq S /\ (Range(s) = {} <=> s = <<>>)
BY DEF Range

-----------------------------------------------------------------------------
(* Types *)

\* A record of the right shape for the lock holder.
Holder(j) ==
    /\ j \in [pc : JobPcs, id : {0} \cup Recorded, lift : BOOLEAN, todo : SUBSET Agents,
              count : Nat, rules : {j.rules}, decideLift : BOOLEAN, seen : {j.seen}]
    /\ j.pc = "case" => j.id # 0

LEMMA IdleHolder == Holder(Idle)
BY DEF Holder, Idle, JobPcs

LEMMA TypeInit == Init => TypeOK
<1> SUFFICES ASSUME Init
             PROVE  TypeOK
  OBVIOUS
<1>1. IsFiniteSet(chunks)
  BY FS_EmptySet DEF Init
<1>2. Holder(job)
  BY IdleHolder DEF Init
<1> QED
  BY <1>1, <1>2, LoopAssumption
     DEF Init, TypeOK, Holder, Decided, NewCase, Decisions, NoImport

LEMMA VerdictType ==
    ASSUME NEW facts1, NEW ruleset, NEW status, NEW lift
    PROVE  DeriveDecision(facts1, ruleset, status, lift) \in Decisions
BY DEF DeriveDecision, ResolveDecision, Decisions

LEMMA PlanType ==
    ASSUME NEW kind \in EventKinds
    PROVE  Plan(kind) \subseteq Agents
BY DEF Plan, EventKinds, Agents

LEMMA RowKind ==
    ASSUME TypeOK, NEW id \in DOMAIN rows
    PROVE  /\ rows[id] \in Inputs /\ rows[id].kind \in EventKinds
           /\ rows[id].kind = "lift_state" => rows[id].value \in BOOLEAN
<1>1. rows[id] \in Inputs
  BY DEF TypeOK
<1> QED
  BY <1>1, LoopAssumption

\* What starting, or skipping, an event does.
LEMMA Begun ==
    ASSUME TypeOK, NEW id \in Recorded, Begin(id)
    PROVE  \/ /\ id \in Remembered /\ job' = job /\ case' = case
           \/ /\ id \notin Remembered
              /\ job' = [Idle EXCEPT !.pc = "case", !.id = id]
              /\ Holder(job)'
              /\ case' \in Decided
<1>1. rows[id].kind = "lift_state" => rows[id].value \in BOOLEAN
  BY RowKind DEF Recorded
<1>2. CASE id \in Remembered
  BY <1>2 DEF Begin
<1>3. CASE id \notin Remembered
  <2>1. job' = [Idle EXCEPT !.pc = "case", !.id = id] /\ rows' = rows /\ staged' = staged
    BY <1>3 DEF Begin
  <2>2. Holder(job)'
    <3>1. id # 0
      BY DEF Recorded, TypeOK
    <3> QED
      BY <2>1, <3>1 DEF Holder, Recorded, Idle, JobPcs
  <2>3. case' \in Decided
    BY <1>1, <1>3 DEF Begin, TypeOK, Decided, LiftValue
  <2> QED
    BY <1>3, <2>1, <2>2, <2>3
<1> QED
  BY <1>2, <1>3

\* A step that lets the store, the ids and the lock holder's shape alone.
LEMMA TypeFrame ==
    ASSUME TypeOK, Holder(job)', UNCHANGED <<rows, staged>>,
           live' \subseteq live, IsFiniteSet(chunks)', case' \in Decided,
           alerts' \subseteq Workers \X Tiers, runs' \in [Ids -> Nat],
           decided' \subseteq decided \cup Recorded,
           feed' \in Seq(Recorded), direct' \subseteq Recorded,
           handled' \in Seq(Recorded), docCount' \in Nat,
           importer' \in [pc : {"idle", "insert"}, left : {importer'.left}],
           resetPc' \in {"idle", "rows", "case"}, imports' \in 0..MaxImports,
           faults' \subseteq Faulty
    PROVE  TypeOK'
BY DEF TypeOK, Recorded, Holder

LEMMA RememberType ==
    ASSUME TypeOK, NEW id \in Recorded, Remember(id)
    PROVE  /\ handled' \in Seq(Recorded)
           /\ Range(handled') \subseteq Range(handled) \cup {id}
<1> DEFINE all == Append(handled, id)
<1>1. all \in Seq(Recorded) /\ Range(all) = Range(handled) \cup {id} /\ Len(all) > 0
  <2>1. handled \in Seq(Recorded)
    BY DEF TypeOK
  <2> QED
    BY <2>1, AppendRange
<1>2. Tail(all) \in Seq(Recorded) /\ Range(Tail(all)) \subseteq Range(all)
  <2>1. all # <<>>
    BY <1>1
  <2> QED
    BY <1>1, <2>1, TailRange
<1>3. handled' = all \/ handled' = Tail(all)
  BY DEF Remember
<1> QED
  BY <1>1, <1>2, <1>3

LEMMA TierType ==
    ASSUME NEW relation, NEW lift, NEW decision
    PROVE  TierFor(relation, lift, decision) \subseteq Tiers
<1>1. CASE decision = "ESCALATE" /\ relation # "safe"
  BY <1>1 DEF TierFor, Tiers
<1>2. CASE decision # "ESCALATE" /\ relation = "inside_risk_zone"
  BY <1>2 DEF TierFor, Tiers
<1>3. CASE decision # "ESCALATE" /\ relation = "approaching" /\ lift
  BY <1>3 DEF TierFor, Tiers
<1>4. CASE /\ ~(decision = "ESCALATE" /\ relation # "safe")
           /\ ~(decision # "ESCALATE" /\ relation = "inside_risk_zone")
           /\ ~(decision # "ESCALATE" /\ relation = "approaching" /\ lift)
  BY <1>4 DEF TierFor, Tiers
<1> QED
  BY <1>1, <1>2, <1>3, <1>4

LEMMA TypeStep == TypeOK /\ [Next]_vars => TypeOK'
<1> SUFFICES ASSUME TypeOK, [Next]_vars
             PROVE  TypeOK'
  OBVIOUS
<1>0. Holder(job)
  BY DEF TypeOK, Holder
<1>1. CASE UNCHANGED vars
  BY <1>1 DEF vars, durable, memory, TypeOK, Recorded
<1>2. ASSUME NEW input \in Inputs, Ingest(input)
      PROVE  TypeOK'
  <2> DEFINE id == Len(rows) + 1
  <2>1. /\ rows' \in Seq(Inputs) /\ Len(rows') = id /\ DOMAIN rows' = 1..id
        /\ id <= MaxEvents /\ DOMAIN rows = 1..Len(rows) /\ Len(rows) \in Nat
    <3>1. rows \in Seq(Inputs) /\ MaxEvents \in Nat /\ Len(rows) < MaxEvents
          /\ rows' = Append(rows, input)
      BY <1>2, LoopAssumption DEF Ingest, TypeOK
    <3> QED
      BY <3>1
  <2>2. staged' = staged \cup {id} /\ live' \subseteq live \cup {id}
    BY <1>2 DEF Ingest
  <2>3. Recorded' = Recorded /\ DOMAIN rows \subseteq DOMAIN rows'
    BY <2>1, <2>2 DEF Recorded, TypeOK
  <2> QED
    BY <1>2, <2>1, <2>2, <2>3 DEF Ingest, TypeOK
<1>3. ASSUME NEW id \in Ids, RecordEvent(id)
      PROVE  TypeOK'
  <2>1. /\ id \in DOMAIN rows /\ UNCHANGED <<durable, handled, job>>
        /\ staged' = staged \ {id} /\ feed' = Append(feed, id)
        /\ direct' \subseteq direct \cup {id}
    BY <1>3 DEF RecordEvent, TypeOK
  <2>2. Recorded' = Recorded \cup {id}
    BY <2>1 DEF Recorded, durable
  <2>3. feed \in Seq(Recorded') /\ handled \in Seq(Recorded')
    BY <2>2 DEF TypeOK
  <2>4. feed' \in Seq(Recorded')
    BY <2>1, <2>2, <2>3
  <2>5. Holder(job)'
    BY <1>0, <2>1, <2>2 DEF Holder
  <2> QED
    BY <1>3, <2>1, <2>2, <2>3, <2>4, <2>5 DEF RecordEvent, TypeOK, Holder, durable
<1>4. CASE FeedDelivers
  <2>1. Head(feed) \in Recorded /\ feed' \in Seq(Recorded)
    BY <1>4, TailRange DEF FeedDelivers, TypeOK
  <2>2. Holder(job)' /\ case' \in Decided
    <3>1. CASE Head(feed) \in Remembered
      BY <1>0, <1>4, <2>1, <3>1 DEF FeedDelivers, Begin, TypeOK, Holder, Recorded
    <3>2. CASE Head(feed) \notin Remembered
      BY <1>4, <2>1, <3>2, Begun DEF FeedDelivers
    <3> QED
      BY <3>1, <3>2
  <2> QED
    BY <1>4, <2>1, <2>2, TypeFrame DEF FeedDelivers, Begin, TypeOK
<1>5. ASSUME NEW id \in Ids, DirectCall(id)
      PROVE  TypeOK'
  <2>1. id \in Recorded /\ direct' \subseteq Recorded
    BY <1>5 DEF DirectCall, TypeOK
  <2>2. Holder(job)' /\ case' \in Decided
    <3>1. CASE id \in Remembered
      BY <1>0, <1>5, <2>1, <3>1 DEF DirectCall, Begin, TypeOK, Holder, Recorded
    <3>2. CASE id \notin Remembered
      BY <1>5, <2>1, <3>2, Begun DEF DirectCall
    <3> QED
      BY <3>1, <3>2
  <2> QED
    BY <1>5, <2>1, <2>2, TypeFrame DEF DirectCall, Begin, TypeOK
<1>6. CASE Schedule
  <2>1. job.id \in Recorded /\ job.id \in DOMAIN rows /\ job.id \in Ids
    BY <1>0, <1>6, LoopAssumption DEF Schedule, Holder, Recorded, TypeOK, Ids
  <2>2. Plan(rows[job.id].kind) \subseteq Agents
    BY <2>1, PlanType, RowKind
  <2>3. Holder(job)'
    <3>1. case.liftActive \in BOOLEAN /\ job.id # 0
      BY <1>0, <1>6 DEF Schedule, Holder, TypeOK, Decided
    <3> QED
      BY <1>0, <1>6, <2>1, <2>2, <3>1 DEF Schedule, Holder, Recorded, JobPcs, memory
  <2>4. runs' \in [Ids -> Nat]
    BY <1>6, <2>1 DEF Schedule, TypeOK
  <2> QED
    BY <1>6, <2>3, <2>4, TypeFrame DEF Schedule, TypeOK, memory
<1>7. ASSUME NEW agent \in Agents, RunSpecialist(agent)
      PROVE  TypeOK'
  <2>1. Holder(job)'
    BY <1>0, <1>7 DEF RunSpecialist, Holder, Recorded
  <2> QED
    BY <1>7, <2>1, TypeFrame DEF RunSpecialist, TypeOK, Fault
<1>8. CASE RecordOnly
  <2>1. job.id \in Recorded /\ Remember(job.id) /\ job' = Idle
    BY <1>0, <1>8 DEF RecordOnly, RecordOnlyEvent, Holder
  <2>2. handled' \in Seq(Recorded)
    BY <2>1, RememberType
  <2>3. Holder(job)'
    BY <1>8, <2>1, IdleHolder DEF RecordOnly, durable, Holder, Recorded
  <2> QED
    BY <1>8, <2>2, <2>3, TypeFrame DEF RecordOnly, durable, TypeOK
<1>9. CASE EnsureRules
  <2>1. Cardinality(chunks) + 1 \in Nat
    BY FS_CardinalityType DEF TypeOK
  <2>2. Holder(job)'
    BY <1>0, <1>9, <2>1 DEF EnsureRules, Holder, durable, memory, Recorded, JobPcs
  <2> QED
    BY <1>9, <2>2, TypeFrame DEF EnsureRules, durable, memory, TypeOK
<1>10. CASE RetrieveRules
  <2>1. Holder(job)' /\ docCount' \in Nat
    BY <1>0, <1>10 DEF RetrieveRules, Holder, Recorded, JobPcs
  <2> QED
    BY <1>10, <2>1, TypeFrame DEF RetrieveRules, TypeOK, Fault
<1>11. CASE DecideReads
  <2>1. Holder(job)'
    BY <1>0, <1>11 DEF DecideReads, Holder, durable, memory, Recorded, JobPcs, TypeOK, Decided
  <2> QED
    BY <1>11, <2>1, TypeFrame DEF DecideReads, durable, memory, TypeOK
<1>12. CASE LoadEvidence
  <2>1. Holder(job)'
    BY <1>0, <1>12 DEF LoadEvidence, Holder, durable, memory, Recorded, JobPcs
  <2> QED
    BY <1>12, <2>1, TypeFrame DEF LoadEvidence, durable, memory, TypeOK
<1>13. CASE Persist
  <2>1. Verdict \in Decisions
    BY VerdictType DEF Verdict
  <2>2. Holder(job)'
    BY <1>0, <1>13 DEF Persist, Holder, memory, Recorded, JobPcs
  <2>3. case' \in Decided /\ decided' \subseteq decided \cup Recorded
    BY <1>0, <1>13, <2>1 DEF Persist, Decided, Holder
  <2> QED
    BY <1>13, <2>2, <2>3, TypeFrame DEF Persist, memory, TypeOK
<1>14. CASE CommanderFails
  <2>1. Holder(job)'
    BY <1>14, IdleHolder DEF CommanderFails, durable, memory, Holder, Recorded
  <2> QED
    BY <1>14, <2>1, TypeFrame DEF CommanderFails, durable, memory, TypeOK, Fault
<1>15. CASE Dispatch
  <2>1. handled' \in Seq(Recorded)
    BY <1>0, <1>15, RememberType DEF Dispatch, Holder, TypeOK
  <2>2. alerts' \subseteq Workers \X Tiers
    <3>1. \A relation, lift, decision : TierFor(relation, lift, decision) \subseteq Tiers
      BY TierType
    <3> QED
      BY <1>15, <3>1 DEF Dispatch, LocatedWorkers, TypeOK
  <2>3. Holder(job)'
    BY <1>15, IdleHolder DEF Dispatch, Holder, Recorded
  <2> QED
    BY <1>15, <2>1, <2>2, <2>3, TypeFrame DEF Dispatch, TypeOK
<1>16. ASSUME NEW v \in Versions, StartImport(v)
       PROVE  TypeOK'
  <2>1. imports' \in 0..MaxImports
    BY <1>16, LoopAssumption DEF StartImport, TypeOK
  <2>2. IsFiniteSet(chunks)'
    BY <1>16, FS_EmptySet DEF StartImport
  <2> QED
    BY <1>0, <1>16, <2>1, <2>2, TypeFrame DEF StartImport, memory, TypeOK, Holder, Recorded
<1>17. ASSUME NEW c \in UNION Versions, InsertChunk(c)
       PROVE  TypeOK'
  <2>1. IsFiniteSet(chunks)'
    BY <1>17, FS_AddElement DEF InsertChunk, TypeOK
  <2> QED
    BY <1>0, <1>17, <2>1, TypeFrame DEF InsertChunk, memory, TypeOK, Holder, Recorded
<1>18. CASE Redecide
  <2>1. Holder(job)'
    BY <1>18 DEF Redecide, Idle, Holder, JobPcs, durable
  <2> QED
    BY <1>18, <2>1, TypeFrame DEF Redecide, durable, TypeOK, CountForgotten, NoImport
<1>19. CASE ResetEvidence
  BY <1>0, <1>19, TypeFrame DEF ResetEvidence, memory, TypeOK, Fault, Holder, Recorded
<1>20. CASE ResetRows
  BY <1>0, <1>20, TypeFrame DEF ResetRows, memory, TypeOK, Holder, Recorded
<1>21. CASE ResetCase
  <2>1. case' \in Decided
    BY <1>21 DEF ResetCase, NewCase, Decided, Decisions
  <2> QED
    BY <1>0, <1>21, <2>1, TypeFrame DEF ResetCase, TypeOK, Holder, Recorded
<1>22. CASE Crash
  <2>1. UNCHANGED <<rows, live, chunks, case, alerts, runs, decided, imports>>
    BY <1>22 DEF Crash, durable
  <2>2. Holder(job)'
    BY <1>22 DEF Crash, Idle, Holder, JobPcs
  <2>3. /\ staged' = {} /\ feed' = <<>> /\ direct' = {} /\ handled' = <<>>
        /\ docCount' = 0 /\ importer' = NoImport /\ resetPc' = "idle"
        /\ faults' \subseteq Faulty
    BY <1>22 DEF Crash, Fault, TypeOK
  <2> QED
    BY <2>1, <2>2, <2>3 DEF TypeOK, Holder, NoImport
<1>23. CASE ScriptImportEnds
  BY <1>0, <1>23, TypeFrame DEF ScriptImportEnds, durable, memory, TypeOK, Fault, NoImport,
                                Holder, Recorded
<1>24. CASE FeedReopens
  BY <1>0, <1>24, TypeFrame DEF FeedReopens, durable, TypeOK, Fault, Holder, Recorded
<1> QED
  BY <1>1, <1>2, <1>3, <1>4, <1>5, <1>6, <1>7, <1>8, <1>9, <1>10, <1>11, <1>12, <1>13,
     <1>14, <1>15, <1>16, <1>17, <1>18, <1>19, <1>20, <1>21, <1>22, <1>23, <1>24,
     NextActions

\* Type correctness.  In particular the lock holder is always on an event
\* that was recorded before, whatever crashes and resets there were.
THEOREM TypeCorrect == Spec => []TypeOK
BY TypeInit, TypeStep, PTL DEF Spec

-----------------------------------------------------------------------------
(* The inductive invariant, in the parts the properties need *)

LiftJob == job.id # 0 /\ rows[job.id].kind = "lift_state"

\* One event at a time: it is not one of the remembered ones, and a heartbeat
\* never gets as far as the rules.
OneAtATime ==
    /\ job.pc = "idle" => job.id = 0
    /\ job.id \notin Remembered
    /\ job.pc = "case" => job.todo = {}
    /\ RecordOnlyEvent => job.pc \in {"case", "agents"} /\ job.todo = {}
    /\ resetPc # "idle" => "reset" \in faults

\* No import is under way and none ended without a redecision.
Settled == importer.pc = "idle" /\ NoFault({"script"})

\* Unless an import is under way, a ruleset cached under a chunk count, and
\* the one a decision is about to use, is the one the stored chunks state.
RulesCurrent ==
    Settled =>
        /\ (docCount # 0 /\ ruleCache # NoRules) => ruleCache = BuildRuleset(chunks)
        /\ job.pc \in {"decide", "load", "persist", "dispatch"} =>
              job.rules = BuildRuleset(chunks)

\* The positions of the lift_state events in a sequence of ids, and that the
\* last of them, if there is one, says active.
LiftsIn(ids, table) == {i \in DOMAIN ids : table[ids[i]].kind = "lift_state"}
LastLiftIs(active, ids, table) ==
    LiftsIn(ids, table) # {} =>
        \E i \in LiftsIn(ids, table) : /\ \A j \in LiftsIn(ids, table) : j <= i
                                       /\ active = table[ids[i]].value

\* The flag of the case is the one of the last lift_state event, the one being
\* handled included, and what the lock holder has read of it still stands.
LiftAgreed ==
    Undisturbed =>
        /\ job.pc \in {"load", "persist"} => job.decideLift = case.liftActive
        /\ (job.pc \notin {"idle", "case"} /\ job.id # 0) => job.lift = case.liftActive
        /\ LiftJob => case.liftActive = rows[job.id].value
        /\ ~LiftJob => LastLiftIs(case.liftActive, handled, rows)

\* The decision that follows from what is stored.
Derived == DeriveDecision(facts, BuildRuleset(chunks), [s \in Sources |-> "fresh"],
                          case.liftActive)

\* Between two jobs, and during a heartbeat, the stored decision is that one.
DecisionCurrent ==
    Undisturbed =>
        /\ job.pc = "persist" => job.seen = facts
        /\ (Settled /\ (job.pc \in {"idle", "dispatch"} \/ RecordOnlyEvent))
              => case.decision = Derived

\* An event whose specialists may still be scheduled.
Due(id) ==
    \/ id \notin DOMAIN rows \/ id \in staged
    \/ job.pc = "case" /\ job.id = id
    \/ /\ id \in Range(feed) \cup direct
       /\ id \notin Remembered /\ job.id # id

\* No event is remembered twice, and one still due has not run.
RunOnce ==
    /\ IsFiniteSet(Remembered) /\ Cardinality(Remembered) = Len(handled)
    /\ NoFault({"commander"}) =>
          \A id \in Ids : runs[id] <= 1 /\ (Due(id) => runs[id] = 0)

\* Where a recorded event can be while the feed loses none: on its way, being
\* handled or decided.
Accounted ==
    (Undisturbed /\ NoFault({"feed"})) =>
        /\ (job.pc = "dispatch" /\ job.id # 0) => job.id \in decided
        /\ \A id \in DOMAIN rows : rows[id].kind # "heartbeat" =>
              /\ id \in Remembered => id \in decided
              /\ id \in staged \cup Range(feed) \cup {job.id} \cup decided

IsLatest(w, i) == i \in PositionsOf(w) /\ \A j \in PositionsOf(w) : j <= i

Alerted(w) == \E t \in {"ESCALATE", "STOP_ACK_REQUIRED"} : <<w, t>> \in alerts

\* A worker whose latest position, decided on, is inside the zone has been
\* alerted, except while that position or a lift_state event is being handled.
Warned ==
    /\ \A w \in Workers : PositionsOf(w) # {} => \E i \in DOMAIN rows : IsLatest(w, i)
    /\ (Undisturbed /\ case.liftActive /\ ~LiftJob) =>
          \A w \in Workers, i \in DOMAIN rows :
             (/\ IsLatest(w, i) /\ rows[i].value = "inside_risk_zone"
              /\ i \in decided /\ job.id # i)
                => Alerted(w)

IInv == TypeOK /\ OneAtATime /\ RulesCurrent /\ LiftAgreed /\ DecisionCurrent
        /\ Accounted /\ Warned

-----------------------------------------------------------------------------
(* What the steps do *)

\* Intake never rewrites a row, and a fault that happened stays recorded.
LEMMA RowsStay ==
    ASSUME TypeOK, [Next]_vars
    PROVE  /\ \A id \in DOMAIN rows : id \in DOMAIN rows' /\ rows'[id] = rows[id]
           /\ faults \subseteq faults'
           /\ Undisturbed' => Undisturbed
           /\ \A kind : NoFault({kind})' => NoFault({kind})
<1>1. CASE \E input \in Inputs : Ingest(input)
  <2>1. PICK input \in Inputs : Ingest(input)
    BY <1>1
  <2>2. rows \in Seq(Inputs) /\ rows' = Append(rows, input) /\ faults' = faults
    BY <2>1 DEF Ingest, TypeOK
  <2> QED
    BY <2>2 DEF Undisturbed, NoFault
<1>2. CASE ~\E input \in Inputs : Ingest(input)
  <2>1. rows' = rows /\ faults \subseteq faults'
    BY <1>2, NextActions
       DEF vars, durable, memory, RecordEvent, FeedDelivers, DirectCall, Begin, Schedule,
           RunSpecialist, RecordOnly, EnsureRules, RetrieveRules, DecideReads, LoadEvidence,
           Persist, CommanderFails, Dispatch, StartImport, InsertChunk, Redecide,
           ResetEvidence, ResetRows, ResetCase, Crash, ScriptImportEnds, FeedReopens, Fault
  <2> QED
    BY <2>1 DEF Undisturbed, NoFault
<1> QED
  BY <1>1, <1>2

\* The lock is taken for an event of the feed, or for a review by its caller.
Start(id) ==
    /\ id \in Range(feed) \cup direct
    /\ Begin(id)
    /\ Range(feed') \subseteq Range(feed) /\ direct' \subseteq direct
    /\ Range(feed) \subseteq Range(feed') \cup {id}

LEMMA Started ==
    ASSUME TypeOK, FeedDelivers \/ \E id \in Ids : DirectCall(id)
    PROVE  \E id \in Recorded : Start(id)
<1>1. feed \in Seq(Recorded) /\ direct \subseteq Recorded
  BY DEF TypeOK
<1>2. CASE FeedDelivers
  <2>1. /\ Head(feed) \in Recorded /\ Range(feed) = {Head(feed)} \cup Range(Tail(feed))
        /\ feed' = Tail(feed) /\ direct' = direct /\ Begin(Head(feed))
    BY <1>1, <1>2, TailRange DEF FeedDelivers
  <2> QED
    BY <2>1 DEF Start
<1>3. ASSUME NEW id \in Ids, DirectCall(id)
      PROVE  \E i \in Recorded : Start(i)
  <2>1. id \in direct /\ direct' = direct \ {id} /\ feed' = feed /\ Begin(id)
    BY <1>3 DEF DirectCall
  <2> QED
    BY <1>1, <2>1 DEF Start
<1> QED
  BY <1>2, <1>3

-----------------------------------------------------------------------------
(* One event at a time *)

LEMMA OneInit == Init => OneAtATime
BY DEF Init, OneAtATime, Idle, Remembered, RecordOnlyEvent

LEMMA OneStep ==
    ASSUME TypeOK, TypeOK', OneAtATime, [Next]_vars
    PROVE  OneAtATime'
<1>0. /\ Holder(job) /\ faults \subseteq faults'
      /\ \A id \in DOMAIN rows : rows'[id] = rows[id]
      /\ job.id = 0 \/ job.id \in DOMAIN rows
      /\ 0 \notin Remembered
  <2>1. Holder(job) /\ job.id \in {0} \cup Recorded
    BY DEF TypeOK, Holder
  <2>2. \A i \in DOMAIN handled : handled[i] \in Recorded
    BY DEF TypeOK
  <2>3. 0 \notin DOMAIN rows
    BY DEF TypeOK
  <2> QED
    BY <2>1, <2>2, <2>3, RowsStay DEF Recorded, Remembered
<1>1. CASE UNCHANGED vars
  BY <1>1 DEF vars, durable, memory, OneAtATime, Remembered, RecordOnlyEvent
<1>2. ASSUME NEW input \in Inputs, Ingest(input)
      PROVE  OneAtATime'
  BY <1>0, <1>2 DEF Ingest, OneAtATime, Remembered, RecordOnlyEvent
<1>3. ASSUME NEW id \in Ids, RecordEvent(id)
      PROVE  OneAtATime'
  BY <1>3 DEF RecordEvent, durable, OneAtATime, Remembered, RecordOnlyEvent
<1>4. CASE FeedDelivers \/ \E id \in Ids : DirectCall(id)
  <2>1. PICK id \in Recorded : Start(id)
    BY <1>4, Started
  <2>2. /\ UNCHANGED <<handled, rows, resetPc, faults>>
        /\ \/ job' = job
           \/ /\ job'.pc = "case" /\ job'.id = id /\ job'.todo = {}
              /\ id \notin Remembered
    BY <2>1 DEF Start, Begin, Idle
  <2>3. CASE job' = job
    BY <2>2, <2>3 DEF OneAtATime, Remembered, RecordOnlyEvent
  <2>4. CASE job' # job
    BY <2>2, <2>4 DEF OneAtATime, Remembered, RecordOnlyEvent
  <2> QED
    BY <2>3, <2>4
<1>5. CASE Schedule
  <2>1. RecordOnlyEvent => Plan(rows[job.id].kind) = {}
    BY DEF RecordOnlyEvent, Plan
  <2> QED
    BY <1>0, <1>5, <2>1 DEF Schedule, memory, OneAtATime, Remembered, RecordOnlyEvent, Holder
<1>6. ASSUME NEW agent \in Agents, RunSpecialist(agent)
      PROVE  OneAtATime'
  BY <1>0, <1>6 DEF RunSpecialist, OneAtATime, Remembered, RecordOnlyEvent, Holder
<1>7. CASE RecordOnly
  BY <1>0, <1>7 DEF RecordOnly, durable, OneAtATime, RecordOnlyEvent, TypeOK, Idle,
                    Remembered, Recorded
<1>8. CASE EnsureRules \/ RetrieveRules \/ DecideReads \/ LoadEvidence \/ Persist
  <2>1. UNCHANGED <<rows, handled, resetPc>>
    BY <1>8 DEF EnsureRules, RetrieveRules, DecideReads, LoadEvidence, Persist, durable, memory
  <2>2. /\ job'.pc \notin {"idle", "case"} /\ job'.id = job.id /\ ~RecordOnlyEvent
    BY <1>0, <1>8 DEF EnsureRules, RetrieveRules, DecideReads, LoadEvidence, Persist,
                      Holder, OneAtATime
  <2> QED
    BY <1>0, <2>1, <2>2 DEF OneAtATime, Remembered, RecordOnlyEvent
<1>9. CASE CommanderFails \/ Dispatch \/ Redecide \/ Crash
  <2>1. /\ job'.id = 0 /\ job'.todo = {}
        /\ resetPc' = resetPc \/ resetPc' = "idle"
    BY <1>9 DEF CommanderFails, Dispatch, Redecide, Crash, Idle
  <2>2. 0 \notin Remembered'
    BY DEF TypeOK, Recorded, Remembered
  <2> QED
    BY <1>0, <2>1, <2>2 DEF OneAtATime, RecordOnlyEvent
<1>10. CASE \/ \E v \in Versions : StartImport(v)
            \/ \E c \in UNION Versions : InsertChunk(c)
            \/ ResetEvidence \/ ResetRows \/ ResetCase \/ ScriptImportEnds \/ FeedReopens
  <2>1. /\ UNCHANGED <<job, rows, handled>>
        /\ resetPc' # "idle" => resetPc # "idle" \/ "reset" \in faults'
    BY <1>10 DEF StartImport, InsertChunk, ResetEvidence, ResetRows, ResetCase, durable, memory,
                 ScriptImportEnds, FeedReopens, Fault
  <2> QED
    BY <1>0, <2>1 DEF OneAtATime, Remembered, RecordOnlyEvent
<1> QED
  BY <1>1, <1>2, <1>3, <1>4, <1>5, <1>6, <1>7, <1>8, <1>9, <1>10, NextActions

-----------------------------------------------------------------------------
(* The rules a decision uses *)

LEMMA RulesInit == Init => RulesCurrent
BY DEF Init, RulesCurrent, Idle

LEMMA RulesStep ==
    ASSUME TypeOK, RulesCurrent, [Next]_vars
    PROVE  RulesCurrent'
<1>0. Holder(job) /\ (NoFault({"script"})' => NoFault({"script"}))
  BY RowsStay DEF TypeOK, Holder
<1> USE DEF Settled
<1>1. CASE \/ UNCHANGED vars
           \/ \E input \in Inputs : Ingest(input)
           \/ \E id \in Ids : RecordEvent(id)
           \/ ResetEvidence \/ ResetRows \/ FeedReopens
  <2>1. UNCHANGED <<importer, docCount, ruleCache, chunks, job>>
    BY <1>1 DEF vars, durable, memory, Ingest, RecordEvent, ResetEvidence, ResetRows,
                FeedReopens
  <2> QED
    BY <1>0, <2>1 DEF RulesCurrent
<1>2. CASE FeedDelivers \/ (\E id \in Ids : DirectCall(id)) \/ Schedule \/ RecordOnly
           \/ CommanderFails \/ Dispatch
  <2>1. UNCHANGED <<importer, docCount, ruleCache, chunks>>
    BY <1>2 DEF durable, memory, FeedDelivers, DirectCall, Begin, Schedule, RecordOnly,
                CommanderFails, Dispatch
  <2>2. job' = job \/ job'.pc \in {"idle", "case", "agents"}
    <3>1. CASE FeedDelivers \/ \E id \in Ids : DirectCall(id)
      BY <3>1 DEF FeedDelivers, DirectCall, Begin, Idle
    <3>2. CASE RecordOnly \/ CommanderFails \/ Dispatch
      BY <3>2 DEF RecordOnly, CommanderFails, Dispatch, Idle
    <3>3. CASE Schedule
      BY <1>0, <3>3 DEF Schedule, Holder
    <3> QED
      BY <1>2, <3>1, <3>2, <3>3
  <2> QED
    BY <1>0, <2>1, <2>2 DEF RulesCurrent
<1>3. ASSUME NEW agent \in Agents, RunSpecialist(agent)
      PROVE  RulesCurrent'
  <2>1. UNCHANGED <<importer, docCount, chunks>> /\ job'.pc = "agents"
    BY <1>0, <1>3 DEF RunSpecialist, Holder
  <2>2. ruleCache' = ruleCache \/ ruleCache' = CurrentRules
    BY <1>3 DEF RunSpecialist, TelemetryProximity
  <2> QED
    BY <1>0, <2>1, <2>2 DEF RulesCurrent, CurrentRules
<1>4. CASE EnsureRules
  <2>1. Cardinality(chunks) + 1 # 0
    BY FS_CardinalityType DEF TypeOK
  <2> QED
    BY <1>0, <1>4, <2>1 DEF EnsureRules, RulesStand, durable, memory, RulesCurrent, Holder
<1>5. CASE RetrieveRules
  BY <1>0, <1>5 DEF RetrieveRules, RulesCurrent, Holder
<1>6. CASE DecideReads \/ LoadEvidence \/ Persist
  <2>1. UNCHANGED <<importer, docCount, ruleCache, chunks>>
    BY <1>6 DEF DecideReads, LoadEvidence, Persist, durable, memory
  <2>2. job'.rules = job.rules /\ job.pc \in {"decide", "load", "persist"}
    BY <1>0, <1>6 DEF DecideReads, LoadEvidence, Persist, Holder
  <2> QED
    BY <1>0, <2>1, <2>2 DEF RulesCurrent
<1>7. CASE \/ \E v \in Versions : StartImport(v)
           \/ \E c \in UNION Versions : InsertChunk(c)
  <2>1. importer'.pc = "insert"
    BY <1>7 DEF StartImport, InsertChunk, TypeOK
  <2> QED
    BY <2>1 DEF RulesCurrent
<1>8. CASE Redecide
  BY <1>0, <1>8 DEF Redecide, CountForgotten, Idle, RulesCurrent
<1>9. CASE ResetCase
  BY <1>0, <1>9 DEF ResetCase, RulesCurrent
<1>10. CASE Crash
  BY <1>10 DEF Crash, Idle, RulesCurrent
<1>11. CASE ScriptImportEnds
  BY <1>11 DEF ScriptImportEnds, Fault, NoFault, RulesCurrent
<1> QED
  BY <1>1, <1>2, <1>3, <1>4, <1>5, <1>6, <1>7, <1>8, <1>9, <1>10, <1>11, NextActions

-----------------------------------------------------------------------------
(* The lift flag *)

\* Remembering one more event, and forgetting the oldest, keeps LastLiftIs.
LEMMA LastLiftAppend ==
    ASSUME NEW S, NEW ids \in Seq(S), NEW id \in S, NEW table, NEW active,
           IF table[id].kind = "lift_state" THEN active = table[id].value
           ELSE LastLiftIs(active, ids, table)
    PROVE  LastLiftIs(active, Append(ids, id), table)
<1> DEFINE all == Append(ids, id)
           n == Len(ids) + 1
<1>1. /\ Len(ids) \in Nat /\ DOMAIN ids = 1..Len(ids) /\ DOMAIN all = 1..n
      /\ all[n] = id /\ \A i \in DOMAIN ids : all[i] = ids[i]
  BY AppendRange
<1> HIDE DEF all
<1>2. CASE table[id].kind = "lift_state"
  <2>1. n \in LiftsIn(all, table) /\ \A j \in LiftsIn(all, table) : j <= n
    BY <1>1, <1>2 DEF LiftsIn
  <2> QED
    BY <1>1, <1>2, <2>1 DEF LastLiftIs, all
<1>3. CASE table[id].kind # "lift_state"
  <2>1. LiftsIn(all, table) = LiftsIn(ids, table)
    BY <1>1, <1>3 DEF LiftsIn
  <2>2. \A i \in LiftsIn(ids, table) : all[i] = ids[i]
    BY <1>1 DEF LiftsIn
  <2> QED
    BY <1>3, <2>1, <2>2 DEF LastLiftIs, all
<1> QED
  BY <1>2, <1>3

LEMMA LastLiftTail ==
    ASSUME NEW S, NEW ids \in Seq(S), ids # <<>>, NEW table, NEW active,
           LastLiftIs(active, ids, table)
    PROVE  LastLiftIs(active, Tail(ids), table)
<1> DEFINE rest == Tail(ids)
<1>1. /\ Len(ids) \in Nat /\ DOMAIN ids = 1..Len(ids) /\ DOMAIN rest = 1..(Len(ids) - 1)
      /\ \A i \in 1..(Len(ids) - 1) : rest[i] = ids[i + 1]
  BY TailRange
<1> HIDE DEF rest
<1> SUFFICES ASSUME NEW k \in LiftsIn(rest, table)
             PROVE  \E i \in LiftsIn(rest, table) :
                       /\ \A j \in LiftsIn(rest, table) : j <= i
                       /\ active = table[rest[i]].value
  BY DEF LastLiftIs, rest
<1>2. \A j \in LiftsIn(rest, table) : j \in Nat \ {0} /\ j + 1 \in LiftsIn(ids, table)
  BY <1>1 DEF LiftsIn
<1>3. PICK i \in LiftsIn(ids, table) : /\ \A j \in LiftsIn(ids, table) : j <= i
                                       /\ active = table[ids[i]].value
  BY <1>2 DEF LastLiftIs
<1>4. i \in 2..Len(ids)
  BY <1>1, <1>2, <1>3 DEF LiftsIn
<1>5. i - 1 \in LiftsIn(rest, table) /\ active = table[rest[i - 1]].value
  BY <1>1, <1>3, <1>4 DEF LiftsIn
<1>6. \A j \in LiftsIn(rest, table) : j <= i - 1
  BY <1>2, <1>3, <1>4
<1> QED
  BY <1>5, <1>6

LEMMA LastLiftRemember ==
    ASSUME TypeOK, NEW id \in Recorded, Remember(id), NEW active,
           IF rows[id].kind = "lift_state" THEN active = rows[id].value
           ELSE LastLiftIs(active, handled, rows)
    PROVE  LastLiftIs(active, handled', rows)
<1> DEFINE all == Append(handled, id)
<1>1. handled \in Seq(Recorded)
  BY DEF TypeOK
<1>2. LastLiftIs(active, all, rows)
  BY <1>1, LastLiftAppend
<1>3. all \in Seq(Recorded) /\ all # <<>>
  <2>1. all \in Seq(Recorded) /\ Len(all) = Len(handled) + 1 /\ Len(handled) \in Nat
    BY <1>1, AppendRange
  <2> QED
    BY <2>1
<1>4. LastLiftIs(active, Tail(all), rows)
  BY <1>2, <1>3, LastLiftTail
<1>5. handled' = all \/ handled' = Tail(all)
  BY DEF Remember
<1> QED
  BY <1>2, <1>4, <1>5

LEMMA LiftInit == Init => LiftAgreed
BY DEF Init, LiftAgreed, Idle, LiftJob, LastLiftIs, LiftsIn

LEMMA LiftStep ==
    ASSUME TypeOK, OneAtATime, LiftAgreed, [Next]_vars
    PROVE  LiftAgreed'
<1> SUFFICES ASSUME Undisturbed'
             PROVE  LiftAgreed'
  BY DEF LiftAgreed
<1>0. /\ Undisturbed /\ Holder(job) /\ case \in Decided
      /\ \A id \in DOMAIN rows : rows'[id] = rows[id]
      /\ job.id = 0 \/ job.id \in DOMAIN rows
      /\ \A i \in DOMAIN handled : handled[i] \in DOMAIN rows
  <2>1. Holder(job) /\ job.id \in {0} \cup Recorded /\ case \in Decided
    BY DEF TypeOK, Holder
  <2>2. \A i \in DOMAIN handled : handled[i] \in Recorded
    BY DEF TypeOK
  <2> QED
    BY <2>1, <2>2, RowsStay DEF Recorded
<1>1. CASE UNCHANGED <<case, handled, job>>
  <2>1. (LiftJob' <=> LiftJob) /\ (LiftJob => rows'[job.id] = rows[job.id])
    BY <1>0, <1>1 DEF LiftJob
  <2>2. LiftsIn(handled, rows') = LiftsIn(handled, rows)
    BY <1>0 DEF LiftsIn
  <2>3. \A i \in LiftsIn(handled, rows) : rows'[handled[i]] = rows[handled[i]]
    BY <1>0 DEF LiftsIn
  <2>4. ~LiftJob => LastLiftIs(case.liftActive, handled, rows')
    BY <1>0, <2>2, <2>3 DEF LiftAgreed, LastLiftIs
  <2>5. ~LiftJob' => LastLiftIs(case.liftActive, handled, rows)'
    BY <1>1, <2>1, <2>4
  <2> QED
    BY <1>0, <1>1, <2>1, <2>5 DEF LiftAgreed
<1>2. CASE FeedDelivers \/ \E id \in Ids : DirectCall(id)
  <2>1. PICK id \in Recorded : Start(id)
    BY <1>2, Started
  <2>2. UNCHANGED <<handled, rows>> /\ job.id = 0 /\ id # 0
    BY <2>1 DEF Start, Begin, OneAtATime, Recorded, TypeOK
  <2>3. CASE id \in Remembered
    BY <1>1, <2>1, <2>2, <2>3 DEF Start, Begin
  <2>4. CASE id \notin Remembered
    <3>1. job'.pc = "case" /\ job'.id = id
      BY <2>1, <2>4 DEF Start, Begin, Idle
    <3>2. IF rows[id].kind = "lift_state" THEN case'.liftActive = rows[id].value
          ELSE case' = case
      BY <1>0, <2>1, <2>4 DEF Start, Begin, LiftValue, Decided
    <3> QED
      BY <1>0, <2>2, <3>1, <3>2 DEF LiftAgreed, LiftJob
  <2> QED
    BY <2>3, <2>4
<1>3. CASE Schedule
  <2>1. UNCHANGED <<case, handled, rows>> /\ job'.pc = "agents"
        /\ job'.id = job.id /\ job'.lift = case.liftActive
    BY <1>0, <1>3 DEF Schedule, Holder, memory
  <2> QED
    BY <1>0, <2>1 DEF LiftAgreed, LiftJob
<1>4. CASE EnsureRules \/ RetrieveRules \/ \E agent \in Agents : RunSpecialist(agent)
  <2>1. /\ UNCHANGED <<case, handled, rows>> /\ job'.pc \in {"agents", "retrieve", "decide"}
        /\ job'.id = job.id /\ job'.lift = job.lift /\ job.pc \in {"agents", "retrieve"}
    <3>1. CASE EnsureRules
      BY <1>0, <3>1 DEF EnsureRules, SpecialistsDone, durable, memory, Holder
    <3>2. CASE RetrieveRules
      BY <1>0, <3>2 DEF RetrieveRules, Holder
    <3>3. CASE \E agent \in Agents : RunSpecialist(agent)
      BY <1>0, <3>3 DEF RunSpecialist, Holder
    <3> QED
      BY <1>4, <3>1, <3>2, <3>3
  <2> QED
    BY <1>0, <2>1 DEF LiftAgreed, LiftJob
<1>5. CASE DecideReads \/ LoadEvidence
  <2>1. /\ UNCHANGED <<case, handled, rows>> /\ job'.pc \in {"load", "persist"}
        /\ job'.id = job.id /\ job'.lift = job.lift /\ job.pc \in {"decide", "load"}
        /\ job'.decideLift = case.liftActive
    BY <1>0, <1>5 DEF DecideReads, LoadEvidence, durable, memory, Holder, LiftAgreed
  <2> QED
    BY <1>0, <2>1 DEF LiftAgreed, LiftJob
<1>6. CASE Persist
  <2>1. /\ UNCHANGED <<handled, rows>> /\ job'.pc = "dispatch" /\ job.pc = "persist"
        /\ job'.id = job.id /\ job'.lift = job.lift
        /\ case'.liftActive = case.liftActive
    BY <1>0, <1>6 DEF Persist, memory, Holder, LiftAgreed
  <2>2. ~LiftJob => LastLiftIs(case'.liftActive, handled, rows)
    BY <1>0, <2>1 DEF LiftAgreed
  <2>3. (LiftJob' <=> LiftJob) /\ (LiftJob => case.liftActive = rows[job.id].value)
    BY <1>0, <2>1 DEF LiftAgreed, LiftJob
  <2>4. ~LiftJob' => LastLiftIs(case.liftActive, handled, rows)'
    BY <2>1, <2>2, <2>3
  <2> QED
    BY <1>0, <2>1, <2>3, <2>4 DEF LiftAgreed
<1>7. CASE RecordOnly \/ Dispatch
  <2>1. /\ UNCHANGED <<case, rows>> /\ job'.pc = "idle" /\ job'.id = 0
        /\ IF job.id = 0 THEN handled' = handled ELSE Remember(job.id)
    BY <1>7 DEF RecordOnly, RecordOnlyEvent, Dispatch, durable, Idle
  <2>2. LastLiftIs(case.liftActive, handled', rows)
    <3>1. CASE job.id = 0
      BY <1>0, <2>1, <3>1 DEF LiftAgreed, LiftJob
    <3>2. CASE job.id # 0
      <4>1. job.id \in Recorded
        BY <3>2 DEF TypeOK
      <4>2. IF rows[job.id].kind = "lift_state" THEN case.liftActive = rows[job.id].value
            ELSE LastLiftIs(case.liftActive, handled, rows)
        BY <1>0, <3>2 DEF LiftAgreed, LiftJob
      <4> QED
        BY <2>1, <3>2, <4>1, <4>2, LastLiftRemember
    <3> QED
      BY <3>1, <3>2
  <2> QED
    BY <2>1, <2>2 DEF LiftAgreed, LiftJob
<1>8. CASE Redecide
  <2>1. UNCHANGED <<case, handled, rows>> /\ job'.pc = "agents" /\ job'.id = 0 /\ job.id = 0
    BY <1>8 DEF Redecide, durable, Idle, OneAtATime
  <2> QED
    BY <1>0, <2>1 DEF LiftAgreed, LiftJob
<1>9. CASE CommanderFails \/ ResetEvidence \/ ResetRows \/ ResetCase \/ Crash
  <2>1. "commander" \in faults' \/ "reset" \in faults' \/ "crash" \in faults'
    BY <1>9, RowsStay DEF CommanderFails, ResetEvidence, ResetRows, ResetCase, Crash,
                          Fault, OneAtATime
  <2> QED
    BY <2>1 DEF Undisturbed, NoFault
<1>10. CASE \/ UNCHANGED vars
            \/ \E input \in Inputs : Ingest(input)
            \/ \E id \in Ids : RecordEvent(id)
            \/ \E v \in Versions : StartImport(v)
            \/ \E c \in UNION Versions : InsertChunk(c)
            \/ ScriptImportEnds \/ FeedReopens
  BY <1>1, <1>10 DEF vars, durable, memory, Ingest, RecordEvent, StartImport, InsertChunk,
                     ScriptImportEnds, FeedReopens
<1> QED
  BY <1>2, <1>3, <1>4, <1>5, <1>6, <1>7, <1>8, <1>9, <1>10, NextActions

-----------------------------------------------------------------------------
(* The decision *)

\* A ruleset that lacks a rule escalates, whatever else is known.
LEMMA MissingRuleEscalates ==
    ASSUME NEW current, NEW ruleset, NEW status, NEW lift, MissingRules(ruleset) # {}
    PROVE  DeriveDecision(current, ruleset, status, lift) = "ESCALATE"
<1>1. Finding("RULES_NOT_RETRIEVED", "escalate") \in RuleFindings(ruleset)
  BY DEF RuleFindings, Raise
<1>2. Finding("RULES_NOT_RETRIEVED", "escalate").class = "escalate"
  BY DEF Finding
<1>3. RuleFindings(ruleset) \subseteq Findings(current, ruleset, status, lift)
  BY DEF Findings
<1> QED
  BY <1>1, <1>2, <1>3 DEF DeriveDecision, ResolveDecision

\* An initial case is escalated, as no rule is stored.
LEMMA DecisionInit == Init => DecisionCurrent
<1> SUFFICES ASSUME Init
             PROVE  DecisionCurrent
  OBVIOUS
<1>1. job.pc = "idle" /\ case.decision = "ESCALATE" /\ chunks = {}
  BY DEF Init, Idle, NewCase
<1>2. DOMAIN BuildRuleset(chunks) = {}
  BY <1>1 DEF BuildRuleset
<1>3. ZoneRule \in MissingRules(BuildRuleset(chunks))
  BY <1>2 DEF MissingRules, RequiredRules
<1>4. Derived = "ESCALATE"
  BY <1>3, MissingRuleEscalates DEF Derived
<1> QED
  BY <1>1, <1>4 DEF DecisionCurrent

\* A step that keeps what the decision follows from, and goes nowhere new.
LEMMA DecisionFrame ==
    ASSUME DecisionCurrent, UNCHANGED <<facts, chunks, case>>,
           Undisturbed' => Undisturbed, Settled' => Settled,
           job'.pc = "persist" => job'.seen = facts,
           (job'.pc \in {"idle", "dispatch"} \/ RecordOnlyEvent')
               => (job.pc \in {"idle", "dispatch"} \/ RecordOnlyEvent)
    PROVE  DecisionCurrent'
<1>1. Derived' = Derived
  BY DEF Derived
<1> QED
  BY <1>1 DEF DecisionCurrent

LEMMA DecisionStep ==
    ASSUME TypeOK, TypeOK', OneAtATime, OneAtATime', RulesCurrent, LiftAgreed,
           DecisionCurrent, [Next]_vars
    PROVE  DecisionCurrent'
<1>0. /\ Holder(job) /\ (Undisturbed' => Undisturbed)
      /\ importer' = importer => (Settled' => Settled)
      /\ \A id \in DOMAIN rows : rows'[id] = rows[id]
      /\ job.id = 0 \/ job.id \in DOMAIN rows
  BY RowsStay DEF TypeOK, Holder, Recorded, Settled
<1>1. CASE \/ UNCHANGED vars
           \/ \E input \in Inputs : Ingest(input)
           \/ \E id \in Ids : RecordEvent(id)
           \/ ResetRows \/ FeedReopens
  <2>1. UNCHANGED <<facts, chunks, case, importer, job>>
    BY <1>1 DEF vars, durable, memory, Ingest, RecordEvent, ResetRows, FeedReopens
  <2>2. RecordOnlyEvent' <=> RecordOnlyEvent
    BY <1>0, <2>1 DEF RecordOnlyEvent
  <2>3. job'.pc = "persist" => (Undisturbed' => job'.seen = facts)
    BY <1>0, <2>1 DEF DecisionCurrent
  <2>4. Derived' = Derived
    BY <2>1 DEF Derived
  <2> QED
    BY <1>0, <2>1, <2>2, <2>3, <2>4 DEF DecisionCurrent
<1>2. CASE FeedDelivers \/ \E id \in Ids : DirectCall(id)
  <2>1. PICK id \in Recorded : Start(id)
    BY <1>2, Started
  <2>2. /\ UNCHANGED <<facts, chunks, importer, rows>> /\ job.pc = "idle" /\ id # 0
    BY <2>1 DEF Start, Begin, Recorded, TypeOK
  <2>3. CASE id \in Remembered
    <3>1. UNCHANGED <<job, case>>
      BY <2>1, <2>3 DEF Start, Begin
    <3> QED
      BY <1>0, <2>2, <3>1, DecisionFrame DEF RecordOnlyEvent
  <2>4. CASE id \notin Remembered
    <3>1. job'.pc = "case" /\ job'.id = id
      BY <2>1, <2>4 DEF Start, Begin, Idle
    <3>2. CASE rows[id].kind = "heartbeat"
      <4>1. case' = case
        BY <2>1, <2>4, <3>2 DEF Start, Begin
      <4> QED
        BY <1>0, <2>2, <3>1, <4>1, DecisionFrame
    <3>3. CASE rows[id].kind # "heartbeat"
      <4>1. ~RecordOnlyEvent'
        BY <2>2, <3>1, <3>3 DEF RecordOnlyEvent
      <4> QED
        BY <3>1, <4>1 DEF DecisionCurrent
    <3> QED
      BY <3>2, <3>3
  <2> QED
    BY <2>3, <2>4
<1>3. CASE Schedule
  <2>1. /\ UNCHANGED <<facts, chunks, case, importer, rows>>
        /\ job'.pc = "agents" /\ job'.id = job.id
    BY <1>0, <1>3 DEF Schedule, Holder, memory
  <2> QED
    BY <1>0, <2>1, DecisionFrame DEF RecordOnlyEvent
<1>4. ASSUME NEW agent \in Agents, RunSpecialist(agent)
      PROVE  DecisionCurrent'
  <2>1. /\ UNCHANGED <<rows>> /\ job'.pc = "agents" /\ job'.id = job.id /\ job.todo # {}
    BY <1>0, <1>4 DEF RunSpecialist, Holder
  <2>2. ~RecordOnlyEvent'
    BY <2>1 DEF OneAtATime, RecordOnlyEvent
  <2> QED
    BY <2>1, <2>2 DEF DecisionCurrent
<1>5. CASE RecordOnly
  <2>1. UNCHANGED <<facts, chunks, case, importer>> /\ job'.pc = "idle" /\ RecordOnlyEvent
    BY <1>5 DEF RecordOnly, durable, Idle
  <2> QED
    BY <1>0, <2>1, DecisionFrame
<1>6. CASE EnsureRules \/ RetrieveRules \/ DecideReads
  <2>1. job'.pc \in {"retrieve", "decide", "load"}
    BY <1>0, <1>6 DEF EnsureRules, RetrieveRules, DecideReads, Holder
  <2>2. ~RecordOnlyEvent'
    BY <2>1 DEF OneAtATime
  <2> QED
    BY <2>1, <2>2 DEF DecisionCurrent
<1>7. CASE LoadEvidence
  <2>1. /\ facts' = facts /\ job'.pc = "persist" /\ job'.seen = facts
    BY <1>0, <1>7 DEF LoadEvidence, durable, Holder
  <2>2. ~RecordOnlyEvent'
    BY <2>1 DEF OneAtATime
  <2> QED
    BY <2>1, <2>2 DEF DecisionCurrent
<1>8. CASE Persist
  <2> SUFFICES ASSUME Undisturbed', Settled'
               PROVE  DecisionCurrent'
    <3>1. job'.pc = "dispatch"
      BY <1>0, <1>8 DEF Persist, Holder
    <3> QED
      BY <3>1 DEF DecisionCurrent
  <2>1. /\ UNCHANGED <<facts, chunks, importer>> /\ job.pc = "persist"
        /\ job'.pc = "dispatch"
        /\ case'.decision = Verdict /\ case'.liftActive = job.decideLift
    BY <1>0, <1>8 DEF Persist, Holder
  <2>2. job.rules = BuildRuleset(chunks) /\ job.seen = facts
    BY <1>0, <2>1 DEF RulesCurrent, DecisionCurrent
  <2>3. Derived' = Verdict
    BY <2>1, <2>2 DEF Derived, Verdict
  <2> QED
    BY <2>1, <2>3 DEF DecisionCurrent
<1>9. CASE Dispatch
  <2>1. /\ UNCHANGED <<facts, chunks, case, importer>> /\ job.pc = "dispatch"
        /\ job'.pc = "idle"
    BY <1>9 DEF Dispatch, Idle
  <2> QED
    BY <1>0, <2>1, DecisionFrame
<1>10. CASE \/ \E v \in Versions : StartImport(v)
            \/ \E c \in UNION Versions : InsertChunk(c)
  <2>1. ~Settled' /\ UNCHANGED <<job, facts>>
    BY <1>10 DEF StartImport, InsertChunk, TypeOK, Settled
  <2> QED
    BY <1>0, <2>1 DEF DecisionCurrent
<1>11. CASE Redecide
  <2>1. job'.pc = "agents" /\ job'.id = 0
    BY <1>11 DEF Redecide, Idle
  <2> QED
    BY <2>1 DEF DecisionCurrent, RecordOnlyEvent
<1>12. CASE CommanderFails \/ ResetEvidence \/ ResetCase \/ Crash
  <2>1. "commander" \in faults' \/ "reset" \in faults' \/ "crash" \in faults'
    BY <1>12, RowsStay DEF CommanderFails, ResetEvidence, ResetCase, Crash,
                          Fault, OneAtATime
  <2> QED
    BY <2>1 DEF Undisturbed, NoFault, DecisionCurrent
<1>13. CASE ScriptImportEnds
  <2>1. ~Settled' /\ UNCHANGED <<job, facts>>
    BY <1>13 DEF ScriptImportEnds, durable, Fault, NoFault, Settled
  <2> QED
    BY <1>0, <2>1 DEF DecisionCurrent
<1> QED
  BY <1>1, <1>2, <1>3, <1>4, <1>5, <1>6, <1>7, <1>8, <1>9, <1>10, <1>11, <1>12, <1>13,
     NextActions

-----------------------------------------------------------------------------
(* Where events are *)

LEMMA AccountedInit == Init => Accounted
BY DEF Init, Accounted, Idle

LEMMA AccountedStep ==
    ASSUME TypeOK, TypeOK', OneAtATime, Accounted, [Next]_vars
    PROVE  Accounted'
<1> SUFFICES ASSUME Undisturbed', NoFault({"feed"})'
             PROVE  Accounted'
  BY DEF Accounted
<1>0. /\ Holder(job) /\ Undisturbed /\ NoFault({"feed"})
      /\ \A id \in DOMAIN rows : rows'[id] = rows[id]
      /\ job.id = 0 \/ job.id \in DOMAIN rows
      /\ Remembered \subseteq Recorded /\ 0 \notin DOMAIN rows
  <2>1. Holder(job) /\ job.id \in {0} \cup Recorded /\ 0 \notin DOMAIN rows
    BY DEF TypeOK, Holder
  <2>2. \A i \in DOMAIN handled : handled[i] \in Recorded
    BY DEF TypeOK
  <2> QED
    BY <2>1, <2>2, RowsStay DEF Recorded, Remembered
<1>1. ASSUME NEW input \in Inputs, Ingest(input)
      PROVE  Accounted'
  <2>1. /\ DOMAIN rows' = DOMAIN rows \cup {Len(rows) + 1} /\ DOMAIN rows = 1..Len(rows)
        /\ staged' = staged \cup {Len(rows) + 1}
        /\ UNCHANGED <<feed, job, decided, handled>>
    BY <1>1, AppendRange DEF Ingest, TypeOK
  <2>2. Range(feed)' = Range(feed) /\ Remembered' = Remembered
    BY <2>1 DEF Range, Remembered
  <2>3. Len(rows) + 1 \notin DOMAIN rows
    BY <2>1 DEF TypeOK
  <2> QED
    BY <1>0, <2>1, <2>2, <2>3 DEF Accounted, Recorded
<1>2. ASSUME NEW id \in Ids, RecordEvent(id)
      PROVE  Accounted'
  <2>1. /\ UNCHANGED <<rows, job, decided, handled>> /\ feed' = Append(feed, id)
        /\ staged' = staged \ {id}
    BY <1>2 DEF RecordEvent, durable
  <2>2. feed \in Seq(Recorded \cup {id})
    BY DEF TypeOK
  <2>3. Range(feed') = Range(feed) \cup {id} /\ Remembered' = Remembered
    BY <2>1, <2>2, AppendRange DEF Remembered
  <2> QED
    BY <1>0, <2>1, <2>3 DEF Accounted
<1>3. CASE FeedDelivers \/ \E id \in Ids : DirectCall(id)
  <2>1. PICK id \in Recorded : Start(id)
    BY <1>3, Started
  <2>2. /\ UNCHANGED <<rows, decided, handled, staged>> /\ job.id = 0
        /\ Range(feed) \subseteq Range(feed') \cup {id}
        /\ Remembered' = Remembered
    BY <2>1 DEF Start, Begin, OneAtATime, Remembered
  <2>3. CASE id \in Remembered
    BY <1>0, <2>1, <2>2, <2>3 DEF Accounted, Start, Begin
  <2>4. CASE id \notin Remembered
    <3>1. job'.pc = "case" /\ job'.id = id
      BY <2>1, <2>4 DEF Start, Begin, Idle
    <3> QED
      BY <1>0, <2>2, <3>1 DEF Accounted
  <2> QED
    BY <2>3, <2>4
<1>4. CASE \/ Schedule \/ (\E agent \in Agents : RunSpecialist(agent)) \/ EnsureRules
           \/ RetrieveRules \/ DecideReads \/ LoadEvidence
  <2>1. UNCHANGED <<rows, staged, feed, handled, decided>>
    BY <1>4 DEF Schedule, RunSpecialist, EnsureRules, RetrieveRules, DecideReads,
                LoadEvidence, durable, memory
  <2>2. job'.pc # "dispatch" /\ job'.id = job.id
    <3>1. CASE Schedule \/ \E agent \in Agents : RunSpecialist(agent)
      BY <1>0, <3>1 DEF Schedule, RunSpecialist, Holder
    <3>2. CASE EnsureRules \/ RetrieveRules \/ DecideReads \/ LoadEvidence
      BY <1>0, <3>2 DEF EnsureRules, RetrieveRules, DecideReads, LoadEvidence, Holder
    <3> QED
      BY <1>4, <3>1, <3>2
  <2>3. Range(feed)' = Range(feed) /\ Remembered' = Remembered
    BY <2>1 DEF Range, Remembered
  <2> QED
    BY <1>0, <2>1, <2>2, <2>3 DEF Accounted
<1>5. CASE Persist
  <2>1. /\ UNCHANGED <<rows, staged, feed, handled>> /\ job'.id = job.id
        /\ IF job.id = 0 THEN decided' = decided ELSE decided' = decided \cup {job.id}
    BY <1>0, <1>5 DEF Persist, memory, Holder
  <2>2. Range(feed)' = Range(feed) /\ Remembered' = Remembered
    BY <2>1 DEF Range, Remembered
  <2> QED
    BY <1>0, <2>1, <2>2 DEF Accounted
<1>6. CASE RecordOnly \/ Dispatch
  <2>1. /\ UNCHANGED <<rows, decided, staged, feed>> /\ job'.id = 0
        /\ IF job.id = 0 THEN handled' = handled ELSE Remember(job.id)
        /\ job.id # 0 => rows[job.id].kind = "heartbeat" \/ job.pc = "dispatch"
    BY <1>6 DEF RecordOnly, RecordOnlyEvent, Dispatch, durable, Idle
  <2>2. Range(handled') \subseteq Range(handled) \cup {job.id}
    BY <1>0, <2>1, RememberType DEF Holder
  <2>3. Range(feed)' = Range(feed) /\ Remembered' \subseteq Remembered \cup {job.id}
    BY <2>1, <2>2 DEF Range, Remembered
  <2> QED
    BY <1>0, <2>1, <2>3 DEF Accounted
<1>7. CASE \/ UNCHANGED vars
           \/ \E v \in Versions : StartImport(v)
           \/ \E c \in UNION Versions : InsertChunk(c)
           \/ Redecide \/ ScriptImportEnds
  <2>1. UNCHANGED <<rows, staged, feed, handled, decided>> /\ job'.id = job.id
        /\ (job'.pc = "dispatch" => job.pc = "dispatch")
    BY <1>7 DEF vars, durable, memory, StartImport, InsertChunk, Redecide, Idle, OneAtATime,
                ScriptImportEnds
  <2>2. Range(feed)' = Range(feed) /\ Remembered' = Remembered
    BY <2>1 DEF Range, Remembered
  <2> QED
    BY <1>0, <2>1, <2>2 DEF Accounted
<1>8. CASE CommanderFails \/ ResetEvidence \/ ResetRows \/ ResetCase \/ Crash
  <2>1. "commander" \in faults' \/ "reset" \in faults' \/ "crash" \in faults'
    BY <1>8, RowsStay DEF CommanderFails, ResetEvidence, ResetRows, ResetCase, Crash,
                          Fault, OneAtATime
  <2> QED
    BY <2>1 DEF Undisturbed, NoFault
<1>9. CASE FeedReopens
  BY <1>9 DEF FeedReopens, Fault, NoFault
<1> QED
  BY <1>1, <1>2, <1>3, <1>4, <1>5, <1>6, <1>7, <1>8, <1>9, NextActions

-----------------------------------------------------------------------------
(* Workers are warned *)

LEMMA LatestIs ==
    ASSUME TypeOK, NEW w, NEW i, IsLatest(w, i)
    PROVE  LatestRelation(w) = rows[i].value
<1>1. \A k \in PositionsOf(w) : k \in Nat
  BY DEF PositionsOf, TypeOK
<1>2. \A k \in PositionsOf(w) : (\A j \in PositionsOf(w) : j <= k) => k = i
  BY <1>1 DEF IsLatest
<1>3. (CHOOSE k \in PositionsOf(w) : \A j \in PositionsOf(w) : j <= k) = i
  BY <1>2 DEF IsLatest
<1> QED
  BY <1>3 DEF LatestRelation

LEMMA WarnedInit == Init => Warned
BY DEF Init, Warned, PositionsOf, NewCase

LEMMA WarnedStep ==
    ASSUME TypeOK, TypeOK', OneAtATime, LiftAgreed, Warned, [Next]_vars
    PROVE  Warned'
<1>0. /\ Holder(job) /\ (Undisturbed' => Undisturbed) /\ case \in Decided
      /\ \A id \in DOMAIN rows : rows'[id] = rows[id]
      /\ job.id = 0 \/ job.id \in DOMAIN rows
  BY RowsStay DEF TypeOK, Holder, Recorded
<1>1. ASSUME NEW input \in Inputs, Ingest(input)
      PROVE  Warned'
  <2> DEFINE id == Len(rows) + 1
  <2>1. /\ DOMAIN rows' = DOMAIN rows \cup {id} /\ DOMAIN rows = 1..Len(rows)
        /\ id \notin DOMAIN rows /\ \A i \in DOMAIN rows : i <= id
        /\ rows'[id] = input /\ live \subseteq DOMAIN rows
    BY <1>1, AppendRange DEF Ingest, TypeOK
  <2>2. /\ UNCHANGED <<case, job, decided, alerts, faults>>
        /\ live' = live \cup {id} \/ live' = live
        /\ HasRow(input) => live' = live \cup {id}
    BY <1>1 DEF Ingest
  <2> HIDE DEF id
  <2>3. ASSUME NEW w \in Workers
        PROVE  \/ PositionsOf(w)' = PositionsOf(w)
               \/ PositionsOf(w)' = PositionsOf(w) \cup {id}
    BY <1>0, <2>1, <2>2 DEF PositionsOf
  <2>4. ASSUME NEW w \in Workers, PositionsOf(w)' # {}
        PROVE  \E i \in DOMAIN rows' : IsLatest(w, i)'
    <3>1. CASE PositionsOf(w)' = PositionsOf(w)
      <4>1. PICK i \in DOMAIN rows : IsLatest(w, i)
        BY <2>4, <3>1 DEF Warned
      <4> QED
        BY <2>1, <3>1, <4>1 DEF IsLatest
    <3>2. CASE PositionsOf(w)' = PositionsOf(w) \cup {id}
      <4>1. PositionsOf(w) \subseteq DOMAIN rows /\ id <= id
        BY <2>1 DEF PositionsOf, id
      <4>2. ASSUME NEW n, n = id
            PROVE  n \in DOMAIN rows' /\ IsLatest(w, n)'
        BY <2>1, <3>2, <4>1, <4>2 DEF IsLatest
      <4> QED
        BY <4>2
    <3> QED
      BY <2>3, <3>1, <3>2
  <2>5. ASSUME NEW w \in Workers, NEW i \in DOMAIN rows', IsLatest(w, i)', i \in decided'
        PROVE  i \in DOMAIN rows /\ IsLatest(w, i)
    <3>1. i \in DOMAIN rows
      BY <2>2, <2>5 DEF TypeOK
    <3> QED
      BY <2>1, <2>3, <2>5, <3>1 DEF IsLatest
  <2>6. (LiftJob' <=> LiftJob) /\ (Undisturbed' => Undisturbed)
    BY <1>0, <2>2 DEF LiftJob
  <2> QED
    BY <1>0, <2>2, <2>4, <2>5, <2>6 DEF Warned, Alerted
<1>2. ASSUME UNCHANGED <<rows, live>>,
             Undisturbed' => (/\ alerts \subseteq alerts'
                              /\ case'.liftActive => case.liftActive \/ LiftJob'
                              /\ decided' \subseteq decided \cup {job'.id}
                              /\ ~LiftJob' => ~LiftJob
                              /\ \A w \in Workers : job.id # 0 /\ job.id \in PositionsOf(w)
                                    => job'.id = job.id)
      PROVE  Warned'
  <2>1. \A w \in Workers : PositionsOf(w)' = PositionsOf(w)
    BY <1>2 DEF PositionsOf
  <2>2. \A w \in Workers, i \in DOMAIN rows : IsLatest(w, i)' <=> IsLatest(w, i)
    BY <2>1 DEF IsLatest
  <2>3. ASSUME Undisturbed', case'.liftActive, ~LiftJob', NEW w \in Workers,
               NEW i \in DOMAIN rows, IsLatest(w, i), rows[i].value = "inside_risk_zone",
               i \in decided', job'.id # i
        PROVE  Alerted(w)'
    <3>1. Undisturbed /\ case.liftActive /\ ~LiftJob /\ i \in decided
      BY <1>0, <1>2, <2>3
    <3>2. job.id # i
      BY <1>2, <2>3 DEF IsLatest, TypeOK
    <3> QED
      BY <1>2, <2>3, <3>1, <3>2 DEF Warned, Alerted
  <2> QED
    BY <1>2, <2>1, <2>2, <2>3 DEF Warned
<1>3. CASE \/ UNCHANGED vars
           \/ \E id \in Ids : RecordEvent(id)
           \/ \E v \in Versions : StartImport(v)
           \/ \E c \in UNION Versions : InsertChunk(c)
           \/ Redecide \/ ScriptImportEnds \/ FeedReopens
  <2>1. UNCHANGED <<rows, live, alerts, case, decided>> /\ job'.id = job.id
    BY <1>3 DEF vars, durable, memory, RecordEvent, StartImport, InsertChunk, Redecide,
                Idle, OneAtATime, ScriptImportEnds, FeedReopens
  <2> QED
    BY <1>2, <2>1 DEF LiftJob
<1>4. CASE FeedDelivers \/ \E id \in Ids : DirectCall(id)
  <2>1. PICK id \in Recorded : Start(id)
    BY <1>4, Started
  <2>2. /\ UNCHANGED <<rows, live, alerts, decided>> /\ job.id = 0
    BY <2>1 DEF Start, Begin, OneAtATime
  <2>3. CASE id \in Remembered
    BY <1>2, <2>1, <2>2, <2>3 DEF Start, Begin, LiftJob
  <2>4. CASE id \notin Remembered
    <3>1. job'.id = id /\ id # 0
      BY <2>1, <2>4 DEF Start, Begin, Idle, Recorded, TypeOK
    <3>2. case' = case \/ LiftJob'
      BY <2>1, <2>2, <2>4, <3>1 DEF Start, Begin, LiftJob
    <3> QED
      BY <1>2, <2>2, <3>1, <3>2 DEF LiftJob
  <2> QED
    BY <2>3, <2>4
<1>5. CASE \/ Schedule \/ (\E agent \in Agents : RunSpecialist(agent)) \/ EnsureRules
           \/ RetrieveRules \/ DecideReads \/ LoadEvidence
  <2>1. UNCHANGED <<rows, live, alerts, case, decided>>
    BY <1>5 DEF Schedule, RunSpecialist, EnsureRules, RetrieveRules, DecideReads,
                LoadEvidence, durable, memory
  <2>2. job'.id = job.id
    <3>1. CASE Schedule \/ \E agent \in Agents : RunSpecialist(agent)
      BY <1>0, <3>1 DEF Schedule, RunSpecialist, Holder
    <3>2. CASE EnsureRules \/ RetrieveRules \/ DecideReads \/ LoadEvidence
      BY <1>0, <3>2 DEF EnsureRules, RetrieveRules, DecideReads, LoadEvidence, Holder
    <3> QED
      BY <1>5, <3>1, <3>2
  <2> QED
    BY <1>2, <2>1, <2>2 DEF LiftJob
<1>6. CASE Persist
  <2>1. /\ UNCHANGED <<rows, live, alerts>> /\ job'.id = job.id
        /\ decided' \subseteq decided \cup {job.id}
        /\ Undisturbed => case'.liftActive = case.liftActive
    BY <1>0, <1>6 DEF Persist, memory, Holder, LiftAgreed
  <2> QED
    BY <1>0, <1>2, <2>1 DEF LiftJob
<1>7. CASE RecordOnly
  <2>1. UNCHANGED <<rows, live, alerts, case, decided>> /\ job'.id = 0
        /\ rows[job.id].kind = "heartbeat"
    BY <1>7 DEF RecordOnly, RecordOnlyEvent, durable, Idle
  <2> QED
    BY <1>2, <2>1 DEF LiftJob, PositionsOf
<1>8. CASE Dispatch
  <2>1. /\ UNCHANGED <<rows, live, case>> /\ job.pc = "dispatch"
        /\ LET lift == IF job.id = 0 THEN case.liftActive ELSE job.lift
           IN  alerts' = alerts \cup
                 UNION {{w} \X TierFor(LatestRelation(w), lift, Verdict) : w \in LocatedWorkers}
    BY <1>8 DEF Dispatch
  <2>2. \A w \in Workers : PositionsOf(w)' = PositionsOf(w)
    BY <2>1 DEF PositionsOf
  <2>3. \A w \in Workers, i \in DOMAIN rows : IsLatest(w, i)' <=> IsLatest(w, i)
    BY <2>2 DEF IsLatest
  <2>4. ASSUME Undisturbed, case.liftActive, NEW w \in Workers, NEW i \in DOMAIN rows,
               IsLatest(w, i), rows[i].value = "inside_risk_zone"
        PROVE  Alerted(w)'
    <3>1. w \in LocatedWorkers /\ LatestRelation(w) = "inside_risk_zone"
      BY <2>4, LatestIs DEF LocatedWorkers, IsLatest
    <3>2. (IF job.id = 0 THEN case.liftActive ELSE job.lift) = TRUE
      BY <1>0, <2>1, <2>4 DEF LiftAgreed, Decided
    <3>3. {w} \X TierFor("inside_risk_zone", TRUE, Verdict) \subseteq alerts'
      BY <2>1, <3>1, <3>2
    <3>4. \E t \in {"ESCALATE", "STOP_ACK_REQUIRED"} :
             t \in TierFor("inside_risk_zone", TRUE, Verdict)
      <4>1. CASE Verdict = "ESCALATE"
        BY <4>1 DEF TierFor
      <4>2. CASE Verdict # "ESCALATE"
        BY <4>2 DEF TierFor
      <4> QED
        BY <4>1, <4>2
    <3> QED
      BY <3>3, <3>4 DEF Alerted
  <2> QED
    BY <1>0, <2>1, <2>2, <2>3, <2>4 DEF Warned
<1>9. CASE CommanderFails \/ ResetEvidence \/ ResetCase \/ Crash
  <2>1. "commander" \in faults' \/ "reset" \in faults' \/ "crash" \in faults'
    BY <1>9, RowsStay DEF CommanderFails, ResetEvidence, ResetCase, Crash,
                          Fault, OneAtATime
  <2>2. UNCHANGED <<rows, live>>
    BY <1>9 DEF CommanderFails, ResetEvidence, ResetCase, Crash, durable
  <2> QED
    BY <1>2, <2>1, <2>2 DEF Undisturbed, NoFault
<1>10. CASE ResetRows
  <2>1. "reset" \in faults' /\ live' = {}
    BY <1>10, RowsStay DEF ResetRows, OneAtATime
  <2>2. \A w \in Workers : PositionsOf(w)' = {}
    BY <2>1 DEF PositionsOf
  <2> QED
    BY <2>1, <2>2 DEF Undisturbed, NoFault, Warned
<1> QED
  BY <1>1, <1>3, <1>4, <1>5, <1>6, <1>7, <1>8, <1>9, <1>10, NextActions

-----------------------------------------------------------------------------
\* The parts together are inductive.
THEOREM LoopInvariant == Spec => []IInv
<1>1. Init => IInv
  BY TypeInit, OneInit, RulesInit, LiftInit, DecisionInit, AccountedInit, WarnedInit DEF IInv
<1>2. IInv /\ [Next]_vars => IInv'
  <2> SUFFICES ASSUME IInv, [Next]_vars
               PROVE  IInv'
    OBVIOUS
  <2>1. TypeOK' /\ OneAtATime'
    BY TypeStep, OneStep DEF IInv
  <2>2. RulesCurrent' /\ LiftAgreed'
    BY RulesStep, LiftStep DEF IInv
  <2>3. DecisionCurrent' /\ Accounted' /\ Warned'
    BY <2>1, DecisionStep, AccountedStep, WarnedStep DEF IInv
  <2> QED
    BY <2>1, <2>2, <2>3 DEF IInv
<1> QED
  BY <1>1, <1>2, PTL DEF Spec

\* At rest the case shows the decision that follows from all that is stored,
\* whatever was ingested, imported, lost by the feed or failed to run on the
\* way and in whatever order.  (_ensure_rules, _decide, redecide.)
THEOREM QuiescentDecisionHolds == Spec => []QuiescentDecision
<1>1. IInv => QuiescentDecision
  BY DEF IInv, DecisionCurrent, QuiescentDecision, Quiescent, Derived, Settled
<1> QED
  BY <1>1, LoopInvariant, PTL

\* At rest the lift flag of the case is the one of the lift_state event handled
\* last, also when older results have been forgotten.  (handle_event, _persist.)
THEOREM LiftFollowsFeedHolds == Spec => []LiftFollowsFeed
<1>1. IInv => LiftFollowsFeed
  <2> SUFFICES ASSUME IInv, Quiescent, Undisturbed, LiftsIn(handled, rows) # {}
               PROVE  \E i \in LiftsIn(handled, rows) :
                         /\ \A j \in LiftsIn(handled, rows) : j <= i
                         /\ case.liftActive = rows[handled[i]].value
    BY DEF LiftFollowsFeed, LiftsIn
  <2>1. ~LiftJob
    BY DEF IInv, OneAtATime, Quiescent, LiftJob
  <2>2. LastLiftIs(case.liftActive, handled, rows)
    BY <2>1 DEF IInv, LiftAgreed
  <2> QED
    BY <2>2 DEF LastLiftIs
<1> QED
  BY <1>1, LoopInvariant, PTL

\* At rest with a lift active, every worker whose latest stored position is
\* inside the zone has been alerted.  (_dispatch_alerts, tier_for.)
THEOREM WorkersWarnedHolds == Spec => []WorkersWarned
<1>1. IInv => WorkersWarned
  <2> SUFFICES ASSUME IInv, Quiescent, Undisturbed, NoFault({"feed"}), case.liftActive,
                      NEW w \in Workers, PositionsOf(w) # {}, LatestRelation(w) = "inside_risk_zone"
               PROVE  Alerted(w)
    BY DEF WorkersWarned, Alerted
  <2>1. PICK i \in DOMAIN rows : IsLatest(w, i)
    BY DEF IInv, Warned
  <2>2. rows[i].value = "inside_risk_zone" /\ rows[i].kind = "position"
    BY <2>1, LatestIs DEF IInv, IsLatest, PositionsOf
  <2>3. job.id = 0 /\ ~LiftJob /\ i # 0
    BY DEF IInv, OneAtATime, Quiescent, LiftJob, TypeOK
  <2>4. i \in decided
    <3>1. Range(feed) = {} /\ staged = {}
      BY DEF Quiescent, Range
    <3> QED
      BY <2>2, <2>3, <3>1 DEF IInv, Accounted
  <2> QED
    BY <2>1, <2>2, <2>3, <2>4 DEF IInv, Warned
<1> QED
  BY <1>1, LoopInvariant, PTL

-----------------------------------------------------------------------------
(* One run per event, when no result is forgotten *)

LEMMA RunOnceInit == Init => RunOnce
<1> SUFFICES ASSUME Init
             PROVE  RunOnce
  OBVIOUS
<1>1. Remembered = {} /\ Len(handled) = 0
  BY DEF Init, Remembered
<1>2. \A id \in Ids : runs[id] = 0
  BY DEF Init
<1> QED
  BY <1>1, <1>2, FS_EmptySet DEF RunOnce

\* Nothing is forgotten while as many results are remembered as there are events.
LEMMA RememberAll ==
    ASSUME MaxEvents <= DedupCap, TypeOK, RunOnce, NEW id \in Recorded \ Remembered,
           Remember(id)
    PROVE  /\ Remembered' = Remembered \cup {id}
           /\ IsFiniteSet(Remembered') /\ Cardinality(Remembered') = Len(handled')
<1> DEFINE all == Append(handled, id)
<1>1. /\ handled \in Seq(Recorded) /\ Len(all) = Len(handled) + 1 /\ Len(handled) \in Nat
      /\ Range(all) = Range(handled) \cup {id}
  <2>1. handled \in Seq(Recorded)
    BY DEF TypeOK
  <2> QED
    BY <2>1, AppendRange
<1>2. IsFiniteSet(Range(all)) /\ Cardinality(Range(all)) = Len(handled) + 1
  <2>1. Range(handled) = Remembered /\ id \notin Remembered
    BY DEF Range, Remembered
  <2>2. IsFiniteSet(Remembered) /\ Cardinality(Remembered) = Len(handled)
    BY DEF RunOnce
  <2>3. /\ IsFiniteSet(Remembered \cup {id})
        /\ Cardinality(Remembered \cup {id}) = Len(handled) + 1
    BY <2>1, <2>2, FS_AddElement
  <2> QED
    BY <1>1, <2>1, <2>3
<1>3. Range(all) \subseteq 1..MaxEvents
  <2>1. Recorded \subseteq 1..MaxEvents
    BY LoopAssumption DEF Recorded, TypeOK
  <2>2. Range(handled) \subseteq Recorded
    BY <1>1, RangeOf
  <2> QED
    BY <1>1, <2>1, <2>2
<1>4. Len(all) <= DedupCap
  <2>1. IsFiniteSet(1..MaxEvents) /\ Cardinality(1..MaxEvents) = MaxEvents
    BY FS_Interval, LoopAssumption
  <2>2. Cardinality(Range(all)) <= MaxEvents
    BY <1>3, <2>1, FS_Subset
  <2> QED
    BY <1>1, <1>2, <2>2, LoopAssumption
<1>5. handled' = all
  BY <1>1, <1>4, LoopAssumption DEF Remember
<1>6. Remembered' = Range(all) /\ Range(handled) = Remembered
  BY <1>5 DEF Remembered, Range
<1> QED
  BY <1>1, <1>2, <1>5, <1>6

LEMMA RunOnceStep ==
    ASSUME MaxEvents <= DedupCap, TypeOK, TypeOK', OneAtATime, RunOnce, [Next]_vars
    PROVE  RunOnce'
<1>0. /\ Holder(job) /\ faults \subseteq faults'
      /\ job.id = 0 \/ job.id \in Recorded
      /\ 0 \notin DOMAIN rows /\ 0 \notin Ids
  <2>1. Holder(job) /\ job.id \in {0} \cup Recorded /\ 0 \notin DOMAIN rows
    BY DEF TypeOK, Holder
  <2> QED
    BY <2>1, RowsStay, LoopAssumption DEF Ids
<1>1. ASSUME UNCHANGED handled,
             NoFault({"commander"})' =>
                \A id \in Ids : /\ \/ runs'[id] = runs[id]
                                   \/ /\ Due(id) /\ ~Due(id)'
                                      /\ runs'[id] = runs[id] + 1
                                /\ Due(id)' => Due(id)
      PROVE  RunOnce'
  <2>1. Remembered' = Remembered
    BY <1>1 DEF Remembered
  <2>2. NoFault({"commander"})' => NoFault({"commander"})
    BY <1>0 DEF NoFault
  <2>3. \A id \in Ids : runs[id] \in Nat
    BY DEF TypeOK
  <2> QED
    BY <1>1, <2>1, <2>2, <2>3 DEF RunOnce
<1>2. ASSUME NEW input \in Inputs, Ingest(input)
      PROVE  RunOnce'
  <2> DEFINE n == Len(rows) + 1
  <2>1. /\ DOMAIN rows' = DOMAIN rows \cup {n} /\ n \notin DOMAIN rows
        /\ staged' = staged \cup {n}
        /\ UNCHANGED <<feed, direct, job, handled, runs>>
    BY <1>2, AppendRange DEF Ingest, TypeOK
  <2>2. Remembered' = Remembered /\ Range(feed)' = Range(feed)
    BY <2>1 DEF Remembered, Range
  <2>3. \A id \in Ids : Due(id)' => Due(id)
    BY <2>1, <2>2 DEF Due
  <2> QED
    BY <1>1, <2>1, <2>3
<1>3. ASSUME NEW new \in Ids, RecordEvent(new)
      PROVE  RunOnce'
  <2>1. /\ UNCHANGED <<rows, job, handled, runs>> /\ feed' = Append(feed, new)
        /\ new \in staged /\ staged' = staged \ {new} /\ direct' \subseteq direct \cup {new}
    BY <1>3 DEF RecordEvent, durable
  <2>2. feed \in Seq(Recorded \cup {new})
    BY DEF TypeOK
  <2>3. Range(feed') = Range(feed) \cup {new} /\ Remembered' = Remembered
    BY <2>1, <2>2, AppendRange DEF Remembered
  <2>4. \A id \in Ids : Due(id)' => Due(id)
    BY <2>1, <2>3 DEF Due
  <2> QED
    BY <1>1, <2>1, <2>4
<1>4. CASE FeedDelivers \/ \E id \in Ids : DirectCall(id)
  <2>1. PICK new \in Recorded : Start(new)
    BY <1>4, Started
  <2>2. /\ UNCHANGED <<rows, staged, handled, runs>> /\ job.id = 0
        /\ Range(feed') \subseteq Range(feed) /\ direct' \subseteq direct
        /\ new \in Range(feed) \cup direct
        /\ Remembered' = Remembered
    BY <2>1 DEF Start, Begin, OneAtATime, Remembered
  <2>3. \/ job' = job
        \/ new \notin Remembered /\ job'.id = new
    BY <2>1 DEF Start, Begin, Idle
  <2>4. \A id \in Ids : Due(id)' => Due(id)
    BY <1>0, <2>2, <2>3 DEF Due
  <2> QED
    BY <1>1, <2>2, <2>4
<1>5. CASE Schedule
  <2>1. /\ UNCHANGED <<rows, staged, feed, direct, handled>> /\ job'.pc = "agents"
        /\ job'.id = job.id /\ job.pc = "case" /\ job.id \in Recorded
        /\ runs' = runs \/ runs' = [runs EXCEPT ![job.id] = @ + 1]
    BY <1>0, <1>5 DEF Schedule, Holder, memory
  <2>2. Remembered' = Remembered /\ Range(feed)' = Range(feed)
    BY <2>1 DEF Remembered, Range
  <2>3. \A id \in Ids : Due(id)' => Due(id)
    BY <2>1, <2>2 DEF Due
  <2>4. Due(job.id) /\ \A id \in Ids : Due(id)' => id # job.id
    BY <2>1, <2>2 DEF Due, Recorded
  <2>5. \A id \in Ids : /\ id # job.id => runs'[id] = runs[id]
                        /\ runs'[id] = runs[id] \/ runs'[id] = runs[id] + 1
    BY <2>1 DEF TypeOK
  <2> QED
    BY <1>1, <2>1, <2>3, <2>4, <2>5
<1>6. CASE \/ (\E agent \in Agents : RunSpecialist(agent)) \/ EnsureRules
           \/ RetrieveRules \/ DecideReads \/ LoadEvidence \/ Persist
  <2>1. UNCHANGED <<rows, staged, feed, direct, handled, runs>>
    BY <1>6 DEF RunSpecialist, EnsureRules, RetrieveRules, DecideReads, LoadEvidence, Persist,
                durable, memory
  <2>2. job'.id = job.id /\ job'.pc # "case"
    <3>1. CASE \E agent \in Agents : RunSpecialist(agent)
      BY <1>0, <3>1 DEF RunSpecialist, Holder
    <3>2. CASE EnsureRules \/ RetrieveRules \/ DecideReads \/ LoadEvidence \/ Persist
      BY <1>0, <3>2 DEF EnsureRules, RetrieveRules, DecideReads, LoadEvidence, Persist, Holder
    <3> QED
      BY <1>6, <3>1, <3>2
  <2>3. Remembered' = Remembered /\ Range(feed)' = Range(feed)
    BY <2>1 DEF Remembered, Range
  <2>4. \A id \in Ids : Due(id)' => Due(id)
    BY <2>1, <2>2, <2>3 DEF Due
  <2> QED
    BY <1>1, <2>1, <2>4
<1>7. CASE RecordOnly \/ Dispatch
  <2>1. /\ UNCHANGED <<rows, staged, feed, direct, runs>> /\ job'.id = 0 /\ job'.pc = "idle"
        /\ IF job.id = 0 THEN handled' = handled ELSE Remember(job.id)
    BY <1>7 DEF RecordOnly, RecordOnlyEvent, Dispatch, durable, Idle
  <2>2. Range(feed)' = Range(feed)
    BY <2>1 DEF Range
  <2>3. CASE job.id = 0
    <3>1. Remembered' = Remembered
      BY <2>1, <2>3 DEF Remembered
    <3>2. \A id \in Ids : Due(id)' => Due(id)
      BY <1>0, <2>1, <2>2, <2>3, <3>1 DEF Due
    <3> QED
      BY <1>1, <2>1, <2>3, <3>2
  <2>4. CASE job.id # 0
    <3>1. job.id \in Recorded \ Remembered
      BY <1>0, <2>4 DEF OneAtATime
    <3>2. /\ Remembered' = Remembered \cup {job.id}
          /\ IsFiniteSet(Remembered') /\ Cardinality(Remembered') = Len(handled')
      BY <2>1, <2>4, <3>1, RememberAll
    <3>3. \A id \in Ids : Due(id)' => Due(id)
      BY <2>1, <2>2, <3>2 DEF Due
    <3>4. NoFault({"commander"})' => NoFault({"commander"})
      BY <1>0 DEF NoFault
    <3> QED
      BY <2>1, <3>2, <3>3, <3>4 DEF RunOnce
  <2> QED
    BY <2>3, <2>4
<1>8. CASE CommanderFails
  <2>1. "commander" \in faults' /\ handled' = handled
    BY <1>8 DEF CommanderFails, Fault, memory
  <2> QED
    BY <1>1, <2>1 DEF NoFault
<1>9. CASE \/ UNCHANGED vars
           \/ \E v \in Versions : StartImport(v)
           \/ \E c \in UNION Versions : InsertChunk(c)
           \/ Redecide \/ ResetEvidence \/ ResetRows \/ ResetCase \/ ScriptImportEnds
  <2>1. /\ UNCHANGED <<rows, staged, feed, direct, handled, runs>> /\ job'.id = job.id
        /\ job'.pc = job.pc \/ job'.pc = "agents"
    BY <1>9 DEF vars, durable, memory, StartImport, InsertChunk, Redecide, ResetEvidence,
                ResetRows, ResetCase, ScriptImportEnds, Idle, OneAtATime
  <2>2. Remembered' = Remembered /\ Range(feed)' = Range(feed)
    BY <2>1 DEF Remembered, Range
  <2>3. \A id \in Ids : Due(id)' => Due(id)
    BY <2>1, <2>2 DEF Due
  <2> QED
    BY <1>1, <2>1, <2>3
<1>10. CASE Crash
  <2>1. /\ rows' = rows /\ runs' = runs /\ staged' = {} /\ feed' = <<>> /\ direct' = {}
        /\ handled' = <<>> /\ job'.id = 0
    BY <1>10 DEF Crash, durable, Idle
  <2>2. Remembered' = {} /\ Range(feed)' = {} /\ Len(handled') = 0
    BY <2>1 DEF Remembered, Range
  <2>3. \A id \in Ids : Due(id)' => Due(id)
    BY <1>0, <2>1, <2>2 DEF Due
  <2>4. NoFault({"commander"})' => NoFault({"commander"})
    BY <1>0 DEF NoFault
  <2> QED
    BY <2>1, <2>2, <2>3, <2>4, FS_EmptySet DEF RunOnce
<1>11. CASE FeedReopens
  <2>1. UNCHANGED <<rows, staged, direct, handled, runs, job>> /\ feed' = <<>>
    BY <1>11 DEF FeedReopens, durable
  <2>2. Remembered' = Remembered /\ Range(feed)' = {}
    BY <2>1 DEF Remembered, Range
  <2>3. \A id \in Ids : Due(id)' => Due(id)
    BY <2>1, <2>2 DEF Due
  <2> QED
    BY <1>1, <2>1, <2>3
<1> QED
  BY <1>2, <1>3, <1>4, <1>5, <1>6, <1>7, <1>8, <1>9, <1>10, <1>11, NextActions

\* As long as fewer events come than results are remembered, the direct caller
\* of a manual review and the change feed, which bring the same event, schedule
\* its specialists once, in whatever order they arrive and whatever crashes.
\* (handle_event, its lock and _event_results.)
THEOREM ConvergesOnOneRunHolds ==
    ASSUME MaxEvents <= DedupCap
    PROVE  Spec => []ConvergesOnOneRun
<1> DEFINE Inv == TypeOK /\ OneAtATime /\ RunOnce
<1>1. Init => Inv
  BY TypeInit, OneInit, RunOnceInit
<1>2. Inv /\ [Next]_vars => Inv'
  BY TypeStep, OneStep, RunOnceStep
<1>3. Inv => ConvergesOnOneRun
  BY DEF RunOnce, ConvergesOnOneRun
<1> QED
  BY <1>1, <1>2, <1>3, PTL DEF Spec
=============================================================================
