--------------------------- MODULE Freshness_proofs ---------------------------
(***************************************************************************)
(* Proofs about Freshness, for every set of sources, every feed bound and  *)
(* every bound on the faults.                                              *)
(***************************************************************************)
EXTENDS Freshness, SequenceTheorems, TLAPS

\* The steps of Next, each with its process or source.  (Next is expanded
\* here once; the theorems below cite this lemma and case on the actions.)
LEMMA NextActions ==
    ASSUME Next
    PROVE  \/ \E s \in Sources : Silence(s)
           \/ \E s \in Sources : RecordSourceActivity(s)
           \/ \E s \in Sources, r \in Reports : RecordEvent(s, r)
           \/ HandleEvent
           \/ RunAgents
           \/ \E p \in Processes : LoadSources(p)
           \/ \E p \in Processes : Persist(p)
           \/ \E p \in Processes : CommanderFails(p)
           \/ \E p \in Processes : EvaluateFreshness(p)
           \/ \E p \in Processes :
                 \E m \in [source : Sources, status : Statuses] :
                    MarkSourceStatus(p, m)
           \/ \E p \in Processes : WriteFreshnessEvidence(p)
           \/ \E p \in Processes : EndTick(p)
           \/ \E p \in Processes : Redecide(p)
           \/ \E p \in Processes : Crash(p)
           \/ ResetCase
           \/ ResetSources
BY DEF Next, DecisionStep, TickStep

LEMMA ApiRuns == Api \in Processes
BY DEF Processes

LEMMA CountedFault ==
    ASSUME faults \in [FaultKinds -> Nat], NEW k \in FaultKinds, Fault(k)
    PROVE  /\ faults' \in [FaultKinds -> Nat]
           /\ faults'[k] # 0
           /\ \A f \in FaultKinds : faults[f] # 0 => faults'[f] # 0
BY DEF Fault

-----------------------------------------------------------------------------
LEMMA TypeStep == TypeOK /\ [Next]_vars => TypeOK'
<1> SUFFICES ASSUME TypeOK, [Next]_vars
             PROVE  TypeOK'
  OBVIOUS
<1> USE DEF TypeOK
<1>1. CASE UNCHANGED vars
  BY <1>1 DEF vars
<1>2. ASSUME NEW s \in Sources, Silence(s)
      PROVE  TypeOK'
  BY <1>2 DEF Silence, Ages
<1>3. ASSUME NEW s \in Sources, RecordSourceActivity(s)
      PROVE  TypeOK'
  BY <1>3 DEF RecordSourceActivity, Ages, Statuses
<1>4. ASSUME NEW s \in Sources, NEW r \in Reports, RecordEvent(s, r)
      PROVE  TypeOK'
  <2>1. [source |-> s, report |-> r] \in [source : Sources, report : Reports]
    OBVIOUS
  <2>2. feed' \in Seq([source : Sources, report : Reports])
    BY <1>4, <2>1 DEF RecordEvent
  <2> QED
    BY <1>4, <2>2 DEF RecordEvent
<1>5. CASE HandleEvent
  <2>1. Head(feed) \in [source : Sources, report : Reports]
        /\ Tail(feed) \in Seq([source : Sources, report : Reports])
    BY <1>5, HeadTailProperties DEF HandleEvent
  <2>2. [IdleJob EXCEPT !.pc = "agents",
                        !.outage = IF Head(feed).report = "outage"
                                   THEN {Head(feed).source} ELSE {}] \in JobType
    BY <2>1 DEF IdleJob, JobType, Decisions
  <2>3. job' \in [Processes -> JobType]
    BY <1>5, <2>2 DEF HandleEvent
  <2> QED
    BY <1>5, <2>1, <2>3 DEF HandleEvent
<1>6. CASE RunAgents
  <2>1. job' \in [Processes -> JobType]
    BY <1>6, ApiRuns DEF RunAgents, JobType
  <2>2. status' \in [Sources -> Statuses] /\ others' \in Decisions
    BY <1>6 DEF RunAgents, Statuses
  <2> QED
    BY <1>6, <2>1, <2>2 DEF RunAgents
<1>7. ASSUME NEW p \in Processes, LoadSources(p)
      PROVE  TypeOK'
  <2>1. Verdict \in Decisions
    BY DEF Verdict, Decisions
  <2>2. job' \in [Processes -> JobType]
    BY <1>7, <2>1 DEF LoadSources, JobType
  <2> QED
    BY <1>7, <2>2 DEF LoadSources
<1>8. ASSUME NEW p \in Processes, Persist(p)
      PROVE  TypeOK'
  <2>1. IdleJob \in JobType
    BY DEF IdleJob, JobType, Decisions
  <2>2. decision' \in Decisions
    BY <1>8 DEF Persist, JobType
  <2> QED
    BY <1>8, <2>1, <2>2 DEF Persist
<1>9. ASSUME NEW p \in Processes, CommanderFails(p)
      PROVE  TypeOK'
  <2>1. IdleJob \in JobType
    BY DEF IdleJob, JobType, Decisions
  <2>2. faults' \in [FaultKinds -> Nat]
    BY <1>9, CountedFault DEF CommanderFails, FaultKinds
  <2> QED
    BY <1>9, <2>1, <2>2 DEF CommanderFails
<1>10. ASSUME NEW p \in Processes, EvaluateFreshness(p)
       PROVE  TypeOK'
  <2> DEFINE marks == {[source |-> s, status |-> Against(s)] :
                         s \in {t \in Sources : status[t] # Against(t)}}
  <2>1. \A s \in Sources : Against(s) \in Statuses
    BY DEF Against, Ages, Statuses
  <2>2. marks \in SUBSET [source : Sources, status : Statuses]
    BY <2>1
  <2>3. [IdleTick EXCEPT !.pc = "marking", !.marks = marks] \in TickType
    BY <2>2 DEF IdleTick, TickType
  <2>4. tick' \in [Processes -> TickType]
    BY <1>10, <2>3 DEF EvaluateFreshness
  <2> QED
    BY <1>10, <2>4 DEF EvaluateFreshness
<1>11. ASSUME NEW p \in Processes,
              NEW m \in [source : Sources, status : Statuses],
              MarkSourceStatus(p, m)
       PROVE  TypeOK'
  <2>1. tick' \in [Processes -> TickType]
    <3> DEFINE next(pc) == [tick[p] EXCEPT !.marks = @ \ {m}, !.pc = pc]
    <3>1. \A pc \in {"marking", "evidence"} : next(pc) \in TickType
      BY DEF TickType
    <3>2. \E pc \in {"marking", "evidence"} : tick' = [tick EXCEPT ![p] = next(pc)]
      BY <1>11 DEF MarkSourceStatus
    <3> HIDE DEF next
    <3> QED
      BY <3>1, <3>2
  <2>2. status' \in [Sources -> Statuses]
    BY <1>11 DEF MarkSourceStatus
  <2> QED
    BY <1>11, <2>1, <2>2 DEF MarkSourceStatus
<1>12. ASSUME NEW p \in Processes, WriteFreshnessEvidence(p)
       PROVE  TypeOK'
  <2>1. IdleTick \in TickType
    BY DEF IdleTick, TickType
  <2>2. [tick[p] EXCEPT !.pc = "marking", !.written = TRUE] \in TickType
    BY DEF TickType
  <2>4. tick' \in [Processes -> TickType]
    <3>1. CASE tick' = [tick EXCEPT ![p] = IdleTick]
      BY <2>1, <3>1
    <3>2. CASE tick' = [tick EXCEPT ![p].pc = "marking", ![p].written = TRUE]
      BY <2>2, <3>2
    <3> QED
      BY <1>12, <3>1, <3>2 DEF WriteFreshnessEvidence
  <2>3. faults' \in [FaultKinds -> Nat]
    BY <1>12, CountedFault DEF WriteFreshnessEvidence, FaultKinds
  <2> QED
    BY <1>12, <2>4, <2>3 DEF WriteFreshnessEvidence
<1>13. ASSUME NEW p \in Processes, EndTick(p)
       PROVE  TypeOK'
  <2>1. IdleTick \in TickType
    BY DEF IdleTick, TickType
  <2> QED
    BY <1>13, <2>1 DEF EndTick
<1>14. ASSUME NEW p \in Processes, Redecide(p)
       PROVE  TypeOK'
  <2>1. IdleTick \in TickType
    BY DEF IdleTick, TickType
  <2>2. [IdleJob EXCEPT !.pc = "load", !.byTick = TRUE] \in JobType
    BY DEF IdleJob, JobType, Decisions
  <2> QED
    BY <1>14, <2>1, <2>2 DEF Redecide
<1>15. ASSUME NEW p \in Processes, Crash(p)
       PROVE  TypeOK'
  <2>1. IdleTick \in TickType /\ IdleJob \in JobType
    BY DEF IdleTick, TickType, IdleJob, JobType, Decisions
  <2>2. faults' \in [FaultKinds -> Nat]
    BY <1>15, CountedFault DEF Crash, FaultKinds
  <2>3. /\ feed' \in Seq([source : Sources, report : Reports])
        /\ reporting' \subseteq Sources
        /\ resetPc' \in {"idle", "sources"}
    <3>1. CASE p = Api
      BY <1>15, <3>1 DEF Crash
    <3>2. CASE p # Api
      BY <1>15, <3>2 DEF Crash
    <3> QED
      BY <3>1, <3>2
  <2> QED
    BY <1>15, <2>1, <2>2, <2>3 DEF Crash
<1>16. CASE ResetCase
  BY <1>16, CountedFault DEF ResetCase, FaultKinds, Decisions
<1>17. CASE ResetSources
  BY <1>17 DEF ResetSources, Statuses, Ages
<1> QED
  BY <1>1, <1>2, <1>3, <1>4, <1>5, <1>6, <1>7, <1>8, <1>9, <1>10, <1>11,
     <1>12, <1>13, <1>14, <1>15, <1>16, <1>17, NextActions

LEMMA TypeInit == Init => TypeOK
BY DEF Init, TypeOK, Statuses, Ages, Decisions, Reports, JobType, TickType,
       IdleJob, IdleTick

\* Type correctness: statuses, ages, the jobs under the case locks and the
\* marks of the ticks stay what the code can store.
THEOREM TypeCorrect == Spec => []TypeOK
BY TypeInit, TypeStep, PTL DEF Spec

-----------------------------------------------------------------------------
\* Between its two parts a reset is under way only after a reset was counted.
ResetCounted == resetPc = "sources" => faults["reset"] # 0

\* The inductive invariant.  EscalationDue needs the types, and it needs
\* ResetCounted because the second part of a reset takes sources out of
\* service without a decision.
IInv == TypeOK /\ ResetCounted /\ EscalationDue

LEMMA IInvInit == Init => IInv
<1> SUFFICES ASSUME Init PROVE IInv
  OBVIOUS
<1>1. TypeOK
  BY TypeInit
<1>2. ResetCounted
  BY DEF Init, ResetCounted
<1>3. EscalationDue
  BY ApiRuns DEF Init, EscalationDue, IdleJob
<1> QED
  BY <1>1, <1>2, <1>3 DEF IInv

\* A status that only becomes fresh makes no source stale.
LEMMA FreshUnblocks ==
    ASSUME NEW s \in Sources, status \in [Sources -> Statuses],
           status' = [status EXCEPT ![s] = "fresh"], Stale(status')
    PROVE  Stale(status)
BY DEF Stale

\* Every source that is not fresh leads to an escalated decision: each step
\* of the tick, of a handler and of a reporter keeps the obligation alive.
THEOREM EscalationAlwaysDue == Spec => []EscalationDue
<1>1. IInv /\ [Next]_vars => IInv'
  <2> SUFFICES ASSUME IInv, [Next]_vars, TypeOK' PROVE ResetCounted' /\ EscalationDue'
    BY TypeStep DEF IInv
  <2>1. ResetCounted'
    <3>1. CASE UNCHANGED vars
      BY <3>1 DEF vars, IInv, ResetCounted
    <3>2. CASE ResetCase
      BY <3>2, CountedFault DEF ResetCase, ResetCounted, IInv, TypeOK, FaultKinds
    <3>3. CASE ResetSources
      BY <3>3 DEF ResetSources, ResetCounted
    <3>4. ASSUME NEW p \in Processes, Crash(p)
          PROVE  ResetCounted'
      BY <3>4, CountedFault DEF Crash, ResetCounted, IInv, TypeOK, FaultKinds
    <3>5. ASSUME NEW p \in Processes, CommanderFails(p)
          PROVE  ResetCounted'
      BY <3>5, CountedFault DEF CommanderFails, ResetCounted, IInv, TypeOK, FaultKinds
    <3>6. ASSUME NEW p \in Processes, WriteFreshnessEvidence(p)
          PROVE  ResetCounted'
      BY <3>6, CountedFault
      DEF WriteFreshnessEvidence, ResetCounted, IInv, TypeOK, FaultKinds
    <3>7. CASE UNCHANGED <<resetPc, faults>>
      BY <3>7 DEF ResetCounted, IInv
    <3> QED
      BY <3>1, <3>2, <3>3, <3>4, <3>5, <3>6, <3>7, NextActions
      DEF Silence, RecordSourceActivity, RecordEvent, HandleEvent, RunAgents,
          LoadSources, Persist, EvaluateFreshness, MarkSourceStatus, EndTick,
          Redecide
  <2>2. EscalationDue'
    <3> SUFFICES ASSUME Processes = {Api},
                        \A f \in FaultKinds : faults'[f] = 0,
                        Stale(status')
                 PROVE  \/ TickPending(Api)'
                        \/ job'[Api].pc \in {"agents", "load"}
                        \/ job'[Api].pc = "persist" /\ job'[Api].verdict = "ESCALATE"
                        \/ job'[Api].pc = "idle" /\ decision' = "ESCALATE"
      BY DEF EscalationDue
    <3> DEFINE Due == \/ TickPending(Api)
                      \/ job[Api].pc \in {"agents", "load"}
                      \/ job[Api].pc = "persist" /\ job[Api].verdict = "ESCALATE"
                      \/ job[Api].pc = "idle" /\ decision = "ESCALATE"
    <3>1. (UNCHANGED faults /\ Stale(status)) => Due
      BY DEF IInv, EscalationDue
    <3>2. \A k \in FaultKinds : ~Fault(k)
      BY CountedFault DEF IInv, TypeOK
    <3>3. CASE UNCHANGED vars
      BY <3>1, <3>3 DEF vars, TickPending
    <3>4. ASSUME NEW s \in Sources, Silence(s) PROVE Due'
      BY <3>1, <3>4 DEF Silence, TickPending
    <3>5. ASSUME NEW s \in Sources, RecordSourceActivity(s) PROVE Due'
      BY <3>1, <3>5, FreshUnblocks DEF RecordSourceActivity, TickPending, IInv, TypeOK
    <3>6. ASSUME NEW s \in Sources, NEW r \in Reports, RecordEvent(s, r) PROVE Due'
      BY <3>1, <3>6 DEF RecordEvent, TickPending
    <3>7. CASE HandleEvent
      BY <3>7, ApiRuns DEF HandleEvent, IdleJob, IInv, TypeOK
    <3>8. CASE RunAgents
      BY <3>8, ApiRuns DEF RunAgents, IInv, TypeOK
    <3>9. ASSUME NEW p \in Processes, LoadSources(p) PROVE Due'
      BY <3>9, ApiRuns DEF LoadSources, Verdict, IInv, TypeOK
    <3>10. ASSUME NEW p \in Processes, Persist(p) PROVE Due'
      BY <3>1, <3>10, ApiRuns DEF Persist, IdleJob, TickPending, IInv, TypeOK
    <3>11. ASSUME NEW p \in Processes, CommanderFails(p) PROVE Due'
      BY <3>2, <3>11 DEF CommanderFails, FaultKinds
    <3>12. ASSUME NEW p \in Processes, EvaluateFreshness(p) PROVE Due'
      BY <3>1, <3>12 DEF EvaluateFreshness, TickPending
    <3>13. ASSUME NEW p \in Processes,
                  NEW m \in [source : Sources, status : Statuses],
                  MarkSourceStatus(p, m)
           PROVE  Due'
      <4>1. CASE m.status = "fresh"
        <5>1. Stale(status) /\ UNCHANGED faults
          BY <3>13, <4>1, FreshUnblocks DEF MarkSourceStatus, IInv, TypeOK
        <5>2. TickPending(Api) => TickPending(Api)'
          BY <3>13, <4>1, ApiRuns DEF MarkSourceStatus, TickPending, IInv, TypeOK, TickType
        <5> QED
          BY <3>1, <3>13, <5>1, <5>2 DEF MarkSourceStatus
      <4>2. CASE m.status # "fresh"
        BY <3>13, <4>2, ApiRuns DEF MarkSourceStatus, TickPending, IInv, TypeOK, TickType
      <4> QED
        BY <4>1, <4>2
    <3>14. ASSUME NEW p \in Processes, WriteFreshnessEvidence(p) PROVE Due'
      BY <3>2, <3>14, ApiRuns
      DEF WriteFreshnessEvidence, FaultKinds, TickPending, IInv, TypeOK, TickType
    <3>15. ASSUME NEW p \in Processes, EndTick(p) PROVE Due'
      BY <3>1, <3>15, FreshnessAssumption
      DEF EndTick, Marked, NothingToDecide, TickPending, Processes
    <3>16. ASSUME NEW p \in Processes, Redecide(p) PROVE Due'
      BY <3>16, ApiRuns DEF Redecide, IdleJob, IInv, TypeOK
    <3>17. ASSUME NEW p \in Processes, Crash(p) PROVE Due'
      BY <3>2, <3>17 DEF Crash, FaultKinds
    <3>18. CASE ResetCase
      BY <3>2, <3>18 DEF ResetCase, FaultKinds
    <3>19. CASE ResetSources
      BY <3>19 DEF ResetSources, IInv, ResetCounted, FaultKinds
    <3> QED
      BY <3>3, <3>4, <3>5, <3>6, <3>7, <3>8, <3>9, <3>10, <3>11, <3>12, <3>13,
         <3>14, <3>15, <3>16, <3>17, <3>18, <3>19, NextActions
  <2> QED
    BY <2>1, <2>2
<1> QED
  BY IInvInit, <1>1, PTL DEF Spec, IInv

\* At rest, with one process and no failure, no source that is not fresh
\* meets a decision other than ESCALATE.
THEOREM NeverClearedOnStale == Spec => []NoClearanceOnStale
<1>1. EscalationDue => NoClearanceOnStale
  BY ApiRuns
  DEF EscalationDue, NoClearanceOnStale, StaleEscalates, Settled, TickPending
<1> QED
  BY <1>1, EscalationAlwaysDue, PTL
=============================================================================
