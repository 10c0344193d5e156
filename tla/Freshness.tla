----------------------------- MODULE Freshness -----------------------------
(***************************************************************************)
(* Source freshness against the decision of the case (agents/data_watcher, *)
(* the freshness loop of apps/api/state.py, scripts/data_watcher.py).      *)
(*                                                                         *)
(* A critical source must report within its SLA.  A tick compares every    *)
(* source with its SLA from one snapshot, marks those that changed and     *)
(* asks for a redecision when it wrote evidence; events mark their source  *)
(* fresh, an outage event marks it stale; the commander reads the statuses *)
(* and persists a decision some steps later.  The case lock is held inside *)
(* one process: a watcher started by hand is another process with a lock   *)
(* of its own.                                                             *)
(*                                                                         *)
(* Time is the age of the last event of a source, compared with its SLA.   *)
(* The rest of the ladder is the decision it would give on fresh sources.  *)
(***************************************************************************)
EXTENDS Naturals, Sequences

CONSTANTS
    Sources,     \* the critical sources that must report continuously
    Api,         \* the process of the API
    Watchers,    \* processes running data_watcher.py --watch next to it
    Once,        \* processes running data_watcher.py --once
    MaxFeed,     \* bound on the events waiting in the change feed
    MaxFaults    \* bounds on the faults, by kind

FaultKinds == {"crash", "evidence", "commander", "reset"}

ASSUME FreshnessAssumption ==
    /\ Api \notin Watchers \cup Once /\ Watchers \cap Once = {}
    /\ MaxFeed \in Nat
    /\ MaxFaults \in [FaultKinds -> Nat]

Processes == {Api} \cup Watchers \cup Once
Decisions == {"ESCALATE", "HOLD", "CONDITIONAL_APPROVAL"}
Statuses == {"fresh", "stale", "unavailable"}
Ages == {"never", "recent", "old"}
Reports == {"data", "outage"}

VARIABLES
    status,      \* SOURCE_MANIFEST status per source
    age,         \* lastEventAt against the SLA: none, within it, beyond it
    decision,    \* CASES decision
    others,      \* what the ladder decides when every source is fresh
    feed,        \* recorded events not handled: [source, report]
    reporting,   \* sources whose event is recorded and whose row is not updated
    lastReport,  \* the last thing each source reported (history)
    job,         \* job[p]: the holder of the case lock of process p
    tick,        \* tick[p]: the freshness evaluation of process p
    resetPc,     \* the demo reset: the case, then the sources
    faults

vars == <<status, age, decision, others, feed, reporting, lastReport, job,
          tick, resetPc, faults>>

IdleJob == [pc |-> "idle", outage |-> {}, verdict |-> "ESCALATE", byTick |-> FALSE]
IdleTick == [pc |-> "idle", marks |-> {}, written |-> FALSE]

Init ==
    /\ status = [s \in Sources |-> "unavailable"]
    /\ age = [s \in Sources |-> "never"]
    /\ decision = "ESCALATE" /\ others = "ESCALATE"
    /\ feed = <<>> /\ reporting = {}
    /\ lastReport = [s \in Sources |-> "data"]
    /\ job = [p \in Processes |-> IdleJob]
    /\ tick = [p \in Processes |-> IdleTick]
    /\ resetPc = "idle"
    /\ faults = [f \in FaultKinds |-> 0]

Fault(kind) ==
    /\ faults[kind] < MaxFaults[kind]
    /\ faults' = [faults EXCEPT ![kind] = @ + 1]

Stale(st) == \E s \in Sources : st[s] # "fresh"

-----------------------------------------------------------------------------
(* Reports *)

\* The SLA of a source runs out.
Silence(s) ==
    /\ age[s] = "recent"
    /\ age' = [age EXCEPT ![s] = "old"]
    /\ UNCHANGED <<status, decision, others, feed, reporting, lastReport, job,
                   tick, resetPc, faults>>

\* _record_event inserts the event; an outage is an event like any other.
RecordEvent(s, report) ==
    /\ s \notin reporting /\ Len(feed) < MaxFeed
    /\ feed' = Append(feed, [source |-> s, report |-> report])
    /\ reporting' = reporting \cup {s}
    /\ lastReport' = [lastReport EXCEPT ![s] = report]
    /\ UNCHANGED <<status, age, decision, others, job, tick, resetPc, faults>>

\* ... and then record_source_activity marks its source fresh as of now.
RecordSourceActivity(s) ==
    /\ s \in reporting
    /\ reporting' = reporting \ {s}
    /\ status' = [status EXCEPT ![s] = "fresh"]
    /\ age' = [age EXCEPT ![s] = "recent"]
    /\ UNCHANGED <<decision, others, feed, lastReport, job, tick, resetPc, faults>>

-----------------------------------------------------------------------------
(* Decisions, under the lock of a process *)

HandleEvent ==
    /\ job[Api].pc = "idle" /\ feed # <<>>
    /\ LET event == Head(feed)
       IN  job' = [job EXCEPT ![Api] = [IdleJob EXCEPT
                     !.pc = "agents",
                     !.outage = IF event.report = "outage"
                                THEN {event.source} ELSE {}]]
    /\ feed' = Tail(feed)
    /\ UNCHANGED <<status, age, decision, others, reporting, lastReport, tick,
                   resetPc, faults>>

\* force_stale for an outage; for other events the specialists change what
\* the rest of the ladder decides.
RunAgents ==
    /\ job[Api].pc = "agents"
    /\ job' = [job EXCEPT ![Api].pc = "load"]
    /\ status' = [s \in Sources |->
                    IF s \in job[Api].outage THEN "stale" ELSE status[s]]
    /\ IF job[Api].outage = {} THEN others' \in Decisions ELSE UNCHANGED others
    /\ UNCHANGED <<age, decision, feed, reporting, lastReport, tick, resetPc,
                   faults>>

\* Mutant: a source that never reported does not count.
VerdictStaleOnly ==
    IF \E s \in Sources : status[s] = "stale" THEN "ESCALATE" ELSE others

Verdict == IF Stale(status) THEN "ESCALATE" ELSE others

\* The commander reads evidence and sources ...
LoadSources(p) ==
    /\ job[p].pc = "load"
    /\ job' = [job EXCEPT ![p].pc = "persist",
                          ![p].verdict = Verdict]
    /\ UNCHANGED <<status, age, decision, others, feed, reporting, lastReport,
                   tick, resetPc, faults>>

\* ... and persists its verdict once it has explained it.
Persist(p) ==
    /\ job[p].pc = "persist"
    /\ decision' = job[p].verdict
    /\ job' = [job EXCEPT ![p] = IdleJob]
    /\ UNCHANGED <<status, age, others, feed, reporting, lastReport, tick,
                   resetPc, faults>>

CommanderFails(p) ==
    /\ job[p].pc \in {"load", "persist"}
    /\ Fault("commander")
    /\ job' = [job EXCEPT ![p] = IdleJob]
    /\ UNCHANGED <<status, age, decision, others, feed, reporting, lastReport,
                   tick, resetPc>>

-----------------------------------------------------------------------------
(* evaluate_freshness and the loop around it *)

\* Mutant: the age itself is stored as the status.
AgainstAge(s) == age[s]

Against(s) ==
    CASE age[s] = "never" -> "unavailable"
      [] age[s] = "recent" -> "fresh"
      [] age[s] = "old" -> "stale"

\* One snapshot of the sources: what each should be marked as, where that is
\* a change.
EvaluateFreshness(p) ==
    /\ tick[p].pc = "idle" /\ ~job[p].byTick
    /\ tick' = [tick EXCEPT ![p] =
                  [IdleTick EXCEPT !.pc = "marking",
                     !.marks = {[source |-> s, status |-> Against(s)] :
                                 s \in {t \in Sources : status[t] # Against(t)}}]]
    /\ UNCHANGED <<status, age, decision, others, feed, reporting, lastReport,
                   job, resetPc, faults>>

MarkSourceStatus(p, mark) ==
    /\ tick[p].pc = "marking" /\ mark \in tick[p].marks
    /\ status' = [status EXCEPT ![mark.source] = mark.status]
    /\ tick' = [tick EXCEPT ![p].marks = @ \ {mark},
                            ![p].pc = IF mark.status = "fresh"
                                      THEN "marking" ELSE "evidence"]
    /\ UNCHANGED <<age, decision, others, feed, reporting, lastReport, job,
                   resetPc, faults>>

\* The failure is written as evidence; when the store fails here the whole
\* iteration is abandoned.
WriteFreshnessEvidence(p) ==
    /\ tick[p].pc = "evidence"
    /\ \/ /\ tick' = [tick EXCEPT ![p].pc = "marking", ![p].written = TRUE]
          /\ UNCHANGED faults
       \/ /\ Fault("evidence")
          /\ tick' = [tick EXCEPT ![p] = IdleTick]
    /\ UNCHANGED <<status, age, decision, others, feed, reporting, lastReport,
                   job, resetPc>>

Marked(p) == tick[p].pc = "marking" /\ tick[p].marks = {}

\* Mutant: the iteration may end whatever was written.
NothingEver(p) == TRUE

NothingToDecide(p) == ~tick[p].written \/ p \in Once

\* Nothing to decide again; with --once nothing is ever decided.
EndTick(p) ==
    /\ Marked(p) /\ NothingToDecide(p)
    /\ tick' = [tick EXCEPT ![p] = IdleTick]
    /\ UNCHANGED <<status, age, decision, others, feed, reporting, lastReport,
                   job, resetPc, faults>>

\* redecide, when evidence was written.  The loop of the API also redecides
\* when an acknowledgement deadline was escalated.
Redecide(p) ==
    /\ Marked(p) /\ p \notin Once
    /\ tick[p].written \/ p = Api
    /\ job[p].pc = "idle"
    /\ job' = [job EXCEPT ![p] = [IdleJob EXCEPT !.pc = "load", !.byTick = TRUE]]
    /\ tick' = [tick EXCEPT ![p] = IdleTick]
    /\ UNCHANGED <<status, age, decision, others, feed, reporting, lastReport,
                   resetPc, faults>>

-----------------------------------------------------------------------------
(* Reset and crash *)

ResetCase ==
    /\ resetPc = "idle" /\ Fault("reset")
    /\ decision' = "ESCALATE" /\ others' = "ESCALATE"
    /\ resetPc' = "sources"
    /\ UNCHANGED <<status, age, feed, reporting, lastReport, job, tick>>

ResetSources ==
    /\ resetPc = "sources"
    /\ status' = [s \in Sources |-> "unavailable"]
    /\ age' = [s \in Sources |-> "never"]
    /\ resetPc' = "idle"
    /\ UNCHANGED <<decision, others, feed, reporting, lastReport, job, tick,
                   faults>>

\* A process dies; register_sources keeps status and activity on restart.
Crash(p) ==
    /\ Fault("crash")
    /\ job' = [job EXCEPT ![p] = IdleJob]
    /\ tick' = [tick EXCEPT ![p] = IdleTick]
    /\ IF p = Api
       THEN feed' = <<>> /\ reporting' = {} /\ resetPc' = "idle"
       ELSE UNCHANGED <<feed, reporting, resetPc>>
    /\ UNCHANGED <<status, age, decision, others, lastReport>>

DecisionStep(p) == LoadSources(p) \/ Persist(p)

TickStep(p) ==
    \/ EvaluateFreshness(p)
    \/ \E m \in [source : Sources, status : Statuses] : MarkSourceStatus(p, m)
    \/ WriteFreshnessEvidence(p)
    \/ EndTick(p)

Next ==
    \/ \E s \in Sources : Silence(s) \/ RecordSourceActivity(s)
    \/ \E s \in Sources, r \in Reports : RecordEvent(s, r)
    \/ HandleEvent \/ RunAgents
    \/ \E p \in Processes :
          DecisionStep(p) \/ TickStep(p) \/ Redecide(p) \/ CommanderFails(p) \/ Crash(p)
    \/ ResetCase \/ ResetSources

Spec == Init /\ [][Next]_vars

\* The event loop runs every ready coroutine, a loop wakes from its sleep,
\* and asyncio.Lock serves its waiters in order: a redecision that keeps
\* asking for the lock gets it.
FairSpec ==
    /\ Spec
    /\ WF_vars(HandleEvent \/ RunAgents)
    /\ \A s \in Sources : WF_vars(RecordSourceActivity(s))
    /\ \A p \in Processes :
          WF_vars(DecisionStep(p)) /\ WF_vars(TickStep(p))
          /\ SF_vars(tick[p].written /\ Redecide(p))

-----------------------------------------------------------------------------
JobType == [pc : {"idle", "agents", "load", "persist"}, outage : SUBSET Sources,
            verdict : Decisions, byTick : BOOLEAN]
TickType == [pc : {"idle", "marking", "evidence"},
             marks : SUBSET [source : Sources, status : Statuses],
             written : BOOLEAN]

TypeOK ==
    /\ status \in [Sources -> Statuses]
    /\ age \in [Sources -> Ages]
    /\ decision \in Decisions /\ others \in Decisions
    /\ feed \in Seq([source : Sources, report : Reports])
    /\ reporting \subseteq Sources
    /\ lastReport \in [Sources -> Reports]
    /\ job \in [Processes -> JobType]
    /\ tick \in [Processes -> TickType]
    /\ resetPc \in {"idle", "sources"}
    /\ faults \in [FaultKinds -> Nat]

\* No decision is under way and no tick has marks still to act on.
Settled ==
    \A p \in Processes : job[p].pc = "idle" /\ tick[p].pc = "idle"

\* "A stale critical source changes the case decision to ESCALATE; it never
\* silently degrades to an approval": at rest a source that is not fresh and
\* a decision other than ESCALATE do not meet.
StaleEscalates == (Settled /\ Stale(status)) => decision = "ESCALATE"

\* With one process and no failure this is so, however events, ticks and
\* decisions interleave.  (evaluate_freshness, force_stale, redecide.)
NoClearanceOnStale ==
    (Processes = {Api} /\ \A f \in FaultKinds : faults[f] = 0) => StaleEscalates

\* Why it is so: a source that is not fresh is either about to be read by a
\* decision, or known to a tick that will ask for one, or the verdict to be
\* persisted, or else the decision, already is ESCALATE.
TickPending(p) ==
    tick[p].pc = "evidence" \/ (tick[p].pc = "marking" /\ tick[p].written)
EscalationDue ==
    (Processes = {Api} /\ (\A f \in FaultKinds : faults[f] = 0) /\ Stale(status)) =>
        \/ TickPending(Api)
        \/ job[Api].pc \in {"agents", "load"}
        \/ job[Api].pc = "persist" /\ job[Api].verdict = "ESCALATE"
        \/ job[Api].pc = "idle" /\ decision = "ESCALATE"

\* Without a failure, a source that stays silent for good ends in a case that
\* stays escalated: no tick or event in between can leave it cleared.
\* (_freshness_loop.)
SilenceEscalates ==
    [](\A f \in FaultKinds : faults[f] = 0) =>
        \A s \in Sources : <>[](age[s] = "old") => <>[](decision = "ESCALATE")

\* The case can only ESCALATE while a source that last reported an outage
\* has not reported data since.
OutageHolds ==
    (Settled /\ feed = <<>> /\ reporting = {}
        /\ \E s \in Sources : lastReport[s] = "outage")
    => decision = "ESCALATE"
=============================================================================
