------------------------------ MODULE CaseLoop ------------------------------
(***************************************************************************)
(* The closed loop around one case (agents/orchestrator): inputs are       *)
(* recorded as events, the change feed wakes the orchestrator, specialists *)
(* write evidence, rules are retrieved, the commander decides, workers are *)
(* alerted.  Next to it the two things that do not take the case lock:     *)
(* document imports and the demo reset; and process crashes.               *)
(*                                                                         *)
(* The store is the networked one (MongoStore): every store call suspends  *)
(* the coroutine, so a handler is a sequence of steps between which every  *)
(* other coroutine can run.  Two store calls are one step only when no     *)
(* other coroutine can tell the difference.  Evidence is kept reduced to   *)
(* current facts, which CaseEvidence justifies (LatestWins), and the       *)
(* critical sources stay fresh here: the module Freshness is about them.   *)
(***************************************************************************)
EXTENDS RiskEngine, FiniteSets

CONSTANTS
    Inputs,      \* what can be ingested: records [kind, subject, value]
    Versions,    \* the chunk sets the lift-plan file can hold when imported
    Scenes,      \* the items a vision or crew specialist can write
    MaxEvents,   \* bound on ingested inputs
    MaxImports,  \* bound on document imports
    Faulty,      \* the kinds of fault that can happen, each at most once
    MaxFaults,   \* bound on the faults of one run
    DedupCap,    \* how many handled events are remembered (2048 in the code)
    NoRules      \* the ruleset cache is empty

FaultKinds == {"crash", "specialist", "commander", "reset", "feed", "script"}
EventKinds == {"reading", "position", "lift_state", "vision_cue", "audio_cue",
               "review", "heartbeat", "documents_indexed"}

ASSUME LoopAssumption ==
    /\ MaxEvents \in Nat /\ MaxImports \in Nat /\ DedupCap \in Nat
    /\ Faulty \subseteq FaultKinds /\ MaxFaults \in Nat
    /\ \A input \in Inputs :
          /\ input.kind \in EventKinds
          /\ input.kind = "lift_state" => input.value \in BOOLEAN

VARIABLES
    \* durable
    rows,       \* everything ingested so far; an id is an index into it
    live,       \* ids whose TELEMETRY or WORKER_POSITIONS row is in the store
    facts,      \* EVIDENCE, reduced to current facts
    chunks,     \* DOCUMENTS: the chunks of the lift plan
    case,       \* CASES: [decision, liftActive]
    alerts,     \* <<worker, tier>> pairs sent (NOTIFICATIONS)
    runs,       \* runs[id]: specialist schedules journalled for the event
    decided,    \* ids of the events a commander run completed for
    \* in memory
    staged,     \* ids ingested whose event is not recorded yet
    feed,       \* recorded events the change feed has not delivered
    direct,     \* ids of recorded reviews whose caller still has to handle them
    handled,    \* _event_results: remembered ids, oldest first
    ruleCache,  \* _rules
    docCount,   \* _document_count, 0 standing for -1 and n + 1 for n
    job,        \* the holder of the case lock and where it is
    importer,   \* the import request: [pc, left]
    resetPc,    \* the reset request
    \* bounds
    imports,
    faults      \* the kinds of fault that have happened

durable == <<rows, live, facts, chunks, case, alerts, runs, decided>>
memory == <<staged, feed, direct, handled, ruleCache, docCount>>
vars == <<durable, memory, job, importer, resetPc, imports, faults>>

Ids == 1..MaxEvents
Idle == [pc |-> "idle", id |-> 0, lift |-> FALSE, todo |-> {}, count |-> 0,
         rules |-> NoRules, decideLift |-> FALSE, seen |-> {}]
NoImport == [pc |-> "idle", left |-> {}]
NewCase == [decision |-> "ESCALATE", liftActive |-> FALSE]

Init ==
    /\ rows = <<>> /\ live = {} /\ facts = {} /\ chunks = {}
    /\ case = NewCase
    /\ alerts = {} /\ decided = {}
    /\ runs = [i \in Ids |-> 0]
    /\ staged = {} /\ feed = <<>> /\ direct = {} /\ handled = <<>>
    /\ ruleCache = NoRules /\ docCount = 0
    /\ job = Idle /\ importer = NoImport /\ resetPc = "idle"
    /\ imports = 0
    /\ faults = {}

Fault(kind) ==
    /\ kind \in Faulty \ faults /\ Cardinality(faults) < MaxFaults
    /\ faults' = faults \cup {kind}

-----------------------------------------------------------------------------
(* Intake *)

HasRow(input) == input.kind \in {"reading", "position"}

\* A reading or a position is stored first and recorded as an event after.
Ingest(input) ==
    LET id == Len(rows) + 1
    IN  /\ Len(rows) < MaxEvents
        /\ rows' = Append(rows, input)
        /\ live' = IF HasRow(input) THEN live \cup {id} ELSE live
        /\ staged' = staged \cup {id}
    /\ UNCHANGED <<facts, chunks, case, alerts, runs, decided, feed, direct,
                   handled, ruleCache, docCount, job, importer, resetPc,
                   imports, faults>>

\* _record_event: the insert the change feed reports.  The caller of a
\* manual review goes on to handle its event itself.
RecordEvent(id) ==
    /\ id \in staged
    /\ staged' = staged \ {id}
    /\ feed' = Append(feed, id)
    /\ direct' = IF rows[id].kind = "review" THEN direct \cup {id} ELSE direct
    /\ UNCHANGED <<durable, handled, ruleCache, docCount, job, importer,
                   resetPc, imports, faults>>

-----------------------------------------------------------------------------
(* handle_event, under the case lock *)

\* Mutant: results are not looked up.
Forgotten == {}

Remembered == {handled[i] : i \in DOMAIN handled}

Remember(id) ==
    LET all == Append(handled, id)
    IN  handled' = IF Len(all) > DedupCap THEN Tail(all) ELSE all

\* Mutant: the event type is taken for the name of its agent.
PlanByName(kind) == {kind}

\* plan_for: the specialists an event type needs.
Plan(kind) ==
    CASE kind \in {"reading", "position", "lift_state"} -> {"telemetry-proximity"}
      [] kind = "vision_cue" -> {"vision-risk"}
      [] kind = "audio_cue" -> {"crew-comms"}
      [] kind = "review" -> {"vision-risk", "crew-comms"}
      [] kind \in {"heartbeat", "documents_indexed"} -> {}

\* Mutant: any lift state counts as an active one.
LiftTruthy(input) == TRUE

LiftValue(input) == input.value

\* Take the lock; an event already handled returns at once.
Begin(id) ==
    /\ job.pc = "idle"
    /\ IF id \in Remembered
       THEN UNCHANGED <<job, case>>
       ELSE /\ job' = [Idle EXCEPT !.pc = "case", !.id = id]
            /\ case' = IF rows[id].kind = "lift_state"
                       THEN [case EXCEPT !.liftActive = LiftValue(rows[id])]
                       ELSE case
    /\ UNCHANGED <<rows, live, facts, chunks, alerts, runs, decided, staged,
                   handled, ruleCache, docCount, importer, resetPc, imports,
                   faults>>

FeedDelivers ==
    /\ feed # <<>>
    /\ Begin(Head(feed))
    /\ feed' = Tail(feed)
    /\ UNCHANGED direct

DirectCall(id) ==
    /\ id \in direct
    /\ Begin(id)
    /\ direct' = direct \ {id}
    /\ UNCHANGED feed

\* Read the case and schedule the specialists the event needs.
Schedule ==
    /\ job.pc = "case"
    /\ LET todo == Plan(rows[job.id].kind)
       IN  /\ job' = [job EXCEPT !.pc = "agents", !.todo = todo,
                                 !.lift = case.liftActive]
           /\ runs' = IF todo = {} THEN runs
                      ELSE [runs EXCEPT ![job.id] = @ + 1]
    /\ UNCHANGED <<rows, live, facts, chunks, case, alerts, decided, memory,
                   importer, resetPc, imports, faults>>

\* The rules in memory, loaded from the store when there are none.
CurrentRules == IF ruleCache = NoRules THEN BuildRuleset(chunks) ELSE ruleCache

\* A reading is judged against the rules cached at that moment; a row that
\* is gone yields no evidence.
TelemetryProximity ==
    LET input == rows[job.id]
        write(item) == facts' = RecordFact(facts, item)
    IN  CASE input.kind = "reading" /\ job.id \in live ->
               /\ ruleCache' = CurrentRules
               /\ write(ReadingItem(input.subject, input.value, CurrentRules))
          [] input.kind = "position" /\ job.id \in live ->
               /\ write(PositionItem(input.subject, input.value))
               /\ UNCHANGED ruleCache
          [] input.kind = "lift_state" ->
               /\ write(StateItem("lift_state"))
               /\ UNCHANGED ruleCache
          [] OTHER -> UNCHANGED <<facts, ruleCache>>

\* One specialist runs, writing its evidence; or fails, writing none, and
\* the loop goes on without it.
RunSpecialist(agent) ==
    /\ job.pc = "agents" /\ agent \in job.todo
    /\ job' = [job EXCEPT !.todo = @ \ {agent}]
    /\ \/ /\ agent = "telemetry-proximity"
          /\ TelemetryProximity
          /\ UNCHANGED faults
       \/ /\ agent # "telemetry-proximity"
          /\ \E item \in Scenes[agent] : facts' = RecordFact(facts, item)
          /\ UNCHANGED <<ruleCache, faults>>
       \/ /\ Fault("specialist")
          /\ UNCHANGED <<facts, ruleCache>>
    /\ UNCHANGED <<rows, live, chunks, case, alerts, runs, decided, staged,
                   feed, direct, handled, docCount, importer, resetPc, imports>>

SpecialistsDone == job.pc = "agents" /\ job.todo = {}

\* Mutant: every event is record-only.
EventOnly == job.id # 0

\* Mutant: what moves, a worker or the lift, does not wake the commander.
MovesRecordOnly ==
    job.id # 0 /\ rows[job.id].kind \in {"heartbeat", "lift_state", "position"}

RecordOnlyEvent == job.id # 0 /\ rows[job.id].kind = "heartbeat"

\* A heartbeat is remembered without waking the commander.
RecordOnly ==
    /\ SpecialistsDone /\ RecordOnlyEvent
    /\ Remember(job.id)
    /\ job' = Idle
    /\ UNCHANGED <<durable, staged, feed, direct, ruleCache, docCount,
                   importer, resetPc, imports, faults>>

\* Mutant: once cached, the ruleset serves for good.
RulesCached(count) == ruleCache # NoRules

\* _ensure_rules: the cached ruleset serves while the chunk count stands.
RulesStand(count) == count = docCount /\ ruleCache # NoRules

EnsureRules ==
    /\ SpecialistsDone /\ ~RecordOnlyEvent
    /\ LET count == Cardinality(chunks) + 1
       IN  job' = IF RulesStand(count)
                  THEN [job EXCEPT !.pc = "decide", !.rules = ruleCache]
                  ELSE [job EXCEPT !.pc = "retrieve", !.count = count]
    /\ UNCHANGED <<durable, memory, importer, resetPc, imports, faults>>

\* The rules-retrieval specialist cites the rules; when it fails the rules
\* are loaded all the same.  The count kept is the one read before.
RetrieveRules ==
    /\ job.pc = "retrieve"
    /\ job' = [job EXCEPT !.pc = "decide", !.rules = BuildRuleset(chunks)]
    /\ ruleCache' = BuildRuleset(chunks)
    /\ docCount' = job.count
    /\ \/ facts' = RecordFact(facts, PolicyItem) /\ UNCHANGED faults
       \/ Fault("specialist") /\ UNCHANGED facts
    /\ UNCHANGED <<rows, live, chunks, case, alerts, runs, decided, staged,
                   feed, direct, handled, importer, resetPc, imports>>

\* _decide reads the case again before the commander starts.
DecideReads ==
    /\ job.pc = "decide"
    /\ job' = [job EXCEPT !.pc = "load", !.decideLift = case.liftActive]
    /\ UNCHANGED <<durable, memory, importer, resetPc, imports, faults>>

\* The commander reads all evidence, then explains it, then persists.
LoadEvidence ==
    /\ job.pc = "load"
    /\ job' = [job EXCEPT !.pc = "persist", !.seen = facts]
    /\ UNCHANGED <<durable, memory, importer, resetPc, imports, faults>>

Verdict ==
    DeriveDecision(job.seen, job.rules, [s \in Sources |-> "fresh"],
                   job.decideLift)

\* _persist writes the decision, and the lift flag read before it.
Persist ==
    /\ job.pc = "persist"
    /\ case' = [decision |-> Verdict, liftActive |-> job.decideLift]
    /\ decided' = IF job.id = 0 THEN decided ELSE decided \cup {job.id}
    /\ job' = [job EXCEPT !.pc = "dispatch"]
    /\ UNCHANGED <<rows, live, facts, chunks, alerts, runs, memory, importer,
                   resetPc, imports, faults>>

\* A failed commander run leaves no verdict: the handler raises, the event
\* is not remembered and the feed goes on to the next one.
CommanderFails ==
    /\ job.pc \in {"load", "persist"}
    /\ Fault("commander")
    /\ job' = Idle
    /\ UNCHANGED <<durable, memory, importer, resetPc, imports>>

\* The relation of a worker's latest stored position.
PositionsOf(worker) ==
    {i \in live : rows[i].kind = "position" /\ rows[i].subject = worker}
LatestRelation(worker) ==
    rows[CHOOSE i \in PositionsOf(worker) :
            \A j \in PositionsOf(worker) : j <= i].value

\* tier_for: the tier a relation calls for, if any.
TierFor(relation, liftActive, decision) ==
    CASE decision = "ESCALATE" /\ relation # "safe" -> {"ESCALATE"}
      [] decision # "ESCALATE" /\ relation = "inside_risk_zone" ->
            {IF liftActive THEN "STOP_ACK_REQUIRED" ELSE "CAUTION"}
      [] decision # "ESCALATE" /\ relation = "approaching" /\ liftActive ->
            {"CAUTION"}
      [] OTHER -> {}

LocatedWorkers == {w \in Workers : PositionsOf(w) # {}}

\* _dispatch_alerts for every worker with a position, then the event is
\* remembered and the lock released.  An event alerts by the lift flag read
\* at its start, a redecision by the flag as it is now.
Dispatch ==
    /\ job.pc = "dispatch"
    /\ LET lift == IF job.id = 0 THEN case.liftActive ELSE job.lift
       IN  alerts' = alerts \cup
             UNION {{w} \X TierFor(LatestRelation(w), lift, Verdict) :
                      w \in LocatedWorkers}
    /\ IF job.id = 0 THEN UNCHANGED handled ELSE Remember(job.id)
    /\ job' = Idle
    /\ UNCHANGED <<rows, live, facts, chunks, case, runs, decided, staged,
                   feed, direct, ruleCache, docCount, importer, resetPc,
                   imports, faults>>

-----------------------------------------------------------------------------
(* Document import: not under the lock until it asks for a redecision *)

StartImport(version) ==
    /\ importer.pc = "idle" /\ imports < MaxImports
    /\ imports' = imports + 1
    /\ chunks' = {}
    /\ importer' = [pc |-> "insert", left |-> version]
    /\ UNCHANGED <<rows, live, facts, case, alerts, runs, decided, memory, job,
                   resetPc, faults>>

InsertChunk(chunk) ==
    /\ importer.pc = "insert" /\ chunk \in importer.left
    /\ chunks' = chunks \cup {chunk}
    /\ importer' = [importer EXCEPT !.left = @ \ {chunk}]
    /\ UNCHANGED <<rows, live, facts, case, alerts, runs, decided, memory, job,
                   resetPc, imports, faults>>

\* Mutant: the chunk count is taken to be good enough.
CountStands == docCount

CountForgotten == 0

\* redecide forces retrieval, then goes on as an event without specialists.
Redecide ==
    /\ importer.pc = "insert" /\ importer.left = {}
    /\ job.pc = "idle"
    /\ job' = [Idle EXCEPT !.pc = "agents"]
    /\ docCount' = CountForgotten
    /\ importer' = NoImport
    /\ UNCHANGED <<durable, staged, feed, direct, handled, ruleCache, resetPc,
                   imports, faults>>

\* The import was the one of the script: another process, which asks for no
\* redecision.
ScriptImportEnds ==
    /\ importer.pc = "insert" /\ importer.left = {}
    /\ Fault("script")
    /\ importer' = NoImport
    /\ UNCHANGED <<durable, memory, job, resetPc, imports>>

-----------------------------------------------------------------------------
(* The demo reset: collection by collection, then the case; never locked *)

ResetEvidence ==
    /\ resetPc = "idle" /\ Fault("reset")
    /\ facts' = {}
    /\ resetPc' = "rows"
    /\ UNCHANGED <<rows, live, chunks, case, alerts, runs, decided, memory,
                   job, importer, imports>>

ResetRows ==
    /\ resetPc = "rows"
    /\ live' = {} /\ alerts' = {} /\ decided' = {}
    /\ resetPc' = "case"
    /\ UNCHANGED <<rows, facts, chunks, case, runs, memory, job, importer,
                   imports, faults>>

\* The case goes back to its initial decision and the cached rules go.
ResetCase ==
    /\ resetPc = "case"
    /\ case' = NewCase
    /\ ruleCache' = NoRules /\ docCount' = 0
    /\ resetPc' = "idle"
    /\ UNCHANGED <<rows, live, facts, chunks, alerts, runs, decided, staged,
                   feed, direct, handled, job, importer, imports, faults>>

-----------------------------------------------------------------------------
\* The change feed failed and opens again, from now: what it has not delivered,
\* the events of the two seconds in between included, it never delivers.
FeedReopens ==
    /\ Fault("feed")
    /\ feed' = <<>>
    /\ UNCHANGED <<durable, staged, direct, handled, ruleCache, docCount, job,
                   importer, resetPc, imports>>

\* The process dies and starts again: bootstrap finds the case and leaves its
\* decision as it was; the change feed starts from now.
Crash ==
    /\ Fault("crash")
    /\ staged' = {} /\ feed' = <<>> /\ direct' = {} /\ handled' = <<>>
    /\ ruleCache' = NoRules /\ docCount' = 0
    /\ job' = Idle /\ importer' = NoImport /\ resetPc' = "idle"
    /\ UNCHANGED <<durable, imports>>

\* What the lock holder and the feed consumer do next.
HandlerStep ==
    \/ FeedDelivers \/ \E id \in Ids : DirectCall(id)
    \/ Schedule
    \/ \E agent \in {"telemetry-proximity", "vision-risk", "crew-comms"} :
          RunSpecialist(agent)
    \/ RecordOnly \/ EnsureRules \/ RetrieveRules \/ DecideReads
    \/ LoadEvidence \/ Persist \/ Dispatch

RequestStep ==
    \/ \E id \in Ids : RecordEvent(id)
    \/ \E c \in UNION Versions : InsertChunk(c)
    \/ Redecide \/ ResetRows \/ ResetCase

Next ==
    \/ \E input \in Inputs : Ingest(input)
    \/ \E v \in Versions : StartImport(v)
    \/ HandlerStep \/ RequestStep
    \/ CommanderFails \/ ResetEvidence \/ Crash
    \/ ScriptImportEnds \/ FeedReopens

Spec == Init /\ [][Next]_vars

\* The event loop runs every ready coroutine.
FairSpec == Spec /\ WF_vars(HandlerStep) /\ WF_vars(RequestStep)

-----------------------------------------------------------------------------
Decided == [decision : Decisions, liftActive : BOOLEAN]
Tiers == {"ESCALATE", "STOP_ACK_REQUIRED", "CAUTION"}
Agents == {"telemetry-proximity", "vision-risk", "crew-comms"}
JobPcs == {"idle", "case", "agents", "retrieve", "decide", "load", "persist",
           "dispatch"}

\* The ids of the events recorded so far.
Recorded == DOMAIN rows \ staged

\* What the store, the memory of the process and its requests can hold; the
\* lock holder is on an event that was recorded, or on a redecision (id 0).
TypeOK ==
    /\ rows \in Seq(Inputs) /\ Len(rows) <= MaxEvents
    /\ live \subseteq DOMAIN rows
    /\ IsFiniteSet(chunks)
    /\ case \in Decided
    /\ alerts \subseteq Workers \X Tiers
    /\ runs \in [Ids -> Nat]
    /\ decided \subseteq DOMAIN rows /\ staged \subseteq DOMAIN rows
    /\ feed \in Seq(Recorded) /\ direct \subseteq Recorded
    /\ handled \in Seq(Recorded)
    /\ docCount \in Nat
    /\ job \in [pc : JobPcs, id : {0} \cup Recorded, lift : BOOLEAN,
                todo : SUBSET Agents, count : Nat, rules : {job.rules},
                decideLift : BOOLEAN, seen : {job.seen}]
    /\ job.pc = "case" => job.id # 0
    /\ importer \in [pc : {"idle", "insert"}, left : {importer.left}]
    /\ resetPc \in {"idle", "rows", "case"}
    /\ imports \in 0..MaxImports
    /\ faults \subseteq Faulty

\* Nothing recorded is waiting to be handled and no request is under way.
Quiescent ==
    /\ job.pc = "idle" /\ importer.pc = "idle" /\ resetPc = "idle"
    /\ staged = {} /\ feed = <<>> /\ direct = {}

NoFault(kinds) == kinds \cap faults = {}
Undisturbed == NoFault({"crash", "commander", "reset"})

\* The direct caller of a manual review and the change feed both bring the
\* same event, and its specialists are scheduled once: the lock and the
\* remembered results make the second one return.  (handle_event.)
ConvergesOnOneRun ==
    NoFault({"commander"}) => \A id \in Ids : runs[id] <= 1

\* When the loop comes to rest the case shows the decision that follows from
\* everything stored: no evidence, document or lift change was decided on and
\* then overtaken, whatever was imported or ingested meanwhile, whichever
\* specialist failed and whatever the feed lost.  (_ensure_rules, redecide.)
QuiescentDecision ==
    (Quiescent /\ Undisturbed /\ NoFault({"script"})) =>
        case.decision = DeriveDecision(facts, BuildRuleset(chunks),
                            [s \in Sources |-> "fresh"], case.liftActive)

\* When the loop comes to rest the lift flag of the case is the one of the
\* lift_state event handled last: the commander, which writes the flag it
\* read, never writes back an older one.  (handle_event, _persist.)
LiftFollowsFeed ==
    LET lifts == {i \in DOMAIN handled : rows[handled[i]].kind = "lift_state"}
    IN  (Quiescent /\ Undisturbed /\ lifts # {}) =>
            \E i \in lifts : /\ \A j \in lifts : j <= i
                             /\ case.liftActive = rows[handled[i]].value

\* When the loop comes to rest with a lift active, each worker whose latest
\* stored position is inside the risk zone has been told to stop, or that
\* the case is escalated; whichever came first, the lift or the worker.
\* (_dispatch_alerts, tier_for.)
WorkersWarned ==
    (Quiescent /\ Undisturbed /\ NoFault({"feed"}) /\ case.liftActive) =>
        \A w \in Workers :
            (PositionsOf(w) # {} /\ LatestRelation(w) = "inside_risk_zone") =>
                \E t \in {"ESCALATE", "STOP_ACK_REQUIRED"} : <<w, t>> \in alerts

\* Every ingested event that can change the risk state is decided on.
\* (_consume_changes, handle_event.)
EventsDecided ==
    \A id \in Ids :
        (id \in DOMAIN rows /\ rows[id].kind # "heartbeat") ~> (id \in decided)

-----------------------------------------------------------------------------
(* What the documentation says and the code does not keep. *)

\* "Retrieve rules when the corpus changes": at rest, the cached rules the next
\* event would be judged by are those the stored chunks state.
RulesFollowCorpus ==
    (Quiescent /\ RulesStand(Cardinality(chunks) + 1)) =>
        ruleCache = BuildRuleset(chunks)

\* "a change feed that survives a process restart": a recorded event is
\* decided on, even if the process is restarted in between.
RecordedEventsDecided ==
    \A id \in Ids :
        (\E i \in DOMAIN feed : feed[i] = id /\ rows[id].kind # "heartbeat")
            ~> (id \in decided)

\* "A later in-limit reading must clear an earlier breach; the engine uses
\* current state, not the whole history": at rest the current fact about a
\* worker is the one of the latest stored position.
SupersededDoesNotLinger ==
    (Quiescent /\ Undisturbed /\ NoFault({"specialist"})) =>
        \A w \in Workers :
            PositionsOf(w) # {} => PositionItem(w, LatestRelation(w)) \in facts

\* "otherwise, limits verified and zone clear -> CONDITIONAL_APPROVAL": no
\* case at rest is cleared while the last reading exceeds a limit in force.
ClearedWithinLimits ==
    (Quiescent /\ Undisturbed /\ case.decision = "CONDITIONAL_APPROVAL") =>
        \A i \in DOMAIN handled :
            LET input == rows[handled[i]]
                last == \A j \in DOMAIN handled :
                    j > i => \/ rows[handled[j]].kind # "reading"
                             \/ rows[handled[j]].subject # input.subject
            IN  (input.kind = "reading" /\ last) =>
                    ThresholdVerdict(input.subject, input.value,
                                     BuildRuleset(chunks)) = "within"

\* "Clear case activity for a fresh demo run": a case at rest with no
\* evidence is escalated.
ResetStartsFresh ==
    (Quiescent /\ NoFault({"crash", "commander"}) /\ facts = {}) =>
        case.decision = "ESCALATE"
=============================================================================
