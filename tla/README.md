# RiskTwin in TLA+

RiskTwin decides, from sensor readings, worker positions, footage, radio calls
and project documents, whether one crane lift (a *case*) is `ESCALATE`, `HOLD`
or `CONDITIONAL_APPROVAL`, warns workers, and gates what may be done about it.
It is one asyncio process (FastAPI) over a document store.  The hard part of it
is not any single function: it is that nearly every operation is a sequence of
awaited store calls, between which every other operation can run.

This directory models that: the decision ladder as pure operators, and around
it the loops, requests and sweeps, one action per step between two suspension
points.  TLC checks small instances; TLAPS proves every safety property of a
passing run for instances of every size.

Paths below are relative to the repository.

## 1. The system

| Part (source) | State it keeps | Operations | What makes it correct |
|---|---|---|---|
| Risk engine (`packages/risk_engine.py`) | none | `build_ruleset`, `evaluate_reading`, `reduce_current_facts`, `derive_decision` | the strictest stated limit wins; the last word on each subject counts and nothing else; a hazard is released only by evidence about it |
| Specialists (`agents/telemetry_proximity`, `vision_risk`, `crew_comms`, `rules_retrieval`) | EVIDENCE (append only) | one run per event, one or more evidence inserts | what they write files under the subject it is about |
| Orchestrator (`agents/orchestrator`) | case lock, `_event_results`, `_rules`, `_document_count`; CASES, TELEMETRY, WORKER_POSITIONS, EVENTS | `ingest_*`, `_record_event`, `handle_event`, `redecide`, `run_manual_review`, `escalate_unacknowledged` | at rest the decision follows from what is stored; an event is worked on once; every event gets its turn |
| Safety commander (`agents/safety_commander`) | CASES.decision, liftActive | read, explain, persist | it never writes back an older lift flag |
| Data watcher (`agents/data_watcher`, loop in `apps/api/state.py`, `scripts/data_watcher.py`) | SOURCE_MANIFEST | `evaluate_freshness`, `record_source_activity`, `force_stale` | a silent critical source escalates the case |
| Policy gate (`agents/policy_gate`, `packages/runtime/openshell.py`) | ACTIONS, POLICY_LOG | `propose_action`, `decide_approval`, `evaluate_action` | nothing refused runs; what needs a person runs only for one, in the log |
| Worker alerts (`agents/policy_gate`, orchestrator) | NOTIFICATIONS | `send_worker_alert`, `acknowledge`, expiry and escalation | a deadline is handled once and never forgotten |
| Import and reset (`packages/ingest.py`, `apps/api/routes/cases.py`) | DOCUMENTS, all of the case | chunk by chunk import, collection by collection reset | neither leaves the case with a decision that is not its own |
| Replay engine (`packages/replay`) | REPLAY_STATE, a task | start, pause, resume, stop, reset, `_run` | the cursor and status survive pause, reset and restart |
| Agent runtime (`packages/runtime/agent_runtime.py`) | AGENT_RUNS | `run`, `run_all` | a failing agent is journalled and contained |
| Stores (`packages/storage`) | journals or MongoDB | insert, update, watch | durable writes, a change feed |
| Site model (`packages/site_model`) | SITE_MODEL, the cached version | `seed_site_model`, `resolve_zone` | one version is active; a position gets the relation it deserves |
| Reconstruction job (`packages/reconstruction/colmap.py`) | job status file, model directories | start, run, shutdown | one job at a time, across restarts; a cloud is that of its run |
| Vision review (`agents/vision_risk`, `packages/inference/vision.py`, `packages/media`) | EVIDENCE, REDACTION_MANIFEST, rendered files | `run`, `observe`, `analyse_frames`, `redact_video` | no zone is made up, no finding is lost |
| Speech, text and document inference, dashboard, scripts | none that feeds back | - | - |

How they interact: an input is stored, then recorded as an event; the store's
change feed brings the event to the orchestrator, which takes the case lock,
runs the specialists the event needs, makes sure the rules are current, runs
the commander and dispatches alerts.  A manual review is also handled by its
own caller, so the same event arrives twice.  The freshness loop runs beside
this and asks for a redecision under the same lock.  Imports, resets,
approvals, acknowledgements and the alert sweep take **no** lock.  A watcher
started from the command line is another process with a lock of its own.

What is hard: interleavings at every await; state read before an await and
written after it; a crash between two writes that belong together; an event
delivered by two routes, or by none after a restart; a sweep working off a
snapshot; several processes.  `PROJECT.json` lists each hazard at its line.

## 2. The modules

| Module | Models | Lines it follows |
|---|---|---|
| `RiskEngine` | the pure operators: rulesets, verdicts, current facts, every rung of the ladder | `risk_engine.py`, the verdict parts of the specialists |
| `CurrentFacts` | the abstract promise: one latest verdict per subject | - |
| `CaseEvidence` | the append-only evidence log of a case, every item a specialist can write, documents imported again and sources changing underneath | specialists, `write_evidence`, `reduce_current_facts` |
| `CaseLoop` | the closed loop: intake, feed, lock, remembered results, specialists, rule cache, commander, dispatch, imports by the application and by the script, reset, lost feed, crash | orchestrator, commander, `ingest.py`, `ingest_cleared_data.py` |
| `Freshness` | reports, ticks, marks, redecisions, outages, several processes, crash | data watcher, freshness loop, `data_watcher.py` |
| `PolicyGate` | proposals with their payloads and approvals as overlapping requests | policy gate, `evaluate_action` |
| `Alerts` | dispatcher, acknowledgements and the expiry sweep over one set of notifications | `send_worker_alert`, `acknowledge`, `escalate_unacknowledged` |
| `Replay` | playback task, start, pause, resume, stop and reset over the stored cursor, failing handlers, restart | `packages/replay` |
| `DurableStore` | the abstract promise: an operation asks for changes and makes them; cut short by a crash it may leave the change under way made or not; nothing else changes a document, a restart least of all | - |
| `Journal` | the journal file of one collection, torn and glued lines, failing appends, replay at start, the change queue | `file_store.py` |
| `Reconstruction` | the job, its status in memory and on disk, failures, shutdown, crash | `colmap.py`, uploads in `state.py` |
| `SiteModel` | layout files delivered at any time, versions seeded by two processes, the version reports are read by, point in polygon, distances, `resolve_zone` | `packages/site_model` |
| `VisionReview` | sampled frames, served model and local fallback, grouping, evidence, redaction, manifests | `vision.py`, `cv_observer.py`, `vision_risk`, `redaction.py` |
| `MC*` | the small instances TLC checks | - |
| `*_proofs` | theorems about the modules each one extends: `PolicyGate_proofs` about `PolicyGate` and `Alerts`, `Perception_proofs` about `SiteModel` and `VisionReview`, the others about the module they are named for | - |

`CaseEvidence`, `CaseLoop` extend `RiskEngine`.  `CaseLoop` keeps evidence
reduced to current facts instead of a log; `LatestWins` (checked and proved in
`CaseEvidence`: the log refines `CurrentFacts`) and `ReduceAppend` justify
that.  `CaseLoop` keeps the sources fresh and `Freshness` summarises the rest
of the ladder as one value, `others`; each module lets the other one's part
vary freely instead of composing the two state spaces.

The others stand alone.  `Journal` says how far the loop may rely on the
change feed of the local store: completely, until its queue has been full once
or the process dies.  `SiteModel` produces the relation `CaseLoop` takes as an
input, `VisionReview` the footage items of `CaseEvidence`.  Where two modules
are proved about in one, the names of the second carry its subject
(`AlertsInit`, `ReviewSpec`).

**State and code.** A variable is a collection of the store or a field of an
object, and is named for it in the comment at its declaration.  A program
counter (`job.pc`, `tick[p].pc`, `handler[h].pc`, `escalator.pc`) stands
for the await a coroutine is suspended in, and the fields next to it for the
locals it has read.  An action is the code from one await to the next.  The
case lock is `job.pc # "idle"`.  History variables, which no guard reads:
`decided` and `runs` (CaseLoop), `lastReport` (Freshness), `decided`
(PolicyGate; it also bounds the run), `expiries` (Alerts), `handed`,
`overlapped`, `lastWord` and `since` (Replay), `glued`, `failed` and `dropped`
(Journal), `silent`, `wanted` and `tried`
(Reconstruction), `crossed` (SiteModel).

**Store calls.** The models assume the networked store (`MongoStore`), where
every call suspends.  The journal store runs most calls to the end without
suspending, so its behaviours are among these, as far as ordering goes.  Two
store calls share an action only if no other coroutine can tell.

**Data.** A reading or limit is a small number, a subject a tuple, an evidence
item `[type, subject, verdict]`.  Three obstruction risks are one, the
actionable risks one more, wording and confidences are left out: no rung of
the ladder tells them apart.  `ESCALATE` before the first decision is the
initial value of the case.

## 3. What is checked

Every passing run explores its instance completely.

| Run | Properties | Shows |
|---|---|---|
| `MCCaseEvidence` | `TypeOK`, `HazardReleasedBySubject`, `LimitsRelaxOnlyByReimport`, `LatestWins` | a blocked case is cleared only by newer evidence on the subject that blocked it; a stated limit is relaxed only by importing again the one document that stated it; the log refines `CurrentFacts` |
| `MCCaseLoop` | `TypeOK`, `QuiescentDecision`, `LiftFollowsFeed`, `WorkersWarned`, `ConvergesOnOneRun` | at rest the decision follows from what is stored, the lift flag is the one handled last, workers inside were told; an event's specialists are scheduled once |
| `MCCaseLoopLive` | `EventsDecided` | next to two imports of different plans, every event that matters is decided on |
| `MCFreshness` | `TypeOK`, `NoClearanceOnStale`, `EscalationDue`, `SilenceEscalates` | all faults keep the types; without one, at rest a source that is not fresh means `ESCALATE`, at any moment the escalation is under way, and silence ends in `ESCALATE` for good |
| `MCPolicyGate` | `TypeOK`, `RunsOnlyIfLogged`, `AuditExplainsStatus` | overlapping requests and crashes never run what is refused, nor what was not allowed and logged, nor what needs a person without one on the record or in the payload; the last audit entry explains the status |
| `MCAlerts` | `AlertsTypeOK`, `ExpiresOnce`, `EscalatesWithoutCrash`, `OverdueEscalates` | a deadline is handled once, even over a crash; without a crash a stop order that expires is escalated, and an overdue one does not stay outstanding |
| `MCReplay` | `TypeOK`, `NothingSkipped`, `StopHolds`, `PlaysToTheEnd` | the cursor never passes an event the handler has not had; after a pause at most the event in progress is handed over, after a reset none; a playback left alone ends |
| `MCJournal` | `TypeOK`, `FeedIsComplete`, `DurableUntilGlued` | what a subscriber has read and what waits for it make up the documents; until a line is glued to a torn one the journal implements `DurableStore`: no restart takes a write back |
| `MCReconstruction` | `TypeOK`, `CloudIsOfTheRun`, `ActiveMeansRunning`, `ResultStays` | no cloud under another run's or video's name, no stage shown without its job, a result stays until the next job |
| `MCSiteModel` | `TypeOK`, `OneActive`, `InsideMeansInside`, `NotSafeNearExclusion`, `WarnedBeforeEntering` | one active version however seeding and a delivery overlap, but for the very first seeding; ray casting agrees with winding numbers; nobody is safe next to an exclusion zone, and who walks in was near before |
| `MCVisionReview` | `ReviewTypeOK`, `NoFindingLost`, `RangesExact` | whatever the backends report and wherever a review is cut short, merging the detections of a zone hides no hazard; a zone or risk the model made up does not get through; the ranges on record are the maximal runs of altered frames |

Each property has a mutant beside the definition it changes (marked `Mutant:`):
a plausible bug in that code, with which TLC finds the property violated.

**Bounds.** `MCCaseEvidence`: logs of three items.  The properties relate a
fact to the next item, and a decision needs two evidence types, so a hazard,
its corroboration and an item about something else fit; `ReduceAppend` and
`LogKeepsLatest` are proved for any length.  Two documents (interchangeable)
with two chunks between them: one can be stricter, and be imported again without
its rule; proved for any number.  `MCCaseLoop`: two inputs of
nine kinds, one import, at most one fault of the six kinds: every pair of
handlers, and a handler against an import, a reset or a feed that loses its
events, overlaps at every step.
`MCCaseLoopLive` trades kinds of input (reviews, cues, readings) for a second import, of another plan
with as many chunks; that the rule cache masks neither is a case of
`QuiescentDecision`, which is proved for any number of imports.  `DedupCap` equals the number of events: 2048 in the
code, and an event is scheduled twice only if as many others are handled
between its two arrivals; its five safety properties are proved for any number
of inputs, imports and faults.  `MCFreshness`: one
source, one waiting event, one fault of each kind; ticks are unbounded.  With
two sources and all faults the instance is beyond TLC; the safety properties
are proved for any number.  `MCPolicyGate`: one action, two
overlapping requests (interchangeable, hence the symmetry), two approval decisions;
a type that needs an approval and one that is refused, a payload with nothing,
one that answers everything the policy asks, and one that fails its constraints;
its invariants are proved for any number.  `MCAlerts`: two workers, three
notifications: a stop order, another alert to the same worker, and the
escalation.  Liveness of the alerts excuses a model that is full.
`MCReplay`: two events, three requests of which two can overlap, one crash: a
task can be stopped at its first, between and after its last event; the
invariants are proved for recordings of any length.
`MCJournal`: two documents of two values, four lines, two restarts, a queue of
two (4096 in the code): a line can be torn, glued to, and lost; proved for
any of these.  `MCReconstruction`: two videos, three runs, two crashes, two
errors; proved for any number.
`MCSiteModel`: the layout of the repository and one with a concave and a
slanted zone, one delivery of the other at any moment; the grid holds corners, edges, and points on either side of
every buffer; a step of a worker is at most a metre.  Its five properties are
proved for any grid and stride, and any layouts (section 5 names what two of
them ask of a layout).  `MCVisionReview`: two
frames, two detections kept of up to three (3 in the code), films of four frames
with people located in every second (5 in the code), so a range can end, begin
and be one frame long; its properties are proved for any pictures, regions and
replies and for films of any length.  One region is of a zone the site model does
not know.
`CHECK_DEADLOCK FALSE` where the system may rest when no input comes, which is
everywhere but in `MCSiteModel`.

**Fairness.** Weak fairness on the steps of handlers and requests: asyncio runs
every coroutine that is ready.  Strong fairness on `Redecide` in `Freshness`:
`asyncio.Lock` serves its waiters in order, so who keeps asking is served.
Weak fairness on the alert sweep: the freshness loop calls it on every tick.
Weak fairness on the playback task and on requests under way (`Replay`).
Nothing is assumed fair about inputs, imports, resets, faults, proposals,
acknowledgements or the passing of deadlines.

**Failures excluded where they matter.** `QuiescentDecision`, `LiftFollowsFeed`
and `WorkersWarned` say nothing after a crash, a reset or a failed commander
run (`Undisturbed`), `QuiescentDecision` nothing after an import by the script,
and `WorkersWarned` nothing after a feed that lost events (it holds through the
script, and the other two through the lost feed); `NoClearanceOnStale` and `EscalationDue` say nothing with
a second process or after a fault; `EscalatesWithoutCrash` and
`OverdueEscalates` nothing after a crash.  `NothingSkipped` and `StopHolds` say
nothing once two replay requests have overlapped, `FeedIsComplete` nothing
after a full queue or a failed append, `DurableUntilGlued` nothing of a restart
after either a failed append or a glued line, `OneActive` nothing once a file was
replaced in the middle of the very first seeding, `ActiveMeansRunning` nothing of a job
whose failure could not be recorded.  Section 4 says what happens then.

## 4. What the code does not promise

The run `MCClearedWithinLimits` states what a document of the repository says,
and TLC refutes it; `PROJECT.json` quotes the line under "findings": a reading
judged under a laxer plan keeps its verdict, and the stricter import does not
look at it again, so the case is cleared above the limit in force.

More statements of this kind stand at the end of their modules.  They are
refuted too, and are kept without a run of their own; to see the trace, check
the statement alone with the constants of the run named, changed as said.

| Module | Statement | Run to start from | What happens |
|---|---|---|---|
| `CaseEvidence` | `LimitsVerified` | `MCCaseEvidence` | a limited kind that was never read raises no finding, so a case is cleared without it |
| `CaseEvidence` | `Corroborated` | `MCCaseEvidence` | the note that no clip exists counts as audio evidence |
| `CaseEvidence` | `FootageSupersedesItsAbsence` | `MCCaseEvidence` | missing footage is filed under a subject no footage is ever filed under, and blocks for good |
| `CaseEvidence` | `LimitsOnlyTighten` | `MCCaseEvidence` | importing the stricter document again deletes its chunks first, and may leave its rule out (`packages/risk_engine.py:125`) |
| `CaseLoop` | `RecordedEventsDecided` | `MCCaseLoopLive` with `Faulty = {"crash"}` or `{"feed"}`, `MaxFaults = 1` | a feed, of a new process or after a failure, starts from now |
| `CaseLoop` | `RulesFollowCorpus` | `MCCaseLoop` with the plans of `MCCaseLoopLive`, `MaxImports = 2`, `Faulty = {"script"}` | the script replaces the plan by one of as many chunks, and the cached rules stand (`agents/orchestrator/__init__.py:481`) |
| `CaseLoop` | `SupersededDoesNotLinger` | `MCCaseLoop` with no faults | two positions are stored in one order and recorded in the other |
| `CaseLoop` | `ResetStartsFresh` | `MCCaseLoop` | a handler that read evidence before the reset persists after it |
| `Freshness` | `OutageHolds` | `MCFreshness` | an outage event counts as activity of its source; the next tick marks the source fresh (`config/sources.yaml:6` says it never silently degrades) |
| `Freshness` | `StaleEscalates` | `MCFreshness`; with `NoFaults` and `Once = {"once"}` or `Watchers = {"watcher"}` | a crash between mark and decision; a one-shot evaluation, which marks and asks for no decision (`scripts/data_watcher.py:115`); a watcher with a lock of its own |
| `PolicyGate` | `NamedApprover` | `MCPolicyGate` | a payload with `approvedBy` has the action APPROVED by its proposal (`config/openshell-policy.yaml:13`) |
| `PolicyGate` | `RefusedWhileBlocked` | `MCPolicyGate` | the case turns to `HOLD` between an approval's read and its write, and the action is executed (`config/openshell-policy.yaml:78`) |
| `Alerts` | `AcknowledgementDurable` | `MCAlerts` | the sweep expires an alert that was acknowledged after its snapshot (`apps/api/routes/actions.py:83`) |
| `PolicyGate` | `DecisionsAudited` | `MCPolicyGate` with two people | two approvals write back the audit trail they both read |
| `Alerts` | `ExpiredStopEscalated` | `MCAlerts` | a crash between expiring and escalating |
| `Alerts` | `NoDuplicateOutstanding` | `MCAlerts` | dispatcher and sweep both look before either inserts |
| `Replay` | `ResumingKeepsCursor` | `MCReplay` | a start writes back the cursor it read before the task advanced it (`packages/replay/__init__.py:114`) |
| `Replay` | `RunningPlays` | `MCReplay` | a status RUNNING survives a restart, its task does not (`docs/RISK_TWIN_BUILD_SPEC.md:131`) |
| `Replay` | `StartPlays` | `MCReplay` | the start finds a task that has read the pause and is about to end |
| `Replay` | `NeverSkips` | `MCReplay` | a start and a reset overlap: two tasks on one cursor |
| `Journal` | `DurableWrites` | `MCJournal` | the line after a torn one becomes part of it and is lost at the next start (`packages/storage/file_store.py:3`) |
| `Journal` | `FeedSurvives` | `MCJournal` | queues are in memory (`packages/storage/file_store.py:3`) |
| `Reconstruction` | `UploadsReconstructed` | `MCReconstruction` with `FairSpec` | a start during a job is answered with its status (`apps/api/state.py:160`) |
| `SiteModel` | `NeverTwoActive` | `MCSiteModel` | two processes seed an empty store, and the file is replaced between their reads (`packages/site_model/__init__.py:52`) |
| `SiteModel` | `ReadByActive` | `MCSiteModel` | the application reads positions by its file, although another version is the active one (`agents/telemetry_proximity/__init__.py:110`) |
| `SiteModel` | `EdgesAreInside` | `MCSiteModel` | on a shared edge the first zone of the file wins (`packages/site_model/geometry.py:17`) |
| `SiteModel` | `BufferOfEveryZone` | `MCSiteModel` | only the nearest exclusion zone's buffer is looked at (`packages/contracts/models.py:264`) |
| `SiteModel` | `WarningNamesExclusion` | `MCSiteModel` | the warning names the zone the worker is in, not the one approached |
| `VisionReview` | `IdentitiesHidden` | `MCVisionReview` | who steps into the picture between two detections is not hidden (`packages/media/redaction.py:9`) |
| `VisionReview` | `ManifestDescribesRender` | `MCVisionReview` | two files of one stem share a render (`docs/RISK_TWIN_BUILD_SPEC.md:297`) |
| `VisionReview` | `PersonInExclusionReported` | `MCVisionReview` with `DefaultZone = "C"` and `Regions` of `A` only | the kind of the default zone, or of the zone a cue names, is not looked up; a person there is housekeeping |

## 5. What is proved

All proofs hold for arbitrary values of the constants under the assumptions
named in the modules: `KindsAssumption` (rule keys, limited kinds and site
kinds are apart), `EvidenceAssumption`, `LoopAssumption` (inputs have one of
the kinds of the code, a lift report says yes or no, bounds are natural
numbers), `FreshnessAssumption` (the API is not also a watcher),
`AlertsAssumption`, `ReconstructionAssumption`, `ReplayAssumption`,
`JournalAssumption` (bounds are natural numbers, a queue has room; `NoPlayer`
and `Absent` stand for no task and no document), `PolicyAssumption` (policy
entries have their shape and nobody's name is empty), `LayoutAssumption`
(layouts are sequences of zones with outlines in the plane, positions are points
of it, version 1 exists, `None` is nothing else) and `ReviewAssumption` (films have
all their frames, a face is that of a person, bounds are natural numbers; nothing
is assumed of the zones regions and cues name).  TLC evaluates each
of them in the runs of its module.

Three theorems have a hypothesis of their own.  `ConvergesOnOneRunHolds` assumes
`MaxEvents <= DedupCap`.  `NotSafeNearExclusionHolds` assumes `OnceAround`: no
outline winds around a point twice.  Where one does, ray casting counts the
point outside and the reference inside.  `InsideMeansInsideHolds` assumes
`Planned`, which is `OnceAround` and `EdgesShared`: the zones of a floor share
edges only.  TLC evaluates `Planned` for both layouts of `MCSiteModel`, the
repository's among them.  An operator drawing another layout has to keep to it:
where two zones overlap the first of the file decides.  `WarnedBeforeEnteringHolds`
needs neither.

| Module | Theorem | Says |
|---|---|---|
| `CaseEvidence_proofs` | `ReduceAppend` | one more item replaces the current fact on its subject and no other |
| | `OneFactPerSubject` | there is never more than one current fact on a subject |
| | `TypeCorrect` | `Spec => []TypeOK` |
| | `LogKeepsLatest` | `Spec => LatestWins`: the log implements `CurrentFacts` |
| | `HazardReleased` | `Spec => HazardReleasedBySubject`, an action property |
| | `LimitsRelaxOnly` | `Spec => LimitsRelaxOnlyByReimport`, an action property |
| `CaseLoop_proofs` | `TypeCorrect` | `Spec => []TypeOK` |
| | `QuiescentDecisionHolds` | `Spec => []QuiescentDecision` |
| | `LiftFollowsFeedHolds` | `Spec => []LiftFollowsFeed` |
| | `WorkersWarnedHolds` | `Spec => []WorkersWarned` |
| | `ConvergesOnOneRunHolds` | `Spec => []ConvergesOnOneRun` if `MaxEvents <= DedupCap` |
| `Freshness_proofs` | `TypeCorrect` | `Spec => []TypeOK` |
| | `EscalationAlwaysDue` | `Spec => []EscalationDue` |
| | `NeverClearedOnStale` | `Spec => []NoClearanceOnStale` |
| `PolicyGate_proofs` | `TypeCorrect` | `Spec => []TypeOK` |
| | `RunsOnlyIfLoggedAlways` | `Spec => []RunsOnlyIfLogged` |
| | `AuditExplainsStatusAlways` | `Spec => []AuditExplainsStatus` |
| | `AlertsTypeCorrect` | `AlertsSpec => []AlertsTypeOK` |
| | `DeadlineHandledOnce` | `AlertsSpec => []ExpiresOnce` |
| | `ExpiryEscalates` | `AlertsSpec => []EscalatesWithoutCrash` |
| `Replay_proofs` | `TypeCorrect` | `Spec => []TypeOK` |
| | `NothingSkippedHolds` | `Spec => []NothingSkipped` |
| | `StopHoldsHolds` | `Spec => []StopHolds` |
| `Journal_proofs` | `TypeCorrect` | `Spec => []TypeOK` |
| | `FeedIsCompleteHolds` | `Spec => []FeedIsComplete` |
| | `DurableUntilGluedHolds` | `Spec => DurableUntilGlued`: the journal implements `DurableStore` |
| `Reconstruction_proofs` | `TypeCorrect` | `Spec => []TypeOK` |
| | `CloudIsOfTheRunHolds` | `Spec => []CloudIsOfTheRun` |
| | `ActiveMeansRunningHolds` | `Spec => []ActiveMeansRunning` |
| | `ResultStaysHolds` | `Spec => ResultStays`, an action property |
| `Perception_proofs` | `SiteTypeCorrect` | `Spec => []TypeOK` of `SiteModel` |
| | `OneActiveHolds` | `Spec => []OneActive` |
| | `RayCasting` | the parity of ray crossings is that of the winding number |
| | `OutlineIsMet` | from a point that ray casting counts inside to one it counts outside, one crosses the outline |
| | `DistanceIsShortest` | the measured distance to a polygon is never more than that to a point it contains |
| | `ResolvedIsWithinHolds` | `Spec => []ResolvedIsWithin`, for every layout |
| | `InsideMeansInsideHolds` | `Spec => []InsideMeansInside` if `Planned` |
| | `NotSafeNearExclusionHolds` | `Spec => []NotSafeNearExclusion` if `OnceAround` |
| | `WarnedBeforeEnteringHolds` | `Spec => WarnedBeforeEntering`, an action property, for every layout |
| | `ReviewTypeCorrect` | `ReviewSpec => []ReviewTypeOK` |
| | `NoFindingLostHolds` | `ReviewSpec => []NoFindingLost` |
| | `NothingInventedHolds` | `ReviewSpec => []NothingInvented` |
| | `RangesExactHolds` | `ReviewSpec => []RangesExact` |

*Refinement of `CurrentFacts`.*  `ReduceAppend` turns the reduction of a whole
log, which is what the code computes, into an update of one fact;
`VerdictAfter` turns that into an update of one verdict; every step of
`CaseEvidence` writes one item or none (`EvidenceSteps`).  The same two lemmas
give `HazardReleased`: a fact that blocks (`BlockerBlocks`: each of them raises
a finding of its own) and is gone after a step was replaced by the item of that
step.  `LimitsRelaxOnly` rests on `LeastStated`: a ruleset states the least of the
values the chunks state, which exists because `<` is well-founded; a chunk of
another document that states it as well keeps it in force.

*Freshness.*  `NoClearanceOnStale` is about states at rest and is not inductive.
`EscalationDue` says where the obligation to escalate is at every moment: in a
tick that has written evidence, in a handler that has yet to read the sources,
in a verdict about to be persisted, or in the decision itself.  Each step hands
it on.  It is inductive together with `TypeOK` and `ResetCounted` (the second
half of a reset takes sources out of service, and a reset is a fault that has
been counted); `IInv` is their conjunction.

*Alerts.*  `ExpiresOnce` needs to know why an alert cannot expire again:
`Handled` says that an alert whose deadline was handled has left the status
`SENT` and is in no work list of the sweep, so neither this snapshot nor a
later one takes it again.
`EscalatesWithoutCrash` follows step by step from the place of the sweep.

*Policy gate.*  Records are written by requests that read long before, so the
invariant is about the requests: `Established` says what one holds when it comes
to write.  An approval has the type and payload of its record, because these never
change, and an audit trail that is not empty; a verdict that allows was logged in
the step that made it, and, where the policy asks for a person, for a named one
unless the payload names an approver itself.
`Sound` is both properties of one record; a request writes status, approver and
last audit entry together, so it hands both on whatever was written in between.

*Closed loop.*  `QuiescentDecision`, `LiftFollowsFeed` and `WorkersWarned` are
about states at rest; `IInv` says what each of them becomes while a handler is
on its way.  `OneAtATime`: the event being handled is not a remembered one.
`RulesCurrent`: unless an import is under way (`Settled`), rules cached under a
chunk count are those the chunks state, because the count is forgotten before the
first and after the last chunk; the script forgets none, so once it has imported
nothing of this is claimed.  `LiftAgreed`: what the lock holder has read of the lift
flag still stands, and the flag is that of the last lift report, the one being
handled included.  `DecisionCurrent`: the evidence about to be persisted on is
the stored evidence, and between two jobs the stored decision is the derived
one.  `Accounted` says where an event can be (staged, fed, being handled, or
decided), from which `Warned` follows: the latest position of a worker is the
greatest of a finite set of ids, and it was decided on; a feed that lost its events
is excepted, there and nowhere else.  The four are about
undisturbed runs, `RulesCurrent` and the types about all.  `ConvergesOnOneRun`
needs `RunOnce`: remembered results are distinct, so as long as there are no
more events than places none is forgotten, and an event still due has not run.

*Reconstruction.*  `JobShown` ties the stage of the job to the status in memory,
`Offered` says of memory and file alike that what they offer is a cloud of
their run and video and on disk, and `Saved` that a readable file offers what the process
offers; a restart, which takes the file for the truth, then changes nothing.
`ResultStays` follows from `Offered` and `Saved` step by step.

*Replay.*  Everything is said of runs whose requests have not overlapped.
`InOrder`: one request and one task at a time.  `CursorCovered`: what a task
has read lies between the stored cursor and the events handled, and what a
request has read is never ahead of the store, so neither writes back a cursor
that jumps.  `Stopped`: a task that had its event after a pause gets no further
than the gate.

*Journal.*  What a restart restores is, for each key, the last line about it;
that there is a last one is the least-element principle on natural numbers,
taken from the well-foundedness of `<` (`LastIn`).  `ReplayedAppend` and
`CaughtAppend` reduce an appended line, and `CaughtTail` a delivered change, to
an update of one key.  `InStep` says the file restores the documents until a
line fails or is glued; `Quiet` that nothing waits for nobody; `Alone` that a write
is all its operation asks for.  `asked` is the same in both specifications, so the
mapping is `Documents`: memory while the process runs, and what the file restores
while it does not.  The steps to look at are then those in which the process dies,
and `InStep` says of each that it changes at most the document whose line it cut
short; a store that kept its lines in a buffer fails there (`AppendUnflushed`).

*Site model.*  `SeededInStep` ties what a seeder is about to store to the store
it looked at: between its look and its upsert the other seeder may store, but
never a version that would make the flag wrong: the first versions stored are of
one file, unless one is delivered between their reads (`crossed`), and later ones
take the place of the active version only.  From it `OneVersion`: there is one
active version, not merely one in number.  `Resolved` says that an evaluated
report shows what its layout says of its position.  `RayCasting` does the
geometry: an edge the ray crosses is crossed upwards or downwards, never both,
so the crossings are the sum and the winding number the difference of the same
two counts, and those have one parity.

*Distances.*  That a worker outside a polygon is nearest to its outline is, in
general, the topology of the plane; for the code's own test of what is inside it
is arithmetic.  Take a way from `l` up to `h`.  `EdgeParity`: an edge that the
way does not meet is counted alike by the rays from `l` and `h` exactly if both
its ends lie *east* of the way or neither does.  Around the outline each vertex
ends one edge and begins one, so the edges with one end to the east are the
symmetric difference of two sets of one size, an even number
(`SymmetricDifference`, `ParityUpwards`).  Hence `OutlineIsMet`: a way between two
points that are counted differently meets an edge.  `MeetingReaches` and
`TouchingReaches` show that such an edge is no further away than the end of the
way, for each of the three cases of `distance_to_segment` (`Lagrange` and
`Before` are the inequalities).  `NoEdgeNearer`: distances are fractions compared
by a total preorder, so among finitely many edges there is a nearest, and the one
`DistanceToPolygon` takes is it.  Together `DistanceIsShortest`.  `OutsideBuffer`
says what it means for `resolve_zone`: the nearest exclusion zone is chosen by
these distances, so who is outside its buffer is further than that from every
point of every exclusion zone of the floor.  `WarnedBeforeEntering` is this with
the next report as the point.

*Vision review.*  `Underway` says that what is written and still to write are
the findings of the local detector, unless the model served one.
`ObstructionsKept` and `OthersKept` are the lemmas about the merge: the worst
kind of a group is at least that of each member.  `Observations` says the same
of zones and risks while frames are still being read.  `ToRanges` is a recursive
function over the frames of a film; that it has a value on every film
(`ReadingExists`) and that this value accounts for the frames read so far
(`Runs`, `ToRangesRuns`) are shown by the least frame at which they would not,
and `RunsExtended` and `RunsKept` say why there is none.

TLC checked `IInv`, `SiteInv` and `ReviewInv` on the instances of their runs
before they were first proved.

**Only model-checked.**

- Liveness (`EventsDecided`, `SilenceEscalates`, `OverdueEscalates`,
  `PlaysToTheEnd`), which depends on fairness.

## 6. Not modelled, and assumptions

- Speech, text and document inference, dashboard, event bus, configuration,
  deployment scripts: they keep no state the case depends on (the import and watcher
  scripts, which do, are in `CaseLoop` and `Freshness`).  What inference
  reports is a choice in the models.
- The journal of agent runs is written and never read back.  The network and file
  rules of `openshell.py` are stateless look-ups; of an action's tier and path
  `PolicyGate` says only for which types they fail.
- `CaseLoop` has one import at a time, of the application or of the script, and a
  crash ends either; two imports at once are in `CaseEvidence`.  The feed is lost
  with every event it held, as at a crash.
- Source registration: every critical source has its row and both watcher and
  API know it.
- `CaseLoop` keeps at most one observation of a vision review; `VisionReview`
  has all of them, and drops a detection only where the code does (three changes
  and two scene candidates of a frame).  Required steps of a decision are not
  modelled; no decision depends on them.
- The reset is modelled for the case (`CaseLoop`), the sources (`Freshness`),
  positions (`SiteModel`) and manifests (`VisionReview`), not for actions and
  notifications.
- `send_worker_alert` asks the policy first; all tiers are allowed by the
  policy file, so the refusal is left out of `Alerts`.
- A reading that is no number is filed as 0.0 by the code; readings are
  numbers here.  A crew statement to stop work raises no finding of its own in
  the ladder, and so none here.
- `SiteModel` computes in integers, the code in floating point, and what is proved
  of distances is proved of the former.  A zone a report names overrides its
  coordinates, and a report without a floor is compared with the zones of all
  floors, whose order then decides.  `activate_version` and
  `refresh_site_model` have no caller.
- `Journal` has one collection and one subscriber: collections share no file,
  and queues no change.  A line is torn by a crash only.
- `Reconstruction` takes run identifiers to be distinct (the code names a run by the
  second it starts in) and leaves out what a failed export leaves on disk, which
  no status names.  A cancelled job may
  leave its external process running; the code does not wait for it.
- `VisionReview` has one default zone for the setting and the cue of a request, and
  checks it, like the zones of the regions, against nothing, as the code does.  The detectors find everybody and every face: what is
  refuted there is refuted with the best of detectors.

## 7. Plan

Done: the modules of section 2 and the proofs of section 5.

Left: the reset over actions and notifications, in `PolicyGate` and `Alerts`.

## 8. Running it

    tlc -workers 2 -config MCFreshness.cfg MCFreshness.tla
    tlapm Freshness_proofs.tla

The module of a run is the `MC` module of its component; `PROJECT.json` lists
runs, mutants, the map from definitions to source lines, hazards and theorems.
