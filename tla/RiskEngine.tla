----------------------------- MODULE RiskEngine -----------------------------
(***************************************************************************)
(* The deterministic part of RiskTwin (packages/risk_engine.py) and the    *)
(* verdicts the specialists store in evidence: how document chunks become  *)
(* limits, how a reading is compared with them, which evidence is current  *)
(* and how the decision ladder turns current facts into a decision.        *)
(*                                                                         *)
(* Data that no rung of the ladder tells apart is left out: wording,       *)
(* severities, confidences, citations and the ids a finding cites.         *)
(* A reading or a limit is a small natural number, a zone or a worker an   *)
(* element of a set.                                                       *)
(***************************************************************************)
EXTENDS Naturals, Sequences

CONSTANTS
    LimitedKinds,  \* reading kinds whose limit is retrieved: wind gust, load
    SiteKinds,     \* reading kinds with a project-configured limit
    SiteRule,      \* SiteRule[k] = [dir |-> "max" or "min", limit |-> number]
    ZoneRule,      \* the rule key of the exclusion-zone rule
    Workers,
    Zones,
    Unmapped,      \* the zone id of a finding no site zone is mapped to
    Sources        \* the critical sources that must report continuously

ASSUME KindsAssumption ==
    /\ ZoneRule \notin LimitedKinds
    /\ LimitedKinds \cap SiteKinds = {}
    /\ SiteRule \in [SiteKinds -> [dir : {"max", "min"}, limit : Nat]]
    /\ Unmapped \notin Zones

-----------------------------------------------------------------------------
(* Rules *)

RequiredRules == LimitedKinds \cup {ZoneRule}

\* Mutant: the most permissive stated limit wins.
BuildRulesetPermissive(chunks) ==
    LET stated(k) == {c.ruleValue : c \in {d \in chunks : d.ruleKey = k}}
    IN  [k \in {c.ruleKey : c \in chunks} \cap RequiredRules |->
            CHOOSE v \in stated(k) : \A w \in stated(k) : v >= w]

\* The most restrictive stated limit wins: a ruleset maps every rule key some
\* chunk states to the smallest value stated for it.  (A chunk that names a
\* rule without a value states nothing and is no chunk of the model.)
BuildRuleset(chunks) ==
    LET stated(k) == {c.ruleValue : c \in {d \in chunks : d.ruleKey = k}}
    IN  [k \in {c.ruleKey : c \in chunks} \cap RequiredRules |->
            CHOOSE v \in stated(k) : \A w \in stated(k) : v <= w]

\* RuleSet.missing: the limits a clearance needs that nothing states.
MissingRules(ruleset) == RequiredRules \ DOMAIN ruleset

\* The verdict evaluate_reading stores in evidence: a retrieved limit first,
\* then the configured one; with neither the reading cannot be cleared.
ThresholdVerdict(kind, value, ruleset) ==
    LET breached ==
            IF kind \in LimitedKinds THEN value > ruleset[kind]
            ELSE IF SiteRule[kind].dir = "max" THEN value > SiteRule[kind].limit
            ELSE value < SiteRule[kind].limit
    IN  IF kind \in (LimitedKinds \cap DOMAIN ruleset) \cup SiteKinds
        THEN IF breached THEN "breached" ELSE "within"
        ELSE "no_limit"

-----------------------------------------------------------------------------
(* Evidence.  An item is a record [type, subject, verdict], the subject a    *)
(* tuple: the key under which reduce_current_facts files the item.           *)

Relations == {"inside_risk_zone", "approaching", "safe", "coverage_unknown"}
ObstructionRisks == {"zone_obstruction"}       \* stands for the three of them
ActionableRisks == ObstructionRisks \cup {"ppe_noncompliance"}  \* and the rest
VisualRisks == ActionableRisks \cup {"none"}

Item(type, subject, verdict) ==
    [type |-> type, subject |-> subject, verdict |-> verdict]

ReadingItem(kind, value, ruleset) ==
    Item("telemetry", <<kind>>, ThresholdVerdict(kind, value, ruleset))

\* A discrete state change is filed as telemetry that breaches nothing.
StateItem(kind) == Item("telemetry", <<kind>>, "no_limit")

PositionItem(worker, relation) == Item("proximity", <<worker>>, relation)

\* With no footage the finding has no risk type and is filed under the cue's
\* zone, or under no zone at all.
VisionMissing(zone) == Item("video", <<zone, "observation">>, "unavailable")
\* Mutant: the two parts of the key are swapped.
VisionItemSwapped(zone, risk) == Item("video", <<risk, zone>>, "available")

VisionItem(zone, risk) == Item("video", <<zone, risk>>, "available")

CrewItem(claim) == Item("audio", <<"crew">>, claim)
PolicyItem == Item("policy", <<"rules">>, "retrieved")
FreshnessItem(source) == Item("freshness", <<source>>, "reported")

SameSubject(a, b) == a.type = b.type /\ a.subject = b.subject

\* Mutant: the latest item per type, whatever it is about.
ReduceByType(log) ==
    {log[i] : i \in {j \in DOMAIN log :
        \A k \in DOMAIN log : k > j => log[k].type # log[j].type}}

\* The latest item per subject of a log in timestamp order.
ReduceCurrentFacts(log) ==
    {log[i] : i \in {j \in DOMAIN log :
        \A k \in DOMAIN log : k > j => ~SameSubject(log[k], log[j])}}

\* What one more item does to the current facts.
RecordFact(facts, item) == {f \in facts : ~SameSubject(f, item)} \cup {item}

-----------------------------------------------------------------------------
(* The ladder.  A finding is [code, class]; each rung yields a set of them. *)

Finding(code, class) == [code |-> code, class |-> class]
Raise(condition, code, class) ==
    IF condition THEN {Finding(code, class)} ELSE {}

OfType(facts, type) == {f \in facts : f.type = type}

WorkersInside(facts) ==
    {f.subject[1] : f \in {g \in OfType(facts, "proximity") :
                            g.verdict = "inside_risk_zone"}}

\* Zones a current visual finding obstructs.
VisualObstruction(facts) ==
    {f.subject[1] : f \in {g \in OfType(facts, "video") :
        g.verdict = "available" /\ g.subject[2] \in ObstructionRisks}}

RuleFindings(ruleset) ==
    Raise(MissingRules(ruleset) # {}, "RULES_NOT_RETRIEVED", "escalate")

SourceFindings(status) ==
    Raise(\E s \in Sources : status[s] # "fresh",
          "CRITICAL_SOURCE_UNVERIFIED", "escalate")

ThresholdFindings(facts) ==
    Raise(\E f \in OfType(facts, "telemetry") : f.verdict = "breached",
          "THRESHOLD_BREACH", "hold")

ProximityFindings(facts, liftActive) ==
    LET reported(relation) ==
            \E f \in OfType(facts, "proximity") : f.verdict = relation
    IN  Raise(reported("inside_risk_zone"), "WORKER_IN_EXCLUSION_ZONE",
              IF liftActive THEN "hold" ELSE "info")
        \cup Raise(reported("approaching") /\ liftActive,
                   "WORKER_APPROACHING_ZONE", "info")
        \cup Raise(reported("coverage_unknown"), "POSITION_COVERAGE_UNKNOWN",
                   IF liftActive THEN "escalate" ELSE "info")

VisionFindings(facts, liftActive) ==
    LET video == OfType(facts, "video")
    IN  Raise(\E f \in video : f.verdict = "unavailable",
              "VISION_EVIDENCE_MISSING", "escalate")
        \cup Raise(\E f \in video : /\ f.verdict = "available"
                                    /\ f.subject[2] \in ActionableRisks,
                   "VISUAL_RISK", IF liftActive THEN "hold" ELSE "info")

\* A crew statement that a zone is clear, contradicted by an instrumented
\* position (resolved: hold) or by vision alone (unresolved: escalate).
AudioFindings(facts) ==
    LET audio == OfType(facts, "audio")
        inside == WorkersInside(facts) # {}
        claimed == {f.verdict : f \in audio} \cap Zones
    IN  Raise(\E f \in audio : f.verdict = "unavailable",
              "AUDIO_EVIDENCE_MISSING", "info")
        \cup Raise(claimed # {} /\ inside,
                   "CONFLICT_RESOLVED_BY_INSTRUMENT", "hold")
        \cup Raise(claimed \cap VisualObstruction(facts) # {} /\ ~inside,
                   "CONFLICTING_SOURCES", "escalate")

\* Fewer than two independent evidence types; freshness does not count.
EvidenceTypes(facts) == {f.type : f \in facts} \ {"freshness"}
IndependenceFindings(facts) ==
    Raise(~(\E a, b \in EvidenceTypes(facts) : a # b),
          "INSUFFICIENT_INDEPENDENT_EVIDENCE", "escalate")

Findings(facts, ruleset, status, liftActive) ==
    RuleFindings(ruleset) \cup SourceFindings(status)
    \cup ThresholdFindings(facts) \cup ProximityFindings(facts, liftActive)
    \cup VisionFindings(facts, liftActive) \cup AudioFindings(facts)
    \cup IndependenceFindings(facts)

Decisions == {"ESCALATE", "HOLD", "CONDITIONAL_APPROVAL"}

ResolveDecision(findings) ==
    IF \E f \in findings : f.class = "escalate" THEN "ESCALATE"
    ELSE IF \E f \in findings : f.class = "hold" THEN "HOLD"
    ELSE "CONDITIONAL_APPROVAL"

DeriveDecision(facts, ruleset, status, liftActive) ==
    ResolveDecision(Findings(facts, ruleset, status, liftActive))
=============================================================================
