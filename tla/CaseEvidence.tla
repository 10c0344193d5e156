---------------------------- MODULE CaseEvidence ----------------------------
(***************************************************************************)
(* The evidence of one case: every specialist appends what it found, one   *)
(* item per insert, and the commander decides from the items that are      *)
(* current.  Documents can be imported, again and again, and sources       *)
(* marked at any time.                                                     *)
(*                                                                         *)
(* One step is one evidence insert.  A vision review reports at most one   *)
(* observation here (the code writes one item per observation).            *)
(***************************************************************************)
EXTENDS RiskEngine, FiniteSets

CONSTANTS
    Readings,      \* the values a reading or a limit can take
    Documents,     \* documents that state rules: a lift plan, a procedure
    StateKinds,    \* kinds of discrete site state, such as lift_state
    MaxEvidence,   \* bound on the length of the log
    MaxChunks      \* bound on the chunks indexed at a time

ASSUME EvidenceAssumption ==
    /\ Readings \subseteq Nat
    /\ MaxEvidence \in Nat /\ MaxChunks \in Nat
    /\ StateKinds \cap (LimitedKinds \cup SiteKinds) = {}

VARIABLES
    log,         \* EVIDENCE, in timestamp order
    chunks,      \* DOCUMENTS: records [document, ruleKey, ruleValue]
    status,      \* SOURCE_MANIFEST status per critical source
    liftActive   \* the case's lift flag

vars == <<log, chunks, status, liftActive>>

Facts == ReduceCurrentFacts(log)
Ruleset == BuildRuleset(chunks)
Decision == DeriveDecision(Facts, Ruleset, status, liftActive)

\* A zone rule names a zone, not a number: its value is immaterial.
Chunks == [document : Documents, ruleKey : LimitedKinds, ruleValue : Readings]
          \cup [document : Documents, ruleKey : {ZoneRule}, ruleValue : {0}]
Statuses == {"fresh", "stale", "unavailable"}
VideoSubjects == (Zones \cup {Unmapped}) \X (VisualRisks \cup {"observation"})
Claims == Zones \cup {"no_claim", "unavailable"}

\* Every item a specialist can write.
Items ==
    {Item("telemetry", <<k>>, v) : k \in LimitedKinds \cup SiteKinds \cup StateKinds,
                               v \in {"breached", "within", "no_limit"}}
    \cup {PositionItem(w, r) : w \in Workers, r \in Relations}
    \cup {Item("video", s, v) : s \in VideoSubjects,
                                v \in {"available", "unavailable"}}
    \cup {CrewItem(c) : c \in Claims}
    \cup {PolicyItem}
    \cup {FreshnessItem(s) : s \in Sources}

TypeOK ==
    /\ log \in Seq(Items)
    /\ chunks \subseteq Chunks
    /\ status \in [Sources -> Statuses]
    /\ liftActive \in BOOLEAN

Init ==
    /\ log = <<>>
    /\ chunks = {}
    /\ status = [s \in Sources |-> "unavailable"]
    /\ liftActive = FALSE

-----------------------------------------------------------------------------
\* Mutant: the log is read newest first.
WriteEvidenceInFront(item) ==
    /\ Len(log) < MaxEvidence
    /\ log' = <<item>> \o log

\* write_evidence: one insert into EVIDENCE.
WriteEvidence(item) ==
    /\ Len(log) < MaxEvidence
    /\ log' = Append(log, item)

EvaluateReading(kind, value) ==
    /\ WriteEvidence(ReadingItem(kind, value, Ruleset))
    /\ UNCHANGED <<chunks, status, liftActive>>

EvaluatePosition(worker, relation) ==
    /\ WriteEvidence(PositionItem(worker, relation))
    /\ UNCHANGED <<chunks, status, liftActive>>

\* A lift_state event also updates the case before its evidence is written.
EvaluateSiteState(kind, active) ==
    /\ WriteEvidence(StateItem(kind))
    /\ liftActive' = IF kind = "lift_state" THEN active ELSE liftActive
    /\ UNCHANGED <<chunks, status>>

\* A vision review with no footage, cued to a zone or not.
ReviewWithoutFootage(zone) ==
    /\ WriteEvidence(VisionMissing(zone))
    /\ UNCHANGED <<chunks, status, liftActive>>

\* A vision review of decodable footage: one observation, or none at all.
ReviewFootage(zone, risk) ==
    /\ risk = "none" => zone = Unmapped
    /\ WriteEvidence(VisionItem(zone, risk))
    /\ UNCHANGED <<chunks, status, liftActive>>

TranscribeCrew(claim) ==
    /\ WriteEvidence(CrewItem(claim))
    /\ UNCHANGED <<chunks, status, liftActive>>

RetrieveRules ==
    /\ WriteEvidence(PolicyItem)
    /\ UNCHANGED <<chunks, status, liftActive>>

\* The data watcher marks a source; only a failure is written as evidence.
MarkSource(source, new) ==
    /\ status[source] # new
    /\ status' = [status EXCEPT ![source] = new]
    /\ IF new = "fresh"
       THEN UNCHANGED log
       ELSE WriteEvidence(FreshnessItem(source))
    /\ UNCHANGED <<chunks, liftActive>>

\* import_documents takes one document after the other: what is indexed of it
\* is deleted, then its chunks are inserted one by one.  The API and the import
\* script run on their own, so imports overlap, and a chunk may come at any
\* time.
DeleteChunks(document) ==
    /\ chunks' = {c \in chunks : c.document # document}
    /\ UNCHANGED <<log, status, liftActive>>

IndexChunk(chunk) ==
    /\ chunk \notin chunks /\ Cardinality(chunks) < MaxChunks
    /\ chunks' = chunks \cup {chunk}
    /\ UNCHANGED <<log, status, liftActive>>

Next ==
    \/ \E k \in LimitedKinds \cup SiteKinds, v \in Readings : EvaluateReading(k, v)
    \/ \E w \in Workers, r \in Relations : EvaluatePosition(w, r)
    \/ \E k \in StateKinds, a \in BOOLEAN : EvaluateSiteState(k, a)
    \/ \E z \in Zones \cup {Unmapped} : ReviewWithoutFootage(z)
    \/ \E z \in Zones \cup {Unmapped}, r \in VisualRisks : ReviewFootage(z, r)
    \/ \E c \in Claims : TranscribeCrew(c)
    \/ RetrieveRules
    \/ \E s \in Sources, new \in Statuses : MarkSource(s, new)
    \/ \E d \in Documents : DeleteChunks(d)
    \/ \E c \in Chunks : IndexChunk(c)

Spec == Init /\ [][Next]_vars

-----------------------------------------------------------------------------
\* Facts that block a clearance on their own, whatever the other facts are.
Blockers(facts, active) ==
    {f \in facts :
        \/ f.type = "telemetry" /\ f.verdict = "breached"
        \/ f.type = "video" /\ f.verdict = "unavailable"
        \/ active /\ f.type = "proximity"
                  /\ f.verdict \in {"inside_risk_zone", "coverage_unknown"}
        \/ active /\ f.type = "video" /\ f.verdict = "available"
                  /\ f.subject[2] \in ActionableRisks}

\* A case that one fact blocks is cleared, while the lift state stays as it
\* is, only by newer evidence about that same subject: not by a document, a
\* source report, a crew statement or a reading of something else.  (The
\* reduction to current facts and the ladder of derive_decision.)
HazardReleasedBySubject ==
    [][\A b \in Blockers(Facts, liftActive) :
          \/ Len(log') = Len(log) + 1 /\ SameSubject(log'[Len(log')], b)
          \/ liftActive' # liftActive
          \/ Decision' # "CONDITIONAL_APPROVAL"]_vars

\* The document d no longer states the limit of k: all that stated it was in
\* chunks of d, which are gone, while other documents keep theirs.
Withdrawn(d, k) ==
    /\ \A c \in chunks : c.document # d => c \in chunks'
    /\ \A c \in chunks : (c.ruleKey = k /\ c.ruleValue = Ruleset[k])
                           => c.document = d /\ c \notin chunks'

\* A stated limit is relaxed or dropped only by importing again the one
\* document that stated it: a stricter lift plan stands against a permissive
\* procedure, whichever of them is imported first or again.  (build_ruleset,
\* import_documents.)
LimitsRelaxOnlyByReimport ==
    [][\A k \in DOMAIN Ruleset :
          \/ k \in DOMAIN Ruleset' /\ Ruleset'[k] <= Ruleset[k]
          \/ \E d \in Documents : Withdrawn(d, k)]_vars

\* The log, reduced to current facts, behaves as one latest verdict per
\* subject: what is written is what the commander reads from then on about
\* that subject, and no other subject is touched.  (write_evidence,
\* reduce_current_facts.)
SubjectOf(i) == <<i.type, i.subject>>
AllSubjects == {SubjectOf(i) : i \in Items}
VerdictOn(facts, s) == (CHOOSE f \in {g \in facts : SubjectOf(g) = s} : TRUE).verdict
LatestVerdict ==
    LET facts == Facts IN [s \in {SubjectOf(f) : f \in facts} |-> VerdictOn(facts, s)]
LastWritten ==
    IF log = <<>> THEN <<>>
    ELSE LET item == log[Len(log)]
         IN  <<SubjectOf(item), item.verdict>>
Current == INSTANCE CurrentFacts WITH
    Subjects <- AllSubjects, Verdicts <- {i.verdict : i \in Items},
    latest <- LatestVerdict, last <- LastWritten
LatestWins == Current!Spec

-----------------------------------------------------------------------------
(* What the documentation says and the code does not keep. *)

\* "a stricter project-specific lift plan is never relaxed by a more permissive
\* generic document": no step relaxes a stated limit.  (Importing the stricter
\* document again does: between its delete and its inserts, and for good if it
\* no longer states the rule.)
LimitsOnlyTighten ==
    [][\A k \in DOMAIN Ruleset :
          k \in DOMAIN Ruleset' /\ Ruleset'[k] <= Ruleset[k]]_vars

\* "otherwise, limits verified and zone clear -> CONDITIONAL_APPROVAL":
\* a clearance rests on a reading of every limited kind that was compared
\* with its limit and found within it.
LimitsVerified ==
    Decision = "CONDITIONAL_APPROVAL" =>
        \A k \in LimitedKinds : Item("telemetry", <<k>>, "within") \in Facts

\* "The Commander must cite at least two independent evidence types": the
\* evidence that a modality is absent is not evidence of that modality.
Corroborated ==
    Decision # "ESCALATE" =>
        \E f, g \in Facts : /\ f.type # g.type
                            /\ {f.type, g.type} \cap {"freshness"} = {}
                            /\ {f.verdict, g.verdict} \cap {"unavailable"} = {}

\* "The latest state per subject, so a superseded reading cannot linger":
\* once footage has been reviewed, its earlier absence blocks no longer.
FootageSupersedesItsAbsence ==
    [][\A z \in Zones \cup {Unmapped}, r \in VisualRisks :
          ReviewFootage(z, r) =>
             ~\E f \in Facts' : f.type = "video" /\ f.verdict = "unavailable"]_vars
=============================================================================
