------------------------- MODULE CaseEvidence_proofs -------------------------
(***************************************************************************)
(* Proofs about CaseEvidence, for every set of kinds, sensors, workers,    *)
(* zones and sources, and for logs of any length.                          *)
(***************************************************************************)
EXTENDS CaseEvidence, WellFoundedInduction, TLAPS

-----------------------------------------------------------------------------
(* The reduction of an evidence log to its current facts (RiskEngine)      *)

\* Appending an item to a log replaces the current fact on the subject of the
\* item and no other: the step by step view of reduce_current_facts, which
\* the code computes from the whole log each time.
THEOREM ReduceAppend ==
    ASSUME NEW S, NEW items \in Seq(S), NEW item \in S
    PROVE  ReduceCurrentFacts(Append(items, item)) =
              RecordFact(ReduceCurrentFacts(items), item)
<1> DEFINE new == Append(items, item)
           n == Len(items)
<1>1. /\ DOMAIN items = 1..n /\ DOMAIN new = 1..(n + 1) /\ n \in Nat
      /\ new[n + 1] = item
      /\ \A k \in 1..n : new[k] = items[k]
  OBVIOUS
<1> HIDE DEF new, n
<1>2. ASSUME NEW x \in ReduceCurrentFacts(new)
      PROVE  x \in RecordFact(ReduceCurrentFacts(items), item)
  <2>1. PICK j \in 1..(n + 1) :
          /\ x = new[j]
          /\ \A k \in 1..(n + 1) : k > j => ~SameSubject(new[k], new[j])
    BY <1>1, <1>2 DEF ReduceCurrentFacts
  <2>2. CASE j = n + 1
    BY <1>1, <2>1, <2>2 DEF RecordFact
  <2>3. CASE j \in 1..n
    <3>1. x = items[j] /\ ~SameSubject(item, items[j])
      BY <1>1, <2>1, <2>3
    <3>2. \A k \in 1..n : k > j => ~SameSubject(items[k], items[j])
      BY <1>1, <2>1, <2>3
    <3>3. x \in ReduceCurrentFacts(items)
      BY <1>1, <2>3, <3>1, <3>2 DEF ReduceCurrentFacts
    <3> QED
      BY <3>1, <3>3 DEF RecordFact, SameSubject
  <2> QED
    BY <1>1, <2>2, <2>3
<1>3. ASSUME NEW x \in RecordFact(ReduceCurrentFacts(items), item)
      PROVE  x \in ReduceCurrentFacts(new)
  <2>1. CASE x = item
    <3>1. \A k \in 1..(n + 1) : ~(k > n + 1)
      BY <1>1
    <3> QED
      BY <1>1, <2>1, <3>1 DEF ReduceCurrentFacts
  <2>2. CASE x \in ReduceCurrentFacts(items) /\ ~SameSubject(x, item)
    <3>1. PICK j \in 1..n :
            /\ x = items[j]
            /\ \A k \in 1..n : k > j => ~SameSubject(items[k], items[j])
      BY <1>1, <2>2 DEF ReduceCurrentFacts
    <3>2. ASSUME NEW k \in 1..(n + 1), k > j
          PROVE  ~SameSubject(new[k], new[j])
      <4>1. CASE k \in 1..n
        BY <1>1, <3>1, <3>2, <4>1
      <4>2. CASE k = n + 1
        BY <1>1, <2>2, <3>1, <4>2 DEF SameSubject
      <4> QED
        BY <1>1, <4>1, <4>2
    <3> QED
      BY <1>1, <3>1, <3>2 DEF ReduceCurrentFacts
  <2> QED
    BY <1>3, <2>1, <2>2 DEF RecordFact
<1> QED
  BY <1>2, <1>3 DEF new

\* An empty log has no current facts.
LEMMA ReduceEmpty == ReduceCurrentFacts(<<>>) = {}
BY DEF ReduceCurrentFacts

\* There is at most one current fact on a subject.
THEOREM OneFactPerSubject ==
    ASSUME NEW S, NEW items \in Seq(S),
           NEW f \in ReduceCurrentFacts(items), NEW g \in ReduceCurrentFacts(items),
           SameSubject(f, g)
    PROVE  f = g
<1>1. PICK i \in DOMAIN items : f = items[i] /\ \A k \in DOMAIN items :
                                 k > i => ~SameSubject(items[k], items[i])
  BY DEF ReduceCurrentFacts
<1>2. PICK j \in DOMAIN items : g = items[j] /\ \A k \in DOMAIN items :
                                 k > j => ~SameSubject(items[k], items[j])
  BY DEF ReduceCurrentFacts
<1>3. ~(j > i) /\ ~(i > j)
  BY <1>1, <1>2 DEF SameSubject
<1> QED
  BY <1>1, <1>2, <1>3

-----------------------------------------------------------------------------
(* The evidence of a case *)

\* Every step writes one item some specialist can write, or writes nothing.
LEMMA EvidenceSteps ==
    ASSUME TypeOK, [Next]_vars
    PROVE  UNCHANGED log \/ \E item \in Items : WriteEvidence(item)
<1>1. CASE UNCHANGED vars
  BY <1>1 DEF vars
<1>2. ASSUME NEW k \in LimitedKinds \cup SiteKinds, NEW v \in Readings,
             EvaluateReading(k, v)
      PROVE  \E item \in Items : WriteEvidence(item)
  <2>1. ThresholdVerdict(k, v, Ruleset) \in {"breached", "within", "no_limit"}
    BY DEF ThresholdVerdict
  <2>2. ReadingItem(k, v, Ruleset) \in Items
    BY <2>1 DEF ReadingItem, Items
  <2> QED
    BY <1>2, <2>2 DEF EvaluateReading
<1>3. ASSUME NEW w \in Workers, NEW r \in Relations, EvaluatePosition(w, r)
      PROVE  \E item \in Items : WriteEvidence(item)
  <2>1. PositionItem(w, r) \in Items
    BY DEF Items
  <2> QED
    BY <1>3, <2>1 DEF EvaluatePosition
<1>4. ASSUME NEW k \in StateKinds, NEW a \in BOOLEAN, EvaluateSiteState(k, a)
      PROVE  \E item \in Items : WriteEvidence(item)
  <2>1. StateItem(k) \in Items
    BY DEF StateItem, Items
  <2> QED
    BY <1>4, <2>1 DEF EvaluateSiteState
<1>5. ASSUME NEW z \in Zones \cup {Unmapped}, ReviewWithoutFootage(z)
      PROVE  \E item \in Items : WriteEvidence(item)
  <2>1. VisionMissing(z) \in Items
    BY DEF VisionMissing, Items, VideoSubjects
  <2> QED
    BY <1>5, <2>1 DEF ReviewWithoutFootage
<1>6. ASSUME NEW z \in Zones \cup {Unmapped}, NEW r \in VisualRisks,
             ReviewFootage(z, r)
      PROVE  \E item \in Items : WriteEvidence(item)
  <2>1. VisionItem(z, r) \in Items
    BY DEF VisionItem, Items, VideoSubjects
  <2> QED
    BY <1>6, <2>1 DEF ReviewFootage
<1>7. ASSUME NEW c \in Claims, TranscribeCrew(c)
      PROVE  \E item \in Items : WriteEvidence(item)
  <2>1. CrewItem(c) \in Items
    BY DEF Items
  <2> QED
    BY <1>7, <2>1 DEF TranscribeCrew
<1>8. ASSUME RetrieveRules
      PROVE  \E item \in Items : WriteEvidence(item)
  <2>1. PolicyItem \in Items
    BY DEF Items
  <2> QED
    BY <1>8, <2>1 DEF RetrieveRules
<1>9. ASSUME NEW s \in Sources, NEW st \in Statuses, MarkSource(s, st)
      PROVE  UNCHANGED log \/ \E item \in Items : WriteEvidence(item)
  <2>1. FreshnessItem(s) \in Items
    BY DEF Items
  <2> QED
    BY <1>9, <2>1 DEF MarkSource
<1>10. ASSUME NEW c \in Chunks, IndexChunk(c)
       PROVE  UNCHANGED log
  BY <1>10 DEF IndexChunk
<1>11. ASSUME NEW d \in Documents, DeleteChunks(d)
       PROVE  UNCHANGED log
  BY <1>11 DEF DeleteChunks
<1> QED
  BY <1>1, <1>2, <1>3, <1>4, <1>5, <1>6, <1>7, <1>8, <1>9, <1>10, <1>11 DEF Next

-----------------------------------------------------------------------------
LEMMA TypeInit == Init => TypeOK
<1> SUFFICES ASSUME Init PROVE TypeOK
  OBVIOUS
<1> USE DEF Init
<1>1. log \in Seq(Items)
  OBVIOUS
<1>2. status \in [Sources -> Statuses]
  BY DEF Statuses
<1>3. chunks \subseteq Chunks /\ liftActive \in BOOLEAN
  OBVIOUS
<1> QED
  BY <1>1, <1>2, <1>3 DEF TypeOK

LEMMA TypeStep == TypeOK /\ [Next]_vars => TypeOK'
<1> SUFFICES ASSUME TypeOK, [Next]_vars
             PROVE  TypeOK'
  OBVIOUS
<1> USE DEF TypeOK
<1>1. log' \in Seq(Items)
  BY EvidenceSteps DEF WriteEvidence
<1>2. CASE UNCHANGED vars
  BY <1>2 DEF vars
<1>3. ASSUME NEW k \in LimitedKinds \cup SiteKinds, NEW v \in Readings,
             EvaluateReading(k, v)
      PROVE  TypeOK'
  BY <1>1, <1>3 DEF EvaluateReading
<1>4. ASSUME NEW w \in Workers, NEW r \in Relations, EvaluatePosition(w, r)
      PROVE  TypeOK'
  BY <1>1, <1>4 DEF EvaluatePosition
<1>5. ASSUME NEW k \in StateKinds, NEW a \in BOOLEAN, EvaluateSiteState(k, a)
      PROVE  TypeOK'
  BY <1>1, <1>5 DEF EvaluateSiteState
<1>6. ASSUME NEW z \in Zones \cup {Unmapped}, ReviewWithoutFootage(z)
      PROVE  TypeOK'
  BY <1>1, <1>6 DEF ReviewWithoutFootage
<1>7. ASSUME NEW z \in Zones \cup {Unmapped}, NEW r \in VisualRisks,
             ReviewFootage(z, r)
      PROVE  TypeOK'
  BY <1>1, <1>7 DEF ReviewFootage
<1>8. ASSUME NEW c \in Claims, TranscribeCrew(c)
      PROVE  TypeOK'
  BY <1>1, <1>8 DEF TranscribeCrew
<1>9. ASSUME RetrieveRules
      PROVE  TypeOK'
  BY <1>1, <1>9 DEF RetrieveRules
<1>10. ASSUME NEW s \in Sources, NEW st \in Statuses, MarkSource(s, st)
       PROVE  TypeOK'
  BY <1>1, <1>10 DEF MarkSource
<1>11. ASSUME NEW c \in Chunks, IndexChunk(c)
       PROVE  TypeOK'
  BY <1>1, <1>11 DEF IndexChunk
<1>12. ASSUME NEW d \in Documents, DeleteChunks(d)
       PROVE  TypeOK'
  BY <1>1, <1>12 DEF DeleteChunks
<1> QED
  BY <1>2, <1>3, <1>4, <1>5, <1>6, <1>7, <1>8, <1>9, <1>10, <1>11, <1>12 DEF Next

\* Type correctness: the log holds nothing but items a specialist can write.
THEOREM TypeCorrect == Spec => []TypeOK
BY TypeInit, TypeStep, PTL DEF Spec

-----------------------------------------------------------------------------

\* One more fact changes the verdict on its own subject and on no other.
LEMMA VerdictAfter ==
    ASSUME NEW facts, NEW item, NEW s
    PROVE  VerdictOn(RecordFact(facts, item), s) =
              IF s = SubjectOf(item) THEN item.verdict ELSE VerdictOn(facts, s)
<1> DEFINE on(fs) == {f \in fs : SubjectOf(f) = s}
<1>1. CASE s = SubjectOf(item)
  <2>1. on(RecordFact(facts, item)) = {item}
    BY <1>1 DEF RecordFact, SameSubject, SubjectOf
  <2> QED
    BY <1>1, <2>1 DEF VerdictOn
<1>2. CASE s # SubjectOf(item)
  <2>1. on(RecordFact(facts, item)) = on(facts)
    BY <1>2 DEF RecordFact, SameSubject, SubjectOf
  <2>2. \A fs : VerdictOn(fs, s) = (CHOOSE f \in on(fs) : TRUE).verdict
    BY DEF VerdictOn
  <2> HIDE DEF on
  <2> QED
    BY <1>2, <2>1, <2>2
<1> QED
  BY <1>1, <1>2

\* One more fact adds its own subject to those that have one, and no other.
LEMMA SubjectsAfter ==
    ASSUME NEW facts, NEW item
    PROVE  {SubjectOf(f) : f \in RecordFact(facts, item)} =
              {SubjectOf(f) : f \in facts} \cup {SubjectOf(item)}
BY DEF RecordFact, SameSubject, SubjectOf

\* The log and its reduction implement one latest verdict per subject: what
\* the commander reads about a subject is the last thing written about it.
THEOREM LogKeepsLatest == Spec => LatestWins
<1>1. Init => Current!Init
  <2> SUFFICES ASSUME Init PROVE Current!Init
    OBVIOUS
  <2>1. Facts = {}
    BY ReduceEmpty DEF Init, Facts
  <2>2. LastWritten = <<>>
    BY DEF Init, LastWritten
  <2>3. LatestVerdict = [s \in {} |-> s]
    BY <2>1 DEF LatestVerdict
  <2> QED
    BY <2>2, <2>3 DEF Current!Init
<1>2. TypeOK /\ [Next]_vars => [Current!Next]_<<LatestVerdict, LastWritten>>
  <2> SUFFICES ASSUME TypeOK, [Next]_vars
               PROVE  Current!Next \/ UNCHANGED <<LatestVerdict, LastWritten>>
    OBVIOUS
  <2>1. CASE UNCHANGED log
    BY <2>1 DEF LatestVerdict, Facts, LastWritten
  <2>2. ASSUME NEW item \in Items, WriteEvidence(item)
        PROVE  Current!Next
    <3> DEFINE s0 == SubjectOf(item)
               seen == {SubjectOf(f) : f \in Facts}
               before == [s \in seen |-> VerdictOn(Facts, s)]
    <3>1. s0 \in AllSubjects /\ item.verdict \in {i.verdict : i \in Items}
      BY DEF AllSubjects
    <3>2. Facts' = RecordFact(Facts, item)
      BY <2>2, ReduceAppend DEF Facts, WriteEvidence, TypeOK
    <3>3. LatestVerdict = before
      BY DEF LatestVerdict
    <3>4. LatestVerdict' = [s \in {SubjectOf(f) : f \in Facts'} |-> VerdictOn(Facts', s)]
      BY DEF LatestVerdict
    <3>5. {SubjectOf(f) : f \in Facts'} = DOMAIN LatestVerdict \cup {s0}
      BY <3>2, <3>3, SubjectsAfter
    <3>6. ASSUME NEW s \in DOMAIN LatestVerdict \cup {s0}
          PROVE  VerdictOn(Facts', s) = IF s = s0 THEN item.verdict ELSE LatestVerdict[s]
      BY <3>2, <3>3, VerdictAfter
    <3>7. LastWritten' = <<s0, item.verdict>>
      <4>1. log' # <<>> /\ log'[Len(log')] = item
        BY <2>2 DEF WriteEvidence, TypeOK
      <4> QED
        BY <4>1 DEF LastWritten
    <3>8. Current!Record(s0, item.verdict)
      <4> HIDE DEF s0
      <4> QED
        BY <3>4, <3>5, <3>6 DEF Current!Record
    <3> QED
      <4>1. LastWritten'[1] = s0 /\ LastWritten'[2] = item.verdict
        BY <3>7
      <4> QED
        BY <3>1, <3>7, <3>8, <4>1 DEF Current!Next
  <2> QED
    BY <2>1, <2>2, EvidenceSteps
<1> QED
  BY TypeInit, TypeStep, <1>1, <1>2, PTL DEF Spec, LatestWins, Current!Spec

-----------------------------------------------------------------------------
(* What clears a blocked case *)

\* Each fact that blocks a clearance raises a finding that does, whatever the
\* other facts, the rules and the sources.
LEMMA BlockerBlocks ==
    ASSUME NEW facts, NEW ruleset, NEW sources, NEW active \in BOOLEAN,
           NEW b \in Blockers(facts, active)
    PROVE  DeriveDecision(facts, ruleset, sources, active) # "CONDITIONAL_APPROVAL"
<1> DEFINE raised == Findings(facts, ruleset, sources, active)
<1>1. SUFFICES \E f \in raised : f.class \in {"escalate", "hold"}
  BY DEF DeriveDecision, ResolveDecision
<1>2. b \in facts
  BY DEF Blockers
<1>3. CASE b.type = "telemetry" /\ b.verdict = "breached"
  <2>1. Finding("THRESHOLD_BREACH", "hold") \in ThresholdFindings(facts)
    BY <1>2, <1>3 DEF ThresholdFindings, Raise, OfType
  <2> QED
    BY <2>1 DEF Findings, Finding
<1>4. CASE b.type = "video" /\ b.verdict = "unavailable"
  <2>1. Finding("VISION_EVIDENCE_MISSING", "escalate") \in VisionFindings(facts, active)
    BY <1>2, <1>4 DEF VisionFindings, Raise, OfType
  <2> QED
    BY <2>1 DEF Findings, Finding
<1>5. CASE active /\ b.type = "proximity" /\ b.verdict = "inside_risk_zone"
  <2>1. Finding("WORKER_IN_EXCLUSION_ZONE", "hold") \in ProximityFindings(facts, active)
    BY <1>2, <1>5 DEF ProximityFindings, Raise, OfType
  <2> QED
    BY <2>1 DEF Findings, Finding
<1>6. CASE active /\ b.type = "proximity" /\ b.verdict = "coverage_unknown"
  <2>1. Finding("POSITION_COVERAGE_UNKNOWN", "escalate") \in ProximityFindings(facts, active)
    BY <1>2, <1>6 DEF ProximityFindings, Raise, OfType
  <2> QED
    BY <2>1 DEF Findings, Finding
<1>7. CASE active /\ b.type = "video" /\ b.verdict = "available"
                  /\ b.subject[2] \in ActionableRisks
  <2>1. Finding("VISUAL_RISK", "hold") \in VisionFindings(facts, active)
    BY <1>2, <1>7 DEF VisionFindings, Raise, OfType
  <2> QED
    BY <2>1 DEF Findings, Finding
<1> QED
  BY <1>3, <1>4, <1>5, <1>6, <1>7 DEF Blockers

\* A case that one fact blocks is cleared, while the lift state stays as it
\* is, only by newer evidence about the subject of that fact; for logs of any
\* length.  (reduce_current_facts, derive_decision.)
THEOREM HazardReleased == Spec => HazardReleasedBySubject
<1> DEFINE Released ==
      \A b \in Blockers(Facts, liftActive) :
          \/ Len(log') = Len(log) + 1 /\ SameSubject(log'[Len(log')], b)
          \/ liftActive' # liftActive
          \/ Decision' # "CONDITIONAL_APPROVAL"
<1>1. TypeOK /\ [Next]_vars => Released
  <2> SUFFICES ASSUME TypeOK, [Next]_vars,
                      liftActive' = liftActive, Decision' = "CONDITIONAL_APPROVAL",
                      NEW b \in Blockers(Facts, liftActive)
               PROVE  /\ Len(log') = Len(log) + 1
                      /\ SameSubject(log'[Len(log')], b)
    OBVIOUS
  <2>1. b \notin Facts'
    <3>1. ASSUME b \in Facts'
          PROVE  b \in Blockers(Facts', liftActive')
      BY <3>1 DEF Blockers
    <3>2. liftActive' \in BOOLEAN
      BY DEF TypeOK
    <3>3. Decision' = DeriveDecision(Facts', Ruleset', status', liftActive')
      BY DEF Decision
    <3> QED
      BY <3>1, <3>2, <3>3, BlockerBlocks
  <2>2. b \in Facts
    BY DEF Blockers
  <2>3. PICK item \in Items : WriteEvidence(item)
    BY <2>1, <2>2, EvidenceSteps DEF Facts
  <2>4. Facts' = RecordFact(Facts, item)
    BY <2>3, ReduceAppend DEF Facts, WriteEvidence, TypeOK
  <2>5. SameSubject(item, b)
    BY <2>1, <2>2, <2>4 DEF RecordFact, SameSubject
  <2> QED
    BY <2>3, <2>5 DEF WriteEvidence, TypeOK
<1> QED
  BY TypeInit, TypeStep, <1>1, PTL DEF Spec, HazardReleasedBySubject

-----------------------------------------------------------------------------
(* Limits *)

Smaller == {pair \in Nat \X Nat : pair[1] < pair[2]}

\* A nonempty set of natural numbers has a least element.
LEMMA LeastOf ==
    ASSUME NEW values \in SUBSET Nat, values # {}
    PROVE  \E v \in values : \A w \in values : v <= w
<1>1. OpToRel(<, Nat) = Smaller
  BY DEF OpToRel, Smaller
<1>2. IsWellFoundedOn(Smaller, Nat)
  BY <1>1, NatLessThanWellFounded
<1>3. PICK v \in values : \A w \in values : <<w, v>> \notin Smaller
  BY <1>2, WFMin
<1>4. ASSUME NEW w \in values
      PROVE  v <= w
  <2>1. v \in Nat /\ w \in Nat /\ <<w, v>> \in Nat \X Nat
    OBVIOUS
  <2>2. ~(w < v)
    BY <1>3, <2>1 DEF Smaller
  <2> QED
    BY <2>1, <2>2
<1> QED
  BY <1>4

\* A ruleset states a limit for every required rule some chunk states, and
\* that limit is the least of the values stated.  (build_ruleset.)
LEMMA LeastStated ==
    ASSUME NEW indexed \in SUBSET Chunks, NEW k
    PROVE  /\ k \in DOMAIN BuildRuleset(indexed) <=>
                 k \in RequiredRules /\ \E c \in indexed : c.ruleKey = k
           /\ k \in DOMAIN BuildRuleset(indexed) =>
                 /\ \E c \in indexed : c.ruleKey = k /\ c.ruleValue = BuildRuleset(indexed)[k]
                 /\ \A c \in indexed : c.ruleKey = k => BuildRuleset(indexed)[k] <= c.ruleValue
<1> DEFINE stated(r) == {c.ruleValue : c \in {d \in indexed : d.ruleKey = r}}
           keys == {c.ruleKey : c \in indexed} \cap RequiredRules
           least(r) == CHOOSE v \in stated(r) : \A w \in stated(r) : v <= w
<1>1. BuildRuleset(indexed) = [r \in keys |-> least(r)]
  BY DEF BuildRuleset
<1>2. DOMAIN BuildRuleset(indexed) = keys
  BY <1>1
<1>3. ASSUME k \in keys
      PROVE  least(k) \in stated(k) /\ \A w \in stated(k) : least(k) <= w
  <2>1. stated(k) \subseteq Nat
    <3>1. ASSUME NEW c \in indexed
          PROVE  c.ruleValue \in Nat
      <4>1. c \in Chunks
        OBVIOUS
      <4>2. CASE c \in [document : Documents, ruleKey : LimitedKinds, ruleValue : Readings]
        BY <4>2, EvidenceAssumption
      <4>3. CASE c \in [document : Documents, ruleKey : {ZoneRule}, ruleValue : {0}]
        BY <4>3
      <4> QED
        BY <4>1, <4>2, <4>3 DEF Chunks
    <3> QED
      BY <3>1
  <2>2. stated(k) # {}
    BY <1>3
  <2>3. \E v \in stated(k) : \A w \in stated(k) : v <= w
    <3> HIDE DEF stated
    <3> QED
      BY <2>1, <2>2, LeastOf
  <2> QED
    BY <2>3
<1>4. k \in keys => BuildRuleset(indexed)[k] = least(k)
  BY <1>1
<1> QED
  BY <1>2, <1>3, <1>4

\* Each step keeps every chunk, or deletes those of one document.
LEMMA ChunkSteps ==
    ASSUME [Next]_vars
    PROVE  \/ chunks \subseteq chunks'
           \/ \E d \in Documents : chunks' = {c \in chunks : c.document # d}
<1>1. ASSUME NEW d \in Documents, DeleteChunks(d)
      PROVE  chunks' = {c \in chunks : c.document # d}
  BY <1>1 DEF DeleteChunks
<1>2. CASE ~\E d \in Documents : DeleteChunks(d)
  BY <1>2 DEF Next, vars, EvaluateReading, EvaluatePosition, EvaluateSiteState,
              ReviewWithoutFootage, ReviewFootage, TranscribeCrew, RetrieveRules,
              MarkSource, IndexChunk
<1> QED
  BY <1>1, <1>2

\* A limit is relaxed or dropped only by importing again the one document that
\* stated it, for any documents and any values: neither a chunk more nor the
\* deletion of another document's chunks does.  (build_ruleset,
\* import_documents.)
THEOREM LimitsRelaxOnly == Spec => LimitsRelaxOnlyByReimport
<1>1. TypeOK /\ [Next]_vars =>
         \A k \in DOMAIN Ruleset :
            \/ k \in DOMAIN Ruleset' /\ Ruleset'[k] <= Ruleset[k]
            \/ \E d \in Documents : Withdrawn(d, k)
  <2> SUFFICES ASSUME TypeOK, [Next]_vars, NEW k \in DOMAIN Ruleset,
                      ~\E d \in Documents : Withdrawn(d, k)
               PROVE  k \in DOMAIN Ruleset' /\ Ruleset'[k] <= Ruleset[k]
    OBVIOUS
  <2>1. chunks \in SUBSET Chunks /\ chunks' \in SUBSET Chunks
    BY TypeStep DEF TypeOK
  \* Some chunk that states the limit is still there.
  <2>2. PICK c \in chunks' : c.ruleKey = k /\ c.ruleValue = Ruleset[k]
    <3>1. PICK c \in chunks : c.ruleKey = k /\ c.ruleValue = Ruleset[k]
      BY <2>1, LeastStated DEF Ruleset
    <3>2. CASE chunks \subseteq chunks'
      BY <3>1, <3>2
    <3>3. ASSUME NEW d \in Documents, chunks' = {e \in chunks : e.document # d}
          PROVE  \E e \in chunks' : e.ruleKey = k /\ e.ruleValue = Ruleset[k]
      <4>1. \A e \in chunks : e.document # d => e \in chunks'
        BY <3>3
      <4>2. \A e \in chunks : e.document = d => e \notin chunks'
        BY <3>3
      <4> QED
        BY <4>1, <4>2 DEF Withdrawn
    <3> QED
      BY <3>2, <3>3, ChunkSteps
  <2>3. k \in RequiredRules
    BY <2>1, LeastStated DEF Ruleset
  <2>4. k \in DOMAIN Ruleset'
    BY <2>1, <2>2, <2>3, LeastStated DEF Ruleset
  <2> QED
    BY <2>1, <2>2, <2>4, LeastStated DEF Ruleset
<1> QED
  BY TypeInit, TypeStep, <1>1, PTL DEF Spec, LimitsRelaxOnlyByReimport

=============================================================================
