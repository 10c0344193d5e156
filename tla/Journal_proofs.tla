---------------------------- MODULE Journal_proofs ----------------------------
(***************************************************************************)
(* Proofs about Journal, for any documents, queue size and number of       *)
(* crashes: what the journal restores, what the feed tells, and the        *)
(* refinement of DurableStore.                                             *)
(***************************************************************************)
EXTENDS Journal, SequenceTheorems, WellFoundedInduction, TLAPS

Documented == Values \cup {Absent}
LineType == [key : Keys, value : Documented, readable : BOOLEAN]

-----------------------------------------------------------------------------
(* The last entry about a key *)

Last(on) == CHOOSE i \in on : \A j \in on : j <= i

LEMMA LastIs ==
    ASSUME NEW on \in SUBSET Nat, NEW m \in on, \A j \in on : j <= m
    PROVE  Last(on) = m
<1>1. \A i \in on : (\A j \in on : j <= i) => i = m
  OBVIOUS
<1> QED
  BY <1>1 DEF Last

Smaller == {pair \in Nat \X Nat : pair[1] < pair[2]}

LEMMA SmallerWellFounded == IsWellFoundedOn(Smaller, Nat)
<1>1. OpToRel(<, Nat) = Smaller
  BY DEF OpToRel, Smaller
<1> QED
  BY <1>1, NatLessThanWellFounded

\* A set of positions has a last one unless it is empty.
LEMMA LastIn ==
    ASSUME NEW n \in Nat, NEW on \in SUBSET (1..n), on # {}
    PROVE  Last(on) \in on /\ \A j \in on : j <= Last(on)
<1> DEFINE fromEnd == {n - i : i \in on}
<1>1. fromEnd \subseteq Nat
  OBVIOUS
<1>2. fromEnd # {}
  OBVIOUS
<1>3. PICK x \in fromEnd : \A y \in fromEnd : <<y, x>> \notin Smaller
  <2> HIDE DEF fromEnd
  <2> QED
    BY <1>1, <1>2, SmallerWellFounded, WFMin
<1>4. \A y \in fromEnd : ~(y < x)
  <2> HIDE DEF fromEnd
  <2> QED
    BY <1>1, <1>3 DEF Smaller
<1>5. PICK i \in on : x = n - i
  OBVIOUS
<1>6. ASSUME NEW j \in on
      PROVE  j <= i
  <2>1. ~(n - j < n - i)
    BY <1>4, <1>5
  <2> QED
    BY <2>1
<1>7. Last(on) = i
  BY <1>6, LastIs
<1> QED
  BY <1>6, <1>7

-----------------------------------------------------------------------------
(* What the journal restores *)

\* A line that can be read takes effect on its own key; a broken one on none.
LEMMA ReplayedAppend ==
    ASSUME NEW lines \in Seq(LineType), NEW line \in LineType
    PROVE  Replayed(Append(lines, line)) =
              IF line.readable THEN [Replayed(lines) EXCEPT ![line.key] = line.value]
                               ELSE Replayed(lines)
<1> DEFINE new == Append(lines, line)
           n == Len(lines)
<1>1. /\ n \in Nat /\ DOMAIN lines = 1..n /\ DOMAIN new = 1..(n + 1)
      /\ new[n + 1] = line /\ \A i \in 1..n : new[i] = lines[i]
  OBVIOUS
<1> HIDE DEF new, n
<1>2. ASSUME NEW k \in Keys
      PROVE  Replayed(new)[k] = IF line.readable /\ line.key = k THEN line.value
                                                                ELSE Replayed(lines)[k]
  <2> DEFINE on == LinesOn(lines, k)
             onNew == LinesOn(new, k)
  <2>1. on \in SUBSET (1..n) /\ onNew \in SUBSET (1..(n + 1))
    BY <1>1 DEF LinesOn
  <2>2. \A i \in 1..n : i \in onNew <=> i \in on
    BY <1>1 DEF LinesOn
  <2>3. n + 1 \in onNew <=> line.readable /\ line.key = k
    BY <1>1 DEF LinesOn
  <2>4. Replayed(lines)[k] = IF on = {} THEN Absent ELSE lines[Last(on)].value
    BY DEF Replayed, Last
  <2>5. Replayed(new)[k] = IF onNew = {} THEN Absent ELSE new[Last(onNew)].value
    BY DEF Replayed, Last
  <2> HIDE DEF on, onNew
  <2>6. CASE line.readable /\ line.key = k
    <3>1. Last(onNew) = n + 1
      <4>1. \A i \in onNew : i \in Nat /\ i <= n + 1
        BY <1>1, <2>1
      <4>2. onNew \in SUBSET Nat /\ n + 1 \in onNew
        BY <2>3, <2>6, <4>1
      <4> QED
        BY <4>1, <4>2, LastIs
    <3>2. new[Last(onNew)] = line
      BY <1>1, <3>1
    <3> QED
      BY <2>3, <2>5, <2>6, <3>2
  <2>7. CASE ~(line.readable /\ line.key = k)
    <3>1. onNew = on
      <4>1. n + 1 \notin onNew /\ n + 1 \notin on
        BY <1>1, <2>1, <2>3, <2>7
      <4>2. \A i \in 1..(n + 1) : i \in 1..n \/ i = n + 1
        BY <1>1
      <4>3. \A i : i \in onNew <=> i \in on
        BY <2>1, <2>2, <4>1, <4>2
      <4> QED
        BY <4>3
    <3>2. on # {} => Last(on) \in 1..n
      BY <1>1, <2>1, LastIn
    <3>3. CASE on = {}
      BY <2>4, <2>5, <2>7, <3>1, <3>3
    <3>4. CASE on # {}
      <4>1. new[Last(on)] = lines[Last(on)]
        BY <1>1, <3>2, <3>4
      <4> QED
        BY <2>4, <2>5, <2>7, <3>1, <3>4, <4>1
    <3> QED
      BY <3>3, <3>4
  <2> QED
    BY <2>6, <2>7
<1>3. /\ Replayed(new) = [k \in Keys |-> Replayed(new)[k]]
      /\ Replayed(lines) = [k \in Keys |-> Replayed(lines)[k]]
  BY DEF Replayed
<1>4. line.key \in Keys
  BY DEF LineType
<1> QED
  BY <1>2, <1>3, <1>4 DEF new

LEMMA ReplayedType ==
    ASSUME NEW lines \in Seq(LineType)
    PROVE  Replayed(lines) \in [Keys -> Documented]
<1>1. ASSUME NEW k \in Keys
      PROVE  Replayed(lines)[k] \in Documented
  <2>1. LinesOn(lines, k) \in SUBSET (1..Len(lines)) /\ Len(lines) \in Nat
    BY DEF LinesOn
  <2>2. Replayed(lines)[k] = IF LinesOn(lines, k) = {} THEN Absent
                             ELSE lines[Last(LinesOn(lines, k))].value
    BY DEF Replayed, Last
  <2>3. CASE LinesOn(lines, k) # {}
    <3>1. Last(LinesOn(lines, k)) \in 1..Len(lines)
      BY <2>1, <2>3, LastIn
    <3>2. lines[Last(LinesOn(lines, k))] \in LineType
      BY <3>1
    <3> QED
      BY <2>2, <2>3, <3>2 DEF LineType
  <2> QED
    BY <2>2, <2>3 DEF Documented
<1>2. Replayed(lines) = [k \in Keys |-> Replayed(lines)[k]]
  BY DEF Replayed
<1> QED
  BY <1>1, <1>2

-----------------------------------------------------------------------------
(* What the feed tells *)

\* A change that arrives last decides for its key.
LEMMA CaughtAppend ==
    ASSUME NEW known \in [Keys -> Documented], NEW changes \in Seq(ChangeType),
           NEW change \in ChangeType
    PROVE  Caught(known, Append(changes, change)) =
              [Caught(known, changes) EXCEPT ![change.key] = change.value]
<1> DEFINE new == Append(changes, change)
           n == Len(changes)
           On(s, k) == {i \in DOMAIN s : s[i].key = k}
<1>1. /\ n \in Nat /\ DOMAIN changes = 1..n /\ DOMAIN new = 1..(n + 1)
      /\ new[n + 1] = change /\ \A i \in 1..n : new[i] = changes[i]
  OBVIOUS
<1> HIDE DEF new, n
<1>2. ASSUME NEW k \in Keys
      PROVE  Caught(known, new)[k] = IF change.key = k THEN change.value
                                                       ELSE Caught(known, changes)[k]
  <2> DEFINE on == On(changes, k)
             onNew == On(new, k)
  <2>1. on \in SUBSET (1..n) /\ onNew \in SUBSET (1..(n + 1))
    BY <1>1
  <2>2. \A i \in 1..n : i \in onNew <=> i \in on
    BY <1>1
  <2>3. n + 1 \in onNew <=> change.key = k
    BY <1>1
  <2>4. Caught(known, changes)[k] = IF on = {} THEN known[k] ELSE changes[Last(on)].value
    BY DEF Caught, Last
  <2>5. Caught(known, new)[k] = IF onNew = {} THEN known[k] ELSE new[Last(onNew)].value
    BY DEF Caught, Last
  <2> HIDE DEF on, onNew
  <2>6. CASE change.key = k
    <3>1. Last(onNew) = n + 1
      <4>1. \A i \in onNew : i \in Nat /\ i <= n + 1
        BY <1>1, <2>1
      <4>2. onNew \in SUBSET Nat /\ n + 1 \in onNew
        BY <2>3, <2>6, <4>1
      <4> QED
        BY <4>1, <4>2, LastIs
    <3>2. new[Last(onNew)] = change
      BY <1>1, <3>1
    <3> QED
      BY <2>3, <2>5, <2>6, <3>2
  <2>7. CASE change.key # k
    <3>1. onNew = on
      <4>1. n + 1 \notin onNew /\ n + 1 \notin on
        BY <1>1, <2>1, <2>3, <2>7
      <4>2. \A i \in 1..(n + 1) : i \in 1..n \/ i = n + 1
        BY <1>1
      <4>3. \A i : i \in onNew <=> i \in on
        BY <2>1, <2>2, <4>1, <4>2
      <4> QED
        BY <4>3
    <3>2. on # {} => Last(on) \in 1..n
      BY <1>1, <2>1, LastIn
    <3>3. CASE on = {}
      BY <2>4, <2>5, <2>7, <3>1, <3>3
    <3>4. CASE on # {}
      <4>1. new[Last(on)] = changes[Last(on)]
        BY <1>1, <3>2, <3>4
      <4> QED
        BY <2>4, <2>5, <2>7, <3>1, <3>4, <4>1
    <3> QED
      BY <3>3, <3>4
  <2> QED
    BY <2>6, <2>7
<1>3. /\ Caught(known, new) = [k \in Keys |-> Caught(known, new)[k]]
      /\ Caught(known, changes) = [k \in Keys |-> Caught(known, changes)[k]]
  BY DEF Caught
<1>4. change.key \in Keys
  BY DEF ChangeType
<1> QED
  BY <1>2, <1>3, <1>4 DEF new

\* Consuming the first change does not alter what all of them amount to.
LEMMA CaughtTail ==
    ASSUME NEW known \in [Keys -> Documented], NEW changes \in Seq(ChangeType),
           changes # <<>>
    PROVE  Caught([known EXCEPT ![Head(changes).key] = Head(changes).value], Tail(changes)) =
              Caught(known, changes)
<1> DEFINE first == Head(changes)
           rest == Tail(changes)
           knows == [known EXCEPT ![first.key] = first.value]
           n == Len(rest)
           On(s, k) == {i \in DOMAIN s : s[i].key = k}
<1>1. /\ n \in Nat /\ DOMAIN changes = 1..(n + 1) /\ DOMAIN rest = 1..n
      /\ changes[1] = first /\ \A i \in 1..n : rest[i] = changes[i + 1]
  OBVIOUS
<1>2. \A k \in Keys : knows[k] = IF first.key = k THEN first.value ELSE known[k]
  OBVIOUS
<1> HIDE DEF first, rest, knows, n
<1>3. ASSUME NEW k \in Keys
      PROVE  Caught(knows, rest)[k] = Caught(known, changes)[k]
  <2> DEFINE on == On(changes, k)
             onRest == On(rest, k)
  <2>1. on \in SUBSET (1..(n + 1)) /\ onRest \in SUBSET (1..n)
    BY <1>1
  <2>2. \A i \in 1..n : i \in onRest <=> i + 1 \in on
    BY <1>1
  <2>3. 1 \in on <=> first.key = k
    BY <1>1
  <2>4. Caught(known, changes)[k] = IF on = {} THEN known[k] ELSE changes[Last(on)].value
    BY DEF Caught, Last
  <2>5. Caught(knows, rest)[k] = IF onRest = {} THEN knows[k] ELSE rest[Last(onRest)].value
    BY DEF Caught, Last
  <2> HIDE DEF on, onRest
  <2>6. CASE onRest # {}
    <3>1. Last(onRest) \in onRest /\ \A j \in onRest : j <= Last(onRest)
      BY <1>1, <2>1, <2>6, LastIn
    <3> DEFINE l == Last(onRest)
    <3> HIDE DEF l
    <3>2. l \in 1..n /\ l + 1 \in on
      BY <2>1, <2>2, <3>1 DEF l
    <3>3. ASSUME NEW j \in on
          PROVE  j <= l + 1
      <4>1. CASE j = 1
        BY <3>2, <4>1
      <4>2. CASE j # 1
        <5>1. j - 1 \in 1..n /\ (j - 1) + 1 = j
          BY <1>1, <2>1, <4>2
        <5>2. j - 1 \in onRest
          BY <2>2, <5>1
        <5> QED
          BY <3>1, <3>2, <5>1, <5>2 DEF l
      <4> QED
        BY <4>1, <4>2
    <3>4. Last(on) = l + 1
      BY <2>1, <3>2, <3>3, LastIs
    <3> QED
      BY <1>1, <2>4, <2>5, <2>6, <3>2, <3>4 DEF l
  <2>7. CASE onRest = {}
    <3>1. ASSUME NEW j \in on
          PROVE  j = 1
      <4>1. j # 1 => j - 1 \in 1..n /\ (j - 1) + 1 = j
        BY <1>1, <2>1
      <4> QED
        BY <2>2, <2>7, <4>1
    <3>2. CASE first.key = k
      <4>1. Last(on) = 1
        BY <2>3, <3>1, <3>2, LastIs
      <4> QED
        BY <1>1, <1>2, <2>3, <2>4, <2>5, <2>7, <3>2, <4>1
    <3>3. CASE first.key # k
      <4>1. on = {}
        BY <2>3, <3>1, <3>3
      <4> QED
        BY <1>2, <2>4, <2>5, <2>7, <3>3, <4>1
    <3> QED
      BY <3>2, <3>3
  <2> QED
    BY <2>6, <2>7
<1>4. /\ Caught(knows, rest) = [k \in Keys |-> Caught(knows, rest)[k]]
      /\ Caught(known, changes) = [k \in Keys |-> Caught(known, changes)[k]]
  BY DEF Caught
<1> QED
  BY <1>3, <1>4 DEF knows, first, rest

-----------------------------------------------------------------------------
(* What each kind of write does *)

LEMMA WriteTextEffect ==
    ASSUME TypeOK, NEW line \in LineType, WriteText(line)
    PROVE  /\ journal' \in Seq(LineType) /\ journal' # <<>> /\ glued' \in BOOLEAN
           /\ ~glued' => ~glued /\ tail = "line" /\ journal' = Append(journal, line)
<1>1. journal \in Seq(LineType) /\ glued \in BOOLEAN /\ (tail # "line" => journal # <<>>)
  BY DEF TypeOK, LineType, Documented
<1>2. CASE tail = "line"
  <2>1. journal' = Append(journal, line) /\ glued' = glued
    BY <1>2 DEF WriteText
  <2> QED
    BY <1>1, <1>2, <2>1, AppendProperties
<1>3. CASE tail # "line"
  <2>1. journal' = [journal EXCEPT ![Len(journal)].readable = FALSE] /\ glued' = TRUE
    BY <1>3 DEF WriteText
  <2>2. Len(journal) \in 1..Len(journal)
    BY <1>1, <1>3
  <2> DEFINE broken == [journal[Len(journal)] EXCEPT !.readable = FALSE]
  <2>3. broken \in LineType
    <3>1. journal[Len(journal)] \in LineType
      BY <1>1, <2>2
    <3> QED
      BY <3>1 DEF LineType
  <2>4. journal' = [journal EXCEPT ![Len(journal)] = broken]
    BY <2>1
  <2> HIDE DEF broken
  <2>5. journal' \in Seq(LineType) /\ Len(journal') = Len(journal)
    BY <1>1, <2>2, <2>3, <2>4, ExceptSeq
  <2> QED
    BY <1>1, <1>3, <2>1, <2>5
<1> QED
  BY <1>2, <1>3

LEMMA LineTyped ==
    ASSUME NEW c \in ChangeType
    PROVE  /\ Line(c) \in LineType /\ Line(c).key = c.key /\ Line(c).value = c.value
           /\ Line(c).readable
           /\ [Line(c) EXCEPT !.readable = FALSE] \in LineType
           /\ ~[Line(c) EXCEPT !.readable = FALSE].readable
BY DEF Line, LineType, ChangeType, Documented

LEMMA ReplayedLine ==
    ASSUME NEW lines \in Seq(LineType), NEW c \in ChangeType
    PROVE  Replayed(Append(lines, Line(c))) = [Replayed(lines) EXCEPT ![c.key] = c.value]
<1> DEFINE line == Line(c)
<1>1. line \in LineType /\ line.key = c.key /\ line.value = c.value /\ line.readable
  BY LineTyped
<1> HIDE DEF line
<1>2. Replayed(Append(lines, line)) = [Replayed(lines) EXCEPT ![line.key] = line.value]
  BY <1>1, ReplayedAppend
<1>3. [Replayed(lines) EXCEPT ![line.key] = line.value] = [Replayed(lines) EXCEPT ![c.key] = c.value]
  BY <1>1
<1> QED
  BY <1>2, <1>3 DEF line

FileTyped ==
    /\ journal \in Seq(LineType) /\ tail \in {"line", "text", "scrap"}
    /\ tail # "line" => journal # <<>>
    /\ glued \in BOOLEAN /\ appends \in Nat

LEMMA AppendEffect ==
    ASSUME TypeOK, NEW c \in ChangeType, AppendJournal(c)
    PROVE  /\ FileTyped'
           /\ ~glued' => ~glued /\ Replayed(journal') = [Replayed(journal) EXCEPT ![c.key] = c.value]
<1>1. journal \in Seq(LineType) /\ appends \in Nat
  BY DEF TypeOK, LineType, Documented
<1>2. WriteText(Line(c)) /\ tail' = "line" /\ appends' = appends + 1
  BY DEF AppendJournal
<1>3. /\ journal' \in Seq(LineType) /\ glued' \in BOOLEAN
      /\ ~glued' => ~glued /\ journal' = Append(journal, Line(c))
  BY <1>2, LineTyped, WriteTextEffect
<1>4. Replayed(Append(journal, Line(c))) = [Replayed(journal) EXCEPT ![c.key] = c.value]
  BY <1>1, ReplayedLine
<1>5. FileTyped'
  BY <1>1, <1>2, <1>3 DEF FileTyped
<1> QED
  BY <1>3, <1>4, <1>5

\* An append that is cut short is carried out or not, and never half.
LEMMA CutShortEffect ==
    ASSUME TypeOK, NEW c \in ChangeType, CutShort(c)
    PROVE  /\ FileTyped'
           /\ ~glued' => /\ ~glued
                         /\ \/ Replayed(journal') = Replayed(journal)
                            \/ Replayed(journal') = [Replayed(journal) EXCEPT ![c.key] = c.value]
<1> DEFINE scrap == [Line(c) EXCEPT !.readable = FALSE]
<1>0. FileTyped /\ appends' = appends + 1
  BY DEF TypeOK, LineType, Documented, FileTyped, CutShort
<1>1. scrap \in LineType /\ ~scrap.readable
  BY LineTyped
<1> HIDE DEF scrap
<1>2. /\ Replayed(Append(journal, scrap)) = Replayed(journal)
      /\ Replayed(Append(journal, Line(c))) = [Replayed(journal) EXCEPT ![c.key] = c.value]
  <2>1. journal \in Seq(LineType)
    BY <1>0 DEF FileTyped
  <2>2. Replayed(Append(journal, scrap)) = Replayed(journal)
    BY <1>1, <2>1, ReplayedAppend
  <2> QED
    BY <2>1, <2>2, ReplayedLine
<1>3. CASE UNCHANGED file
  BY <1>0, <1>3 DEF FileTyped, file
<1>4. CASE WriteText(scrap) /\ tail' = "scrap"
  <2>1. /\ journal' \in Seq(LineType) /\ journal' # <<>> /\ glued' \in BOOLEAN
        /\ ~glued' => ~glued /\ journal' = Append(journal, scrap)
    BY <1>1, <1>4, WriteTextEffect
  <2>2. FileTyped'
    BY <1>0, <1>4, <2>1 DEF FileTyped
  <2> QED
    BY <1>2, <2>1, <2>2
<1>5. CASE WriteText(Line(c)) /\ tail' = IF tail = "line" THEN "text" ELSE "scrap"
  <2>1. /\ journal' \in Seq(LineType) /\ journal' # <<>> /\ glued' \in BOOLEAN
        /\ ~glued' => ~glued /\ journal' = Append(journal, Line(c))
    BY <1>5, LineTyped, WriteTextEffect
  <2>2. FileTyped'
    BY <1>0, <1>5, <2>1 DEF FileTyped
  <2> QED
    BY <1>2, <2>1, <2>2
<1> QED
  BY <1>3, <1>4, <1>5 DEF CutShort, scrap

\* What is not dropped is appended to the queue.
LEMMA PublishEffect ==
    ASSUME TypeOK, NEW changes \in Seq(ChangeType), Publish(changes)
    PROVE  /\ queue' \in Seq(ChangeType) /\ Len(queue') <= QueueSize
           /\ dropped' \in BOOLEAN /\ UNCHANGED <<subscribed, view>>
           /\ ~subscribed => queue' = queue
           /\ subscribed /\ ~dropped' => ~dropped /\ queue' = queue \o changes
<1> DEFINE all == queue \o changes
           fits == IF Len(all) > QueueSize THEN QueueSize ELSE Len(all)
<1>1. /\ queue \in Seq(ChangeType) /\ Len(queue) <= QueueSize /\ dropped \in BOOLEAN
      /\ subscribed \in BOOLEAN /\ QueueSize \in Nat
  BY JournalAssumption DEF TypeOK
<1>2. /\ queue' = IF subscribed THEN SubSeq(all, 1, fits) ELSE queue
      /\ dropped' = (dropped \/ (subscribed /\ Len(all) > QueueSize))
      /\ UNCHANGED <<subscribed, view>>
  BY DEF Publish
<1>3. all \in Seq(ChangeType) /\ Len(all) \in Nat
  BY <1>1, ConcatProperties
<1> HIDE DEF all
<1>4. fits \in 0..Len(all) /\ fits <= QueueSize /\ (Len(all) <= QueueSize => fits = Len(all))
  BY <1>1, <1>3
<1> HIDE DEF fits
<1>5. SubSeq(all, 1, fits) \in Seq(ChangeType) /\ Len(SubSeq(all, 1, fits)) = fits
  <2>1. \A i \in 1..fits : all[i] \in ChangeType
    BY <1>3, <1>4
  <2>2. 1 \in Int /\ fits \in Int /\ (1 <= fits => fits - 1 + 1 = fits) /\ (~(1 <= fits) => fits = 0)
    BY <1>3, <1>4
  <2> QED
    BY <2>1, <2>2, SubSeqProperties
<1>6. SubSeq(all, 1, Len(all)) = all
  BY <1>3, SubSeqFull
<1>7. subscribed /\ ~dropped' => ~dropped /\ Len(all) <= QueueSize
  <2>1. subscribed /\ ~dropped' => ~dropped /\ ~(Len(all) > QueueSize)
    BY <1>2, Zenon
  <2> QED
    BY <1>1, <1>3, <2>1
<1>8. dropped' \in BOOLEAN
  BY <1>1, <1>2
<1>9. queue' \in Seq(ChangeType) /\ Len(queue') <= QueueSize
  BY <1>1, <1>2, <1>4, <1>5
<1> QED
  BY <1>2, <1>4, <1>6, <1>7, <1>8, <1>9 DEF all

-----------------------------------------------------------------------------
(* The inductive invariant *)

\* While no append has failed and no line is glued to another, the journal
\* restores the documents as they are.
InStep == up /\ ~failed /\ ~glued => memory = Replayed(journal)

\* Nobody watches a process that is down, and nothing waits for nobody.
Quiet ==
    /\ ~subscribed => queue = <<>>
    /\ ~up => ~subscribed /\ ~failed /\ asked = {} /\ removed = <<>>

\* A write is asked for alone.
Alone == \A c \in asked : c.value # Absent => asked = {c} /\ removed = <<>>

IInv == TypeOK /\ InStep /\ Quiet /\ Alone /\ FeedIsComplete

OthersTyped ==
    /\ up \in BOOLEAN /\ subscribed \in BOOLEAN
    /\ memory \in [Keys -> Documented]
    /\ asked \subseteq ChangeType /\ removed \in Seq(ChangeType)
    /\ queue \in Seq(ChangeType) /\ Len(queue) <= QueueSize
    /\ view \in [Keys -> Documented]
    /\ crashes \in Nat /\ errors \in Nat
    /\ failed \in BOOLEAN /\ dropped \in BOOLEAN

LEMMA TypeParts == (TypeOK <=> FileTyped /\ OthersTyped) /\ (TypeOK' <=> FileTyped' /\ OthersTyped')
BY DEF TypeOK, FileTyped, OthersTyped, LineType, Documented

LEMMA ChangeTyped ==
    ASSUME NEW k \in Keys, NEW v \in Documented
    PROVE  Change(k, v) \in ChangeType /\ Change(k, v).key = k /\ Change(k, v).value = v
BY DEF Change, ChangeType, Documented

LEMMA Applied ==
    ASSUME OthersTyped, NEW c \in ChangeType, Apply(c)
    PROVE  memory' \in [Keys -> Documented]
BY DEF OthersTyped, Apply, ChangeType, Documented

LEMMA PutStep ==
    ASSUME IInv, NEW c \in asked, Put(c)
    PROVE  IInv'
<1>0. TypeOK /\ FileTyped /\ OthersTyped /\ c \in ChangeType
  BY TypeParts DEF IInv, OthersTyped
<1>1. /\ up /\ removed = <<>> /\ asked' = {}
      /\ memory' = [memory EXCEPT ![c.key] = c.value]
      /\ AppendJournal(c) /\ Publish(<<c>>)
      /\ UNCHANGED <<up, removed, crashes, errors, failed>>
  BY DEF Put, Apply, IInv, Alone
<1>2. <<c>> \in Seq(ChangeType)
  BY <1>0
<1>3. FileTyped' /\ (~glued' => ~glued /\ Replayed(journal') = [Replayed(journal) EXCEPT ![c.key] = c.value])
  BY <1>0, <1>1, AppendEffect
<1>4. /\ queue' \in Seq(ChangeType) /\ Len(queue') <= QueueSize
      /\ dropped' \in BOOLEAN /\ UNCHANGED <<subscribed, view>>
      /\ ~subscribed => queue' = queue
      /\ subscribed /\ ~dropped' => ~dropped /\ queue' = queue \o <<c>>
  BY <1>0, <1>1, <1>2, PublishEffect
<1>5. memory' \in [Keys -> Documented]
  BY <1>0, <1>1, Applied DEF Apply
<1>6. OthersTyped'
  BY <1>0, <1>1, <1>4, <1>5 DEF OthersTyped
<1>7. InStep'
  BY <1>1, <1>3 DEF IInv, InStep
<1>8. Quiet' /\ Alone'
  BY <1>1, <1>4 DEF IInv, Quiet, Alone
<1>9. FeedIsComplete'
  <2> SUFFICES ASSUME subscribed, ~dropped', ~failed
               PROVE  Caught(view, queue' \o <<>>) = memory'
    BY <1>1, <1>4 DEF FeedIsComplete
  <2>1. /\ queue' = Append(queue, c) /\ queue' \o <<>> = queue'
        /\ queue \o <<>> = queue
    BY <1>0, <1>2, <1>4, AppendIsConcat, ConcatEmptySeq DEF OthersTyped
  <2>2. Caught(view, queue) = memory
    BY <1>1, <1>4, <2>1 DEF IInv, FeedIsComplete
  <2>3. Caught(view, Append(queue, c)) = [Caught(view, queue) EXCEPT ![c.key] = c.value]
    BY <1>0, CaughtAppend DEF OthersTyped
  <2> QED
    BY <1>1, <2>1, <2>2, <2>3
<1> QED
  BY <1>3, <1>6, <1>7, <1>8, <1>9, TypeParts DEF IInv

LEMMA DeleteOneStep ==
    ASSUME IInv, NEW c \in asked, DeleteOne(c)
    PROVE  IInv'
<1>0. TypeOK /\ FileTyped /\ OthersTyped /\ c \in ChangeType
  BY TypeParts DEF IInv, OthersTyped
<1>1. /\ up /\ c.value = Absent
      /\ memory' = [memory EXCEPT ![c.key] = c.value]
      /\ AppendJournal(c)
      /\ asked' = asked \ {c} /\ removed' = Append(removed, c)
      /\ UNCHANGED <<up, subscribed, queue, view, dropped, crashes, errors, failed>>
  BY DEF DeleteOne, Apply, feed
<1>3. FileTyped' /\ (~glued' => ~glued /\ Replayed(journal') = [Replayed(journal) EXCEPT ![c.key] = c.value])
  BY <1>0, <1>1, AppendEffect
<1>4. removed' \in Seq(ChangeType)
  BY <1>0, <1>1, AppendProperties DEF OthersTyped
<1>5. memory' \in [Keys -> Documented]
  BY <1>0, <1>1, Applied DEF Apply
<1>6. OthersTyped'
  BY <1>0, <1>1, <1>4, <1>5 DEF OthersTyped
<1>7. InStep'
  BY <1>1, <1>3 DEF IInv, InStep
\* Nothing but deletions is left, as one of them was under way.
<1>8. Quiet' /\ Alone'
  <2>1. \A d \in asked : d.value = Absent
    BY <1>1 DEF IInv, Alone
  <2> QED
    BY <1>1, <2>1 DEF IInv, Quiet, Alone
<1>9. FeedIsComplete'
  <2> SUFFICES ASSUME subscribed, ~dropped, ~failed
               PROVE  Caught(view, queue \o removed') = memory'
    BY <1>1 DEF FeedIsComplete
  <2> DEFINE waiting == queue \o removed
  <2>1. waiting \in Seq(ChangeType) /\ Caught(view, waiting) = memory
    BY <1>0, ConcatProperties DEF IInv, FeedIsComplete, OthersTyped
  <2>2. queue \o removed' = Append(waiting, c)
    <3>1. queue \in Seq(ChangeType) /\ removed \in Seq(ChangeType)
      BY <1>0 DEF OthersTyped
    <3>2. removed' = removed \o <<c>> /\ <<c>> \in Seq(ChangeType)
      BY <1>0, <1>1, <3>1, AppendIsConcat
    <3>3. queue \o (removed \o <<c>>) = (queue \o removed) \o <<c>>
      BY <3>1, <3>2, ConcatAssociative
    <3>4. Append(waiting, c) = waiting \o <<c>>
      BY <1>0, <2>1, AppendIsConcat
    <3> QED
      BY <3>2, <3>3, <3>4
  <2> HIDE DEF waiting
  <2>3. Caught(view, Append(waiting, c)) = [Caught(view, waiting) EXCEPT ![c.key] = c.value]
    <3>1. view \in [Keys -> Documented]
      BY <1>0 DEF OthersTyped
    <3> QED
      BY <1>0, <2>1, <3>1, CaughtAppend
  <2> QED
    BY <1>1, <2>1, <2>2, <2>3
<1> QED
  BY <1>3, <1>6, <1>7, <1>8, <1>9, TypeParts DEF IInv

\* The changes of a deletion reach the queue together; none is lost between.
LEMMA DeleteDoneStep ==
    ASSUME IInv, DeleteDone
    PROVE  IInv'
<1>0. TypeOK /\ FileTyped /\ OthersTyped
  BY TypeParts DEF IInv
<1>1. /\ up /\ asked = {} /\ Publish(removed) /\ removed' = <<>>
      /\ UNCHANGED <<up, memory, asked, journal, tail, glued, appends, crashes, errors, failed>>
  BY DEF DeleteDone, file, limits
<1>2. /\ queue' \in Seq(ChangeType) /\ Len(queue') <= QueueSize
      /\ dropped' \in BOOLEAN /\ UNCHANGED <<subscribed, view>>
      /\ ~subscribed => queue' = queue
      /\ subscribed /\ ~dropped' => ~dropped /\ queue' = queue \o removed
  BY <1>0, <1>1, PublishEffect DEF OthersTyped
<1>3. FileTyped' /\ OthersTyped'
  BY <1>0, <1>1, <1>2 DEF FileTyped, OthersTyped
<1>4. InStep' /\ Quiet' /\ Alone'
  BY <1>1, <1>2 DEF IInv, InStep, Quiet, Alone
<1>5. FeedIsComplete'
  <2> SUFFICES ASSUME subscribed, ~dropped', ~failed
               PROVE  Caught(view, queue' \o <<>>) = memory
    BY <1>1, <1>2 DEF FeedIsComplete
  <2>1. queue' \o <<>> = queue \o removed
    BY <1>2, ConcatEmptySeq
  <2> QED
    BY <1>2, <2>1 DEF IInv, FeedIsComplete
<1> QED
  BY <1>3, <1>4, <1>5, TypeParts DEF IInv

LEMMA FailStep ==
    ASSUME IInv, NEW c \in asked, WriteFails(c)
    PROVE  IInv'
<1>0. TypeOK /\ FileTyped /\ OthersTyped /\ c \in ChangeType
  BY TypeParts DEF IInv, OthersTyped
<1>1. /\ Apply(c) /\ CutShort(c)
      /\ up /\ errors' = errors + 1 /\ failed' = TRUE
      /\ UNCHANGED <<up, subscribed, queue, view, dropped, crashes>>
      /\ asked' = {} /\ removed' = <<>>
  BY DEF WriteFails, feed
<1>2. FileTyped'
  BY <1>0, <1>1, CutShortEffect
<1>3. memory' \in [Keys -> Documented]
  BY <1>0, <1>1, Applied
<1>4. OthersTyped'
  <2>1. asked' \subseteq ChangeType /\ removed' \in Seq(ChangeType)
    BY <1>0, <1>1, EmptySeq DEF OthersTyped
  <2> QED
    BY <1>0, <1>1, <1>3, <2>1 DEF OthersTyped
<1>5. InStep' /\ Quiet' /\ Alone' /\ FeedIsComplete'
  BY <1>1 DEF IInv, InStep, Quiet, Alone, FeedIsComplete
<1> QED
  BY <1>2, <1>4, <1>5, TypeParts DEF IInv

LEMMA EmptyTyped ==
    /\ Nothing \in [Keys -> Documented] /\ <<>> \in Seq(ChangeType)
    /\ <<>> \in Seq(LineType) /\ Len(<<>>) <= QueueSize
<1>1. Len(<<>>) = 0 /\ QueueSize \in Nat
  BY JournalAssumption
<1> QED
  BY <1>1, EmptySeq DEF Nothing, Documented

LEMMA DownStep ==
    ASSUME IInv,
           Crash \/ \E c \in asked : CrashInWrite(c)
    PROVE  IInv'
<1>0. TypeOK /\ FileTyped /\ OthersTyped
  BY TypeParts DEF IInv
<1>1. /\ crashes' = crashes + 1 /\ up' = FALSE /\ failed' = FALSE
      /\ memory' = Nothing /\ asked' = {} /\ removed' = <<>>
      /\ subscribed' = FALSE /\ queue' = <<>> /\ view' = Nothing /\ dropped' = FALSE
      /\ errors' = errors
  BY DEF Crash, CrashInWrite, Down
<1>2. FileTyped'
  <2>1. CASE Crash
    BY <1>0, <2>1 DEF Crash, FileTyped, file
  <2>2. CASE \E c \in asked : CutShort(c)
    BY <1>0, <2>2, CutShortEffect DEF OthersTyped
  <2> QED
    BY <2>1, <2>2 DEF CrashInWrite
<1>3. Nothing \in [Keys -> Documented] /\ <<>> \in Seq(ChangeType) /\ Len(<<>>) <= QueueSize
  BY EmptyTyped
<1>4. OthersTyped'
  <2>1. Len(queue') <= QueueSize /\ queue' \in Seq(ChangeType) /\ removed' \in Seq(ChangeType)
    BY <1>1, <1>3
  <2>2. memory' \in [Keys -> Documented] /\ view' \in [Keys -> Documented] /\ asked' \subseteq ChangeType
    BY <1>1, <1>3
  <2>3. crashes' \in Nat /\ errors' \in Nat
    BY <1>0, <1>1 DEF OthersTyped
  <2> QED
    BY <1>1, <2>1, <2>2, <2>3 DEF OthersTyped
<1>5. InStep' /\ Quiet' /\ Alone' /\ FeedIsComplete'
  BY <1>1 DEF InStep, Quiet, Alone, FeedIsComplete
<1> QED
  BY <1>2, <1>4, <1>5, TypeParts DEF IInv

LEMMA ReaderStep ==
    ASSUME IInv, Watch \/ Consume
    PROVE  IInv'
<1>0. TypeOK /\ FileTyped /\ OthersTyped
  BY TypeParts DEF IInv
<1>1. /\ up /\ asked = {} /\ removed = <<>>
      /\ UNCHANGED <<up, memory, asked, removed, journal, tail, glued, dropped,
                     appends, crashes, errors, failed>>
  BY DEF Watch, Consume, Idle, operation, file, limits
<1>2. queue \in Seq(ChangeType) /\ view \in [Keys -> Documented] /\ memory \in [Keys -> Documented]
  BY <1>0 DEF OthersTyped
<1>3. FileTyped' /\ InStep' /\ Alone'
  BY <1>0, <1>1 DEF FileTyped, IInv, InStep, Alone
<1>4. CASE Watch
  <2>1. /\ subscribed' = TRUE /\ view' = memory /\ queue' = queue /\ queue = <<>>
    BY <1>4 DEF Watch, IInv, Quiet
  <2>2. OthersTyped' /\ Quiet'
    BY <1>0, <1>1, <2>1 DEF OthersTyped, Quiet
  <2>3. Caught(memory, <<>> \o <<>>) = memory
    <3>1. <<>> \o <<>> = <<>>
      BY <1>2, <2>1, ConcatEmptySeq
    <3>2. \A k \in Keys : {i \in DOMAIN <<>> : <<>>[i].key = k} = {}
      OBVIOUS
    <3>3. Caught(memory, <<>>) = [k \in Keys |-> memory[k]]
      BY <3>2 DEF Caught
    <3> QED
      BY <1>2, <3>1, <3>3
  <2>4. FeedIsComplete'
    BY <1>1, <2>1, <2>3 DEF FeedIsComplete
  <2> QED
    BY <1>3, <2>2, <2>4, TypeParts DEF IInv
<1>5. CASE Consume
  <2>1. /\ queue # <<>> /\ subscribed' = subscribed /\ queue' = Tail(queue)
        /\ view' = [view EXCEPT ![Head(queue).key] = Head(queue).value]
    BY <1>5 DEF Consume
  <2>2. /\ Head(queue) \in ChangeType /\ Tail(queue) \in Seq(ChangeType)
        /\ Len(Tail(queue)) = Len(queue) - 1
    BY <1>2, <2>1, HeadTailProperties
  <2>3. view' \in [Keys -> Documented] /\ Len(queue') <= QueueSize
    BY <1>0, <1>2, <2>1, <2>2, JournalAssumption DEF ChangeType, Documented, OthersTyped
  <2>4. OthersTyped'
    BY <1>0, <1>1, <2>1, <2>2, <2>3 DEF OthersTyped
  <2>5. Quiet'
    BY <1>1, <2>1 DEF IInv, Quiet
  <2>6. FeedIsComplete'
    <3>1. Caught(view', Tail(queue)) = Caught(view, queue)
      BY <1>2, <2>1, CaughtTail
    <3>2. Tail(queue) \o <<>> = Tail(queue) /\ queue \o <<>> = queue
      BY <1>2, <2>2, ConcatEmptySeq
    <3> QED
      BY <1>1, <2>1, <3>1, <3>2 DEF IInv, FeedIsComplete
  <2> QED
    BY <1>3, <2>4, <2>5, <2>6, TypeParts DEF IInv
<1> QED
  BY <1>4, <1>5

LEMMA AskStep ==
    ASSUME IInv,
           \/ \E k \in Keys, v \in Values : AskPut(k, v)
           \/ \E ks \in SUBSET Keys : AskDelete(ks)
    PROVE  IInv'
<1>0. TypeOK /\ FileTyped /\ OthersTyped
  BY TypeParts DEF IInv
<1>1. /\ up /\ removed = <<>>
      /\ UNCHANGED <<up, memory, removed, journal, tail, glued, subscribed, queue, view,
                     dropped, appends, crashes, errors, failed>>
  BY DEF AskPut, AskDelete, Idle, file, feed, limits
<1>2. /\ asked' \subseteq ChangeType
      /\ \A c \in asked' : c.value # Absent => asked' = {c}
  <2>1. CASE \E k \in Keys, v \in Values : AskPut(k, v)
    <3>1. PICK k \in Keys, v \in Values : asked' = {Change(k, v)}
      BY <2>1 DEF AskPut
    <3> QED
      BY <3>1, ChangeTyped DEF Documented
  <2>2. CASE \E ks \in SUBSET Keys : AskDelete(ks)
    <3>1. PICK ks \in SUBSET Keys : asked' = {Change(k, Absent) : k \in ks}
      BY <2>2 DEF AskDelete
    <3>2. \A k \in ks : Change(k, Absent) \in ChangeType /\ Change(k, Absent).value = Absent
      BY ChangeTyped DEF Documented
    <3> QED
      BY <3>1, <3>2
  <2> QED
    BY <2>1, <2>2
<1>3. FileTyped' /\ OthersTyped'
  BY <1>0, <1>1, <1>2 DEF FileTyped, OthersTyped
<1>4. InStep' /\ Quiet' /\ Alone' /\ FeedIsComplete'
  BY <1>1, <1>2 DEF IInv, InStep, Quiet, Alone, FeedIsComplete
<1> QED
  BY <1>3, <1>4, TypeParts DEF IInv

LEMMA RestartStep ==
    ASSUME IInv, Restart
    PROVE  IInv'
<1>0. TypeOK /\ FileTyped /\ OthersTyped
  BY TypeParts DEF IInv
<1>1. /\ ~up /\ up' = TRUE /\ memory' = Replayed(journal)
      /\ UNCHANGED <<asked, removed, journal, tail, glued, subscribed, queue, view, dropped,
                     appends, crashes, errors, failed>>
  BY DEF Restart, operation, file, feed, limits
<1>2. Replayed(journal) \in [Keys -> Documented]
  BY <1>0, ReplayedType DEF FileTyped
<1>3. FileTyped' /\ OthersTyped'
  BY <1>0, <1>1, <1>2 DEF FileTyped, OthersTyped
<1>4. InStep' /\ Quiet' /\ Alone' /\ FeedIsComplete'
  BY <1>1 DEF IInv, InStep, Quiet, Alone, FeedIsComplete
<1> QED
  BY <1>3, <1>4, TypeParts DEF IInv

-----------------------------------------------------------------------------
(* The theorems *)

LEMMA NothingReplayed == Replayed(<<>>) = Nothing /\ Caught(Nothing, <<>> \o <<>>) = Nothing
<1>1. \A k \in Keys : LinesOn(<<>>, k) = {}
  BY DEF LinesOn
<1>2. Replayed(<<>>) = Nothing
  BY <1>1 DEF Replayed, Nothing
<1>3. <<>> \o <<>> = <<>>
  OBVIOUS
<1>4. \A k \in Keys : {i \in DOMAIN <<>> : <<>>[i].key = k} = {}
  OBVIOUS
<1>5. Caught(Nothing, <<>>) = [k \in Keys |-> Nothing[k]]
  BY <1>4 DEF Caught
<1>6. Nothing = [k \in Keys |-> Nothing[k]]
  BY DEF Nothing
<1> QED
  BY <1>2, <1>3, <1>5, <1>6

\* The inductive invariant: journal, memory and feed agree as long as nothing
\* has failed.  (_append_journal, _replay_journal, _publish, watch.)
THEOREM JournalInvariant == Spec => []IInv
<1>1. Init => IInv
  <2> SUFFICES ASSUME Init
               PROVE  IInv
    OBVIOUS
  <2>1. FileTyped
    BY EmptyTyped DEF Init, FileTyped
  <2>2. OthersTyped
    BY EmptyTyped DEF Init, OthersTyped
  <2>3. InStep /\ Quiet /\ Alone /\ FeedIsComplete
    BY NothingReplayed DEF Init, InStep, Quiet, Alone, FeedIsComplete
  <2> QED
    BY <2>1, <2>2, <2>3, TypeParts DEF IInv
<1>2. IInv /\ [Next]_vars => IInv'
  <2>1. IInv /\ Next => IInv'
    BY AskStep, PutStep, DeleteOneStep, DeleteDoneStep, FailStep, DownStep, ReaderStep, RestartStep
       DEF Next
  <2>2. IInv /\ UNCHANGED vars => IInv'
    BY DEF IInv, TypeOK, InStep, Quiet, Alone, FeedIsComplete, vars, operation, file, feed, limits
  <2> QED
    BY <2>1, <2>2
<1> QED
  BY <1>1, <1>2, PTL DEF Spec

\* Type correctness of the local store; in particular no queue outgrows its
\* limit.  (_publish.)
THEOREM TypeCorrect == Spec => []TypeOK
<1>1. IInv => TypeOK
  BY DEF IInv
<1> QED
  BY <1>1, JournalInvariant, PTL

\* What the reader of the feed knows, and what waits for it, make up the
\* documents, until a change is dropped or an append fails.  (_publish, watch,
\* delete_many.)
THEOREM FeedIsCompleteHolds == Spec => []FeedIsComplete
<1>1. IInv => FeedIsComplete
  BY DEF IInv
<1> QED
  BY <1>1, JournalInvariant, PTL

-----------------------------------------------------------------------------
(* Refinement of DurableStore *)

LEMMA DurableStep ==
    ASSUME IInv, [Next]_vars, up' \/ (~glued' /\ ~failed)
    PROVE  Store!Next \/ UNCHANGED Store!vars
<1>0. TypeOK /\ FileTyped /\ OthersTyped
  BY TypeParts DEF IInv
<1>1. /\ up => Documents = memory
      /\ ~up => Documents = Replayed(journal)
      /\ up' => Documents' = memory'
      /\ ~up' => Documents' = Replayed(journal')
  BY DEF Documents
\* What a client asks for.
<1>2. ASSUME NEW k \in Keys, NEW v \in Values, AskPut(k, v)
      PROVE  Store!Next
  <2>1. up /\ up' /\ asked = {} /\ asked' = {[key |-> k, value |-> v]} /\ Documents' = Documents
    BY <1>1, <1>2 DEF AskPut, Idle, Change
  <2>2. asked' \in Store!Writes
    BY <2>1 DEF Store!Writes
  <2>3. Store!Ask(asked')
    BY <2>1 DEF Store!Ask
  <2> QED
    BY <2>2, <2>3 DEF Store!Next
<1>3. ASSUME NEW ks \in SUBSET Keys, AskDelete(ks)
      PROVE  Store!Next
  <2>1. /\ up /\ up' /\ asked = {} /\ Documents' = Documents
        /\ asked' = {[key |-> k, value |-> Absent] : k \in ks}
    BY <1>1, <1>3 DEF AskDelete, Idle, Change
  <2>2. asked' \in Store!Deletions
    BY <2>1 DEF Store!Deletions
  <2>3. Store!Ask(asked')
    BY <2>1 DEF Store!Ask
  <2> QED
    BY <2>2, <2>3 DEF Store!Next
\* What it asked for is carried out in memory.
<1>4. ASSUME NEW c \in asked, Put(c) \/ DeleteOne(c)
      PROVE  Store!Next
  <2>1. up /\ up' /\ Documents' = [Documents EXCEPT ![c.key] = c.value]
    BY <1>1, <1>4 DEF Put, DeleteOne, Apply
  <2>2. asked' = asked \ {c}
    BY <1>4 DEF Put, DeleteOne, IInv, Alone
  <2>3. Store!Make(c)
    BY <2>1, <2>2 DEF Store!Make, Store!Made
  <2> QED
    BY <2>3 DEF Store!Next
<1>5. ASSUME NEW c \in asked, WriteFails(c)
      PROVE  Store!Next
  <2>1. up /\ up' /\ asked' = {} /\ Documents' = [Documents EXCEPT ![c.key] = c.value]
    BY <1>1, <1>5 DEF WriteFails, Apply
  <2>2. Store!Fail(c)
    BY <2>1 DEF Store!Fail, Store!Made
  <2> QED
    BY <2>2 DEF Store!Next
\* Death: the file has what memory had, and of the change under way all or
\* nothing.
<1>6. CASE Crash \/ \E c \in asked : CrashInWrite(c)
  <2>1. up /\ ~up' /\ asked' = {} /\ ~glued' /\ ~failed
    BY <1>6 DEF Crash, CrashInWrite, Down
  <2>2. ~glued => Documents = Replayed(journal)
    BY <1>1, <2>1 DEF IInv, InStep
  <2>3. CASE Crash
    BY <1>1, <2>1, <2>2, <2>3 DEF Crash, file, Store!Next, Store!Stop
  <2>4. ASSUME NEW c \in asked, CrashInWrite(c)
        PROVE  Store!Next
    <3>1. /\ ~glued
          /\ \/ Replayed(journal') = Replayed(journal)
             \/ Replayed(journal') = [Replayed(journal) EXCEPT ![c.key] = c.value]
      <4>1. c \in ChangeType
        BY <1>0 DEF OthersTyped
      <4> QED
        BY <1>0, <2>1, <2>4, <4>1, CutShortEffect DEF CrashInWrite
    <3>2. UNCHANGED Documents \/ Store!Made(c)
      BY <1>1, <2>1, <2>2, <3>1 DEF Store!Made
    <3> QED
      BY <2>1, <3>2 DEF Store!Next, Store!Stop
  <2> QED
    BY <1>6, <2>3, <2>4
\* A start restores what the file has.
<1>7. CASE Restart
  <2>1. ~up /\ up' = TRUE /\ memory' = Replayed(journal) /\ asked' = asked
    BY <1>7 DEF Restart, operation
  <2> QED
    BY <1>1, <2>1 DEF Store!Next, Store!Start
<1>8. CASE UNCHANGED vars \/ DeleteDone \/ Watch \/ Consume
  <2>1. UNCHANGED <<up, memory, journal, asked>>
    BY <1>8 DEF vars, file, operation, DeleteDone, Watch, Consume
  <2> QED
    BY <2>1 DEF Documents, Store!vars
<1> QED
  BY <1>2, <1>3, <1>4, <1>5, <1>6, <1>7, <1>8 DEF Next

\* The store implements DurableStore: documents change as the operation under
\* way asks and in no other way, so that neither a death nor a restart takes a
\* document back or brings one back; but for the death of a process after an
\* append that failed, or once a line is glued to a broken one.
\* (_append_journal, _replay_journal.)
THEOREM DurableUntilGluedHolds == Spec => DurableUntilGlued
<1>1. Init => Store!Init
  BY DEF Init, Documents, Nothing, Store!Init
<1>2. IInv /\ [Next]_vars
         => [up' \/ (~glued' /\ ~failed) => Store!Next \/ UNCHANGED Store!vars]_vars
  BY DurableStep
<1> QED
  BY <1>1, <1>2, JournalInvariant, PTL DEF Spec, DurableUntilGlued

=============================================================================
