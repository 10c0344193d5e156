------------------------------- MODULE Journal ------------------------------
(***************************************************************************)
(* The local store (packages/storage/file_store.py): documents in memory,  *)
(* an append-only journal of lines that is read back at start, and a       *)
(* change feed through a bounded queue.  One collection is modelled; each  *)
(* has its file.                                                           *)
(*                                                                         *)
(* An operation runs to its end without suspending.  What can cut it short *)
(* is the death of the process, or an error of the file system, while it   *)
(* appends: the file may then end within a line, or with a line that lacks *)
(* its line break, and the next line is appended to that all the same.     *)
(***************************************************************************)
EXTENDS Naturals, Sequences

CONSTANTS
    Keys, Values,
    Absent,       \* no document
    QueueSize,    \* maxsize of a subscriber's queue (4096 in the code)
    MaxLines,     \* bound on appends
    MaxCrashes,   \* bound on crashes
    MaxErrors     \* bound on write errors

ASSUME JournalAssumption ==
    /\ QueueSize \in Nat \ {0}
    /\ MaxLines \in Nat /\ MaxCrashes \in Nat /\ MaxErrors \in Nat
    /\ Absent \notin Values

VARIABLES
    up,          \* the process runs and is connected
    memory,      \* _data: the document with each _id
    asked,       \* the changes the operation under way has yet to make
    removed,     \* what delete_many has deleted, in order
    journal,     \* lines of the file: [key, value, readable]; Absent is a delete
    tail,        \* how the file ends: "line", "text" (no line break) or "scrap"
    subscribed,  \* the change feed is being watched
    queue,       \* changes published and not consumed: [key, value]
    view,        \* what the reader of the feed knows (history)
    appends, crashes, errors,
    failed,      \* an append has failed since the start (history)
    glued,       \* a line was appended to one without an end (history)
    dropped      \* a change found the queue full (history)

operation == <<asked, removed>>
file == <<journal, tail, glued>>
feed == <<subscribed, queue, view, dropped>>
limits == <<appends, crashes, errors>>
vars == <<up, memory, operation, file, feed, limits, failed>>

Nothing == [k \in Keys |-> Absent]
Change(k, v) == [key |-> k, value |-> v]
Idle == up /\ asked = {} /\ removed = <<>>

Init ==
    /\ up = TRUE /\ memory = Nothing
    /\ asked = {} /\ removed = <<>>
    /\ journal = <<>> /\ tail = "line" /\ glued = FALSE
    /\ subscribed = FALSE /\ queue = <<>> /\ view = Nothing /\ dropped = FALSE
    /\ appends = 0 /\ crashes = 0 /\ errors = 0 /\ failed = FALSE

-----------------------------------------------------------------------------
(* The file *)

LinesOn(lines, k) == {i \in DOMAIN lines : lines[i].readable /\ lines[i].key = k}

\* _replay_journal: a line that cannot be decoded is skipped, and the last of
\* the others about a key decides.
Replayed(lines) ==
    [k \in Keys |->
        LET on == LinesOn(lines, k)
        IN  IF on = {} THEN Absent
            ELSE lines[CHOOSE i \in on : \A j \in on : j <= i].value]

Line(c) == [key |-> c.key, value |-> c.value, readable |-> TRUE]

\* Text goes to the end of the file; a line continued by another one can no
\* longer be decoded.
WriteText(line) ==
    IF tail = "line"
    THEN journal' = Append(journal, line) /\ UNCHANGED glued
    ELSE /\ journal' = [journal EXCEPT ![Len(journal)].readable = FALSE]
         /\ glued' = TRUE

\* Mutant: the line stays in the buffer of the handle.
AppendUnflushed(c) ==
    /\ appends < MaxLines /\ appends' = appends + 1
    /\ UNCHANGED file

\* _append_journal: a line and its line break.
AppendJournal(c) ==
    /\ appends < MaxLines /\ appends' = appends + 1
    /\ WriteText(Line(c)) /\ tail' = "line"

\* Cut short it leaves nothing, a scrap, or all but the line break.
CutShort(c) ==
    /\ appends < MaxLines /\ appends' = appends + 1
    /\ \/ UNCHANGED file
       \/ WriteText([Line(c) EXCEPT !.readable = FALSE]) /\ tail' = "scrap"
       \/ /\ WriteText(Line(c))
          /\ tail' = IF tail = "line" THEN "text" ELSE "scrap"

-----------------------------------------------------------------------------
(* The feed *)

\* Mutant: the queue has no limit.
PublishUnbounded(changes) ==
    /\ queue' = IF subscribed THEN queue \o changes ELSE queue
    /\ UNCHANGED <<subscribed, view, dropped>>

\* _publish puts a change into the queue of whoever watches, if it has room.
Publish(changes) ==
    LET all == queue \o changes
        fits == IF Len(all) > QueueSize THEN QueueSize ELSE Len(all)
    IN  /\ queue' = IF subscribed THEN SubSeq(all, 1, fits) ELSE queue
        /\ dropped' = (dropped \/ (subscribed /\ Len(all) > QueueSize))
        /\ UNCHANGED <<subscribed, view>>

\* watch registers its queue when the reader asks for the first change.
Watch ==
    /\ Idle /\ ~subscribed
    /\ subscribed' = TRUE /\ view' = memory
    /\ UNCHANGED <<up, memory, operation, file, queue, dropped, limits, failed>>

Consume ==
    /\ Idle /\ queue # <<>>
    /\ view' = [view EXCEPT ![Head(queue).key] = Head(queue).value]
    /\ queue' = Tail(queue)
    /\ UNCHANGED <<up, memory, operation, file, subscribed, dropped, limits, failed>>

-----------------------------------------------------------------------------
(* insert_one, update_one, upsert: memory, then journal, then the feed *)

Apply(c) == memory' = [memory EXCEPT ![c.key] = c.value]

\* A client calls; nothing else runs before the store is done with it.
AskPut(k, v) ==
    /\ Idle
    /\ asked' = {Change(k, v)}
    /\ UNCHANGED <<up, memory, removed, file, feed, limits, failed>>

Put(c) ==
    /\ up /\ c \in asked /\ c.value # Absent
    /\ Apply(c)
    /\ AppendJournal(c)
    /\ Publish(<<c>>)
    /\ asked' = {}
    /\ UNCHANGED <<up, removed, crashes, errors, failed>>

-----------------------------------------------------------------------------
(* delete_many: one document after the other, then the feed *)

AskDelete(ks) ==
    /\ Idle /\ ks # {} /\ \A k \in ks : memory[k] # Absent
    /\ asked' = {Change(k, Absent) : k \in ks}
    /\ UNCHANGED <<up, memory, removed, file, feed, limits, failed>>

DeleteOne(c) ==
    /\ up /\ c \in asked /\ c.value = Absent
    /\ Apply(c)
    /\ AppendJournal(c)
    /\ asked' = asked \ {c} /\ removed' = Append(removed, c)
    /\ UNCHANGED <<up, feed, crashes, errors, failed>>

\* Mutant: one change is published for the whole deletion.
DeleteDoneOnce ==
    /\ up /\ asked = {} /\ removed # <<>>
    /\ Publish(<<Head(removed)>>)
    /\ removed' = <<>>
    /\ UNCHANGED <<up, memory, asked, file, limits, failed>>

DeleteDone ==
    /\ up /\ asked = {} /\ removed # <<>>
    /\ Publish(removed)
    /\ removed' = <<>>
    /\ UNCHANGED <<up, memory, asked, file, limits, failed>>

-----------------------------------------------------------------------------
(* Errors, death and restart *)

\* The append of a write or a deletion raises: memory keeps what was done so
\* far, and the feed is not told.
WriteFails(c) ==
    /\ up /\ c \in asked /\ errors < MaxErrors
    /\ Apply(c)
    /\ CutShort(c)
    /\ asked' = {} /\ removed' = <<>>
    /\ errors' = errors + 1 /\ failed' = TRUE
    /\ UNCHANGED <<up, feed, crashes>>

Down ==
    /\ up /\ up' = FALSE
    /\ crashes < MaxCrashes /\ crashes' = crashes + 1
    /\ failed' = FALSE
    /\ memory' = Nothing /\ asked' = {} /\ removed' = <<>>
    /\ subscribed' = FALSE /\ queue' = <<>> /\ view' = Nothing /\ dropped' = FALSE
    /\ UNCHANGED errors

Crash == Down /\ UNCHANGED <<file, appends>>

CrashInWrite(c) == c \in asked /\ Down /\ CutShort(c)

\* connect
Restart ==
    /\ ~up
    /\ up' = TRUE /\ memory' = Replayed(journal)
    /\ UNCHANGED <<operation, file, feed, limits, failed>>

Next ==
    \/ \E k \in Keys, v \in Values : AskPut(k, v)
    \/ \E ks \in SUBSET Keys : AskDelete(ks)
    \/ \E c \in asked : Put(c) \/ DeleteOne(c) \/ WriteFails(c) \/ CrashInWrite(c)
    \/ DeleteDone \/ Watch \/ Consume \/ Crash \/ Restart

Spec == Init /\ [][Next]_vars

-----------------------------------------------------------------------------
ChangeType == [key : Keys, value : Values \cup {Absent}]

TypeOK ==
    /\ up \in BOOLEAN /\ subscribed \in BOOLEAN
    /\ memory \in [Keys -> Values \cup {Absent}]
    /\ asked \subseteq ChangeType /\ removed \in Seq(ChangeType)
    /\ journal \in Seq([key : Keys, value : Values \cup {Absent}, readable : BOOLEAN])
    /\ tail \in {"line", "text", "scrap"} /\ (tail # "line" => journal # <<>>)
    /\ queue \in Seq(ChangeType) /\ Len(queue) <= QueueSize
    /\ view \in [Keys -> Values \cup {Absent}]
    /\ appends \in Nat /\ crashes \in Nat /\ errors \in Nat
    /\ glued \in BOOLEAN /\ failed \in BOOLEAN /\ dropped \in BOOLEAN

\* What a reader makes of the changes waiting for it.
Caught(known, changes) ==
    [k \in Keys |->
        LET on == {i \in DOMAIN changes : changes[i].key = k}
        IN  IF on = {} THEN known[k]
            ELSE changes[CHOOSE i \in on : \A j \in on : j <= i].value]

\* Until a change is dropped or a write fails, the feed tells its reader the
\* whole truth: what it knows and what waits for it make up the documents, a
\* deletion in progress included.  (_publish, watch.)
FeedIsComplete ==
    (subscribed /\ ~dropped /\ ~failed) => Caught(view, queue \o removed) = memory

\* Documents as clients see them, or would see them after the next start.
Documents == IF up THEN memory ELSE Replayed(journal)

Store == INSTANCE DurableStore WITH documents <- Documents, open <- up

\* The store implements DurableStore: a document changes as the operation
\* under way asks, and a restart, even one in the middle of an append or of a
\* deletion, takes nothing back and brings nothing back.  Excepted is the
\* death of a process after an append that failed, or once a line has been
\* appended to a broken one.  (_append_journal, _replay_journal.)
DurableUntilGlued ==
    /\ Store!Init
    /\ [][up' \/ (~glued' /\ ~failed) => Store!Next \/ UNCHANGED Store!vars]_vars

-----------------------------------------------------------------------------
(* What the documentation says and the code does not keep. *)

\* "Durable writes": what was written and reported as such stays, whatever
\* restarts there are.
DurableWrites ==
    /\ Store!Init
    /\ [][up' \/ ~failed => Store!Next \/ UNCHANGED Store!vars]_vars

\* "A change feed that survives a process restart": a change that waits for
\* its reader is not forgotten.
FeedSurvives == [][queue # <<>> => subscribed']_vars
=============================================================================
