---------------------------- MODULE Replay_proofs ----------------------------
(***************************************************************************)
(* Proofs about Replay, for a recording of any length and any sets of      *)
(* requests and playback tasks.                                            *)
(***************************************************************************)
EXTENDS Replay, TLAPS

\* A task that has chosen its event.
Chosen == {"sleep", "waitAgain", "reread", "redecide", "handle", "store"}

Typed ==
    /\ TypeOK
    /\ \A p \in Players : /\ player[p].pc \in Chosen => player[p].event \in 1..Events
                          /\ player[p].cancelled => Alive(p)

\* What holds of requests and tasks while requests do not overlap: there is
\* one of each, and what a request has done so far still stands.
InOrder ==
    /\ \A q, r \in Requests : Pending(q) /\ Pending(r) => q = r
    /\ \A p \in Players : Alive(p) => p = current
    /\ lastWord # "none" => \A r \in Requests : ~Pending(r)
    /\ \A r \in Requests :
          /\ In(r, "reset", "join") =>
                /\ request[r].player = current
                /\ Alive(current) => player[current].cancelled
          /\ In(r, "reset", "rewind") => current = NoPlayer
          /\ In(r, "pause", "write") => ~gate

Done(n, events) == \A i \in 1..n : i \in events

\* What a task has read lies between the stored cursor and the events handled.
Ahead(p) ==
    LET task == player[p] IN
    /\ task.pc \in {"decide", "complete"} =>
          stored.cursor <= task.seen.cursor /\ Done(task.seen.cursor, handed)
    /\ task.pc \in {"sleep", "waitAgain", "reread"} =>
          stored.cursor < task.event /\ Done(task.event - 1, handed)
    /\ task.pc \in {"redecide", "handle"} =>
          /\ stored.cursor <= task.seen.cursor
          /\ task.seen.cursor < task.event /\ Done(task.event - 1, handed)
    /\ task.pc = "store" =>
          /\ stored.cursor <= task.seen.cursor
          /\ task.seen.cursor < task.event /\ Done(task.event, handed)

\* What a request has read is never ahead of the store.
Behind(r) ==
    Pending(r) /\ request[r].pc \in {"speed", "run", "clear", "write"} =>
        request[r].seen.cursor <= stored.cursor

CursorCovered ==
    /\ Done(stored.cursor, handed)
    /\ \A p \in Players : Ahead(p)
    /\ \A r \in Requests : Behind(r)

\* A task that has had its event after a pause gets no further than the gate.
Stopped ==
    /\ lastWord \notin {"pause", "reset"} => since = 0
    /\ lastWord = "pause" =>
          /\ ~gate
          /\ \/ since = 0
             \/ since = 1 /\ \A p \in Players : player[p].pc \in {"none", "store", "loop", "wait"}
    /\ lastWord = "reset" =>
          since = 0 /\ stored = Beginning /\ \A p \in Players : ~Alive(p)

IInv == Typed /\ (~overlapped => InOrder /\ CursorCovered /\ Stopped)

-----------------------------------------------------------------------------
(* Types *)

LEMMA Constants ==
    /\ Beginning \in PositionType /\ NoTask \in TaskType /\ NewTask \in TaskType
    /\ NoTask.pc = "none" /\ ~NoTask.cancelled
    /\ NewTask.pc = "loop" /\ ~NewTask.cancelled
    /\ NoRequest \in RequestType /\ NoRequest.pc = "idle" /\ NoRequest.kind = "none"
<1>1. Beginning \in PositionType
  BY DEF Beginning, PositionType
<1>2. NoTask \in TaskType /\ NoTask.pc = "none" /\ ~NoTask.cancelled
  BY <1>1, ReplayAssumption DEF NoTask, TaskType
<1>3. NewTask \in TaskType /\ NewTask.pc = "loop" /\ ~NewTask.cancelled
  BY <1>2 DEF NewTask, TaskType
<1>4. NoRequest \in RequestType /\ NoRequest.pc = "idle" /\ NoRequest.kind = "none"
  BY <1>1 DEF NoRequest, RequestType
<1> QED
  BY <1>1, <1>2, <1>3, <1>4

\* A step of a task changes that task, and the store or what was handed over.
Plays(p) ==
    /\ Alive(p)
    /\ player' \in [Players -> TaskType]
    /\ \A q \in Players : q # p => player'[q] = player[q]
    /\ ~player'[p].cancelled
    /\ player[p].cancelled => player'[p].pc = "none"
    /\ player'[p].pc \in Chosen => player'[p].event \in 1..Events
    /\ stored' \in PositionType /\ handed' \subseteq 1..Events /\ handed \subseteq handed'
    /\ UNCHANGED <<gate, current, request, served, crashes, overlapped, lastWord>>

LEMMA PlayEffect ==
    ASSUME Typed, NEW p \in Players, Play(p)
    PROVE  Plays(p)
<1>0. /\ player \in [Players -> TaskType] /\ stored \in PositionType
      /\ player[p] \in TaskType /\ player[p].seen \in PositionType
      /\ handed \subseteq 1..Events
      /\ player[p].pc \in Chosen => player[p].event \in 1..Events
      /\ player[p].cancelled => Alive(p)
  <2>1. player \in [Players -> TaskType] /\ stored \in PositionType /\ handed \subseteq 1..Events
        /\ (player[p].pc \in Chosen => player[p].event \in 1..Events)
        /\ (player[p].cancelled => Alive(p))
    BY DEF Typed, TypeOK
  <2> QED
    BY <2>1 DEF TaskType
<1> USE DEF At, Alive
<1>1. CASE Arrive(p) \/ Read(p) \/ Wake(p) \/ Reread(p) \/ Redecide(p)
  <2>1. UNCHANGED <<gate, current, request, served, crashes, overlapped, lastWord, stored, handed>>
    BY <1>1 DEF Arrive, Read, Wake, Reread, Redecide, OnlyPlayer, RequestsUnchanged
  <2>2. CASE Arrive(p)
    BY <1>0, <2>1, <2>2 DEF Arrive, Goto, Plays, TaskType, Chosen
  <2>3. CASE Read(p)
    BY <1>0, <2>1, <2>3 DEF Read, See, Plays, TaskType, Chosen
  <2>4. CASE Wake(p)
    BY <1>0, <2>1, <2>4 DEF Wake, Goto, Plays, TaskType, Chosen
  <2>5. CASE Reread(p)
    BY <1>0, <2>1, <2>5 DEF Reread, See, Plays, TaskType, Chosen
  <2>6. CASE Redecide(p)
    <3>1. player' = [player EXCEPT ![p].pc = "handle"] \/ player' = [player EXCEPT ![p] = NoTask]
      BY <2>6 DEF Redecide, Goto, Finish
    <3>2. player[p].pc = "redecide" /\ ~player[p].cancelled
      BY <2>6 DEF Redecide
    <3> HIDE DEF NoTask
    <3> QED
      BY <1>0, <2>1, <3>1, <3>2, Constants DEF Plays, TaskType, Chosen
  <2> QED
    BY <1>1, <2>2, <2>3, <2>4, <2>5, <2>6
<1>2. CASE Decide(p)
  <2>1. UNCHANGED <<gate, current, request, served, crashes, overlapped, lastWord, stored, handed>>
        /\ player[p].pc = "decide" /\ ~player[p].cancelled
    BY <1>2 DEF Decide, OnlyPlayer, RequestsUnchanged
  <2>2. CASE Finish(p)
    BY <1>0, <2>1, <2>2, Constants DEF Finish, Plays, Chosen
  <2>3. CASE Goto(p, "complete")
    BY <1>0, <2>1, <2>3 DEF Goto, Plays, TaskType, Chosen
  <2>4. CASE /\ ~PlayedOut(player[p].seen)
             /\ player' = [player EXCEPT ![p].event = player[p].seen.cursor + 1,
                                         ![p].pc = "sleep"]
    <3>1. player[p].seen.cursor + 1 \in 1..Events
      BY <1>0, <2>4, ReplayAssumption DEF PlayedOut, PositionType
    <3> QED
      BY <1>0, <2>1, <2>4, <3>1 DEF Plays, TaskType, Chosen
  <2> QED
    BY <1>2, <2>2, <2>3, <2>4 DEF Decide
<1>3. CASE Complete(p)
  <2>1. /\ UNCHANGED <<gate, current, request, served, crashes, overlapped, lastWord, handed>>
        /\ player[p].pc = "complete" /\ ~player[p].cancelled
        /\ player' = [player EXCEPT ![p] = NoTask]
        /\ stored' = [player[p].seen EXCEPT !.status = "COMPLETED"]
    BY <1>3 DEF Complete, Finish, RequestsUnchanged
  <2>2. stored' \in PositionType
    BY <1>0, <2>1 DEF PositionType
  <2> QED
    BY <1>0, <2>1, <2>2, Constants DEF Plays, Chosen
<1>4. CASE Handle(p)
  <2>1. /\ UNCHANGED <<gate, current, request, served, crashes, overlapped, lastWord, stored>>
        /\ player[p].pc = "handle" /\ ~player[p].cancelled
        /\ player' = [player EXCEPT ![p].pc = "store"]
        /\ handed' = handed \cup {player[p].event}
    BY <1>4 DEF Handle, Goto, RequestsUnchanged
  <2> QED
    BY <1>0, <2>1 DEF Plays, TaskType, Chosen
<1>5. CASE Store(p)
  <2>1. /\ UNCHANGED <<gate, current, request, served, crashes, overlapped, lastWord, handed>>
        /\ player[p].pc = "store" /\ ~player[p].cancelled
        /\ player' = [player EXCEPT ![p].pc = "loop"]
        /\ stored' = Advanced(player[p].seen)
    BY <1>5 DEF Store, Goto, RequestsUnchanged
  <2>2. stored' \in PositionType
    BY <1>0, <2>1 DEF PositionType, Advanced
  <2> QED
    BY <1>0, <2>1, <2>2 DEF Plays, TaskType, Chosen
<1>6. CASE Cancelled(p)
  <2>1. /\ UNCHANGED <<gate, current, request, served, crashes, overlapped, lastWord, handed>>
        /\ player[p].cancelled /\ player' = [player EXCEPT ![p] = NoTask]
        /\ \/ stored' = stored
           \/ stored' = Advanced(player[p].seen)
           \/ stored' = [player[p].seen EXCEPT !.status = "COMPLETED"]
    BY <1>6 DEF Cancelled, Finish, RequestsUnchanged
  <2>2. stored' \in PositionType
    BY <1>0, <2>1 DEF PositionType, Advanced
  <2> QED
    BY <1>0, <2>1, <2>2, Constants DEF Plays, Chosen
<1> QED
  BY <1>1, <1>2, <1>3, <1>4, <1>5, <1>6 DEF Play

-----------------------------------------------------------------------------
(* Steps of a task *)

LEMMA PlayTyped ==
    ASSUME Typed, NEW p \in Players, Plays(p), since' \in Nat
    PROVE  Typed'
BY DEF Typed, TypeOK, Plays, Alive

LEMMA PlayInOrder ==
    ASSUME Typed, InOrder, NEW p \in Players, Plays(p)
    PROVE  InOrder'
<1>1. \A q \in Players : Alive(q)' => Alive(q)
  BY DEF Plays, Alive
<1>2. \A q \in Players : player[q].cancelled /\ Alive(q)' => player'[q].cancelled
  BY DEF Plays, Alive
<1>3. \A r \in Requests : Pending(r)' <=> Pending(r)
  BY DEF Plays, Pending
<1>4. current \in Players \cup {NoPlayer} /\ UNCHANGED <<current, request, gate, lastWord>>
  BY DEF Typed, TypeOK, Plays
<1>5. Alive(current)' => current \in Players /\ Alive(current)
  BY <1>1, <1>4 DEF Alive
<1> QED
  BY <1>1, <1>2, <1>3, <1>4, <1>5 DEF InOrder, In

\* Other tasks have nothing under way, and the store does not fall behind a request.
LEMMA PlayCovered ==
    ASSUME Typed, InOrder, CursorCovered, NEW p \in Players, Plays(p),
           Done(stored'.cursor, handed'), Ahead(p)', stored.cursor <= stored'.cursor
    PROVE  CursorCovered'
<1>1. \A q \in Players : q # p => Ahead(q)'
  <2>1. \A q \in Players : q # p => player'[q].pc = "none"
    BY DEF Plays, InOrder, Alive
  <2> QED
    BY <2>1 DEF Ahead
<1>2. \A r \in Requests : Behind(r)'
  <2>1. \A r \in Requests : request[r].seen.cursor \in Nat
    BY DEF Typed, TypeOK, RequestType, PositionType
  <2>2. stored.cursor \in Nat /\ stored'.cursor \in Nat /\ request' = request
    BY DEF Typed, TypeOK, Plays, PositionType
  <2> QED
    BY <2>1, <2>2 DEF CursorCovered, Behind, Pending
<1> QED
  BY <1>1, <1>2 DEF CursorCovered

LEMMA PlayStep ==
    ASSUME IInv, NEW p \in Players, Play(p)
    PROVE  IInv'
<1>0. /\ Typed /\ Plays(p) /\ overlapped' = overlapped /\ gate' = gate /\ lastWord' = lastWord
      /\ player[p] \in TaskType /\ player \in [Players -> TaskType]
      /\ stored.cursor \in Nat /\ player[p].seen.cursor \in Nat
      /\ player[p].event \in Nat /\ since \in Nat /\ Alive(p)
      /\ player[p].pc \in Chosen => player[p].event >= 1
  <2>1. Typed /\ Plays(p)
    BY PlayEffect DEF IInv
  <2>2. player \in [Players -> TaskType] /\ stored \in PositionType /\ since \in Nat
        /\ (player[p].pc \in Chosen => player[p].event \in 1..Events)
    BY <2>1 DEF Typed, TypeOK
  <2>3. player[p].event \in Nat /\ player[p].seen \in PositionType
    BY <2>2 DEF TaskType
  <2> QED
    BY <2>1, <2>2, <2>3 DEF Plays, PositionType, TaskType
<1>1. since' \in Nat
  BY <1>0 DEF Play, Arrive, Read, Decide, Complete, Wake, Reread, Redecide, Handle, Store,
              Cancelled, OnlyPlayer
<1>2. Typed'
  BY <1>0, <1>1, PlayTyped
<1> SUFFICES ASSUME ~overlapped
             PROVE  CursorCovered' /\ Stopped'
  BY <1>0, <1>2, PlayInOrder DEF IInv
<1>3. InOrder /\ CursorCovered /\ Stopped /\ Ahead(p) /\ Done(stored.cursor, handed)
  BY DEF IInv, CursorCovered
<1>4. lastWord # "reset" /\ \A q \in Players : q # p => player'[q].pc = "none"
  BY <1>0, <1>3 DEF Stopped, Plays, InOrder, Alive
\* Where no event is handed over, only a stopped task can matter.
<1>5. ASSUME since' = since, ~gate /\ player[p].pc \in {"store", "loop", "wait"} =>
                               player'[p].pc \in {"none", "store", "loop", "wait"}
      PROVE  Stopped'
  <2>1. lastWord = "pause" /\ since = 1 =>
           \A q \in Players : player'[q].pc \in {"none", "store", "loop", "wait"}
    BY <1>0, <1>3, <1>4, <1>5 DEF Stopped, Alive
  <2> QED
    BY <1>0, <1>3, <1>4, <1>5, <2>1 DEF Stopped
<1>6. CASE Arrive(p)
  <2>1. /\ UNCHANGED <<stored, handed, since>> /\ player[p].pc = "loop"
        /\ player' = [player EXCEPT ![p].pc = IF gate THEN "read" ELSE "wait"]
    BY <1>6 DEF Arrive, At, Goto, OnlyPlayer
  <2>2. player'[p].pc = IF gate THEN "read" ELSE "wait"
    BY <1>0, <2>1 DEF TaskType
  <2>3. Ahead(p)' /\ Done(stored'.cursor, handed')
    BY <1>3, <2>1, <2>2 DEF Ahead, Done
  <2> QED
    BY <1>0, <1>3, <1>5, <2>1, <2>2, <2>3, PlayCovered
<1>7. CASE Read(p) \/ Reread(p)
  <2>1. /\ UNCHANGED <<stored, handed, since>> /\ player[p].pc \in {"read", "reread"}
        /\ player'[p].pc = IF player[p].pc = "read" THEN "decide" ELSE "redecide"
        /\ player'[p].seen = stored /\ player'[p].event = player[p].event
    BY <1>0, <1>7 DEF Read, Reread, At, See, OnlyPlayer, TaskType
  <2>2. /\ Done(stored'.cursor, handed')
        /\ player[p].pc = "reread" => Done(player[p].event - 1, handed')
    BY <1>3, <2>1 DEF Ahead, Done
  <2>3. Ahead(p)'
    BY <1>0, <1>3, <2>1, <2>2 DEF Ahead
  <2> QED
    BY <1>0, <1>3, <1>5, <2>1, <2>2, <2>3, PlayCovered
<1>8. CASE Decide(p)
  <2>1. /\ UNCHANGED <<stored, handed, since>> /\ player[p].pc = "decide"
    BY <1>8 DEF Decide, At, OnlyPlayer
  <2>2. /\ stored.cursor <= player[p].seen.cursor /\ Done(stored'.cursor, handed')
        /\ Done(player[p].seen.cursor, handed)
    BY <1>3, <2>1 DEF Ahead, Done
  <2>3. Ahead(p)'
    <3>1. CASE Finish(p)
      <4>1. player'[p].pc = "none"
        BY <1>0, <3>1, Constants DEF Finish
      <4> QED
        BY <4>1 DEF Ahead
    <3>2. CASE Goto(p, "complete")
      <4>1. player'[p].pc = "complete" /\ player'[p].seen = player[p].seen
        BY <1>0, <3>2 DEF Goto, TaskType
      <4>2. Done(player[p].seen.cursor, handed')
        BY <2>1, <2>2, <4>1 DEF Done
      <4> QED
        BY <2>1, <2>2, <4>1, <4>2 DEF Ahead
    <3>3. CASE player' = [player EXCEPT ![p].event = player[p].seen.cursor + 1,
                                        ![p].pc = "sleep"]
      <4>1. player'[p].pc = "sleep" /\ player'[p].event = player[p].seen.cursor + 1
        BY <1>0, <3>3 DEF TaskType
      <4>2. (player[p].seen.cursor + 1) - 1 = player[p].seen.cursor
        BY <1>0
      <4>3. Done(player'[p].event - 1, handed')
        BY <2>1, <2>2, <4>1, <4>2 DEF Done
      <4> QED
        BY <1>0, <2>1, <2>2, <4>1, <4>3 DEF Ahead
    <3> QED
      BY <1>8, <3>1, <3>2, <3>3 DEF Decide
  <2> QED
    BY <1>0, <1>3, <1>5, <2>1, <2>2, <2>3, PlayCovered
<1>9. CASE Wake(p)
  <2>1. /\ UNCHANGED <<stored, handed, since>> /\ player[p].pc = "sleep"
        /\ player'[p].pc = (IF gate THEN "reread" ELSE "waitAgain")
        /\ player'[p].event = player[p].event
    BY <1>0, <1>9 DEF Wake, At, Goto, OnlyPlayer, TaskType
  <2>2. Done(stored'.cursor, handed') /\ Done(player[p].event - 1, handed')
    BY <1>3, <2>1 DEF Ahead, Done
  <2>3. Ahead(p)'
    BY <1>0, <1>3, <2>1, <2>2 DEF Ahead
  <2> QED
    BY <1>0, <1>3, <1>5, <2>1, <2>2, <2>3, PlayCovered
<1>10. CASE Redecide(p)
  <2>1. /\ UNCHANGED <<stored, handed, since>> /\ player[p].pc = "redecide"
        /\ Goto(p, "handle") \/ Finish(p)
    BY <1>10 DEF Redecide, At, OnlyPlayer
  <2>2. Done(stored'.cursor, handed') /\ Done(player[p].event - 1, handed')
    BY <1>3, <2>1 DEF Ahead, Done
  <2>3. \/ player'[p].pc = "none"
        \/ /\ player'[p].pc = "handle" /\ player'[p].event = player[p].event
           /\ player'[p].seen = player[p].seen
    BY <1>0, <2>1, Constants DEF Goto, Finish, TaskType
  <2>4. Ahead(p)'
    BY <1>0, <1>3, <2>1, <2>2, <2>3 DEF Ahead
  <2> QED
    BY <1>0, <1>3, <1>5, <2>1, <2>2, <2>4, PlayCovered
<1>11. CASE Handle(p)
  <2>1. /\ stored' = stored /\ handed' = handed \cup {player[p].event}
        /\ player[p].pc = "handle" /\ player'[p].pc = "store"
        /\ player'[p].event = player[p].event /\ player'[p].seen = player[p].seen
        /\ since' = IF lastWord \in {"pause", "reset"} THEN since + 1 ELSE 0
    BY <1>0, <1>11 DEF Handle, At, Goto, RequestsUnchanged, TaskType
  <2>2. Done(stored'.cursor, handed') /\ Done(player[p].event, handed')
    BY <1>0, <1>3, <2>1 DEF Ahead, Done
  <2>3. Ahead(p)'
    BY <1>0, <1>3, <2>1, <2>2 DEF Ahead
  <2>4. Stopped'
    BY <1>0, <1>3, <1>4, <2>1 DEF Stopped
  <2>5. stored.cursor <= stored'.cursor
    BY <1>0, <2>1
  <2>6. CursorCovered'
    BY <1>0, <1>3, <2>2, <2>3, <2>5, PlayCovered
  <2> QED
    BY <2>4, <2>6
<1>12. CASE \/ Store(p) \/ Complete(p) \/ Cancelled(p)
  <2>1. /\ UNCHANGED <<handed, since>> /\ player'[p].pc \in {"none", "loop"}
        /\ \/ stored' = stored
           \/ player[p].pc = "store" /\ stored' = Advanced(player[p].seen)
           \/ player[p].pc = "complete" /\ stored' = [player[p].seen EXCEPT !.status = "COMPLETED"]
    BY <1>0, <1>12, Constants DEF Store, Complete, Cancelled, At, Goto, Finish,
       RequestsUnchanged, TaskType
  <2>2. \/ stored' = stored
        \/ player[p].pc = "store" /\ stored'.cursor = player[p].seen.cursor + 1
        \/ player[p].pc = "complete" /\ stored'.cursor = player[p].seen.cursor
    BY <1>0, <2>1 DEF TaskType, PositionType, Advanced
  <2>3. stored.cursor <= stored'.cursor /\ Done(stored'.cursor, handed')
    <3>1. CASE stored' = stored
      BY <1>0, <1>3, <2>1, <3>1 DEF Done
    <3>2. CASE player[p].pc = "store" /\ stored'.cursor = player[p].seen.cursor + 1
      BY <1>0, <1>3, <2>1, <3>2 DEF Ahead, Done
    <3>3. CASE player[p].pc = "complete" /\ stored'.cursor = player[p].seen.cursor
      BY <1>0, <1>3, <2>1, <3>3 DEF Ahead, Done
    <3> QED
      BY <2>2, <3>1, <3>2, <3>3
  <2>4. Ahead(p)'
    BY <2>1 DEF Ahead
  <2> QED
    BY <1>0, <1>3, <1>5, <2>1, <2>3, <2>4, PlayCovered
<1> QED
  BY <1>6, <1>7, <1>8, <1>9, <1>10, <1>11, <1>12 DEF Play

-----------------------------------------------------------------------------
(* Steps of a request *)

\* A request changes only itself: it goes on to another stage, or is answered.
Serves(r) ==
    /\ Pending(r)
    /\ \A q \in Requests : q # r => request'[q] = request[q]
    /\ UNCHANGED <<handed, served, crashes, overlapped, since>>

GoesOn(r, pc) ==
    /\ Serves(r)
    /\ request' \in [Requests -> RequestType]
    /\ request'[r].kind = request[r].kind /\ request'[r].pc = pc
    /\ UNCHANGED lastWord

Answers(r, word) ==
    /\ Serves(r)
    /\ request' \in [Requests -> RequestType]
    /\ request'[r] = NoRequest
    /\ lastWord' \in {"none", word}

LEMMA ProceedEffect ==
    ASSUME Typed, NEW r \in Requests, Pending(r), NEW pc, Proceed(r, pc), InProgress,
           pc \in {"run", "arm", "write", "rewind"}
    PROVE  GoesOn(r, pc) /\ request'[r].seen = request[r].seen
<1>1. request \in [Requests -> RequestType] /\ request[r] \in RequestType
  BY DEF Typed, TypeOK
<1>2. /\ request' = [request EXCEPT ![r].pc = pc]
      /\ UNCHANGED <<handed, served, crashes, overlapped, lastWord, since>>
  BY DEF Proceed, InProgress, history
<1>3. [request[r] EXCEPT !.pc = pc] \in RequestType
  BY <1>1 DEF RequestType
<1>4. /\ request'[r] = [request[r] EXCEPT !.pc = pc]
      /\ \A q \in Requests : q # r => request'[q] = request[q]
      /\ request' \in [Requests -> RequestType]
  BY <1>1, <1>2, <1>3
<1>5. /\ request'[r].kind = request[r].kind /\ request'[r].pc = pc
      /\ request'[r].seen = request[r].seen
  BY <1>1, <1>4 DEF RequestType
<1> QED
  BY <1>2, <1>4, <1>5 DEF GoesOn, Serves

LEMMA AnswerEffect ==
    ASSUME Typed, NEW r \in Requests, Pending(r), NEW word, Answer(r, word)
    PROVE  Answers(r, word)
<1>1. request \in [Requests -> RequestType]
  BY DEF Typed, TypeOK
<1>2. request' = [request EXCEPT ![r] = NoRequest] /\ lastWord' \in {"none", word}
      /\ UNCHANGED <<handed, served, crashes, overlapped, since>>
  BY DEF Answer
<1> HIDE DEF NoRequest
<1> QED
  BY <1>1, <1>2, Constants DEF Answers, Serves

\* The rest of the state keeps its type if the four variables that requests
\* write do.
LEMMA ServeTyped ==
    ASSUME Typed, NEW r \in Requests, NEW pc, NEW word,
           \/ GoesOn(r, pc) /\ (pc = "join" => request'[r].player \in Players)
           \/ Answers(r, word) /\ word \in Kinds \cup {"lost"},
           stored' \in PositionType, gate' \in BOOLEAN, current' \in Players \cup {NoPlayer},
           player' \in [Players -> TaskType],
           \A p \in Players : /\ player'[p].pc \in Chosen => player'[p].event \in 1..Events
                              /\ player'[p].cancelled => Alive(p)'
    PROVE  Typed'
<1>1. /\ request' \in [Requests -> RequestType]
      /\ UNCHANGED <<handed, served, crashes, overlapped, since>>
      /\ lastWord' \in Kinds \cup {"none", "lost"}
  BY DEF GoesOn, Answers, Serves, Typed, TypeOK
<1>2. \A q \in Requests : request'[q].pc = "join" => request'[q].player \in Players
  BY Constants DEF GoesOn, Answers, Serves, Typed, TypeOK
<1> QED
  BY <1>1, <1>2 DEF Typed, TypeOK

\* Served alone, a request finds no other one pending and no word standing.
LEMMA Alone ==
    ASSUME Typed, InOrder, Stopped, NEW r \in Requests, Pending(r)
    PROVE  /\ \A q \in Requests : q # r => ~Pending(q)
           /\ lastWord = "none" /\ since = 0
BY DEF InOrder, Stopped

\* What a request may do to the tasks: nothing that brings one forward.
LEMMA ServeInOrder ==
    ASSUME Typed, InOrder, Stopped, NEW r \in Requests, NEW pc, NEW word,
           GoesOn(r, pc) \/ Answers(r, word),
           \A p \in Players : Alive(p)' => p = current',
           Pending(r)' => /\ In(r, "reset", "join")' =>
                                /\ request'[r].player = current'
                                /\ Alive(current)' => player'[current'].cancelled
                          /\ In(r, "reset", "rewind")' => current' = NoPlayer
                          /\ In(r, "pause", "write")' => ~gate'
    PROVE  InOrder'
<1>1. /\ \A q \in Requests : q # r => ~Pending(q) /\ request'[q] = request[q]
      /\ lastWord = "none"
  BY Alone DEF GoesOn, Answers, Serves
<1>2. \A q \in Requests : q # r => ~Pending(q)'
  BY <1>1 DEF Pending
<1>3. lastWord' # "none" => ~Pending(r)'
  BY <1>1, Constants DEF GoesOn, Answers, Pending
<1> QED
  BY <1>2, <1>3 DEF InOrder, In, Pending

LEMMA ServeCovered ==
    ASSUME Typed, InOrder, Stopped, CursorCovered, NEW r \in Requests, NEW pc, NEW word,
           GoesOn(r, pc) \/ Answers(r, word),
           stored' \in PositionType, stored'.cursor <= stored.cursor,
           \A p \in Players :
               \/ player'[p].pc = "loop"
               \/ /\ player'[p].event = player[p].event /\ player'[p].seen = player[p].seen
                  /\ \/ player'[p].pc = player[p].pc
                     \/ player'[p].pc = "read"
                     \/ player'[p].pc = "reread" /\ player[p].pc = "waitAgain",
           player \in [Players -> TaskType], Behind(r)'
    PROVE  CursorCovered'
<1>1. stored.cursor \in Nat /\ stored'.cursor \in Nat /\ handed' = handed
  BY DEF Typed, TypeOK, PositionType, GoesOn, Answers, Serves
<1>2. Done(stored'.cursor, handed')
  BY <1>1 DEF CursorCovered, Done
<1>3. ASSUME NEW p \in Players
      PROVE  Ahead(p)'
  <2>1. Ahead(p) /\ player[p] \in TaskType
    BY DEF CursorCovered
  <2>2. player[p].event \in Nat /\ player[p].seen.cursor \in Nat
    BY <2>1, ReplayAssumption DEF TaskType, PositionType
  <2>3. CASE player'[p].pc \in {"loop", "read"}
    BY <2>3 DEF Ahead
  <2>4. CASE player'[p].event = player[p].event /\ player'[p].seen = player[p].seen
             /\ player'[p].pc = player[p].pc
    <3>1. /\ Done(player[p].seen.cursor, handed) => Done(player'[p].seen.cursor, handed')
          /\ Done(player[p].event - 1, handed) => Done(player'[p].event - 1, handed')
          /\ Done(player[p].event, handed) => Done(player'[p].event, handed')
      BY <1>1, <2>4 DEF Done
    <3> QED
      BY <1>1, <2>1, <2>2, <2>4, <3>1 DEF Ahead
  <2>5. CASE player'[p].event = player[p].event
             /\ player'[p].pc = "reread" /\ player[p].pc = "waitAgain"
    <3>1. Done(player[p].event - 1, handed) => Done(player'[p].event - 1, handed')
      BY <1>1, <2>5 DEF Done
    <3> QED
      BY <1>1, <2>1, <2>2, <2>5, <3>1 DEF Ahead
  <2> QED
    BY <2>3, <2>4, <2>5
<1>4. \A q \in Requests : Behind(q)'
  <2>1. \A q \in Requests : q # r => ~Pending(q) /\ request'[q] = request[q]
    BY Alone DEF GoesOn, Answers, Serves
  <2> QED
    BY <2>1 DEF Behind, Pending
<1> QED
  BY <1>2, <1>3, <1>4 DEF CursorCovered

LEMMA ReadStep ==
    ASSUME IInv, NEW r \in Requests, ReadState(r)
    PROVE  IInv'
<1>0. /\ Typed /\ request \in [Requests -> RequestType] /\ request[r] \in RequestType
      /\ player \in [Players -> TaskType] /\ stored \in PositionType /\ stored.cursor \in Nat
  BY DEF IInv, Typed, TypeOK, PositionType
<1>1. /\ UNCHANGED <<stored, gate, current, player, handed, served, crashes, overlapped,
                     lastWord, since>>
      /\ \/ /\ request[r].kind = "start"
            /\ request' = [request EXCEPT ![r].seen = stored, ![r].pc = "speed"]
         \/ /\ request[r].kind = "pause"
            /\ request' = [request EXCEPT ![r].seen = stored, ![r].pc = "clear"]
  BY DEF ReadState, In, InProgress, history
<1>2. PICK pc \in {"speed", "clear"} : request' = [request EXCEPT ![r].seen = stored, ![r].pc = pc]
  BY <1>1
<1>3. request' \in [Requests -> RequestType] /\ request'[r].kind = request[r].kind
      /\ request'[r].pc = pc /\ request'[r].seen = stored
      /\ \A q \in Requests : q # r => request'[q] = request[q]
  BY <1>0, <1>2 DEF RequestType
<1>4. GoesOn(r, pc)
  BY <1>1, <1>3 DEF GoesOn, Serves, Pending
<1>5. Typed'
  BY <1>0, <1>1, <1>4, ServeTyped DEF Typed, TypeOK, Alive
<1> SUFFICES ASSUME ~overlapped
             PROVE  InOrder' /\ CursorCovered' /\ Stopped'
  BY <1>5, <1>1 DEF IInv
<1>6. InOrder /\ CursorCovered /\ Stopped
  BY DEF IInv
<1>7. InOrder'
  BY <1>0, <1>1, <1>3, <1>4, <1>6, ServeInOrder DEF InOrder, In, Alive
<1>8. CursorCovered'
  BY <1>0, <1>1, <1>3, <1>4, <1>6, ServeCovered DEF Behind
<1>9. Stopped'
  BY <1>1, <1>6 DEF Stopped, Alive
<1> QED
  BY <1>7, <1>8, <1>9

\* The four writes of REPLAY_STATE: none raises the stored cursor.
LEMMA WriteStep ==
    ASSUME IInv, NEW r \in Requests,
           WriteSpeed(r) \/ WriteRunning(r) \/ WritePaused(r) \/ Rewind(r)
    PROVE  IInv'
<1>0. /\ Typed /\ request[r] \in RequestType
      /\ player \in [Players -> TaskType] /\ stored \in PositionType /\ stored.cursor \in Nat
      /\ request[r].seen \in PositionType
  <2>1. Typed /\ player \in [Players -> TaskType] /\ stored \in PositionType
        /\ request[r] \in RequestType
    BY DEF IInv, Typed, TypeOK
  <2> QED
    BY <2>1 DEF PositionType, RequestType
<1>1. Pending(r) /\ UNCHANGED <<gate, current, player>>
  BY DEF WriteSpeed, WriteRunning, WritePaused, Rewind, In, Pending
<1>2. \/ /\ stored' = request[r].seen /\ request[r].kind = "start" /\ request[r].pc = "speed"
         /\ Proceed(r, "run") /\ InProgress
      \/ /\ stored' = request[r].seen /\ request[r].kind = "start" /\ request[r].pc = "speed"
         /\ Answer(r, "start")
      \/ /\ stored' = [request[r].seen EXCEPT !.status = "RUNNING"]
         /\ request[r].kind = "start" /\ request[r].pc = "run"
         /\ Proceed(r, "arm") /\ InProgress
      \/ /\ stored' = [request[r].seen EXCEPT !.status = "PAUSED"]
         /\ request[r].kind = "pause" /\ request[r].pc = "write"
         /\ Answer(r, "pause")
      \/ /\ stored' = Beginning /\ request[r].kind = "reset" /\ request[r].pc = "rewind"
         /\ Answer(r, "reset")
  BY DEF WriteSpeed, WriteRunning, WritePaused, Rewind, In
<1>3. /\ stored' \in PositionType
      /\ \/ stored'.cursor = request[r].seen.cursor
         \/ stored' = Beginning /\ stored'.cursor = 0
  BY <1>0, <1>2, Constants DEF PositionType, Beginning
<1>4. \/ /\ GoesOn(r, "run") \/ GoesOn(r, "arm")
         /\ request[r].kind = "start" /\ request[r].pc \in {"speed", "run"}
         /\ request'[r].seen = request[r].seen /\ stored'.cursor = request[r].seen.cursor
      \/ Answers(r, "start")
      \/ Answers(r, "pause") /\ request[r].kind = "pause" /\ request[r].pc = "write"
      \/ /\ Answers(r, "reset") /\ request[r].kind = "reset" /\ request[r].pc = "rewind"
         /\ stored' = Beginning
  <2>1. CASE stored' = request[r].seen /\ request[r].kind = "start" /\ request[r].pc = "speed"
             /\ Proceed(r, "run") /\ InProgress
    BY <1>0, <1>1, <2>1, ProceedEffect
  <2>2. CASE Answer(r, "start")
    BY <1>0, <1>1, <2>2, AnswerEffect
  <2>3. CASE stored' = [request[r].seen EXCEPT !.status = "RUNNING"]
             /\ request[r].kind = "start" /\ request[r].pc = "run"
             /\ Proceed(r, "arm") /\ InProgress
    <3>1. stored'.cursor = request[r].seen.cursor
      BY <1>0, <2>3 DEF PositionType
    <3> QED
      BY <1>0, <1>1, <2>3, <3>1, ProceedEffect
  <2>4. CASE Answer(r, "pause") /\ request[r].kind = "pause" /\ request[r].pc = "write"
    BY <1>0, <1>1, <2>4, AnswerEffect
  <2>5. CASE Answer(r, "reset") /\ request[r].kind = "reset" /\ request[r].pc = "rewind"
             /\ stored' = Beginning
    BY <1>0, <1>1, <2>5, AnswerEffect
  <2> QED
    BY <1>2, <2>1, <2>2, <2>3, <2>4, <2>5
<1>5. PICK pc, word : /\ \/ GoesOn(r, pc) /\ pc \in {"run", "arm"} /\ request[r].kind = "start"
                         \/ Answers(r, word) /\ word \in Kinds
                      /\ GoesOn(r, pc) \/ Answers(r, word)
  <2>1. CASE GoesOn(r, "run") /\ request[r].kind = "start"
    BY <2>1
  <2>2. CASE GoesOn(r, "arm") /\ request[r].kind = "start"
    BY <2>2
  <2>3. CASE \E word \in Kinds : Answers(r, word)
    BY <2>3
  <2> QED
    BY <1>4, <2>1, <2>2, <2>3 DEF Kinds
<1>6. Typed'
  BY <1>0, <1>1, <1>3, <1>5, ServeTyped DEF Typed, TypeOK, Alive
<1>7. overlapped' = overlapped
  BY <1>5 DEF GoesOn, Answers, Serves
<1> SUFFICES ASSUME ~overlapped
             PROVE  InOrder' /\ CursorCovered' /\ Stopped'
  BY <1>6, <1>7 DEF IInv
<1>8. InOrder /\ CursorCovered /\ Stopped /\ lastWord = "none" /\ since = 0
  BY <1>0, <1>1, Alone DEF IInv
<1>9. InOrder'
  <2>1. \A p \in Players : Alive(p)' => p = current'
    BY <1>1, <1>8 DEF InOrder, Alive
  <2>2. Pending(r)' => ~In(r, "reset", "join")' /\ ~In(r, "reset", "rewind")'
                       /\ ~In(r, "pause", "write")'
    BY <1>5, Constants DEF GoesOn, Answers, Pending, In
  <2> QED
    BY <1>0, <1>5, <1>8, <2>1, <2>2, ServeInOrder
<1>10. stored'.cursor <= stored.cursor
  <2>1. CASE stored' = Beginning
    BY <1>0, <2>1 DEF Beginning
  <2>2. CASE stored' # Beginning
    <3>1. request[r].pc \in {"speed", "run", "write"} /\ stored'.cursor = request[r].seen.cursor
      BY <1>2, <1>3, <2>2
    <3> QED
      BY <1>1, <1>8, <3>1 DEF CursorCovered, Behind
  <2> QED
    BY <2>1, <2>2
<1>11. Behind(r)'
  <2>1. CASE \E w : Answers(r, w)
    BY <2>1, Constants DEF Answers, Behind, Pending
  <2>2. CASE request'[r].seen = request[r].seen /\ stored'.cursor = request[r].seen.cursor
    BY <1>0, <2>2 DEF Behind, PositionType
  <2> QED
    BY <1>4, <2>1, <2>2
<1>12. CursorCovered'
  BY <1>0, <1>1, <1>3, <1>5, <1>8, <1>10, <1>11, ServeCovered
<1>13. Stopped'
  <2>1. since' = 0
    BY <1>5, <1>8 DEF GoesOn, Answers, Serves
  <2>2. CASE lastWord' \in {"none", "start"}
    BY <2>1, <2>2 DEF Stopped
  <2>3. CASE Answers(r, "pause") /\ request[r].kind = "pause" /\ request[r].pc = "write"
    BY <1>1, <1>8, <2>1, <2>3 DEF Stopped, InOrder, In, Answers
  <2>4. CASE Answers(r, "reset") /\ request[r].kind = "reset" /\ request[r].pc = "rewind"
             /\ stored' = Beginning
    <3>1. current = NoPlayer
      BY <1>8, <2>4 DEF InOrder, In
    <3>2. \A p \in Players : ~Alive(p)'
      BY <1>1, <1>8, <3>1, ReplayAssumption DEF InOrder, Alive
    <3> QED
      BY <2>1, <2>4, <3>2 DEF Stopped, Answers
  <2> QED
    BY <1>4, <1>8, <2>2, <2>3, <2>4 DEF GoesOn, Answers
<1> QED
  BY <1>9, <1>12, <1>13

\* Opening the gate moves waiting tasks past it and may add one at the loop.
LEMMA ArmStep ==
    ASSUME IInv, NEW r \in Requests, Arm(r)
    PROVE  IInv'
<1>0. /\ Typed /\ player \in [Players -> TaskType] /\ stored \in PositionType
      /\ stored.cursor \in Nat /\ current \in Players \cup {NoPlayer}
      /\ \A p \in Players : /\ player[p].pc \in Chosen => player[p].event \in 1..Events
                            /\ player[p].cancelled => Alive(p)
  BY DEF IInv, Typed, TypeOK, PositionType
<1>1. Pending(r) /\ gate' = TRUE /\ stored' = stored
  BY DEF Arm, In, Pending
<1>2. PICK word \in {"start", "lost"} : Answers(r, word)
  BY <1>0, <1>1, AnswerEffect DEF Arm
<1>3. /\ Woken \in [Players -> TaskType]
      /\ \A p \in Players :
            /\ Woken[p].event = player[p].event /\ Woken[p].seen = player[p].seen
            /\ Woken[p].cancelled = player[p].cancelled
            /\ \/ Woken[p].pc = player[p].pc
               \/ player[p].pc = "wait" /\ Woken[p].pc = "read"
               \/ player[p].pc = "waitAgain" /\ Woken[p].pc = "reread"
  <2>1. ASSUME NEW p \in Players
        PROVE  /\ Woken[p] \in TaskType
               /\ Woken[p].event = player[p].event /\ Woken[p].seen = player[p].seen
               /\ Woken[p].cancelled = player[p].cancelled
               /\ \/ Woken[p].pc = player[p].pc
                  \/ player[p].pc = "wait" /\ Woken[p].pc = "read"
                  \/ player[p].pc = "waitAgain" /\ Woken[p].pc = "reread"
    <3>1. player[p] \in TaskType
      BY <1>0
    <3>2. Woken[p] = IF player[p].pc \in {"wait", "waitAgain"}
                     THEN [player[p] EXCEPT !.pc = Released[player[p].pc]] ELSE player[p]
      BY DEF Woken, Released
    <3>3. CASE player[p].pc = "wait"
      <4>1. Woken[p] = [player[p] EXCEPT !.pc = "read"]
        BY <3>2, <3>3 DEF Released
      <4> QED
        BY <3>1, <3>3, <4>1 DEF TaskType
    <3>4. CASE player[p].pc = "waitAgain"
      <4>1. Woken[p] = [player[p] EXCEPT !.pc = "reread"]
        BY <3>2, <3>4 DEF Released
      <4> QED
        BY <3>1, <3>4, <4>1 DEF TaskType
    <3>5. CASE player[p].pc \notin {"wait", "waitAgain"}
      BY <3>1, <3>2, <3>5
    <3> QED
      BY <3>3, <3>4, <3>5
  <2> QED
    BY <2>1 DEF Woken
<1>4. PICK new :
         \/ /\ new \notin Players /\ player' = Woken /\ current' = current /\ HasTask
         \/ /\ new \in Players /\ player' = [Woken EXCEPT ![new] = NewTask]
            /\ current' = new /\ ~HasTask
  BY ReplayAssumption DEF Arm
<1>5. /\ player' \in [Players -> TaskType] /\ current' \in Players \cup {NoPlayer}
      /\ \A p \in Players : /\ p # new => player'[p] = Woken[p]
                            /\ p = new => player'[p] = NewTask
  <2> HIDE DEF Woken, NewTask
  <2> QED
    BY <1>0, <1>3, <1>4, Constants
<1>6. \A p \in Players : /\ player'[p].pc \in Chosen => player'[p].event \in 1..Events
                         /\ player'[p].cancelled => Alive(p)'
  <2> HIDE DEF Woken, NewTask
  <2> QED
    BY <1>0, <1>3, <1>5, Constants DEF Chosen, Alive
<1>7. Typed'
  BY <1>0, <1>1, <1>2, <1>5, <1>6, ServeTyped DEF Kinds
<1>8. overlapped' = overlapped
  BY <1>2 DEF Answers, Serves
<1> SUFFICES ASSUME ~overlapped
             PROVE  InOrder' /\ CursorCovered' /\ Stopped'
  BY <1>7, <1>8 DEF IInv
<1>9. InOrder /\ CursorCovered /\ Stopped /\ lastWord = "none" /\ since = 0
  BY <1>0, <1>1, Alone DEF IInv
<1>10. \A p \in Players : Alive(p)' => p = current'
  <2>1. ASSUME NEW p \in Players, Alive(p)', p # new
        PROVE  Alive(p)
    <3> HIDE DEF Woken, NewTask
    <3> QED
      BY <1>3, <1>5, <2>1 DEF Alive
  <2> QED
    BY <1>4, <1>9, <2>1 DEF InOrder, HasTask
<1>11. InOrder'
  <2>1. ~Pending(r)'
    BY <1>2, Constants DEF Answers, Pending
  <2> QED
    BY <1>0, <1>2, <1>9, <1>10, <2>1, ServeInOrder
<1>12. Behind(r)'
  BY <1>2, Constants DEF Answers, Behind, Pending
<1>13. \A p \in Players :
          \/ player'[p].pc = "loop"
          \/ /\ player'[p].event = player[p].event /\ player'[p].seen = player[p].seen
             /\ \/ player'[p].pc = player[p].pc
                \/ player'[p].pc = "read"
                \/ player'[p].pc = "reread" /\ player[p].pc = "waitAgain"
  <2> HIDE DEF Woken, NewTask
  <2> QED
    BY <1>3, <1>5, Constants
<1>14. stored' \in PositionType /\ stored'.cursor <= stored.cursor
  BY <1>0, <1>1
<1>15. CursorCovered'
  BY <1>0, <1>2, <1>9, <1>12, <1>13, <1>14, ServeCovered
<1>16. Stopped'
  BY <1>2, <1>9 DEF Answers, Serves, Stopped
<1> QED
  BY <1>11, <1>15, <1>16

LEMMA CloseGateStep ==
    ASSUME IInv, NEW r \in Requests, CloseGate(r)
    PROVE  IInv'
<1>0. /\ Typed /\ player \in [Players -> TaskType] /\ stored \in PositionType
      /\ stored.cursor \in Nat
  BY DEF IInv, Typed, TypeOK, PositionType
<1>1. /\ Pending(r) /\ gate' = FALSE /\ UNCHANGED <<stored, current, player>>
      /\ request[r].kind = "pause" /\ request[r].pc = "clear"
  BY DEF CloseGate, In, Pending
<1>2. GoesOn(r, "write") /\ request'[r].seen = request[r].seen
  BY <1>0, <1>1, ProceedEffect DEF CloseGate
<1>3. Typed'
  <2>1. /\ stored' \in PositionType /\ gate' \in BOOLEAN /\ current' \in Players \cup {NoPlayer}
        /\ player' \in [Players -> TaskType]
        /\ \A p \in Players : /\ player'[p].pc \in Chosen => player'[p].event \in 1..Events
                              /\ player'[p].cancelled => Alive(p)'
    BY <1>0, <1>1 DEF Typed, TypeOK, Alive
  <2>2. \A q \in Requests : request'[q].pc = "join" => request'[q].player \in Players
    BY <1>0, <1>2 DEF GoesOn, Serves, Typed, TypeOK
  <2> QED
    BY <1>0, <1>2, <2>1, <2>2 DEF GoesOn, Serves, Typed, TypeOK
<1>4. overlapped' = overlapped
  BY <1>2 DEF GoesOn, Serves
<1> SUFFICES ASSUME ~overlapped
             PROVE  InOrder' /\ CursorCovered' /\ Stopped'
  BY <1>3, <1>4 DEF IInv
<1>5. InOrder /\ CursorCovered /\ Stopped /\ lastWord = "none" /\ since = 0
  BY <1>0, <1>1, Alone DEF IInv
<1>6. InOrder'
  BY <1>0, <1>1, <1>2, <1>5, ServeInOrder DEF InOrder, In, Alive, GoesOn
<1>7. Behind(r)'
  BY <1>1, <1>2, <1>5 DEF CursorCovered, Behind
<1>8. CursorCovered'
  BY <1>0, <1>1, <1>2, <1>5, <1>7, ServeCovered
<1>9. Stopped'
  BY <1>2, <1>5 DEF GoesOn, Serves, Stopped
<1> QED
  BY <1>6, <1>8, <1>9

\* reset: cancel the task, if there is one, and forget it once it has ended.
LEMMA CancelStep ==
    ASSUME IInv, NEW r \in Requests, Cancel(r) \/ Forget(r)
    PROVE  IInv'
<1>0. /\ Typed /\ request \in [Requests -> RequestType] /\ request[r] \in RequestType
      /\ player \in [Players -> TaskType] /\ stored \in PositionType
      /\ stored.cursor \in Nat /\ current \in Players \cup {NoPlayer}
      /\ \A p \in Players : /\ player[p].pc \in Chosen => player[p].event \in 1..Events
                            /\ player[p].cancelled => Alive(p)
  BY DEF IInv, Typed, TypeOK, PositionType
<1>1. /\ Pending(r) /\ request[r].kind = "reset" /\ UNCHANGED <<stored, gate>>
      /\ UNCHANGED <<handed, served, crashes, overlapped, lastWord, since>>
  BY DEF Cancel, Forget, In, Pending, InProgress, history
<1>2. PICK pc \in {"join", "rewind"} :
         \/ /\ pc = "join" /\ HasTask /\ current' = current
            /\ player' = [player EXCEPT ![current].cancelled = TRUE]
            /\ request' = [request EXCEPT ![r].player = current, ![r].pc = "join"]
         \/ /\ pc = "rewind" /\ Proceed(r, "rewind") /\ InProgress
            /\ current' = NoPlayer /\ player' = player
            /\ \/ ~HasTask
               \/ In(r, "reset", "join") /\ ~player[request[r].player].cancelled
  BY DEF Cancel, Forget
<1>3. GoesOn(r, pc) /\ (pc = "join" => request'[r].player = current /\ current \in Players)
  <2>1. CASE pc = "join"
    <3>1. current \in Players
      BY <1>2, <2>1 DEF HasTask, Alive
    <3>2. /\ request' \in [Requests -> RequestType] /\ request'[r].kind = request[r].kind
          /\ request'[r].pc = "join" /\ request'[r].player = current
          /\ \A q \in Requests : q # r => request'[q] = request[q]
      BY <1>0, <1>2, <2>1, <3>1 DEF RequestType
    <3> QED
      BY <1>1, <2>1, <3>1, <3>2 DEF GoesOn, Serves
  <2>2. CASE pc = "rewind"
    BY <1>0, <1>1, <1>2, <2>2, ProceedEffect
  <2> QED
    BY <2>1, <2>2
<1>4. /\ player' \in [Players -> TaskType]
      /\ pc = "join" => player'[current].cancelled
      /\ \A p \in Players :
            /\ player'[p].event = player[p].event /\ player'[p].seen = player[p].seen
            /\ player'[p].pc = player[p].pc
            /\ player'[p].cancelled => player[p].cancelled \/ Alive(p)
  <2>1. CASE pc = "join"
    <3>1. current \in Players /\ Alive(current)
      BY <1>2, <2>1 DEF HasTask, Alive
    <3>2. player' = [player EXCEPT ![current].cancelled = TRUE]
      BY <1>2, <2>1
    <3>3. [player[current] EXCEPT !.cancelled = TRUE] \in TaskType
      BY <1>0, <3>1 DEF TaskType
    <3>4. /\ player' \in [Players -> TaskType]
          /\ player'[current] = [player[current] EXCEPT !.cancelled = TRUE]
          /\ \A p \in Players : p # current => player'[p] = player[p]
      BY <1>0, <3>1, <3>2, <3>3
    <3>5. player[current] \in TaskType
      BY <1>0, <3>1
    <3> QED
      BY <3>1, <3>4, <3>5 DEF TaskType
  <2>2. CASE pc = "rewind"
    BY <1>0, <1>2, <2>2
  <2> QED
    BY <2>1, <2>2
<1>5. \A p \in Players : Alive(p)' <=> Alive(p)
  BY <1>4 DEF Alive
<1>6. \A p \in Players : /\ player'[p].pc \in Chosen => player'[p].event \in 1..Events
                         /\ player'[p].cancelled => Alive(p)'
  BY <1>0, <1>4, <1>5
<1>7. current' \in Players \cup {NoPlayer} /\ stored' \in PositionType /\ gate' \in BOOLEAN
  BY <1>0, <1>1, <1>2 DEF Typed, TypeOK
<1>8. Typed'
  BY <1>0, <1>3, <1>4, <1>6, <1>7, ServeTyped
<1> SUFFICES ASSUME ~overlapped
             PROVE  InOrder' /\ CursorCovered' /\ Stopped'
  BY <1>1, <1>8 DEF IInv
<1>9. InOrder /\ CursorCovered /\ Stopped /\ lastWord = "none" /\ since = 0
  BY <1>0, <1>1, Alone DEF IInv
\* Without a current task no task is alive.
<1>10. pc = "rewind" => current' = NoPlayer /\ \A p \in Players : ~Alive(p)
  <2>1. pc = "rewind" => ~Alive(current)
    BY <1>2, <1>9 DEF HasTask, InOrder
  <2> QED
    BY <1>2, <1>9, <2>1 DEF InOrder
<1>11. pc = "join" => current' = current
  BY <1>2
<1>12. \A p \in Players : Alive(p)' => p = current'
  BY <1>5, <1>9, <1>10, <1>11 DEF InOrder
<1>13. /\ In(r, "reset", "join")' => /\ request'[r].player = current'
                                     /\ Alive(current)' => player'[current'].cancelled
       /\ In(r, "reset", "rewind")' => current' = NoPlayer
       /\ ~In(r, "pause", "write")'
  BY <1>1, <1>3, <1>4, <1>10, <1>11 DEF GoesOn, In
<1>14. InOrder'
  BY <1>0, <1>3, <1>9, <1>12, <1>13, ServeInOrder
<1>15. Behind(r)'
  BY <1>3 DEF GoesOn, Behind
<1>16. stored'.cursor <= stored.cursor
  BY <1>0, <1>1
<1>17. CursorCovered'
  BY <1>0, <1>3, <1>4, <1>7, <1>9, <1>15, <1>16, ServeCovered
<1>18. Stopped'
  BY <1>1, <1>9 DEF Stopped
<1> QED
  BY <1>14, <1>17, <1>18

LEMMA ServeStep ==
    ASSUME IInv, NEW r \in Requests, Serve(r)
    PROVE  IInv'
BY ReadStep, WriteStep, ArmStep, CloseGateStep, CancelStep DEF Serve

\* A request that begins while another is pending ends what is promised.
LEMMA BeginStep ==
    ASSUME IInv, NEW r \in Requests, NEW kind \in Kinds, Begin(r, kind)
    PROVE  IInv'
<1>0. /\ Typed /\ request \in [Requests -> RequestType]
      /\ served \in Nat /\ overlapped \in BOOLEAN
  BY DEF IInv, Typed, TypeOK
<1>1. /\ ~Pending(r) /\ served' = served + 1
      /\ overlapped' = (overlapped \/ \E q \in Requests : Pending(q))
      /\ lastWord' = "none" /\ since' = 0
      /\ UNCHANGED <<stored, gate, current, player, handed, crashes>>
  BY DEF Begin
<1>2. PICK pc \in {"read", "cancel"} :
         request' = [request EXCEPT ![r] = [NoRequest EXCEPT !.kind = kind, !.pc = pc]]
  <2>1. FirstPc[kind] \in {"read", "cancel"}
    BY DEF Kinds, FirstPc
  <2> QED
    BY <2>1 DEF Begin
<1>3. /\ request' \in [Requests -> RequestType] /\ request'[r].kind = kind
      /\ request'[r].pc = pc
      /\ \A q \in Requests : q # r => request'[q] = request[q]
  <2>1. /\ [NoRequest EXCEPT !.kind = kind, !.pc = pc] \in RequestType
        /\ [NoRequest EXCEPT !.kind = kind, !.pc = pc].kind = kind
        /\ [NoRequest EXCEPT !.kind = kind, !.pc = pc].pc = pc
    <3> HIDE DEF NoRequest
    <3> QED
      BY Constants DEF RequestType
  <2> DEFINE new == [NoRequest EXCEPT !.kind = kind, !.pc = pc]
  <2> HIDE DEF new
  <2>2. request' = [request EXCEPT ![r] = new] /\ new \in RequestType
        /\ new.kind = kind /\ new.pc = pc
    BY <1>2, <2>1 DEF new
  <2> QED
    BY <1>0, <2>2
<1>4. Typed'
  <2>1. overlapped' \in BOOLEAN /\ served' \in Nat
    BY <1>0, <1>1
  <2>2. \A q \in Requests : request'[q].pc = "join" => request'[q].player \in Players
    BY <1>0, <1>3 DEF Typed, TypeOK
  <2> QED
    BY <1>0, <1>1, <1>3, <2>1, <2>2 DEF Typed, TypeOK, Alive
<1> SUFFICES ASSUME ~overlapped'
             PROVE  InOrder' /\ CursorCovered' /\ Stopped'
  BY <1>4 DEF IInv
<1>5. /\ InOrder /\ CursorCovered /\ \A q \in Requests : ~Pending(q)
  BY <1>1 DEF IInv
<1>6. \A q \in Requests : q # r => ~Pending(q)'
  BY <1>3, <1>5 DEF Pending
<1>7. InOrder'
  BY <1>1, <1>3, <1>5, <1>6 DEF InOrder, In, Alive, Pending
<1>8. CursorCovered'
  <2>1. \A q \in Requests : Behind(q)'
    BY <1>3, <1>6 DEF Behind
  <2>2. \A p \in Players : Ahead(p)'
    BY <1>1, <1>5 DEF CursorCovered, Ahead
  <2>3. Done(stored'.cursor, handed')
    BY <1>1, <1>5 DEF CursorCovered, Done
  <2> QED
    BY <2>1, <2>2, <2>3 DEF CursorCovered
<1>9. Stopped'
  BY <1>1 DEF Stopped
<1> QED
  BY <1>7, <1>8, <1>9

LEMMA CrashStep ==
    ASSUME IInv, Crash
    PROVE  IInv'
<1>0. Typed /\ crashes \in Nat
  BY DEF IInv, Typed, TypeOK
<1>1. /\ crashes' = crashes + 1 /\ gate' = TRUE /\ current' = NoPlayer
      /\ player' = [p \in Players |-> NoTask]
      /\ request' = [r \in Requests |-> NoRequest]
      /\ lastWord' = "none" /\ since' = 0
      /\ UNCHANGED <<stored, handed, served, overlapped>>
  BY DEF Crash
<1>2. \A p \in Players : player'[p] = NoTask
  BY <1>1
<1>3. \A r \in Requests : request'[r] = NoRequest
  BY <1>1
<1> HIDE DEF NoTask, NoRequest
<1>4. player' \in [Players -> TaskType] /\ request' \in [Requests -> RequestType]
      /\ crashes' \in Nat
  BY <1>0, <1>1, Constants
<1>5. Typed'
  BY <1>0, <1>1, <1>2, <1>3, <1>4, Constants DEF Typed, TypeOK, Chosen
<1>6. InOrder'
  BY <1>1, <1>2, <1>3, Constants DEF InOrder, In, Alive, Pending
<1>7. CursorCovered => CursorCovered'
  BY <1>1, <1>2, <1>3, Constants DEF CursorCovered, Done, Ahead, Behind, Pending
<1>8. Stopped'
  BY <1>1 DEF Stopped
<1> QED
  BY <1>1, <1>5, <1>6, <1>7, <1>8 DEF IInv

-----------------------------------------------------------------------------
(* The theorems *)

\* The inductive invariant: while requests are served one after the other,
\* task, requests and store agree on how far the recording has been played.
\* (_run, start, pause, reset.)
THEOREM ReplayInvariant == Spec => []IInv
<1>1. Init => IInv
  <2> SUFFICES ASSUME Init
               PROVE  IInv
    OBVIOUS
  <2>1. /\ \A p \in Players : player[p] = NoTask
        /\ \A r \in Requests : request[r] = NoRequest
        /\ stored = Beginning /\ handed = {} /\ lastWord = "none" /\ since = 0
    BY DEF Init
  <2>2. stored.cursor = 0
    BY <2>1 DEF Beginning
  <2> HIDE DEF NoTask, NoRequest, Beginning
  <2>3. Typed
    <3>1. player \in [Players -> TaskType] /\ request \in [Requests -> RequestType]
      BY Constants DEF Init
    <3>2. /\ stored \in PositionType /\ gate \in BOOLEAN /\ current \in Players \cup {NoPlayer}
          /\ served \in Nat /\ crashes \in Nat /\ since \in Nat /\ handed \subseteq 1..Events
          /\ overlapped \in BOOLEAN /\ lastWord \in Kinds \cup {"none", "lost"}
      BY Constants DEF Init
    <3>3. \A r \in Requests : request[r].pc # "join"
      BY <2>1, Constants
    <3>4. \A p \in Players : player[p].pc \notin Chosen /\ ~player[p].cancelled
      BY <2>1, Constants DEF Chosen
    <3> QED
      BY <3>1, <3>2, <3>3, <3>4 DEF Typed, TypeOK
  <2>4. InOrder /\ Stopped
    BY <2>1, Constants DEF InOrder, Stopped, In, Alive, Pending
  <2>5. CursorCovered
    BY <2>1, <2>2, Constants DEF CursorCovered, Done, Ahead, Behind, Pending
  <2> QED
    BY <2>3, <2>4, <2>5 DEF IInv
<1>2. IInv /\ [Next]_vars => IInv'
  <2>1. IInv /\ Next => IInv'
    BY PlayStep, ServeStep, BeginStep, CrashStep DEF Next
  <2>2. IInv /\ UNCHANGED vars => IInv'
    BY DEF IInv, Typed, TypeOK, InOrder, CursorCovered, Stopped, Done, Ahead, Behind,
           In, Alive, Pending, vars, history
  <2> QED
    BY <2>1, <2>2
<1> QED
  BY <1>1, <1>2, PTL DEF Spec

\* Type correctness of the replay engine.
THEOREM TypeCorrect == Spec => []TypeOK
<1>1. IInv => TypeOK
  BY DEF IInv, Typed
<1> QED
  BY <1>1, ReplayInvariant, PTL

\* Playback never skips an event, whatever pauses, resets, second starts and
\* restarts come between, as long as requests do not overlap.  (_run, start,
\* reset.)
THEOREM NothingSkippedHolds == Spec => []NothingSkipped
<1>1. IInv => NothingSkipped
  BY DEF IInv, CursorCovered, Done, NothingSkipped
<1> QED
  BY <1>1, ReplayInvariant, PTL

\* After the answer to a pause at most the event in progress is handed over;
\* after the answer to a reset none, and the recording stands at its beginning.
\* (pause, reset, stop.)
THEOREM StopHoldsHolds == Spec => []StopHolds
<1>1. IInv => StopHolds
  BY DEF IInv, Stopped, StopHolds
<1> QED
  BY <1>1, ReplayInvariant, PTL

=============================================================================
