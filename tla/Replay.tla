------------------------------- MODULE Replay -------------------------------
(***************************************************************************)
(* The replay engine (packages/replay): a playback task that hands the     *)
(* recorded events to the orchestrator, and the start, pause and reset     *)
(* requests that steer it (apps/api/routes/replay.py).                     *)
(*                                                                         *)
(* Task and requests share REPLAY_STATE, one document that each of them    *)
(* reads and later writes back whole; the pause gate, an asyncio.Event;    *)
(* and the reference to the current task.  An action is one store call or  *)
(* one stretch of code between two awaits.  Only the store, and the events *)
(* already handed over, survive a crash.                                   *)
(***************************************************************************)
EXTENDS Naturals

CONSTANTS
    Events,       \* number of events in the recording
    Requests,     \* requests that can be under way at the same time
    Players,      \* playback tasks that can be alive at the same time
    NoPlayer,     \* no task
    MaxRequests,  \* bound on requests served
    MaxCrashes    \* bound on crashes

ASSUME ReplayAssumption ==
    /\ Events \in Nat /\ MaxRequests \in Nat /\ MaxCrashes \in Nat
    /\ NoPlayer \notin Players

VARIABLES
    stored,      \* the REPLAY_STATE document: [cursor, status]
    gate,        \* _pause: TRUE when playback may go on
    current,     \* _task
    player,      \* player[p]: [pc, event, seen, cancelled]; a task or a free slot
    request,     \* request[r]: [kind, pc, seen, player]
    handed,      \* events the handler was called with (history)
    served,      \* requests so far
    crashes,
    overlapped,  \* two requests were under way at once (history)
    lastWord,    \* the request completed last, if none is under way (history)
    since        \* events handed over after a pause or reset (history)

history == <<overlapped, lastWord, since>>
vars == <<stored, gate, current, player, request, handed, served, crashes, history>>

Kinds == {"start", "pause", "reset"}
Beginning == [cursor |-> 0, status |-> "IDLE"]
NoTask == [pc |-> "none", event |-> 0, seen |-> Beginning, cancelled |-> FALSE]
NewTask == [NoTask EXCEPT !.pc = "loop"]
NoRequest == [kind |-> "none", pc |-> "idle", seen |-> Beginning, player |-> NoPlayer]

Alive(p) == p \in Players /\ player[p].pc # "none"
Pending(r) == request[r].kind # "none"

\* startup: the recording is imported and ensure_state stores the beginning.
Init ==
    /\ stored = Beginning
    /\ gate = TRUE /\ current = NoPlayer
    /\ player = [p \in Players |-> NoTask]
    /\ request = [r \in Requests |-> NoRequest]
    /\ handed = {}
    /\ served = 0 /\ crashes = 0
    /\ overlapped = FALSE /\ lastWord = "none" /\ since = 0

-----------------------------------------------------------------------------
(* _run: one playback task.  A cancelled task takes no step but its last.  *)

At(p, pc) == player[p].pc = pc /\ ~player[p].cancelled
Goto(p, pc) == player' = [player EXCEPT ![p].pc = pc]
Finish(p) == player' = [player EXCEPT ![p] = NoTask]
See(p, pc) == player' = [player EXCEPT ![p].seen = stored, ![p].pc = pc]
RequestsUnchanged == UNCHANGED <<gate, current, request, served, crashes, overlapped, lastWord>>
OnlyPlayer == RequestsUnchanged /\ UNCHANGED <<stored, handed, since>>

\* An open gate is passed without waiting; Open releases who waits.
Arrive(p) ==
    At(p, "loop") /\ Goto(p, IF gate THEN "read" ELSE "wait") /\ OnlyPlayer

Read(p) == At(p, "read") /\ See(p, "decide") /\ OnlyPlayer

\* Mutant: off by one at the end of the recording.
PlayedOutLate(seen) == seen.cursor > Events

PlayedOut(seen) == seen.cursor >= Events

\* Stop, or find the recording played out, or choose the next event.
Decide(p) ==
    /\ At(p, "decide")
    /\ LET seen == player[p].seen IN
       \/ seen.status # "RUNNING" /\ Finish(p)
       \/ seen.status = "RUNNING" /\ PlayedOut(seen) /\ Goto(p, "complete")
       \/ /\ seen.status = "RUNNING" /\ ~PlayedOut(seen)
          /\ player' = [player EXCEPT ![p].event = seen.cursor + 1, ![p].pc = "sleep"]
    /\ OnlyPlayer

Complete(p) ==
    /\ At(p, "complete")
    /\ stored' = [player[p].seen EXCEPT !.status = "COMPLETED"]
    /\ Finish(p)
    /\ RequestsUnchanged /\ UNCHANGED <<handed, since>>

\* The offset of the event is reached; the gate is passed a second time.
Wake(p) ==
    At(p, "sleep") /\ Goto(p, IF gate THEN "reread" ELSE "waitAgain") /\ OnlyPlayer

Reread(p) == At(p, "reread") /\ See(p, "redecide") /\ OnlyPlayer

Redecide(p) ==
    /\ At(p, "redecide")
    /\ IF player[p].seen.status = "RUNNING" THEN Goto(p, "handle") ELSE Finish(p)
    /\ OnlyPlayer

\* The handler stores the event, or raises; either way playback goes on.
Handle(p) ==
    /\ At(p, "handle")
    /\ handed' = handed \cup {player[p].event}
    /\ since' = IF lastWord \in {"pause", "reset"} THEN since + 1 ELSE 0
    /\ Goto(p, "store")
    /\ RequestsUnchanged /\ UNCHANGED stored

\* The cursor moves on from where the second read saw it.
Advanced(seen) == [seen EXCEPT !.cursor = @ + 1]

Store(p) ==
    /\ At(p, "store")
    /\ stored' = Advanced(player[p].seen)
    /\ Goto(p, "loop")
    /\ RequestsUnchanged /\ UNCHANGED <<handed, since>>

\* The cancellation arrives; a write already sent may still be carried out.
Cancelled(p) ==
    /\ player[p].cancelled
    /\ Finish(p)
    /\ \/ UNCHANGED stored
       \/ player[p].pc = "store" /\ stored' = Advanced(player[p].seen)
       \/ player[p].pc = "complete" /\ stored' = [player[p].seen EXCEPT !.status = "COMPLETED"]
    /\ RequestsUnchanged /\ UNCHANGED <<handed, since>>

Play(p) ==
    \/ Arrive(p) \/ Read(p) \/ Decide(p) \/ Complete(p) \/ Wake(p)
    \/ Reread(p) \/ Redecide(p) \/ Handle(p) \/ Store(p) \/ Cancelled(p)

-----------------------------------------------------------------------------
(* Requests *)

In(r, kind, pc) == request[r].kind = kind /\ request[r].pc = pc
Proceed(r, pc) == request' = [request EXCEPT ![r].pc = pc]
InProgress == UNCHANGED <<handed, served, crashes, history>>

FirstPc == [start |-> "read", pause |-> "read", reset |-> "cancel"]

Begin(r, kind) ==
    /\ ~Pending(r) /\ served < MaxRequests
    /\ request' = [request EXCEPT ![r] =
          [NoRequest EXCEPT !.kind = kind, !.pc = FirstPc[kind]]]
    /\ served' = served + 1
    /\ overlapped' = (overlapped \/ \E q \in Requests : Pending(q))
    /\ lastWord' = "none" /\ since' = 0
    /\ UNCHANGED <<stored, gate, current, player, handed, crashes>>

Answer(r, word) ==
    /\ request' = [request EXCEPT ![r] = NoRequest]
    /\ lastWord' = IF \E q \in Requests \ {r} : Pending(q) THEN "none" ELSE word
    /\ UNCHANGED <<handed, served, crashes, overlapped, since>>

\* start and pause read the document first ...
ReadState(r) ==
    /\ \/ In(r, "start", "read") /\ request' = [request EXCEPT ![r].seen = stored, ![r].pc = "speed"]
       \/ In(r, "pause", "read") /\ request' = [request EXCEPT ![r].seen = stored, ![r].pc = "clear"]
    /\ InProgress /\ UNCHANGED <<stored, gate, current, player>>

\* ... ensure_state writes it back with the new speed ...
WriteSpeed(r) ==
    /\ In(r, "start", "speed")
    /\ stored' = request[r].seen
    /\ \/ request[r].seen.status = "COMPLETED" /\ Answer(r, "start")
       \/ request[r].seen.status # "COMPLETED" /\ Proceed(r, "run") /\ InProgress
    /\ UNCHANGED <<gate, current, player>>

\* ... and start writes it again.
WriteRunning(r) ==
    /\ In(r, "start", "run")
    /\ stored' = [request[r].seen EXCEPT !.status = "RUNNING"]
    /\ Proceed(r, "arm")
    /\ InProgress /\ UNCHANGED <<gate, current, player>>

\* Setting the event releases every waiter, even if it is cleared again
\* before the waiter runs.
Released == [wait |-> "read", waitAgain |-> "reread"]
Woken == [p \in Players |->
             IF player[p].pc \in DOMAIN Released
             THEN [player[p] EXCEPT !.pc = Released[player[p].pc]] ELSE player[p]]

\* Mutant: a task that is done is taken for one that plays.
HasTaskEver == current # NoPlayer

HasTask == Alive(current)

\* A task that has read another status and is about to stop because of it.
Stopping(p) ==
    player[p].pc \in {"decide", "redecide"} /\ player[p].seen.status # "RUNNING"

\* Open the gate, and create a task if there is none.
Arm(r) ==
    /\ In(r, "start", "arm")
    /\ gate' = TRUE
    /\ \/ HasTask /\ player' = Woken /\ UNCHANGED current
       \/ /\ ~HasTask
          /\ \E p \in Players : /\ ~Alive(p)
                                /\ player' = [Woken EXCEPT ![p] = NewTask]
                                /\ current' = p
    /\ Answer(r, IF HasTask /\ Stopping(current) THEN "lost" ELSE "start")
    /\ UNCHANGED stored

\* Mutant: pausing only marks the document.
GateStays(r) ==
    /\ In(r, "pause", "clear") /\ Proceed(r, "write")
    /\ InProgress /\ UNCHANGED <<stored, gate, current, player>>

CloseGate(r) ==
    /\ In(r, "pause", "clear")
    /\ gate' = FALSE
    /\ Proceed(r, "write")
    /\ InProgress /\ UNCHANGED <<stored, current, player>>

WritePaused(r) ==
    /\ In(r, "pause", "write")
    /\ stored' = [request[r].seen EXCEPT !.status = "PAUSED"]
    /\ Answer(r, "pause")
    /\ UNCHANGED <<gate, current, player>>

\* Mutant: the task is forgotten but not cancelled.
ForgetOnly(r) ==
    /\ In(r, "reset", "cancel")
    /\ current' = NoPlayer /\ Proceed(r, "rewind")
    /\ InProgress /\ UNCHANGED <<stored, gate, player>>

\* reset calls stop: cancel the task and wait for its end ...
Cancel(r) ==
    /\ In(r, "reset", "cancel")
    /\ \/ /\ HasTask
          /\ player' = [player EXCEPT ![current].cancelled = TRUE]
          /\ request' = [request EXCEPT ![r].player = current, ![r].pc = "join"]
          /\ UNCHANGED current
       \/ /\ ~HasTask
          /\ current' = NoPlayer /\ Proceed(r, "rewind")
          /\ UNCHANGED player
    /\ InProgress /\ UNCHANGED <<stored, gate>>

\* ... forget it, whichever task is current by then ...
Forget(r) ==
    /\ In(r, "reset", "join")
    /\ ~player[request[r].player].cancelled
    /\ current' = NoPlayer /\ Proceed(r, "rewind")
    /\ InProgress /\ UNCHANGED <<stored, gate, player>>

\* ... and write the beginning.
Rewind(r) ==
    /\ In(r, "reset", "rewind")
    /\ stored' = Beginning
    /\ Answer(r, "reset")
    /\ UNCHANGED <<gate, current, player>>

Serve(r) ==
    \/ ReadState(r) \/ WriteSpeed(r) \/ WriteRunning(r) \/ Arm(r)
    \/ CloseGate(r) \/ WritePaused(r)
    \/ Cancel(r) \/ Forget(r) \/ Rewind(r)

\* The process dies and starts again; nothing resumes by itself.
Crash ==
    /\ crashes < MaxCrashes
    /\ crashes' = crashes + 1
    /\ gate' = TRUE /\ current' = NoPlayer
    /\ player' = [p \in Players |-> NoTask]
    /\ request' = [r \in Requests |-> NoRequest]
    /\ lastWord' = "none" /\ since' = 0
    /\ UNCHANGED <<stored, handed, served, overlapped>>

Next ==
    \/ \E p \in Players : Play(p)
    \/ \E r \in Requests : Serve(r) \/ \E kind \in Kinds : Begin(r, kind)
    \/ Crash

Spec == Init /\ [][Next]_vars

\* asyncio runs every task and request that is ready.
FairSpec ==
    /\ Spec
    /\ \A p \in Players : WF_vars(Play(p))
    /\ \A r \in Requests : WF_vars(Serve(r))

-----------------------------------------------------------------------------
PositionType == [cursor : Nat, status : {"IDLE", "RUNNING", "PAUSED", "COMPLETED"}]

TaskType ==
    [pc : {"none", "loop", "wait", "read", "decide", "complete", "sleep", "waitAgain",
           "reread", "redecide", "handle", "store"},
     event : 0..Events, seen : PositionType, cancelled : BOOLEAN]

RequestType ==
    [kind : Kinds \cup {"none"},
     pc : {"idle", "read", "speed", "run", "arm", "clear", "write", "cancel", "join", "rewind"},
     seen : PositionType, player : Players \cup {NoPlayer}]

TypeOK ==
    /\ stored \in PositionType
    /\ gate \in BOOLEAN /\ current \in Players \cup {NoPlayer}
    /\ player \in [Players -> TaskType] /\ request \in [Requests -> RequestType]
    /\ \A r \in Requests : request[r].pc = "join" => request[r].player \in Players
    /\ handed \subseteq 1..Events
    /\ served \in Nat /\ crashes \in Nat /\ since \in Nat
    /\ overlapped \in BOOLEAN /\ lastWord \in Kinds \cup {"none", "lost"}

\* The stored cursor never passes an event the handler has not had: neither a
\* pause, a reset, a second start nor a restart makes playback skip one, as
\* long as requests are served one after the other.  (_run, start, reset.)
NothingSkipped == ~overlapped => \A i \in 1..stored.cursor : i \in handed

\* After a pause has been answered at most the event in progress is still
\* handed over, even when its write turns the stored status back to RUNNING;
\* after a reset none is, and the recording is at its beginning.
StopHolds ==
    ~overlapped =>
        /\ lastWord = "pause" => since <= 1
        /\ lastWord = "reset" => since = 0 /\ stored = Beginning

\* A start plays the recording to its end, unless a later request or a crash
\* intervenes, or the task it found had just read the pause before it.  (start,
\* _run.)
PlaysToTheEnd ==
    (lastWord = "start" /\ ~overlapped) ~> (stored.status = "COMPLETED" \/ lastWord # "start")

-----------------------------------------------------------------------------
(* What the documentation says and the code does not keep. *)

\* "Start or resume playback. Resuming keeps the durable cursor": no step of a
\* start request moves the cursor.
ResumingKeepsCursor ==
    [][\A r \in Requests :
          (request[r].kind = "start" /\ request'[r] # request[r]) =>
              stored'.cursor = stored.cursor]_vars

\* "After an agent/sandbox restart, the system resumes the same case at the
\* current replay position": a recording marked as running does not stand still.
RunningPlays ==
    \A i \in 0..Events :
        (stored = [cursor |-> i, status |-> "RUNNING"]) ~>
            (stored # [cursor |-> i, status |-> "RUNNING"])

\* As PlaysToTheEnd, whatever task the start found.
StartPlays ==
    (lastWord \in {"start", "lost"} /\ ~overlapped) ~>
        (stored.status = "COMPLETED" \/ lastWord \notin {"start", "lost"})

\* "The system resumes the same case at the current replay position": no event
\* is skipped, even when requests overlap.
NeverSkips == \A i \in 1..stored.cursor : i \in handed
=============================================================================
