------------------------------- MODULE Alerts -------------------------------
(***************************************************************************)
(* Worker alerts and their acknowledgement (agents/policy_gate,            *)
(* escalate_unacknowledged of the orchestrator).                           *)
(*                                                                         *)
(* Three parties share NOTIFICATIONS: the dispatcher, which runs under the *)
(* case lock after a decision; the escalator, which the freshness loop     *)
(* runs without it; and the workers, who acknowledge.  Sending is a check  *)
(* for an outstanding alert and then an insert; escalating works through a *)
(* snapshot of the overdue alerts.                                         *)
(***************************************************************************)
EXTENDS Naturals, Sequences

CONSTANTS
    Workers,
    MaxAlerts,   \* bound on notifications
    MaxCrashes   \* bound on crashes

ASSUME AlertsAssumption == MaxAlerts \in Nat /\ MaxCrashes \in Nat

VARIABLES
    notes,       \* NOTIFICATIONS in the order sent: [worker, tier, status]
    overdue,     \* ids whose acknowledgement deadline has passed
    dispatcher,  \* the alert about to be inserted, if any
    escalator,   \* [pc, todo, note]: the sweep over the overdue alerts
    expiries,    \* expiries[i]: how often the deadline of i was handled (history)
    crashes

alertVars == <<notes, overdue, dispatcher, escalator, expiries, crashes>>

Tiers == {"CAUTION", "STOP_ACK_REQUIRED", "ESCALATE"}
AckTiers == {"STOP_ACK_REQUIRED", "ESCALATE"}
Ids == 1..MaxAlerts
AtRest == [pc |-> "idle", todo |-> {}, note |-> 0]
NoAlert == [worker |-> "none", tier |-> "none"]

AlertsInit ==
    /\ notes = <<>> /\ overdue = {}
    /\ dispatcher = NoAlert /\ escalator = AtRest
    /\ expiries = [i \in Ids |-> 0]
    /\ crashes = 0

\* Mutant: any alert outstanding for the worker will do.
OutstandingAnyTier(worker, tier) ==
    \E i \in DOMAIN notes : notes[i].worker = worker /\ notes[i].status = "SENT"

\* send_worker_alert looks for the same alert still outstanding ...
Outstanding(worker, tier) ==
    \E i \in DOMAIN notes : /\ notes[i].worker = worker /\ notes[i].tier = tier
                            /\ notes[i].status = "SENT"

\* ... and inserts a new one.
Insert(worker, tier) ==
    /\ Len(notes) < MaxAlerts
    /\ notes' = Append(notes, [worker |-> worker, tier |-> tier, status |-> "SENT"])

SetStatus(i, status) == notes' = [notes EXCEPT ![i].status = status]

-----------------------------------------------------------------------------
(* _dispatch_alerts, one worker and tier at a time *)

DispatchFind(worker, tier) ==
    /\ dispatcher = NoAlert
    /\ ~Outstanding(worker, tier)
    /\ dispatcher' = [worker |-> worker, tier |-> tier]
    /\ UNCHANGED <<notes, overdue, escalator, expiries, crashes>>

DispatchInsert ==
    /\ dispatcher # NoAlert
    /\ Insert(dispatcher.worker, dispatcher.tier)
    /\ dispatcher' = NoAlert
    /\ UNCHANGED <<overdue, escalator, expiries, crashes>>

-----------------------------------------------------------------------------
(* acknowledge: the first outstanding alert of a worker, or one by its id *)

AcknowledgeFirst(worker) ==
    \E i \in DOMAIN notes :
        LET sent(j) == notes[j].worker = worker /\ notes[j].status = "SENT"
        IN  /\ sent(i) /\ \A j \in 1..(i - 1) : ~sent(j)
            /\ SetStatus(i, "ACKNOWLEDGED")
            /\ UNCHANGED <<overdue, dispatcher, escalator, expiries, crashes>>

AcknowledgeById(i) ==
    /\ i \in DOMAIN notes
    /\ SetStatus(i, "ACKNOWLEDGED")
    /\ UNCHANGED <<overdue, dispatcher, escalator, expiries, crashes>>

\* Mutant: a deadline without an alert.
DeadlinePassesAny(i) ==
    /\ i \notin overdue
    /\ overdue' = overdue \cup {i}
    /\ UNCHANGED <<notes, dispatcher, escalator, expiries, crashes>>

\* Time passes the deadline of an alert that has one.
DeadlinePasses(i) ==
    /\ i \in DOMAIN notes \ overdue /\ notes[i].tier \in AckTiers
    /\ overdue' = overdue \cup {i}
    /\ UNCHANGED <<notes, dispatcher, escalator, expiries, crashes>>

-----------------------------------------------------------------------------
(* escalate_unacknowledged *)

\* Mutant: only ESCALATE alerts are swept.
EscalateNeedsAck(note) == note.tier = "ESCALATE"

NeedsAck(note) == note.tier \in AckTiers

\* The alerts outstanding at this moment and past their deadline.
StartSweep ==
    LET due == {i \in DOMAIN notes : /\ notes[i].status = "SENT"
                                     /\ NeedsAck(notes[i])
                                     /\ i \in overdue}
    IN  /\ escalator.pc = "idle" /\ due # {}
        /\ escalator' = [AtRest EXCEPT !.pc = "sweep", !.todo = due]
        /\ UNCHANGED <<notes, overdue, dispatcher, expiries, crashes>>

\* Mutant: the alert is escalated and stays outstanding.
LeaveOutstanding(i) == UNCHANGED notes

MarkExpired(i) == SetStatus(i, "EXPIRED")

\* The next one, oldest first, expires, whatever its status has become; an
\* ESCALATE alert goes no further.
Expire(i) ==
    /\ escalator.pc = "sweep" /\ i \in escalator.todo
    /\ \A j \in escalator.todo : i <= j
    /\ MarkExpired(i)
    /\ expiries' = [expiries EXCEPT ![i] = @ + 1]
    /\ escalator' = [pc |-> IF notes[i].tier = "ESCALATE" THEN "sweep" ELSE "find",
                     todo |-> escalator.todo \ {i}, note |-> i]
    /\ UNCHANGED <<overdue, dispatcher, crashes>>

EscalateFind ==
    /\ escalator.pc = "find"
    /\ escalator' = [escalator EXCEPT !.pc =
          IF Outstanding(notes[escalator.note].worker, "ESCALATE")
          THEN "sweep" ELSE "insert"]
    /\ UNCHANGED <<notes, overdue, dispatcher, expiries, crashes>>

EscalateInsert ==
    /\ escalator.pc = "insert"
    /\ Insert(notes[escalator.note].worker, "ESCALATE")
    /\ escalator' = [escalator EXCEPT !.pc = "sweep"]
    /\ UNCHANGED <<overdue, dispatcher, expiries, crashes>>

EndSweep ==
    /\ escalator.pc = "sweep" /\ escalator.todo = {}
    /\ escalator' = AtRest
    /\ UNCHANGED <<notes, overdue, dispatcher, expiries, crashes>>

AlertsCrash ==
    /\ crashes < MaxCrashes
    /\ crashes' = crashes + 1
    /\ dispatcher' = NoAlert /\ escalator' = AtRest
    /\ UNCHANGED <<notes, overdue, expiries>>

Sweep ==
    StartSweep \/ (\E i \in Ids : Expire(i)) \/ EscalateFind \/ EscalateInsert \/ EndSweep

AlertsNext ==
    \/ \E w \in Workers, t \in Tiers : DispatchFind(w, t)
    \/ DispatchInsert
    \/ \E w \in Workers : AcknowledgeFirst(w)
    \/ \E i \in Ids : AcknowledgeById(i) \/ DeadlinePasses(i)
    \/ Sweep \/ AlertsCrash

AlertsSpec == AlertsInit /\ [][AlertsNext]_alertVars

\* The freshness loop sweeps on every tick and works its snapshot off.
FairSpec == AlertsSpec /\ WF_alertVars(Sweep)

-----------------------------------------------------------------------------
NoteType == [worker : Workers, tier : Tiers,
             status : {"SENT", "ACKNOWLEDGED", "EXPIRED"}]

AlertsTypeOK ==
    /\ notes \in Seq(NoteType)
    /\ overdue \subseteq DOMAIN notes
    /\ dispatcher \in [worker : Workers, tier : Tiers] \cup {NoAlert}
    /\ escalator \in [pc : {"idle", "sweep", "find", "insert"},
                      todo : SUBSET DOMAIN notes, note : {0} \cup DOMAIN notes]
    /\ escalator.pc \in {"find", "insert"} => escalator.note \in DOMAIN notes
    /\ expiries \in [Ids -> Nat]
    /\ crashes \in Nat

\* "A deadline is handled exactly once": no alert expires twice, whatever
\* acknowledgements, sweeps and restarts there are.
ExpiresOnce == \A i \in Ids : expiries[i] <= 1

EscalateSent(worker) ==
    \E j \in DOMAIN notes : notes[j].worker = worker /\ notes[j].tier = "ESCALATE"

\* "No acknowledgement is itself an escalation trigger": a stop order that
\* expired has been followed by an ESCALATE alert to its worker, unless the
\* sweep is about to send it.
ExpiredStopEscalated ==
    \A i \in DOMAIN notes :
        (notes[i].status = "EXPIRED" /\ notes[i].tier = "STOP_ACK_REQUIRED") =>
            \/ EscalateSent(notes[i].worker)
            \/ escalator.note = i /\ escalator.pc \in {"find", "insert"}

\* Without a crash this is so.  (escalate_unacknowledged.)
EscalatesWithoutCrash == crashes = 0 => ExpiredStopEscalated

\* An overdue stop order does not stay outstanding: without a crash it is
\* acknowledged, or it expires and its worker has an ESCALATE alert, as long
\* as the model takes one more.  (_freshness_loop, escalate_unacknowledged.)
OverdueEscalates ==
    [](crashes = 0) =>
        \A i \in Ids :
            (i \in overdue /\ notes[i].status = "SENT") ~>
                \/ i \in DOMAIN notes /\ notes[i].status = "ACKNOWLEDGED"
                \/ i \in DOMAIN notes /\ EscalateSent(notes[i].worker)
                \/ Len(notes) = MaxAlerts

-----------------------------------------------------------------------------
(* What the documentation says and the code does not keep. *)

\* "Worker acknowledgement, durably recorded": an acknowledged alert stays
\* acknowledged.
AcknowledgementDurable ==
    [][\A i \in DOMAIN notes :
          notes[i].status = "ACKNOWLEDGED" => notes'[i].status = "ACKNOWLEDGED"]_alertVars

\* "Do not re-alert the same worker at the same tier while an alert is
\* outstanding": no two outstanding alerts are alike.
NoDuplicateOutstanding ==
    \A i, j \in DOMAIN notes :
        (/\ notes[i].status = "SENT" /\ notes[j].status = "SENT"
         /\ notes[i].worker = notes[j].worker /\ notes[i].tier = notes[j].tier)
        => i = j
=============================================================================
