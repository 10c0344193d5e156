---------------------------- MODULE DurableStore ----------------------------
(***************************************************************************)
(* What the agents are promised of a store: documents change as the        *)
(* operation asks that is under way, and in no other way.  An operation    *)
(* that is not cut short makes all of its changes; one cut short by the    *)
(* death of the process may leave each made or not made; and a document    *)
(* nobody asks to change is after a restart what it was before.  Journal   *)
(* is shown to implement this as far as it does.                           *)
(***************************************************************************)
CONSTANTS Keys, Values, Absent

VARIABLES
    documents,   \* documents[k]: the document with _id k, or Absent
    asked,       \* the changes the operation under way has yet to make
    open         \* the store answers

vars == <<documents, asked, open>>

\* A write asks for one document, a deletion for the end of some.
Writes == {{[key |-> k, value |-> v]} : k \in Keys, v \in Values}
Deletions == {{[key |-> k, value |-> Absent] : k \in ks} : ks \in SUBSET Keys}

Init ==
    /\ documents = [k \in Keys |-> Absent]
    /\ asked = {}
    /\ open = TRUE

Made(c) == documents' = [documents EXCEPT ![c.key] = c.value]

Ask(changes) ==
    /\ open /\ asked = {}
    /\ asked' = changes
    /\ UNCHANGED <<documents, open>>

Make(c) ==
    /\ open /\ c \in asked
    /\ Made(c)
    /\ asked' = asked \ {c}
    /\ UNCHANGED open

\* An error ends the operation after one more of its changes.
Fail(c) ==
    /\ open /\ c \in asked
    /\ Made(c)
    /\ asked' = {}
    /\ UNCHANGED open

\* Only the change under way is in doubt.
Stop ==
    /\ open /\ open' = FALSE
    /\ asked' = {}
    /\ UNCHANGED documents \/ \E c \in asked : Made(c)

Start ==
    /\ ~open /\ open' = TRUE
    /\ UNCHANGED <<documents, asked>>

Next ==
    \/ \E changes \in Writes \cup Deletions : Ask(changes)
    \/ \E c \in asked : Make(c) \/ Fail(c)
    \/ Stop \/ Start

Spec == Init /\ [][Next]_vars
=============================================================================
