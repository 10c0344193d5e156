---------------------------- MODULE CurrentFacts ----------------------------
(***************************************************************************)
(* What the decision ladder is promised about evidence: for every subject  *)
(* the verdict last recorded for it, and nothing else.  CaseEvidence, with *)
(* its append-only log, is checked and proved to implement this.           *)
(***************************************************************************)
CONSTANT Subjects, Verdicts

VARIABLES
    latest,   \* latest[s] is the verdict last recorded for the subject s, if any
    last      \* the subject and verdict of the last record, <<>> before it

Init ==
    /\ latest = [s \in {} |-> s]
    /\ last = <<>>

\* A record takes effect at once, and on its own subject only.
Record(s, v) ==
    latest' = [t \in DOMAIN latest \cup {s} |-> IF t = s THEN v ELSE latest[t]]

Next ==
    /\ last' \in Subjects \X Verdicts
    /\ Record(last'[1], last'[2])

Spec == Init /\ [][Next]_<<latest, last>>
=============================================================================
