------------------------------ MODULE MCJournal -----------------------------
(* Two documents, so that a deletion can stop between them.                 *)
EXTENDS Journal

CONSTANTS k1, k2, v1, v2

MCKeys == {k1, k2}
MCValues == {v1, v2}
=============================================================================
