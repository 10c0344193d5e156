------------------------------ MODULE MCReplay ------------------------------
(* Two requests under way at once can leave two tasks playing.              *)
EXTENDS Replay

CONSTANTS r1, r2, p1, p2

MCRequests == {r1, r2}
MCPlayers == {p1, p2}
=============================================================================
