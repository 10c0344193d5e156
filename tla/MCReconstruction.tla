-------------------------- MODULE MCReconstruction --------------------------
(* Two videos, so that one can be uploaded while the other is reconstructed. *)
EXTENDS Reconstruction
=============================================================================
