------------------------------- MODULE MCMesh -------------------------------
(* Small instances of Mesh for TLC. *)
EXTENDS Mesh, TLC
=============================================================================
