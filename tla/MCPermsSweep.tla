---------------------------- MODULE MCPermsSweep ----------------------------
(* Small instances of PermsSweep: one user on two sockets.                   *)
EXTENDS PermsSweep, TLC

CONSTANTS c1, c2, alice, k1, k2

OneUser == c1 :> alice @@ c2 :> alice
=============================================================================
