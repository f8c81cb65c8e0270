----------------------------- MODULE MCDeployment -----------------------------
(* A small instance of Deployment: one command, two versions, two contents. *)
EXTENDS Deployment

CONSTANTS cmd, c1, c2, v1, v2, A, B
=============================================================================
