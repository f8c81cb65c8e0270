------------------------------ MODULE MCRuntime ------------------------------
(* A small instance of Runtime for TLC. *)
EXTENDS Runtime

CONSTANTS c1, c2

MCSupervisors == <<"effect">>
=============================================================================
