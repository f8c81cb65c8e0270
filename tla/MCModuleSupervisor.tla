------------------------- MODULE MCModuleSupervisor -------------------------
(* Small instances of ModuleSupervisor for TLC. *)
EXTENDS ModuleSupervisor

CONSTANTS v1, v2

\* Two versions with different major versions.
MCMajor == [v \in Versions |-> IF v = v1 THEN 1 ELSE 2]
=============================================================================
