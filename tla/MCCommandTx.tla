---------------------------- MODULE MCCommandTx ----------------------------
(* Small instances of CommandTx for TLC. *)
EXTENDS CommandTx, TLC

CONSTANTS e1, e2, e3, x, y, k1, k2, s1

Request(query, emits, ikey) == [query |-> query, emits |-> emits, ikey |-> ikey]

\* x is encrypted, y is not.
MCScopeOf == [kind \in Kinds |-> IF kind = x THEN s1 ELSE NoScope]

\* Commands that read what they emit, with and without a key, and one that
\* emits without reading.
MCRequests ==
  {Request({x}, <<x, x>>, NoIkey), Request({x}, <<x>>, k1),
   Request({x, y}, <<y>>, k2), Request({}, <<y>>, NoIkey)}

\* Commands on one encrypted kind of event.
MCEncrypted == {Request({x}, <<x, x>>, NoIkey), Request({x}, <<x>>, k1)}

\* Called with a key: a command that folds nothing, and one that emits what it
\* does not read.
MCOutOfScope == {Request({}, <<y>>, k1), Request({x}, <<y>>, k2)}

Symmetry == Permutations(Execs)
=============================================================================
