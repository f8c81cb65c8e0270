--------------------------- MODULE SerialCommands ---------------------------
(***************************************************************************)
(* What command execution promises, in one step per command: commands take *)
(* effect one at a time, each decides on exactly the events its query      *)
(* selects at that moment, and a command whose idempotency key is already  *)
(* on one of those events appends nothing.  CommandTx implements it with   *)
(* optimistic transactions; the SDKs for Rust and for JavaScript drive     *)
(* those in the same way (Command::run, runCommand).                       *)
(***************************************************************************)
EXTENDS Naturals, Sequences

CONSTANTS
  Kinds,    \* classes of events that queries tell apart (type and tags)
  Ikeys,    \* idempotency keys
  NoIkey,   \* a command called without one
  Requests  \* the commands callers may send: records of query (a set of
            \* kinds), emits (a sequence of kinds) and ikey

VARIABLE log

Matching(query, events) == {p \in DOMAIN events : events[p].kind \in query}

Duplicate(ikey, events, positions) ==
  ikey # NoIkey /\ \E p \in positions : events[p].ikey = ikey

\* The events of one append.  first and seen are history: the position of the
\* append's first event, and the positions the decision to append was based on.
Batch(r, first, seen) ==
  [i \in DOMAIN r.emits |->
     [kind |-> r.emits[i], ikey |-> r.ikey, first |-> first, seen |-> seen]]

Init == log = <<>>

Execute(r) ==
  LET seen == Matching(r.query, log)
  IN /\ ~Duplicate(r.ikey, log, seen)
     /\ log' = log \o Batch(r, Len(log) + 1, seen)

Next == \E r \in Requests : Execute(r)

Spec == Init /\ [][Next]_log

-----------------------------------------------------------------------------
\* Callers use a key for one command only, and the command reads what it emits.
KeysInScope ==
  \A r \in Requests : r.ikey # NoIkey =>
    /\ \A i \in DOMAIN r.emits : r.emits[i] \in r.query
    /\ \A s \in Requests : s.ikey = r.ikey => s.query = r.query

\* An idempotency key is on the events of one append only: a command retried
\* with its key takes effect once (the duplicate check of Command::run).
OncePerKey ==
  \A p, q \in DOMAIN log :
    log[p].ikey = log[q].ikey /\ log[p].ikey # NoIkey
      => log[p].first = log[q].first
=============================================================================
