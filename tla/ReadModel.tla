------------------------------ MODULE ReadModel ------------------------------
(***************************************************************************)
(* What a projector promises about its database, in one step per batch:    *)
(* the rows it has written and the position it has reached move together,  *)
(* every readable event it subscribes to is applied once and in log order, *)
(* and a power failure may take the two back, together, to an earlier      *)
(* commit.  Projector implements it.                                       *)
(***************************************************************************)
EXTENDS Integers, Sequences

CONSTANTS
  Files,   \* database files
  NoKey,   \* the key id of an event in plain text
  NoData   \* a database without a position

VARIABLES
  log,     \* the event store's log
  lost,    \* key ids whose events may read as shredded
  db       \* per file: position and table, the positions applied so far

vars == <<log, lost, db>>

Upto(position) == IF position = NoData THEN 0 ELSE position

Increasing(s) == \A i, j \in DOMAIN s : i < j => s[i] < s[j]

Applied(table) == {table[i] : i \in DOMAIN table}

Matching(lo, hi) == {p \in lo + 1 .. hi : p \in DOMAIN log /\ log[p].matches}

Readable(p) == p \in DOMAIN log /\ log[p].matches /\ log[p].key_id \notin lost

Init ==
  /\ log = <<>>
  /\ \A f \in Files : db[f].position = NoData /\ db[f].table = <<>>

\* The events of the log and the lost keys only grow.
Environment ==
  /\ Len(log') >= Len(log) /\ \A p \in DOMAIN log : log'[p] = log[p]
  /\ lost \subseteq lost'
  /\ UNCHANGED db

Keep(f) == db'[f].position = db[f].position /\ db'[f].table = db[f].table

\* One batch: the position moves on, and the events it passes are appended to
\* the table in order, but for those that cannot be read.
Advance(f) ==
  LET lo   == Upto(db[f].position)
      hi   == Upto(db'[f].position)
      rows == Len(db[f].table)
      new  == Applied(db'[f].table) \ Applied(db[f].table)
  IN /\ lo < hi /\ hi <= Len(log)
     /\ rows <= Len(db'[f].table)
     /\ \A i \in 1 .. rows : db'[f].table[i] = db[f].table[i]
     /\ Increasing(db'[f].table)
     /\ new \subseteq Matching(lo, hi)
     /\ {p \in Matching(lo, hi) : Readable(p)} \subseteq new
     /\ \A g \in Files \ {f} : Keep(g)
     /\ UNCHANGED <<log, lost>>

\* A power failure: every file is back at one of its earlier commits.
Rewind ==
  /\ \A f \in Files :
       /\ Upto(db'[f].position) <= Upto(db[f].position)
       /\ Len(db'[f].table) <= Len(db[f].table)
       /\ \A i \in DOMAIN db'[f].table : db'[f].table[i] = db[f].table[i]
       /\ \A i \in DOMAIN db[f].table :
            i \in DOMAIN db'[f].table <=> db[f].table[i] <= Upto(db'[f].position)
  /\ UNCHANGED <<log, lost>>

Next == Environment \/ (\E f \in Files : Advance(f)) \/ Rewind

Spec == Init /\ [][Next]_vars
=============================================================================
