--------------------------- MODULE ProjectorProofs ---------------------------
(***************************************************************************)
(* Theorems about Projector, for every set of incarnations, versions and   *)
(* keys, and every bound.                                                  *)
(***************************************************************************)
EXTENDS Projector, SequenceTheorems, TLAPS

-----------------------------------------------------------------------------
(* Type correctness *)

\* The actors after a commit are actors.
LEMMA CommittedType ==
  ASSUME TypeOK, NEW a \in Actors, NEW m \in Actor
  PROVE  /\ Committed(a, m) \in [Actors -> Actor]
         /\ Committed(a, m)[a] = m
         /\ \A b \in Actors \ {a} :
              \/ Committed(a, m)[b] = actor[b]
              \/ Committed(a, m)[b] = [actor[b] EXCEPT !.snapshot = "stale"]
<1>1. \A b \in Actors : [actor[b] EXCEPT !.snapshot = "stale"] \in Actor
  BY DEF TypeOK, Actor
<1> QED
  BY <1>1 DEF Committed, TypeOK

LEMMA NotRunningType == NotRunning \in Actor
<1>1. <<>> \in Seq(Nat)
  BY EmptySeq
<1>2. 1 \in Files
  BY BoundsAssumption DEF Files
<1> QED
  BY <1>1, <1>2 DEF NotRunning, Actor, Phases, None, NoMajor

LEMMA InitType == Init => TypeOK
<1> SUFFICES ASSUME Init PROVE TypeOK
  OBVIOUS
<1>1. <<>> \in Seq(Nat) /\ <<>> \in Seq(Event)
  BY EmptySeq
<1>2. 1 \in Files
  BY BoundsAssumption DEF Files
<1>3. db \in [Files -> Database]
  BY <1>1 DEF Init, Database, None, NoMajor
<1> QED
  BY <1>1, <1>2, <1>3, NotRunningType DEF Init, TypeOK

\* Every step keeps the shape of the state.
LEMMA NextType == TypeOK /\ [Next]_vars => TypeOK'
<1> SUFFICES ASSUME TypeOK, [Next]_vars PROVE TypeOK'
  OBVIOUS
<1>m. \A a \in Actors : actor[a] \in Actor
  BY DEF TypeOK
<1>d. \A f \in Files : db[f] \in Database
  BY DEF TypeOK
<1>r. \A f \in Files : resume_position(db[f].position) \in Nat
  BY <1>d DEF resume_position, Database, None
<1>s. ASSUME NEW a \in Actors, Stopped(a),
             UNCHANGED <<log, deleted, file, db, synced, starts>>
      PROVE  TypeOK'
  BY <1>s, NotRunningType DEF TypeOK, Stopped
<1>u. ASSUME NEW a \in Actors, NEW m \in Actor, actor' = [actor EXCEPT ![a] = m],
             UNCHANGED <<log, deleted, file, db, synced, starts>>
      PROVE  TypeOK'
  BY <1>u DEF TypeOK
<1>1. ASSUME NEW e \in Event, append(e) PROVE TypeOK'
  <2>1. Append(log, e) \in Seq(Event)
    BY AppendProperties DEF TypeOK
  <2> QED
    BY <1>1, <2>1 DEF append, TypeOK
<1>2. ASSUME NEW k \in KeyIds, delete_crypto_key(k) PROVE TypeOK'
  BY <1>2 DEF delete_crypto_key, TypeOK
<1>3. ASSUME NEW a \in Actors, NEW major \in Majors, NEW reset_db \in BOOLEAN,
             open_database(a, major, reset_db)
      PROVE  TypeOK'
  <2> DEFINE f == IF reset_db THEN file + 1 ELSE file
             ph == IF db[f].major \in {NoMajor, major} THEN "opened" ELSE "outdated"
  <2>1. f \in Files /\ file' = f /\ starts' = starts + 1
        /\ UNCHANGED <<log, deleted, db, synced>>
    BY <1>3 DEF open_database
  <2>2. actor' = [actor EXCEPT ![a] =
                    [actor[a] EXCEPT !.conn = f, !.major = major, !.phase = ph]]
    BY <1>3, <1>m DEF open_database, TypeOK
  <2> HIDE DEF f
  <2>3. [actor[a] EXCEPT !.conn = f, !.major = major, !.phase = ph] \in Actor
    BY <1>m, <2>1 DEF Actor, Phases
  <2> HIDE DEF ph
  <2> QED
    BY <2>1, <2>2, <2>3 DEF TypeOK
<1>4. ASSUME NEW a \in Actors, replace_database(a) PROVE TypeOK'
  <2>1. [actor[a] EXCEPT !.conn = file + 1, !.phase = "opened"] \in Actor
    BY <1>4, <1>m DEF replace_database, Actor, Phases
  <2>2. actor' = [actor EXCEPT ![a] =
                    [actor[a] EXCEPT !.conn = file + 1, !.phase = "opened"]]
    BY <1>4, <1>m DEF replace_database, TypeOK
  <2> QED
    BY <1>4, <2>1, <2>2 DEF replace_database, TypeOK
<1>5. ASSUME NEW a \in Actors, insert_meta(a) PROVE TypeOK'
  <2> DEFINE f == actor[a].conn
             m == [actor[a] EXCEPT !.phase = "recorded", !.major = NoMajor,
                    !.last_position = db[f].position,
                    !.cursor = resume_position(db[f].position)]
  <2>1. f \in Files /\ actor[a].major \in Majors \cup {NoMajor}
    BY <1>m DEF Actor
  <2>2. m \in Actor
    <3>1. db[f].position \in Nat \cup {None}
      BY <1>d, <2>1 DEF Database
    <3>2. resume_position(db[f].position) \in Nat
      BY <1>r, <2>1
    <3> QED
      BY <1>m, <3>1, <3>2 DEF Actor, Phases
  <2>3. db' \in [Files -> Database]
    <3>1. [db[f] EXCEPT !.major = actor[a].major] \in Database
      BY <1>d, <2>1 DEF Database
    <3>2. db' = [db EXCEPT ![f] = [db[f] EXCEPT !.major = actor[a].major]]
      BY <1>5, <2>1 DEF insert_meta, TypeOK
    <3> QED
      BY <3>1, <3>2 DEF TypeOK
  <2>4. actor' = Committed(a, m)
    BY <1>5 DEF insert_meta
  <2>5. actor' \in [Actors -> Actor]
    BY <2>2, <2>4, CommittedType
  <2> QED
    BY <1>5, <2>3, <2>5 DEF insert_meta, TypeOK
<1>6. ASSUME NEW a \in Actors, construct(a) PROVE TypeOK'
  <2>1. [actor[a] EXCEPT !.phase = "running"] \in Actor
    BY <1>m DEF Actor, Phases
  <2>2. actor' \in [Actors -> Actor]
    BY <1>6, <2>1, CommittedType DEF construct
  <2> QED
    BY <1>6, <2>2 DEF construct, TypeOK
<1>7. ASSUME NEW a \in Actors, next_batch(a) PROVE TypeOK'
  <2>1. PICK end \in actor[a].cursor + 1 .. Len(log) :
          actor' = [actor EXCEPT ![a].cursor = end,
                                 ![a].batch = Matching(actor[a].cursor, end)]
    BY <1>7 DEF next_batch
  <2>2. actor[a].cursor \in Nat /\ Len(log) \in Nat
    BY <1>m, LenProperties DEF Actor, TypeOK
  <2>3. end \in Nat /\ Matching(actor[a].cursor, end) \subseteq Nat
    BY <2>1, <2>2 DEF Matching
  <2>4. [actor[a] EXCEPT !.cursor = end,
                         !.batch = Matching(actor[a].cursor, end)] \in Actor
    BY <1>m, <2>3 DEF Actor
  <2>5. actor' = [actor EXCEPT ![a] =
          [actor[a] EXCEPT !.cursor = end,
                           !.batch = Matching(actor[a].cursor, end)]]
    BY <2>1, <1>m DEF TypeOK
  <2> QED
    BY <1>7, <1>u, <2>4, <2>5 DEF next_batch
<1>8. ASSUME NEW a \in Actors, NEW p \in actor[a].batch,
             NEW access \in {"none", "read", "write"}, handle_event(a, p, access)
      PROVE  TypeOK'
  <2> DEFINE l == actor[a].locked \/ access = "write"
             s == IF access # "none" /\ actor[a].snapshot = "none"
                    THEN "current" ELSE actor[a].snapshot
             b == Append(actor[a].buffer, p)
  <2>1. p \in Nat /\ actor[a].buffer \in Seq(Nat) /\ actor[a].batch \ {p} \subseteq Nat
    BY <1>m DEF Actor
  <2>2. b \in Seq(Nat)
    BY <2>1, AppendProperties
  <2>3. l \in BOOLEAN /\ s \in {"none", "current", "stale"}
    BY <1>m DEF Actor
  <2>4. actor' = [actor EXCEPT ![a] = [actor[a] EXCEPT
          !.batch = @ \ {p}, !.buffer = b, !.locked = l, !.snapshot = s]]
    BY <1>8, <1>m DEF handle_event, TypeOK
  <2> HIDE DEF l, s, b
  <2>5. [actor[a] EXCEPT !.batch = @ \ {p}, !.buffer = b, !.locked = l,
                         !.snapshot = s] \in Actor
    BY <1>m, <2>1, <2>2, <2>3 DEF Actor
  <2> QED
    BY <1>8, <1>u, <2>4, <2>5 DEF handle_event
<1>9. ASSUME NEW a \in Actors, NEW p \in actor[a].batch, skip_shredded(a, p)
      PROVE  TypeOK'
  <2>1. [actor[a] EXCEPT !.batch = @ \ {p}] \in Actor
    BY <1>m DEF Actor
  <2>2. actor' = [actor EXCEPT ![a] = [actor[a] EXCEPT !.batch = @ \ {p}]]
    BY <1>9, <1>m DEF skip_shredded, TypeOK
  <2> QED
    BY <1>9, <1>u, <2>1, <2>2 DEF skip_shredded
<1>10. ASSUME NEW a \in Actors, update_position(a) PROVE TypeOK'
  <2>1. [actor[a] EXCEPT !.updated = TRUE, !.locked = TRUE, !.snapshot = "current"]
          \in Actor
    BY <1>m DEF Actor
  <2>2. actor' = [actor EXCEPT ![a] = [actor[a] EXCEPT !.updated = TRUE,
                    !.locked = TRUE, !.snapshot = "current"]]
    BY <1>10, <1>m DEF update_position, TypeOK
  <2> QED
    BY <1>10, <1>u, <2>1, <2>2 DEF update_position
<1>11. ASSUME NEW a \in Actors, commit(a) PROVE TypeOK'
  <2> DEFINE f == actor[a].conn
             t == db[f].table \o actor[a].buffer
             m == [actor[a] EXCEPT !.last_position = actor[a].cursor,
                    !.snapshot = "none", !.locked = FALSE, !.updated = FALSE,
                    !.buffer = <<>>]
  <2>1. f \in Files /\ actor[a].cursor \in Nat /\ actor[a].buffer \in Seq(Nat)
    BY <1>m DEF Actor
  <2>2. m \in Actor
    BY <1>m, <2>1, EmptySeq DEF Actor
  <2>3. t \in Seq(Nat)
    BY <1>d, <2>1, ConcatProperties DEF Database
  <2>4. db' = [db EXCEPT ![f] = [db[f] EXCEPT !.position = actor[a].cursor,
                                              !.table = t]]
    BY <1>11, <1>d, <2>1 DEF commit, TypeOK
  <2> HIDE DEF t
  <2>5. [db[f] EXCEPT !.position = actor[a].cursor, !.table = t] \in Database
    BY <1>d, <2>1, <2>3 DEF Database
  <2>6. db' \in [Files -> Database]
    BY <2>4, <2>5 DEF TypeOK
  <2>7. actor' \in [Actors -> Actor]
    BY <1>11, <2>2, CommittedType DEF commit
  <2> QED
    BY <1>11, <2>6, <2>7 DEF commit, TypeOK
<1>12. ASSUME NEW a \in Actors,
              concurrent_modification(a) \/ database_busy(a) \/ die(a)
       PROVE  TypeOK'
  BY <1>12, <1>s DEF concurrent_modification, database_busy, die
<1>13. ASSUME NEW f \in Files, checkpoint(f) PROVE TypeOK'
  BY <1>13, <1>d DEF checkpoint, TypeOK
<1>14. ASSUME power_loss PROVE TypeOK'
  BY <1>14, NotRunningType DEF power_loss, TypeOK
<1>15. ASSUME UNCHANGED vars PROVE TypeOK'
  BY <1>15 DEF vars, TypeOK
<1> QED
  BY <1>1, <1>2, <1>3, <1>4, <1>5, <1>6, <1>7, <1>8, <1>9, <1>10, <1>11, <1>12,
     <1>13, <1>14, <1>15 DEF Next, Run, Access

\* The shape of the state, for every instance.
THEOREM TypeCorrect == Spec => []TypeOK
<1> QED
  BY InitType, NextType, PTL DEF Spec

-----------------------------------------------------------------------------
(* ExactlyOnce *)

\* What the proof uses of an actor, a database and a log: their shapes.
LEMMA Shapes ==
  ASSUME TypeOK
  PROVE  /\ Len(log) \in Nat /\ DOMAIN log = 1 .. Len(log)
         /\ \A p \in DOMAIN log : log[p].key_id \in KeyIds \cup {NoKey}
         /\ \A a \in Actors :
              /\ actor[a] \in Actor /\ actor[a].conn \in Files
              /\ actor[a].cursor \in Nat
              /\ actor[a].last_position \in Nat \cup {None}
              /\ resume_position(actor[a].last_position) \in Nat
              /\ actor[a].buffer \in Seq(Nat)
         /\ \A f \in Files :
              /\ db[f].position \in Nat \cup {None}
              /\ resume_position(db[f].position) \in Nat
              /\ db[f].table \in Seq(Nat)
<1>1. Len(log) \in Nat /\ DOMAIN log = 1 .. Len(log)
  BY LenProperties DEF TypeOK
<1>2. \A p \in DOMAIN log : log[p].key_id \in KeyIds \cup {NoKey}
  <2>1. \A p \in 1 .. Len(log) : log[p] \in Event
    BY ElementOfSeq DEF TypeOK
  <2>2. \A e \in Event : e.key_id \in KeyIds \cup {NoKey}
    <3>1. \A e \in [matches : {TRUE}, key_id : KeyIds \cup {NoKey}] :
            e.key_id \in KeyIds \cup {NoKey}
      OBVIOUS
    <3>2. [matches |-> FALSE, key_id |-> NoKey].key_id = NoKey
      OBVIOUS
    <3> QED
      BY <3>1, <3>2, Zenon DEF Event
  <2> TAKE p \in DOMAIN log
  <2>3. log[p] \in Event
    BY <1>1, <2>1
  <2> QED
    BY <2>2, <2>3
<1>3. \A a \in Actors : actor[a] \in Actor
  BY DEF TypeOK
<1>4. \A f \in Files : db[f] \in Database
  BY DEF TypeOK
<1>5. \A x \in Nat \cup {None} : resume_position(x) \in Nat
  BY DEF resume_position, None
<1>6. \A a \in Actors :
        /\ actor[a].conn \in Files /\ actor[a].cursor \in Nat
        /\ actor[a].last_position \in Nat \cup {None}
        /\ actor[a].buffer \in Seq(Nat)
  BY <1>3 DEF Actor
<1>7. \A f \in Files :
        db[f].position \in Nat \cup {None} /\ db[f].table \in Seq(Nat)
  BY <1>4 DEF Database
<1> QED
  BY <1>1, <1>2, <1>3, <1>5, <1>6, <1>7

\* Keys that are lost stay lost.
LEMMA LostGrows ==
  ASSUME TypeOK, [Next]_vars
  PROVE  Lost \subseteq Lost'
<1>1. deleted \subseteq deleted'
  <2>1. CASE UNCHANGED deleted
    BY <2>1
  <2>2. CASE \E k \in KeyIds : delete_crypto_key(k)
    BY <2>2 DEF delete_crypto_key
  <2>3. ASSUME NEW a \in Actors, Run(a) \/ die(a)
        PROVE  UNCHANGED deleted
    <3>1. replace_database(a) \/ insert_meta(a) \/ construct(a) => deleted' = deleted
      BY DEF replace_database, insert_meta, construct
    <3>2. next_batch(a) \/ update_position(a) \/ commit(a) => deleted' = deleted
      BY DEF next_batch, update_position, commit
    <3>3. \A p : (\E access \in {"none", "read", "write"} :
                    handle_event(a, p, access)) \/ skip_shredded(a, p)
                  => deleted' = deleted
      BY DEF handle_event, skip_shredded
    <3>4. concurrent_modification(a) \/ database_busy(a) \/ die(a)
            => deleted' = deleted
      BY DEF concurrent_modification, database_busy, die
    <3> QED
      BY <2>3, <3>1, <3>2, <3>3, <3>4 DEF Run, Access
  <2>4. ASSUME NEW a \in Actors, NEW major \in Majors, NEW reset_db \in BOOLEAN,
               open_database(a, major, reset_db)
        PROVE  UNCHANGED deleted
    BY <2>4 DEF open_database
  <2>5. (\E e \in Event : append(e)) \/ (\E f \in Files : checkpoint(f))
          \/ power_loss \/ UNCHANGED vars => UNCHANGED deleted
    BY DEF append, checkpoint, power_loss, vars
  <2> QED
    BY <2>1, <2>2, <2>3, <2>4, <2>5 DEF Next
<1> QED
  BY <1>1 DEF Lost

\* When the log only grows and lost keys stay lost, a database or a transaction
\* that agreed with the log still does.
LEMMA LogGrows ==
  ASSUME TypeOK, TypeOK', Lost \subseteq Lost', Len(log) <= Len(log'),
         \A p \in 1 .. Len(log) : log'[p] = log[p]
  PROVE  /\ \A d : resume_position(d.position) \in Nat /\ Faithful(d) =>
              Faithful(d)'
         /\ \A m : resume_position(m.last_position) \in Nat /\ m.cursor \in Nat
              /\ Extends(m) => Extends(m)'
<1>0. /\ Len(log) \in Nat /\ DOMAIN log = 1 .. Len(log)
      /\ Len(log') \in Nat /\ DOMAIN log' = 1 .. Len(log')
  BY LenProperties DEF TypeOK
<1>1. \A lo \in Nat, hi \in Nat : hi <= Len(log) =>
        Matching(lo, hi)' = Matching(lo, hi)
  BY <1>0 DEF Matching
<1>2. \A p \in 1 .. Len(log) : Model!Readable(p)' => Model!Readable(p)
  BY <1>0 DEF Model!Readable
<1>3. ASSUME NEW d, resume_position(d.position) \in Nat, Faithful(d)
      PROVE  Faithful(d)'
  <2> DEFINE upto == resume_position(d.position)
  <2>1. /\ upto \in Nat /\ upto <= Len(log) /\ Model!Increasing(d.table)
        /\ Model!Applied(d.table) \subseteq Matching(0, upto)
        /\ \A p \in 1 .. upto : Model!Readable(p) => p \in Model!Applied(d.table)
    BY <1>3 DEF Faithful
  <2>2. upto <= Len(log')
    BY <1>0, <2>1
  <2>3. Matching(0, upto)' = Matching(0, upto)
    BY <1>1, <2>1
  <2>4. \A p \in 1 .. upto : Model!Readable(p)' => p \in Model!Applied(d.table)
    BY <1>0, <1>2, <2>1
  <2> QED
    BY <2>1, <2>2, <2>3, <2>4 DEF Faithful, Model!Increasing, Model!Applied,
       resume_position
<1>4. ASSUME NEW m, resume_position(m.last_position) \in Nat, m.cursor \in Nat,
             Extends(m)
      PROVE  Extends(m)'
  <2> DEFINE from == resume_position(m.last_position)
             got  == Model!Applied(m.buffer) \cup m.batch
  <2>1. /\ from \in Nat /\ from <= m.cursor /\ m.cursor <= Len(log)
        /\ Model!Increasing(m.buffer) /\ got \subseteq Matching(from, m.cursor)
        /\ \A p \in Model!Applied(m.buffer), q \in m.batch : p < q
        /\ \A p \in from + 1 .. m.cursor : Model!Readable(p) => p \in got
    BY <1>4 DEF Extends
  <2>2. m.cursor <= Len(log')
    BY <1>0, <1>4, <2>1
  <2>3. Matching(from, m.cursor)' = Matching(from, m.cursor)
    BY <1>1, <1>4, <2>1
  <2>4. \A p \in from + 1 .. m.cursor : Model!Readable(p)' => p \in got
    BY <1>0, <1>2, <1>4, <2>1
  <2> QED
    BY <2>1, <2>2, <2>3, <2>4 DEF Extends, Model!Increasing, Model!Applied,
       resume_position
<1> QED
  BY <1>3, <1>4

\* The next state leaves the transaction of b alone.
SameTransaction(b) ==
  /\ actor'[b].phase = actor[b].phase /\ actor'[b].conn = actor[b].conn
  /\ actor'[b].last_position = actor[b].last_position
  /\ actor'[b].cursor = actor[b].cursor /\ actor'[b].batch = actor[b].batch
  /\ actor'[b].locked = actor[b].locked /\ actor'[b].updated = actor[b].updated
  /\ actor'[b].buffer = actor[b].buffer

\* Faithful and Extends look at a few fields only, and at the log.
LEMMA SameFields ==
  ASSUME UNCHANGED <<log, deleted>>
  PROVE  /\ \A d, e : d.position = e.position /\ d.table = e.table
              /\ Faithful(d) => Faithful(e)'
         /\ \A m, n : m.last_position = n.last_position /\ m.cursor = n.cursor
              /\ m.batch = n.batch /\ m.buffer = n.buffer
              /\ Extends(m) => Extends(n)'
<1>1. \A p : Model!Readable(p)' = Model!Readable(p)
  BY DEF Model!Readable, Lost
<1>2. \A lo, hi : Matching(lo, hi)' = Matching(lo, hi)
  BY DEF Matching
<1>3. ASSUME NEW d, NEW e, d.position = e.position, d.table = e.table, Faithful(d)
      PROVE  Faithful(e)'
  BY <1>1, <1>2, <1>3 DEF Faithful, Model!Applied, Model!Increasing, resume_position
<1>4. ASSUME NEW m, NEW n, m.last_position = n.last_position,
             m.cursor = n.cursor, m.batch = n.batch, m.buffer = n.buffer, Extends(m)
      PROVE  Extends(n)'
  BY <1>1, <1>2, <1>4 DEF Extends, Model!Applied, Model!Increasing, resume_position
<1> QED
  BY <1>3, <1>4

\* A step that commits no row keeps the invariant if the one transaction it
\* changes fits the log and does not take a lock another one holds.
LEMMA TransactionStep ==
  ASSUME IInv, TypeOK', NEW a \in Actors, UNCHANGED <<log, deleted, synced>>,
         \A f \in Files : /\ db'[f].position = db[f].position
                          /\ db'[f].table = db[f].table,
         \A b \in Actors \ {a} : SameTransaction(b),
         Extends(actor[a])',
         actor'[a].phase # "running" => NoTransaction(actor'[a]),
         Exclusive(a)'
  PROVE  IInv'
<1>1. \A f \in Files : Faithful(db[f])' /\ Faithful(synced[f])'
  <2>1. \A f \in Files : Faithful(db[f]) /\ Faithful(synced[f])
    BY DEF IInv
  <2> QED
    BY <2>1, SameFields
<1>2. ASSUME NEW b \in Actors \ {a} PROVE Extends(actor[b])'
  <2>1. Extends(actor[b])
    BY DEF IInv
  <2>2. /\ actor[b].last_position = actor'[b].last_position
        /\ actor[b].cursor = actor'[b].cursor
        /\ actor[b].batch = actor'[b].batch
        /\ actor[b].buffer = actor'[b].buffer
    BY DEF SameTransaction
  <2> QED
    BY <2>1, <2>2, SameFields
<1>3. ASSUME NEW b \in Actors \ {a}, actor'[b].phase # "running"
      PROVE  NoTransaction(actor'[b])
  BY <1>3 DEF IInv, NoTransaction, SameTransaction
<1>4. ASSUME NEW b \in Actors \ {a} PROVE Exclusive(b)'
  <2>1. SameTransaction(b) /\ Exclusive(b) /\ actor[b].conn \in Files
    BY Shapes DEF IInv
  <2>2. actor'[b].locked => LockFree(b)'
    BY <2>1 DEF Exclusive, LockFree, SameTransaction
  <2>3. actor'[b].updated =>
          /\ actor'[b].batch = {} /\ actor'[b].locked
          /\ actor'[b].cursor # resume_position(actor'[b].last_position)
          /\ db'[actor'[b].conn].position = actor'[b].last_position
    BY <2>1 DEF Exclusive, SameTransaction, resume_position
  <2> QED
    BY <2>2, <2>3 DEF Exclusive, resume_position
<1> QED
  BY <1>1, <1>2, <1>3, <1>4 DEF IInv, NoTransaction

\* open_database and replace_database: no transaction is open yet.
LEMMA OpenStep ==
  ASSUME IInv, TypeOK', NEW a \in Actors,
         \/ replace_database(a)
         \/ \E major \in Majors, reset_db \in BOOLEAN :
              open_database(a, major, reset_db)
  PROVE  IInv'
<1>m. actor[a] \in Actor /\ actor \in [Actors -> Actor]
  BY DEF IInv, TypeOK
<1>1. /\ actor[a].phase # "running" /\ UNCHANGED <<log, deleted, db, synced>>
      /\ actor'[a].phase # "running"
      /\ actor'[a].last_position = actor[a].last_position
      /\ actor'[a].cursor = actor[a].cursor /\ actor'[a].batch = actor[a].batch
      /\ actor'[a].locked = actor[a].locked /\ actor'[a].updated = actor[a].updated
      /\ actor'[a].buffer = actor[a].buffer
      /\ \A b \in Actors \ {a} : actor'[b] = actor[b]
  <2>1. CASE replace_database(a)
    <3>1. actor' = [actor EXCEPT ![a] =
            [actor[a] EXCEPT !.conn = file + 1, !.phase = "opened"]]
      BY <2>1, <1>m DEF replace_database
    <3>2. actor'[a] = [actor[a] EXCEPT !.conn = file + 1, !.phase = "opened"]
      BY <3>1, <1>m
    <3> QED
      BY <2>1, <3>1, <3>2, <1>m DEF replace_database, Actor
  <2>2. ASSUME NEW major \in Majors, NEW reset_db \in BOOLEAN,
               open_database(a, major, reset_db)
        PROVE  /\ actor[a].phase # "running" /\ UNCHANGED <<log, deleted, db, synced>>
               /\ actor'[a].phase # "running"
               /\ actor'[a].last_position = actor[a].last_position
               /\ actor'[a].cursor = actor[a].cursor /\ actor'[a].batch = actor[a].batch
               /\ actor'[a].locked = actor[a].locked /\ actor'[a].updated = actor[a].updated
               /\ actor'[a].buffer = actor[a].buffer
               /\ \A b \in Actors \ {a} : actor'[b] = actor[b]
    <3> DEFINE f == IF reset_db THEN file + 1 ELSE file
               ph == IF db[f].major \in {NoMajor, major} THEN "opened" ELSE "outdated"
    <3>1. actor' = [actor EXCEPT ![a] =
            [actor[a] EXCEPT !.conn = f, !.major = major, !.phase = ph]]
      BY <2>2, <1>m DEF open_database
    <3>2. ph # "running" /\ actor[a].phase # "running"
      BY <2>2 DEF open_database
    <3>3. UNCHANGED <<log, deleted, db, synced>>
      BY <2>2 DEF open_database
    <3> HIDE DEF f, ph
    <3>4. actor'[a] = [actor[a] EXCEPT !.conn = f, !.major = major, !.phase = ph]
      BY <3>1, <1>m
    <3> QED
      BY <3>1, <3>2, <3>3, <3>4, <1>m DEF Actor
  <2> QED
    BY <2>1, <2>2
<1>2. NoTransaction(actor[a])
  BY <1>1 DEF IInv
<1>3. \A b \in Actors \ {a} : SameTransaction(b)
  BY <1>1 DEF SameTransaction
<1>4. Extends(actor[a])'
  <2>1. Extends(actor[a])
    BY DEF IInv
  <2> QED
    BY <1>1, <1>2, <2>1, SameFields
<1>5. ~actor'[a].locked /\ ~actor'[a].updated /\ NoTransaction(actor'[a])
  BY <1>1, <1>2 DEF NoTransaction
<1> QED
  BY <1>1, <1>3, <1>4, <1>5, TransactionStep DEF Exclusive

\* insert_meta: resume from the position the database holds.
LEMMA InsertMetaStep ==
  ASSUME IInv, TypeOK', NEW a \in Actors, insert_meta(a)
  PROVE  IInv'
<1> DEFINE f == actor[a].conn
           m == [actor[a] EXCEPT !.phase = "recorded", !.major = NoMajor,
                   !.last_position = db[f].position,
                   !.cursor = resume_position(db[f].position)]
<1>m. /\ actor[a] \in Actor /\ f \in Files /\ db \in [Files -> Database]
      /\ db[f] \in Database /\ resume_position(db[f].position) \in Nat
      /\ Len(log) \in Nat
  BY Shapes DEF IInv, TypeOK
<1>1. /\ UNCHANGED <<log, deleted, synced>> /\ actor' = Committed(a, m)
      /\ db' = [db EXCEPT ![f].major = actor[a].major]
  BY DEF insert_meta
<1>2. \A g \in Files : /\ db'[g].position = db[g].position
                       /\ db'[g].table = db[g].table
  BY <1>m, <1>1 DEF Database
<1>3. actor'[a] = m
  BY <1>1 DEF Committed
<1>4. /\ m.phase = "recorded" /\ m.last_position = db[f].position
      /\ m.cursor = resume_position(db[f].position)
      /\ m.batch = {} /\ ~m.locked /\ ~m.updated /\ m.buffer = <<>>
  <2>1. NoTransaction(actor[a])
    BY DEF IInv, insert_meta
  <2> QED
    BY <1>m, <2>1 DEF Actor, NoTransaction
<1>5. \A b \in Actors \ {a} : SameTransaction(b)
  <2> TAKE b \in Actors \ {a}
  <2>1. actor[b] \in Actor
    BY Shapes DEF IInv
  <2>2. \/ actor'[b] = actor[b]
        \/ actor'[b] = [actor[b] EXCEPT !.snapshot = "stale"]
    BY <1>1 DEF Committed
  <2> QED
    BY <2>1, <2>2 DEF SameTransaction, Actor
<1>6. Extends(m)
  <2>1. resume_position(db[f].position) <= Len(log)
    BY <1>m DEF IInv, Faithful
  <2>2. Model!Applied(<<>>) = {} /\ Model!Increasing(<<>>)
    BY DEF Model!Applied, Model!Increasing
  <2> HIDE DEF m
  <2> QED
    BY <1>m, <1>4, <2>1, <2>2 DEF Extends
<1>7. Extends(actor[a])'
  BY <1>1, <1>3, <1>6, SameFields
<1>8. ~actor'[a].locked /\ ~actor'[a].updated /\ NoTransaction(actor'[a])
  BY <1>3, <1>4 DEF NoTransaction
<1> QED
  BY <1>1, <1>2, <1>5, <1>7, <1>8, TransactionStep DEF Exclusive

LEMMA ConstructStep ==
  ASSUME IInv, TypeOK', NEW a \in Actors, construct(a)
  PROVE  IInv'
<1> DEFINE m == [actor[a] EXCEPT !.phase = "running"]
<1>m. actor[a] \in Actor
  BY Shapes DEF IInv
<1>1. UNCHANGED <<log, deleted, db, synced>> /\ actor' = Committed(a, m)
  BY DEF construct
<1>2. actor'[a] = m
  BY <1>1 DEF Committed
<1>3. /\ m.last_position = actor[a].last_position /\ m.cursor = actor[a].cursor
      /\ m.batch = actor[a].batch /\ m.buffer = actor[a].buffer
      /\ ~m.locked /\ ~m.updated /\ m.phase = "running"
  <2>1. NoTransaction(actor[a])
    BY DEF IInv, construct
  <2> QED
    BY <1>m, <2>1 DEF Actor, NoTransaction
<1>4. \A b \in Actors \ {a} : SameTransaction(b)
  <2> TAKE b \in Actors \ {a}
  <2>1. actor[b] \in Actor
    BY Shapes DEF IInv
  <2>2. \/ actor'[b] = actor[b]
        \/ actor'[b] = [actor[b] EXCEPT !.snapshot = "stale"]
    BY <1>1 DEF Committed
  <2> QED
    BY <2>1, <2>2 DEF SameTransaction, Actor
<1> HIDE DEF m
<1>5. Extends(actor[a])'
  <2>1. Extends(actor[a])
    BY DEF IInv
  <2> QED
    BY <1>1, <1>2, <1>3, <2>1, SameFields
<1>6. ~actor'[a].locked /\ ~actor'[a].updated /\ actor'[a].phase = "running"
  BY <1>2, <1>3
<1> QED
  BY <1>1, <1>4, <1>5, <1>6, TransactionStep DEF Exclusive

\* append and delete_crypto_key: what is committed or buffered still fits.
LEMMA EnvironmentStep ==
  ASSUME IInv, TypeOK', Lost \subseteq Lost', Len(log) <= Len(log'),
         \A p \in 1 .. Len(log) : log'[p] = log[p],
         UNCHANGED <<db, synced, actor>>
  PROVE  IInv'
<1>1. \A f \in Files :
        /\ resume_position(db[f].position) \in Nat
        /\ resume_position(synced[f].position) \in Nat
  <2>1. \A d \in Database : resume_position(d.position) \in Nat
    BY DEF Database, resume_position, None
  <2> QED
    BY <2>1 DEF IInv, TypeOK
<1>2. \A f \in Files : Faithful(db[f])' /\ Faithful(synced[f])'
  <2>1. \A f \in Files : Faithful(db[f]) /\ Faithful(synced[f])
    BY DEF IInv
  <2>2. \A d : resume_position(d.position) \in Nat /\ Faithful(d) => Faithful(d)'
    BY LogGrows DEF IInv
  <2> QED
    BY <1>1, <2>1, <2>2
<1>3. \A a \in Actors : Extends(actor[a])'
  <2>1. \A a \in Actors :
          /\ Extends(actor[a]) /\ actor[a].cursor \in Nat
          /\ resume_position(actor[a].last_position) \in Nat
    BY Shapes DEF IInv
  <2>2. \A m : resume_position(m.last_position) \in Nat /\ m.cursor \in Nat
           /\ Extends(m) => Extends(m)'
    BY LogGrows DEF IInv
  <2> QED
    BY <2>1, <2>2
<1>4. \A a \in Actors : Exclusive(a)'
  BY DEF IInv, Exclusive, LockFree, resume_position
<1> QED
  BY <1>2, <1>3, <1>4 DEF IInv, NoTransaction

\* The end of an actor keeps the invariant: its transaction is rolled back.
LEMMA StopStep ==
  ASSUME IInv, TypeOK', NEW a \in Actors, Stopped(a),
         UNCHANGED <<log, deleted, db, synced>>
  PROVE  IInv'
<1>1. actor'[a] = NotRunning /\ \A b \in Actors \ {a} : actor'[b] = actor[b]
  BY DEF Stopped, IInv, TypeOK
<1>2. /\ NotRunning.phase = "stopped" /\ NotRunning.last_position = None
      /\ NotRunning.cursor = 0 /\ NotRunning.batch = {} /\ ~NotRunning.locked
      /\ ~NotRunning.updated /\ NotRunning.buffer = <<>>
  BY DEF NotRunning
<1>3. Extends(NotRunning)
  <2>1. Model!Applied(<<>>) = {} /\ Model!Increasing(<<>>)
    BY DEF Model!Applied, Model!Increasing
  <2>2. Len(log) \in Nat
    BY Shapes DEF IInv
  <2> QED
    BY <1>2, <2>1, <2>2 DEF Extends, resume_position
<1>4. Extends(actor[a])'
  BY <1>1, <1>3, SameFields
<1>5. NoTransaction(actor'[a]) /\ ~actor'[a].locked /\ ~actor'[a].updated
  BY <1>1, <1>2 DEF NoTransaction
<1>6. \A b \in Actors \ {a} : SameTransaction(b)
  BY <1>1 DEF SameTransaction
<1> QED
  BY <1>4, <1>5, <1>6, TransactionStep DEF Exclusive

\* next_batch: the batch is what matches between the two cursors.
LEMMA NextBatchStep ==
  ASSUME IInv, TypeOK', NEW a \in Actors, next_batch(a)
  PROVE  IInv'
<1>m. /\ actor[a] \in Actor /\ actor \in [Actors -> Actor]
      /\ actor[a].cursor \in Nat /\ Len(log) \in Nat /\ DOMAIN log = 1 .. Len(log)
  BY Shapes DEF IInv, TypeOK
<1>1. PICK end \in actor[a].cursor + 1 .. Len(log) :
        actor' = [actor EXCEPT ![a] =
          [actor[a] EXCEPT !.cursor = end,
                           !.batch = Matching(actor[a].cursor, end)]]
  BY <1>m DEF next_batch
<1> DEFINE m == [actor[a] EXCEPT !.cursor = end,
                                 !.batch = Matching(actor[a].cursor, end)]
<1>2. UNCHANGED <<log, deleted, db, synced>> /\ actor'[a] = m
      /\ \A b \in Actors \ {a} : actor'[b] = actor[b]
  BY <1>m, <1>1 DEF next_batch
<1>3. /\ m.cursor = end /\ m.batch = Matching(actor[a].cursor, end)
      /\ m.last_position = actor[a].last_position /\ m.buffer = actor[a].buffer
      /\ m.locked = actor[a].locked /\ m.updated = actor[a].updated
      /\ m.conn = actor[a].conn /\ m.phase = "running"
  BY <1>m DEF Actor, next_batch
<1>4. /\ actor[a].cursor = resume_position(actor[a].last_position)
      /\ Extends(actor[a]) /\ Exclusive(a)
  BY DEF IInv, next_batch
<1> HIDE DEF m
<1>5. Extends(m)
  <2>1. Matching(actor[a].cursor, actor[a].cursor) = {}
    BY <1>m DEF Matching
  <2>2. Model!Applied(actor[a].buffer) = {} /\ Model!Increasing(actor[a].buffer)
    BY <1>4, <2>1 DEF Extends
  <2>3. \A p \in actor[a].cursor + 1 .. end :
          Model!Readable(p) => p \in Matching(actor[a].cursor, end)
    BY <1>m DEF Model!Readable, Matching
  <2> QED
    BY <1>m, <1>3, <1>4, <2>2, <2>3 DEF Extends
<1>6. Extends(actor[a])'
  BY <1>2, <1>5, SameFields
<1>7. ~actor[a].updated
  BY <1>4 DEF Exclusive
<1>8. Exclusive(a)'
  BY <1>2, <1>3, <1>4, <1>7 DEF Exclusive, LockFree
<1>9. \A b \in Actors \ {a} : SameTransaction(b)
  BY <1>2 DEF SameTransaction
<1> QED
  BY <1>2, <1>3, <1>6, <1>8, <1>9, TransactionStep

\* handle_event: one row more in the buffer, one event less in the batch.
LEMMA HandleEventStep ==
  ASSUME IInv, TypeOK', NEW a \in Actors, NEW p \in actor[a].batch,
         NEW access \in {"none", "read", "write"}, handle_event(a, p, access)
  PROVE  IInv'
<1> DEFINE l == actor[a].locked \/ access = "write"
           s == IF access # "none" /\ actor[a].snapshot = "none"
                  THEN "current" ELSE actor[a].snapshot
           m == [actor[a] EXCEPT !.batch = @ \ {p},
                   !.buffer = Append(actor[a].buffer, p), !.locked = l, !.snapshot = s]
<1>m. /\ actor[a] \in Actor /\ actor \in [Actors -> Actor]
      /\ actor[a].buffer \in Seq(Nat) /\ actor[a].batch \subseteq Nat
      /\ Extends(actor[a]) /\ Exclusive(a)
  BY Shapes DEF IInv, TypeOK, Actor
<1>1. UNCHANGED <<log, deleted, db, synced>> /\ actor' = [actor EXCEPT ![a] = m]
  BY <1>m DEF handle_event
<1>2. actor'[a] = m /\ \A b \in Actors \ {a} : actor'[b] = actor[b]
  BY <1>m, <1>1
<1> HIDE DEF l, s
<1>3. /\ m.cursor = actor[a].cursor /\ m.batch = actor[a].batch \ {p}
      /\ m.last_position = actor[a].last_position
      /\ m.buffer = Append(actor[a].buffer, p) /\ m.conn = actor[a].conn
      /\ m.updated = actor[a].updated /\ m.phase = "running" /\ m.locked = l
  BY <1>m DEF Actor, handle_event
<1> HIDE DEF m
<1>4. Extends(m)
  <2> DEFINE n == Len(actor[a].buffer)
  <2>1. /\ n \in Nat /\ DOMAIN actor[a].buffer = 1 .. n
        /\ DOMAIN m.buffer = 1 .. n + 1 /\ m.buffer[n + 1] = p
        /\ \A i \in 1 .. n : m.buffer[i] = actor[a].buffer[i]
    BY <1>m, <1>3, AppendProperties, LenProperties
  <2>2. \A i \in 1 .. n : actor[a].buffer[i] \in Nat /\ actor[a].buffer[i] < p
    <3>1. \A i \in 1 .. n : actor[a].buffer[i] \in Nat
      BY <1>m, ElementOfSeq
    <3>2. \A i \in 1 .. n : actor[a].buffer[i] \in Model!Applied(actor[a].buffer)
      BY <2>1 DEF Model!Applied
    <3> QED
      BY <1>m, <3>1, <3>2 DEF Extends
  <2>3. Model!Applied(m.buffer) = Model!Applied(actor[a].buffer) \cup {p}
    <3>1. \A q \in Model!Applied(m.buffer) :
            q \in Model!Applied(actor[a].buffer) \cup {p}
      BY <2>1 DEF Model!Applied
    <3>2. \A q \in Model!Applied(actor[a].buffer) : q \in Model!Applied(m.buffer)
      BY <2>1 DEF Model!Applied
    <3>3. p \in Model!Applied(m.buffer)
      BY <2>1 DEF Model!Applied
    <3> QED
      BY <3>1, <3>2, <3>3
  <2>4. Model!Increasing(m.buffer)
    <3>1. Model!Increasing(actor[a].buffer)
      BY <1>m DEF Extends
    <3>2. ASSUME NEW i \in 1 .. n + 1, NEW j \in 1 .. n + 1, i < j
          PROVE  m.buffer[i] < m.buffer[j]
      <4>1. i \in 1 .. n
        BY <2>1, <3>2
      <4>2. CASE j \in 1 .. n
        BY <2>1, <3>1, <3>2, <4>1, <4>2 DEF Model!Increasing
      <4>3. CASE j = n + 1
        BY <2>1, <2>2, <4>1, <4>3
      <4> QED
        BY <2>1, <4>2, <4>3
    <3> QED
      BY <2>1, <3>2 DEF Model!Increasing
  <2>5. \A x \in Model!Applied(m.buffer), q \in m.batch : x < q
    <3>1. \A q \in actor[a].batch : p <= q
      BY DEF handle_event, IsMin
    <3>2. \A x \in Model!Applied(actor[a].buffer), q \in actor[a].batch : x < q
      BY <1>m DEF Extends
    <3> QED
      BY <1>m, <1>3, <2>3, <3>1, <3>2
  <2>6. Model!Applied(m.buffer) \cup m.batch
          = Model!Applied(actor[a].buffer) \cup actor[a].batch
    BY <1>3, <2>3
  <2> QED
    BY <1>m, <1>3, <2>4, <2>5, <2>6 DEF Extends
<1>5. Extends(actor[a])'
  BY <1>1, <1>2, <1>4, SameFields
<1>6. Exclusive(a)'
  <2>1. ~actor[a].updated
    BY <1>m DEF Exclusive
  <2>2. l => LockFree(a)
    BY <1>m DEF l, Exclusive, handle_event, CanWrite
  <2> QED
    BY <1>2, <1>3, <2>1, <2>2 DEF Exclusive, LockFree
<1>7. \A b \in Actors \ {a} : SameTransaction(b)
  BY <1>2 DEF SameTransaction
<1> QED
  BY <1>1, <1>2, <1>3, <1>5, <1>6, <1>7, TransactionStep

\* skip_shredded: the event it drops cannot be read any more.
LEMMA SkipShreddedStep ==
  ASSUME IInv, TypeOK', NEW a \in Actors, NEW p \in actor[a].batch,
         skip_shredded(a, p)
  PROVE  IInv'
<1> DEFINE m == [actor[a] EXCEPT !.batch = @ \ {p}]
<1>m. /\ actor[a] \in Actor /\ actor \in [Actors -> Actor]
      /\ Extends(actor[a]) /\ Exclusive(a)
      /\ actor[a].cursor \in Nat /\ resume_position(actor[a].last_position) \in Nat
  BY Shapes DEF IInv, TypeOK
<1>1. UNCHANGED <<log, deleted, db, synced>> /\ actor' = [actor EXCEPT ![a] = m]
  BY <1>m DEF skip_shredded
<1>2. actor'[a] = m /\ \A b \in Actors \ {a} : actor'[b] = actor[b]
  BY <1>m, <1>1
<1>3. /\ m.cursor = actor[a].cursor /\ m.batch = actor[a].batch \ {p}
      /\ m.last_position = actor[a].last_position /\ m.buffer = actor[a].buffer
      /\ m.conn = actor[a].conn /\ m.updated = actor[a].updated
      /\ m.phase = "running" /\ m.locked = actor[a].locked
  BY <1>m DEF Actor, skip_shredded
<1> HIDE DEF m
<1>4. ~Model!Readable(p)
  <2>1. p \in DOMAIN log
    BY <1>m DEF Extends, Matching
  <2>2. log[p].key_id \in KeyIds
    BY <2>1, Shapes DEF IInv, skip_shredded
  <2>3. log[p].key_id \in Lost
    BY <2>2 DEF skip_shredded, Shredded, Lost
  <2> QED
    BY <2>3 DEF Model!Readable
<1>5. Extends(m)
  BY <1>m, <1>3, <1>4 DEF Extends
<1>6. Extends(actor[a])'
  BY <1>1, <1>2, <1>5, SameFields
<1>7. Exclusive(a)'
  <2>1. ~actor[a].updated
    BY <1>m DEF Exclusive
  <2> QED
    BY <1>m, <1>2, <1>3, <2>1 DEF Exclusive, LockFree
<1>8. \A b \in Actors \ {a} : SameTransaction(b)
  BY <1>2 DEF SameTransaction
<1> QED
  BY <1>1, <1>2, <1>3, <1>6, <1>7, <1>8, TransactionStep

\* update_position: under the writer lock, and only over the position it saw.
LEMMA UpdatePositionStep ==
  ASSUME IInv, TypeOK', NEW a \in Actors, update_position(a)
  PROVE  IInv'
<1> DEFINE m == [actor[a] EXCEPT !.updated = TRUE, !.locked = TRUE,
                                 !.snapshot = "current"]
<1>m. /\ actor[a] \in Actor /\ actor \in [Actors -> Actor]
      /\ Extends(actor[a]) /\ Exclusive(a)
  BY Shapes DEF IInv, TypeOK
<1>1. UNCHANGED <<log, deleted, db, synced>> /\ actor' = [actor EXCEPT ![a] = m]
  BY <1>m DEF update_position
<1>2. actor'[a] = m /\ \A b \in Actors \ {a} : actor'[b] = actor[b]
  BY <1>m, <1>1
<1>3. /\ m.cursor = actor[a].cursor /\ m.batch = actor[a].batch
      /\ m.last_position = actor[a].last_position /\ m.buffer = actor[a].buffer
      /\ m.conn = actor[a].conn /\ m.updated /\ m.locked
      /\ m.phase = actor[a].phase
  BY <1>m DEF Actor
<1> HIDE DEF m
<1>4. /\ actor[a].phase = "running" /\ actor[a].batch = {}
      /\ actor[a].cursor # resume_position(actor[a].last_position)
      /\ LockFree(a) /\ db[actor[a].conn].position = actor[a].last_position
  BY DEF update_position, BatchDone, CanWrite
<1>5. Extends(actor[a])'
  BY <1>m, <1>1, <1>2, <1>3, SameFields
<1>6. Exclusive(a)'
  BY <1>1, <1>2, <1>3, <1>4 DEF Exclusive, LockFree, resume_position
<1>7. \A b \in Actors \ {a} : SameTransaction(b)
  BY <1>2 DEF SameTransaction
<1> QED
  BY <1>1, <1>2, <1>3, <1>4, <1>5, <1>6, <1>7, TransactionStep

\* Rows put behind a table, all of later events, keep it in the order of the log.
LEMMA ConcatIncreasing ==
  ASSUME NEW s \in Seq(Nat), NEW t \in Seq(Nat),
         Model!Increasing(s), Model!Increasing(t),
         \A x \in Model!Applied(s), y \in Model!Applied(t) : x < y
  PROVE  /\ Model!Increasing(s \o t)
         /\ Model!Applied(s \o t) = Model!Applied(s) \cup Model!Applied(t)
<1> DEFINE n == Len(s)
           k == Len(t)
           c == s \o t
<1>1. /\ n \in Nat /\ k \in Nat /\ DOMAIN s = 1 .. n /\ DOMAIN t = 1 .. k
      /\ DOMAIN c = 1 .. n + k
      /\ \A i \in 1 .. n : c[i] = s[i]
      /\ \A i \in n + 1 .. n + k : c[i] = t[i - n]
  <2>1. n \in Nat /\ k \in Nat /\ DOMAIN s = 1 .. n /\ DOMAIN t = 1 .. k
    BY LenProperties
  <2>2. c \in Seq(Nat) /\ Len(c) = n + k
    BY ConcatProperties
  <2>3. \A i \in 1 .. n + k : c[i] = IF i <= n THEN s[i] ELSE t[i - n]
    BY ConcatProperties
  <2>4. DOMAIN c = 1 .. n + k
    BY <2>2, LenProperties
  <2> HIDE DEF n, k, c
  <2> QED
    BY <2>1, <2>3, <2>4
<1> HIDE DEF n, k, c
<1>2. /\ \A i \in 1 .. n : s[i] \in Model!Applied(s)
      /\ \A i \in n + 1 .. n + k : i - n \in 1 .. k /\ t[i - n] \in Model!Applied(t)
  <2>1. \A i \in 1 .. k : t[i] \in Model!Applied(t)
    BY <1>1 DEF Model!Applied
  <2>2. \A i \in n + 1 .. n + k : i - n \in 1 .. k
    BY <1>1
  <2>3. \A i \in 1 .. n : s[i] \in Model!Applied(s)
    BY <1>1 DEF Model!Applied
  <2> QED
    BY <2>1, <2>2, <2>3
<1>3. Model!Applied(c) = Model!Applied(s) \cup Model!Applied(t)
  <2>1. ASSUME NEW x \in Model!Applied(c)
        PROVE  x \in Model!Applied(s) \cup Model!Applied(t)
    <3>1. PICK i \in 1 .. n + k : x = c[i]
      BY <1>1 DEF Model!Applied
    <3>2. i \in 1 .. n \/ i \in n + 1 .. n + k
      BY <1>1
    <3> QED
      BY <1>1, <1>2, <3>1, <3>2
  <2>2. ASSUME NEW x \in Model!Applied(s) PROVE x \in Model!Applied(c)
    <3>1. PICK i \in 1 .. n : x = s[i]
      BY <1>1 DEF Model!Applied
    <3>2. i \in 1 .. n + k /\ c[i] = x
      BY <1>1, <3>1
    <3> QED
      BY <1>1, <3>2 DEF Model!Applied
  <2>3. ASSUME NEW x \in Model!Applied(t) PROVE x \in Model!Applied(c)
    <3>1. PICK i \in 1 .. k : x = t[i]
      BY <1>1 DEF Model!Applied
    <3>2. n + i \in n + 1 .. n + k /\ (n + i) - n = i
      BY <1>1
    <3>3. n + i \in 1 .. n + k /\ c[n + i] = x
      BY <1>1, <3>1, <3>2
    <3> QED
      BY <1>1, <3>3 DEF Model!Applied
  <2> QED
    BY <2>1, <2>2, <2>3
<1>4. Model!Increasing(c)
  <2>1. ASSUME NEW i \in 1 .. n + k, NEW j \in 1 .. n + k, i < j
        PROVE  c[i] < c[j]
    <3>1. CASE j \in 1 .. n
      <4>1. i \in 1 .. n
        BY <1>1, <2>1, <3>1
      <4> QED
        BY <1>1, <2>1, <3>1, <4>1 DEF Model!Increasing
    <3>2. CASE i \in 1 .. n /\ j \in n + 1 .. n + k
      BY <1>1, <1>2, <3>2
    <3>3. CASE i \in n + 1 .. n + k
      <4>1. j \in n + 1 .. n + k /\ i - n < j - n
        BY <1>1, <2>1, <3>3
      <4> QED
        BY <1>1, <1>2, <3>3, <4>1 DEF Model!Increasing
    <3> QED
      BY <1>1, <2>1, <3>1, <3>2, <3>3
  <2> QED
    BY <1>1, <2>1 DEF Model!Increasing
<1> QED
  BY <1>3, <1>4 DEF c

\* commit: the batch's rows and the position it moves to reach the database
\* together, and the writer lock kept every other transaction off the file.
LEMMA CommitStep ==
  ASSUME IInv, TypeOK', NEW a \in Actors, commit(a)
  PROVE  IInv'
<1> DEFINE f == actor[a].conn
           from == resume_position(actor[a].last_position)
           t == db[f].table \o actor[a].buffer
           d == [db[f] EXCEPT !.position = actor[a].cursor, !.table = t]
           m == [actor[a] EXCEPT !.last_position = actor[a].cursor,
                   !.snapshot = "none", !.locked = FALSE, !.updated = FALSE,
                   !.buffer = <<>>]
<1>m. /\ actor[a] \in Actor /\ f \in Files /\ db \in [Files -> Database]
      /\ db[f] \in Database /\ db[f].table \in Seq(Nat)
      /\ actor[a].buffer \in Seq(Nat) /\ actor[a].cursor \in Nat /\ from \in Nat
      /\ Len(log) \in Nat
  BY Shapes DEF IInv, TypeOK
<1>0. /\ actor[a].updated /\ actor[a].batch = {} /\ actor[a].locked
      /\ db[f].position = actor[a].last_position /\ LockFree(a)
      /\ actor[a].phase = "running" /\ Extends(actor[a]) /\ Faithful(db[f])
  BY <1>m DEF IInv, Exclusive, NoTransaction, commit
<1>1. /\ UNCHANGED <<log, deleted, synced>> /\ actor' = Committed(a, m)
      /\ db' = [db EXCEPT ![f] = d]
  BY <1>m DEF commit
<1>2. actor'[a] = m /\ db'[f] = d /\ \A g \in Files \ {f} : db'[g] = db[g]
  BY <1>m, <1>1 DEF Committed
<1> HIDE DEF t
<1>3. /\ m.last_position = actor[a].cursor /\ m.cursor = actor[a].cursor
      /\ m.batch = {} /\ m.buffer = <<>> /\ ~m.locked /\ ~m.updated
      /\ m.phase = "running"
      /\ d.position = actor[a].cursor /\ d.table = t
  BY <1>m, <1>0 DEF Actor, Database
<1>4. resume_position(actor[a].cursor) = actor[a].cursor
  BY <1>m DEF resume_position, None
<1> HIDE DEF m, d
<1>5. /\ from <= actor[a].cursor /\ actor[a].cursor <= Len(log)
      /\ Model!Increasing(actor[a].buffer) /\ Model!Increasing(db[f].table)
      /\ Model!Applied(db[f].table) \subseteq Matching(0, from)
      /\ Model!Applied(actor[a].buffer) \subseteq Matching(from, actor[a].cursor)
      /\ \A p \in 1 .. from : Model!Readable(p) => p \in Model!Applied(db[f].table)
      /\ \A p \in from + 1 .. actor[a].cursor :
           Model!Readable(p) => p \in Model!Applied(actor[a].buffer)
  BY <1>0 DEF Extends, Faithful
<1>6. /\ Model!Increasing(t)
      /\ Model!Applied(t)
           = Model!Applied(db[f].table) \cup Model!Applied(actor[a].buffer)
  <2>1. \A x \in Model!Applied(db[f].table), y \in Model!Applied(actor[a].buffer) :
          x < y
    BY <1>m, <1>5 DEF Matching
  <2> QED
    BY <1>m, <1>5, <2>1, ConcatIncreasing DEF t
<1>7. Faithful(d)
  <2>1. Model!Applied(t) \subseteq Matching(0, actor[a].cursor)
    <3>1. /\ Matching(0, from) \subseteq Matching(0, actor[a].cursor)
          /\ Matching(from, actor[a].cursor) \subseteq Matching(0, actor[a].cursor)
      BY <1>m, <1>5 DEF Matching
    <3> QED
      BY <1>5, <1>6, <3>1
  <2>2. \A p \in 1 .. actor[a].cursor : Model!Readable(p) => p \in Model!Applied(t)
    <3> TAKE p \in 1 .. actor[a].cursor
    <3>1. p \in 1 .. from \/ p \in from + 1 .. actor[a].cursor
      BY <1>m
    <3> QED
      BY <1>5, <1>6, <3>1
  <2> QED
    BY <1>3, <1>4, <1>5, <1>6, <2>1, <2>2 DEF Faithful
<1>8. \A g \in Files : Faithful(db[g])' /\ Faithful(synced[g])'
  <2>1. \A g \in Files : Faithful(synced[g]) /\ Faithful(db[g])
    BY DEF IInv
  <2>2. \A g \in Files : Faithful(synced[g])'
    BY <1>1, <2>1, SameFields
  <2>3. \A g \in Files \ {f} : Faithful(db[g])'
    <3> TAKE g \in Files \ {f}
    <3>1. Faithful(db[g]) /\ db'[g] = db[g]
      BY <1>2, <2>1
    <3> QED
      BY <1>1, <3>1, SameFields
  <2>4. ASSUME NEW g \in Files, g = f PROVE Faithful(db[g])'
    <3>1. db'[g].position = d.position /\ db'[g].table = d.table
      BY <1>2, <2>4
    <3> QED
      BY <1>1, <1>7, <3>1, SameFields
  <2>5. \A g \in Files : Faithful(db[g])'
    BY <2>3, <2>4
  <2> QED
    BY <2>2, <2>5
<1>9. Extends(actor[a])'
  <2>1. Model!Applied(<<>>) = {} /\ Model!Increasing(<<>>)
    BY DEF Model!Applied, Model!Increasing
  <2>2. Extends(m)
    BY <1>m, <1>3, <1>4, <1>5, <2>1 DEF Extends
  <2> QED
    BY <1>1, <1>2, <2>2, SameFields
<1>10. \A b \in Actors \ {a} : SameTransaction(b)
  <2> TAKE b \in Actors \ {a}
  <2>1. actor[b] \in Actor
    BY Shapes DEF IInv
  <2>2. \/ actor'[b] = actor[b]
        \/ actor'[b] = [actor[b] EXCEPT !.snapshot = "stale"]
    BY <1>1 DEF Committed
  <2> QED
    BY <2>1, <2>2 DEF SameTransaction, Actor
<1>11. \A b \in Actors \ {a} : Extends(actor[b])'
  <2> TAKE b \in Actors \ {a}
  <2>1. Extends(actor[b]) /\ SameTransaction(b)
    BY <1>10 DEF IInv
  <2> QED
    BY <1>1, <2>1, SameFields DEF SameTransaction
<1>12. \A b \in Actors : Exclusive(b)'
  <2>1. Exclusive(a)'
    BY <1>2, <1>3 DEF Exclusive
  <2>2. ASSUME NEW b \in Actors \ {a} PROVE Exclusive(b)'
    <3>1. SameTransaction(b) /\ Exclusive(b) /\ actor[b].conn \in Files
      BY <1>10, Shapes DEF IInv
    <3>2. actor'[b].locked => LockFree(b)'
      BY <1>2, <1>3, <1>10, <3>1 DEF Exclusive, LockFree, SameTransaction
    <3>3. actor[b].updated => actor[b].conn # f
      BY <1>0, <3>1 DEF Exclusive, LockFree
    <3>4. actor[b].updated => db'[actor[b].conn] = db[actor[b].conn]
      BY <1>2, <3>1, <3>3
    <3>5. actor'[b].updated =>
            /\ actor'[b].batch = {} /\ actor'[b].locked
            /\ actor'[b].cursor # resume_position(actor'[b].last_position)
            /\ db'[actor'[b].conn].position = actor'[b].last_position
      BY <3>1, <3>4 DEF Exclusive, SameTransaction, resume_position
    <3> QED
      BY <3>2, <3>5 DEF Exclusive, resume_position
  <2> QED
    BY <2>1, <2>2
<1>13. \A b \in Actors : actor'[b].phase # "running" => NoTransaction(actor'[b])
  BY <1>2, <1>3, <1>10 DEF IInv, NoTransaction, SameTransaction
<1>14. \A b \in Actors : Extends(actor[b])'
  BY <1>9, <1>11
<1> QED
  BY <1>8, <1>12, <1>13, <1>14 DEF IInv, NoTransaction

\* power_loss: the files go back to what had reached the disk.
LEMMA PowerLossStep ==
  ASSUME IInv, TypeOK', power_loss
  PROVE  IInv'
<1>1. /\ UNCHANGED <<log, deleted, synced>> /\ db' = synced
      /\ \A a \in Actors : actor'[a] = NotRunning
  BY DEF power_loss
<1>2. \A f \in Files : Faithful(db[f])' /\ Faithful(synced[f])'
  BY <1>1, SameFields DEF IInv
<1>3. /\ NotRunning.last_position = None /\ NotRunning.cursor = 0
      /\ NotRunning.batch = {} /\ ~NotRunning.locked
      /\ ~NotRunning.updated /\ NotRunning.buffer = <<>>
  BY DEF NotRunning
<1>4. Extends(NotRunning)
  <2>1. Model!Applied(<<>>) = {} /\ Model!Increasing(<<>>)
    BY DEF Model!Applied, Model!Increasing
  <2>2. Len(log) \in Nat
    BY Shapes DEF IInv
  <2> QED
    BY <1>3, <2>1, <2>2 DEF Extends, resume_position
<1>5. \A a \in Actors : Extends(actor[a])'
  BY <1>1, <1>4, SameFields
<1>6. \A a \in Actors : NoTransaction(actor'[a]) /\ Exclusive(a)'
  BY <1>1, <1>3 DEF NoTransaction, Exclusive
<1> QED
  BY <1>2, <1>5, <1>6 DEF IInv, NoTransaction

\* checkpoint: a file on disk catches up with its commits.
LEMMA CheckpointStep ==
  ASSUME IInv, TypeOK', NEW f \in Files, checkpoint(f)
  PROVE  IInv'
<1>1. /\ UNCHANGED <<log, deleted, db, actor>>
      /\ \A g \in Files : synced'[g] = synced[g] \/ synced'[g] = db[g]
  BY DEF checkpoint, IInv, TypeOK
<1>2. \A g \in Files : Faithful(db[g])' /\ Faithful(synced[g])'
  <2>1. \A g \in Files : Faithful(db[g]) /\ Faithful(synced[g])
    BY DEF IInv
  <2> QED
    BY <1>1, <2>1, SameFields
<1>3. \A a \in Actors : Extends(actor[a])'
  BY <1>1, SameFields DEF IInv
<1>4. \A a \in Actors : Exclusive(a)'
  BY <1>1 DEF IInv, Exclusive, LockFree, resume_position
<1> QED
  BY <1>1, <1>2, <1>3, <1>4 DEF IInv, NoTransaction

\* No file has a position, no actor runs.
LEMMA InitInvariant == Init => IInv
<1> SUFFICES ASSUME Init PROVE IInv
  OBVIOUS
<1>1. Len(log) = 0 /\ DOMAIN log = {}
  BY DEF Init
<1>2. Model!Applied(<<>>) = {} /\ Model!Increasing(<<>>)
  BY DEF Model!Applied, Model!Increasing
<1>3. \A f \in Files : /\ db[f].position = None /\ db[f].table = <<>>
                       /\ synced[f] = db[f]
  BY DEF Init
<1>4. \A f \in Files : Faithful(db[f]) /\ Faithful(synced[f])
  BY <1>1, <1>2, <1>3 DEF Faithful, resume_position
<1>5. \A a \in Actors : actor[a] = NotRunning
  BY DEF Init
<1>6. /\ NotRunning.last_position = None /\ NotRunning.cursor = 0
      /\ NotRunning.batch = {} /\ ~NotRunning.locked
      /\ ~NotRunning.updated /\ NotRunning.buffer = <<>>
  BY DEF NotRunning
<1>7. Extends(NotRunning)
  BY <1>1, <1>2, <1>6 DEF Extends, resume_position
<1> QED
  BY InitType, <1>4, <1>5, <1>6, <1>7 DEF IInv, NoTransaction, Exclusive

\* Every step keeps the invariant.
LEMMA NextInvariant == IInv /\ [Next]_vars => IInv'
<1> SUFFICES ASSUME IInv, [Next]_vars PROVE IInv'
  OBVIOUS
<1>t. TypeOK /\ TypeOK' /\ Lost \subseteq Lost'
  BY NextType, LostGrows DEF IInv
<1>n. Len(log) \in Nat /\ DOMAIN log = 1 .. Len(log)
  BY <1>t, Shapes
<1>1. ASSUME NEW e \in Event, append(e) PROVE IInv'
  <2>1. Len(log') = Len(log) + 1 /\ \A p \in 1 .. Len(log) : log'[p] = log[p]
    BY <1>1, <1>t, AppendProperties DEF append, TypeOK
  <2> QED
    BY <1>1, <1>t, <1>n, <2>1, EnvironmentStep DEF append
<1>2. ASSUME NEW k \in KeyIds, delete_crypto_key(k) PROVE IInv'
  BY <1>2, <1>t, <1>n, EnvironmentStep DEF delete_crypto_key
<1>3. ASSUME NEW a \in Actors,
             \E major \in Majors, reset_db \in BOOLEAN :
               open_database(a, major, reset_db)
      PROVE  IInv'
  BY <1>3, <1>t, OpenStep
<1>4. ASSUME NEW a \in Actors, Run(a) PROVE IInv'
  <2>1. CASE replace_database(a)
    BY <2>1, <1>t, OpenStep
  <2>2. CASE insert_meta(a) \/ construct(a) \/ next_batch(a)
    BY <2>2, <1>t, InsertMetaStep, ConstructStep, NextBatchStep
  <2>3. CASE \E p \in actor[a].batch :
               \/ \E access \in {"none", "read", "write"} : handle_event(a, p, access)
               \/ skip_shredded(a, p)
    BY <2>3, <1>t, HandleEventStep, SkipShreddedStep
  <2>4. CASE update_position(a) \/ commit(a)
    BY <2>4, <1>t, UpdatePositionStep, CommitStep
  <2>5. CASE concurrent_modification(a) \/ database_busy(a)
    BY <2>5, <1>t, StopStep DEF concurrent_modification, database_busy
  <2> QED
    BY <1>4, <2>1, <2>2, <2>3, <2>4, <2>5 DEF Run, Access
<1>5. ASSUME NEW a \in Actors, die(a) PROVE IInv'
  BY <1>5, <1>t, StopStep DEF die
<1>6. ASSUME NEW f \in Files, checkpoint(f) PROVE IInv'
  BY <1>6, <1>t, CheckpointStep
<1>7. CASE power_loss
  BY <1>7, <1>t, PowerLossStep
<1>8. CASE UNCHANGED vars
  <2>1. UNCHANGED <<log, deleted, db, synced, actor>>
    BY <1>8 DEF vars
  <2> QED
    BY <1>t, <1>n, <2>1, EnvironmentStep
<1> QED
  BY <1>1, <1>2, <1>3, <1>4, <1>5, <1>6, <1>7, <1>8 DEF Next

\* However incarnations of a projector overlap, fail, restart and lose power,
\* each of its databases reflects every event once, in the order of the log, up
\* to the position stored with it.
THEOREM ProjectorExactlyOnce == Spec => []ExactlyOnce
<1>1. IInv => ExactlyOnce
  BY DEF IInv, ExactlyOnce
<1> QED
  BY <1>1, InitInvariant, NextInvariant, PTL DEF Spec

-----------------------------------------------------------------------------
(* Projector implements ReadModel *)

\* s is the database d, or what d was at an earlier commit.
Earlier(s, d) ==
  LET upto == resume_position(s.position)
  IN /\ upto <= resume_position(d.position)
     /\ Len(s.table) <= Len(d.table)
     /\ \A i \in DOMAIN s.table : s.table[i] = d.table[i]
     /\ \A i \in DOMAIN d.table : i \in DOMAIN s.table <=> d.table[i] <= upto

\* What a power failure returns to is an earlier commit.
RInv == IInv /\ \A f \in Files : Earlier(synced[f], db[f])

\* A database is its own last commit: no row is past its position.
LEMMA EarlierItself ==
  ASSUME IInv, NEW d \in Database, Faithful(d)
  PROVE  Earlier(d, d)
<1>1. /\ d.table \in Seq(Nat) /\ resume_position(d.position) \in Nat
      /\ Len(log) \in Nat
  BY Shapes DEF IInv, Database, resume_position, None
<1>2. Len(d.table) \in Nat
  BY <1>1, LenProperties
<1>3. \A i \in DOMAIN d.table : d.table[i] <= resume_position(d.position)
  <2>1. Model!Applied(d.table) \subseteq Matching(0, resume_position(d.position))
    BY DEF Faithful
  <2>2. \A i \in DOMAIN d.table : d.table[i] \in Model!Applied(d.table)
    BY DEF Model!Applied
  <2> QED
    BY <1>1, <2>1, <2>2 DEF Matching
<1> QED
  BY <1>1, <1>2, <1>3 DEF Earlier

LEMMA FilesEarlierThemselves ==
  ASSUME IInv, NEW f \in Files
  PROVE  Earlier(db[f], db[f]) /\ Earlier(synced[f], synced[f])
<1>1. /\ db[f] \in Database /\ synced[f] \in Database
      /\ Faithful(db[f]) /\ Faithful(synced[f])
  BY DEF IInv, TypeOK
<1>2. Earlier(db[f], db[f])
  BY <1>1, EarlierItself
<1>3. Earlier(synced[f], synced[f])
  BY <1>1, EarlierItself
<1> QED
  BY <1>2, <1>3

\* A commit: position and rows of one file move on together, by the events
\* between the two positions, and what is on disk is still an earlier commit.
LEMMA CommitAdvances ==
  ASSUME RInv, TypeOK', NEW a \in Actors, commit(a)
  PROVE  /\ Model!Advance(actor[a].conn)
         /\ \A g \in Files : Earlier(synced[g], db[g])'
<1> DEFINE f == actor[a].conn
           from == resume_position(actor[a].last_position)
           to == actor[a].cursor
           old == db[f].table
           new == old \o actor[a].buffer
<1>i. IInv
  BY DEF RInv
<1>m. /\ actor[a] \in Actor /\ f \in Files /\ db \in [Files -> Database]
      /\ db[f] \in Database /\ old \in Seq(Nat) /\ actor[a].buffer \in Seq(Nat)
      /\ to \in Nat /\ from \in Nat /\ Len(log) \in Nat
  BY <1>i, Shapes DEF IInv, TypeOK
<1>0. /\ actor[a].updated /\ actor[a].batch = {} /\ to # from
      /\ db[f].position = actor[a].last_position
      /\ Extends(actor[a]) /\ Faithful(db[f])
  BY <1>i, <1>m DEF IInv, Exclusive, commit
<1>1. /\ UNCHANGED <<log, deleted, synced>>
      /\ db' = [db EXCEPT ![f] = [db[f] EXCEPT !.position = to, !.table = new]]
  BY <1>m DEF commit
<1>2. /\ db'[f].position = to /\ db'[f].table = new
      /\ \A g \in Files \ {f} : db'[g] = db[g]
  <2>1. db'[f] = [db[f] EXCEPT !.position = to, !.table = new]
    BY <1>m, <1>1
  <2> HIDE DEF new
  <2>2. db'[f].position = to /\ db'[f].table = new
    BY <1>m, <2>1 DEF Database
  <2> QED
    BY <1>m, <1>1, <2>2
<1>3. /\ from <= to /\ to <= Len(log) /\ Model!Increasing(actor[a].buffer)
      /\ Model!Increasing(old)
      /\ Model!Applied(old) \subseteq Matching(0, from)
      /\ Model!Applied(actor[a].buffer) \subseteq Matching(from, to)
      /\ \A p \in from + 1 .. to :
           Model!Readable(p) => p \in Model!Applied(actor[a].buffer)
  BY <1>0 DEF Extends, Faithful
<1>4. /\ Model!Increasing(new)
      /\ Model!Applied(new) = Model!Applied(old) \cup Model!Applied(actor[a].buffer)
  <2>1. \A x \in Model!Applied(old), y \in Model!Applied(actor[a].buffer) : x < y
    BY <1>m, <1>3 DEF Matching
  <2> QED
    BY <1>m, <1>3, <2>1, ConcatIncreasing
<1>5. /\ Len(old) \in Nat /\ DOMAIN old = 1 .. Len(old)
      /\ Len(new) \in Nat /\ DOMAIN new = 1 .. Len(new) /\ Len(old) <= Len(new)
      /\ \A i \in 1 .. Len(old) : new[i] = old[i]
      /\ \A i \in Len(old) + 1 .. Len(new) : new[i] \in Model!Applied(actor[a].buffer)
  <2>1. /\ new \in Seq(Nat) /\ Len(new) = Len(old) + Len(actor[a].buffer)
        /\ \A i \in 1 .. Len(old) + Len(actor[a].buffer) :
             new[i] = IF i <= Len(old) THEN old[i]
                                       ELSE actor[a].buffer[i - Len(old)]
    BY <1>m, ConcatProperties
  <2>2. /\ Len(old) \in Nat /\ DOMAIN old = 1 .. Len(old)
        /\ Len(actor[a].buffer) \in Nat
        /\ DOMAIN actor[a].buffer = 1 .. Len(actor[a].buffer)
        /\ DOMAIN new = 1 .. Len(new)
    BY <1>m, <2>1, LenProperties
  <2> HIDE DEF old, new
  <2>3. ASSUME NEW i \in Len(old) + 1 .. Len(new)
        PROVE  new[i] \in Model!Applied(actor[a].buffer)
    <3>1. /\ i - Len(old) \in DOMAIN actor[a].buffer
          /\ new[i] = actor[a].buffer[i - Len(old)]
      BY <2>1, <2>2
    <3> QED
      BY <3>1 DEF Model!Applied
  <2> QED
    BY <2>1, <2>2, <2>3
<1>6. /\ Model!Upto(db[f].position) = from /\ Model!Upto(db'[f].position) = to
      /\ resume_position(to) = to
  BY <1>m, <1>0, <1>2 DEF Model!Upto, resume_position, None
<1> HIDE DEF new, old, from, to, f
<1>7. Model!Advance(f)
  <2>1. db[f].table = old
    BY DEF old
  <2>2. from < to
    BY <1>m, <1>0, <1>3
  <2>4. Model!Applied(new) \ Model!Applied(old) \subseteq Matching(from, to)
    BY <1>3, <1>4
  <2>5. \A p \in Matching(from, to) : Model!Readable(p) =>
          p \in Model!Applied(new) \ Model!Applied(old)
    <3> SUFFICES ASSUME NEW p \in Matching(from, to), Model!Readable(p)
                 PROVE  p \in Model!Applied(new) \ Model!Applied(old)
      OBVIOUS
    <3>1. p \in from + 1 .. to /\ p \notin Matching(0, from)
      BY <1>m DEF Matching
    <3> QED
      BY <1>3, <1>4, <3>1
  <2>6. \A g \in Files \ {f} :
          db'[g].position = db[g].position /\ db'[g].table = db[g].table
    BY <1>2
  <2>7. UNCHANGED <<log, Lost>>
    BY <1>1 DEF Lost
  <2> QED
    BY <1>2, <1>3, <1>4, <1>5, <1>6, <2>1, <2>2, <2>4, <2>5, <2>6, <2>7
       DEF Model!Advance, Model!Keep, Model!Matching, Matching
<1>8. ASSUME NEW g \in Files, g = f PROVE Earlier(synced[g], db[g])'
  <2> DEFINE s == synced[f]
             upto == resume_position(s.position)
  <2>1. Earlier(s, db[f]) /\ s \in Database
    BY <1>m DEF RInv, IInv, TypeOK
  <2>2. /\ upto \in Nat /\ s.table \in Seq(Nat) /\ Len(s.table) \in Nat
        /\ DOMAIN s.table = 1 .. Len(s.table)
    BY <2>1, LenProperties DEF Database, resume_position, None
  <2>3. /\ upto <= from /\ Len(s.table) <= Len(old)
        /\ \A i \in DOMAIN s.table : s.table[i] = old[i]
        /\ \A i \in DOMAIN old : i \in DOMAIN s.table <=> old[i] <= upto
    BY <1>0, <2>1 DEF Earlier, old, from
  <2>4. \A i \in Len(old) + 1 .. Len(new) : ~(new[i] <= upto)
    BY <1>m, <1>3, <1>5, <2>2, <2>3 DEF Matching
  <2> HIDE DEF s, upto
  <2>5. \A i \in DOMAIN new : i \in DOMAIN s.table <=> new[i] <= upto
    <3> TAKE i \in DOMAIN new
    <3>1. i \in 1 .. Len(old) \/ i \in Len(old) + 1 .. Len(new)
      BY <1>5
    <3> QED
      BY <1>5, <2>2, <2>3, <2>4, <3>1
  <2>6. \A i \in DOMAIN s.table : s.table[i] = new[i]
    BY <1>5, <2>2, <2>3
  <2>7. upto <= to /\ Len(s.table) <= Len(new)
    BY <1>m, <1>3, <1>5, <2>2, <2>3
  <2>8. Earlier(s, db'[f])
    BY <1>2, <1>6, <2>5, <2>6, <2>7 DEF Earlier, upto
  <2> QED
    BY <1>1, <1>8, <2>8 DEF Earlier, s, resume_position
<1>9. \A g \in Files \ {f} : Earlier(synced[g], db[g])'
  BY <1>1, <1>2 DEF RInv, Earlier, resume_position
<1> QED
  <2>1. \A g \in Files : Earlier(synced[g], db[g])'
    BY <1>8, <1>9
  <2> QED
    BY <1>7, <2>1 DEF f

\* Init of the model: no file has a position or a row.
LEMMA InitRefines == Init => RInv /\ Model!Init
<1> SUFFICES ASSUME Init PROVE RInv /\ Model!Init
  OBVIOUS
<1>1. IInv
  BY InitInvariant
<1>2. \A f \in Files : Earlier(synced[f], db[f])
  BY <1>1, FilesEarlierThemselves DEF Init
<1>3. Model!Init
  BY DEF Init, Model!Init
<1> QED
  BY <1>1, <1>2, <1>3 DEF RInv

\* A step that leaves the files alone keeps what is on disk an earlier commit.
LEMMA SameFiles ==
  ASSUME RInv, UNCHANGED <<db, synced>>
  PROVE  \A f \in Files : Earlier(synced[f], db[f])'
BY DEF RInv, Earlier, resume_position

\* insert_meta commits the version a module was started with; neither position
\* nor rows change, which the model sees as the return to the last commit.
LEMMA InsertMetaRewinds ==
  ASSUME RInv, TypeOK', NEW a \in Actors, insert_meta(a)
  PROVE  /\ Model!Rewind
         /\ \A f \in Files : Earlier(synced[f], db[f])'
<1>1. /\ UNCHANGED <<log, deleted, synced>> /\ IInv
      /\ \A f \in Files : db'[f].position = db[f].position /\ db'[f].table = db[f].table
  <2>1. /\ \A f \in Files : db[f] \in Database
        /\ db \in [Files -> Database] /\ actor[a].conn \in Files
    BY Shapes DEF RInv, IInv, TypeOK
  <2>2. \A f \in Files : \/ db'[f] = db[f]
                          \/ db'[f] = [db[f] EXCEPT !.major = actor[a].major]
    BY <2>1 DEF insert_meta
  <2>3. \A f \in Files : db'[f].position = db[f].position /\ db'[f].table = db[f].table
    BY <2>1, <2>2 DEF Database
  <2> QED
    BY <2>3 DEF insert_meta, RInv
<1>2. \A f \in Files : Earlier(synced[f], db[f]) /\ Earlier(db[f], db[f])
  BY <1>1, FilesEarlierThemselves DEF RInv
<1>3. Model!Rewind
  <2>1. \A f \in Files : Model!Upto(db'[f].position) = Model!Upto(db[f].position)
                       /\ Model!Upto(db[f].position) = resume_position(db[f].position)
    BY <1>1 DEF Model!Upto, resume_position
  <2> QED
    BY <1>1, <1>2, <2>1 DEF Model!Rewind, Earlier, Lost
<1>4. \A f \in Files : Earlier(synced[f], db[f])'
  BY <1>1, <1>2 DEF Earlier, resume_position
<1> QED
  BY <1>3, <1>4

\* A power failure takes every file back to an earlier commit.
LEMMA PowerLossRewinds ==
  ASSUME RInv, TypeOK', power_loss
  PROVE  /\ Model!Rewind
         /\ \A f \in Files : Earlier(synced[f], db[f])'
<1>1. UNCHANGED <<log, deleted, synced>> /\ db' = synced
  BY DEF power_loss
<1>2. \A f \in Files : Earlier(synced[f], db[f])
  BY DEF RInv
<1>3. Model!Rewind
  <2>1. \A f \in Files :
          /\ Model!Upto(db'[f].position) = resume_position(synced[f].position)
          /\ Model!Upto(db[f].position) = resume_position(db[f].position)
    BY <1>1 DEF Model!Upto, resume_position
  <2> QED
    BY <1>1, <1>2, <2>1 DEF Model!Rewind, Earlier, Lost
<1>4. \A f \in Files : Earlier(synced[f], db[f])'
  <2>1. \A f \in Files : Earlier(synced[f], synced[f])
    BY FilesEarlierThemselves DEF RInv
  <2> QED
    BY <1>1, <2>1 DEF Earlier, resume_position
<1> QED
  BY <1>3, <1>4

\* checkpoint: what is on disk is now the last commit.
LEMMA CheckpointEarlier ==
  ASSUME RInv, NEW g \in Files, checkpoint(g)
  PROVE  \A f \in Files : Earlier(synced[f], db[f])'
<1>1. db' = db /\ \A f \in Files : synced'[f] = synced[f] \/ synced'[f] = db[f]
  BY DEF checkpoint, RInv, IInv, TypeOK
<1>2. \A f \in Files : Earlier(synced[f], db[f]) /\ Earlier(db[f], db[f])
  BY FilesEarlierThemselves DEF RInv
<1> QED
  BY <1>1, <1>2 DEF Earlier, resume_position

\* Every step of Projector is a step of the model or leaves its state alone.
LEMMA NextRefines ==
  RInv /\ [Next]_vars => RInv' /\ [Model!Next]_(Model!vars)
<1> SUFFICES ASSUME RInv, [Next]_vars PROVE RInv' /\ [Model!Next]_(Model!vars)
  OBVIOUS
<1> DEFINE Kept == \A f \in Files : Earlier(synced[f], db[f])'
<1>i. IInv' /\ TypeOK' /\ Lost \subseteq Lost'
  BY NextInvariant, LostGrows DEF RInv, IInv
<1>n. Len(log) \in Nat /\ DOMAIN log = 1 .. Len(log)
  BY Shapes DEF RInv, IInv
<1>s. ASSUME UNCHANGED <<log, deleted, db>> PROVE UNCHANGED Model!vars
  BY <1>s DEF Model!vars, Lost
<1>1. ASSUME NEW e \in Event, append(e) PROVE Kept /\ Model!Next
  <2>1. Len(log') = Len(log) + 1 /\ \A p \in 1 .. Len(log) : log'[p] = log[p]
    BY <1>1, AppendProperties DEF append, RInv, IInv, TypeOK
  <2>2. Model!Environment
    BY <1>1, <1>i, <1>n, <2>1 DEF Model!Environment, append
  <2> QED
    BY <1>1, <2>2, SameFiles DEF append, Model!Next
<1>2. ASSUME NEW k \in KeyIds, delete_crypto_key(k) PROVE Kept /\ Model!Next
  <2>1. Model!Environment
    BY <1>2, <1>i, <1>n DEF Model!Environment, delete_crypto_key
  <2> QED
    BY <1>2, <2>1, SameFiles DEF delete_crypto_key, Model!Next
<1>3. ASSUME NEW a \in Actors, NEW major \in Majors, NEW reset_db \in BOOLEAN,
             open_database(a, major, reset_db)
      PROVE  Kept /\ UNCHANGED Model!vars
  BY <1>3, <1>s, SameFiles DEF open_database
<1>4. ASSUME NEW a \in Actors, Run(a) \/ die(a)
      PROVE  Kept /\ [Model!Next]_(Model!vars)
  <2>1. CASE replace_database(a) \/ construct(a) \/ next_batch(a)
    BY <2>1, <1>s, SameFiles DEF replace_database, construct, next_batch
  <2>2. CASE \E p \in actor[a].batch :
               \/ \E access \in {"none", "read", "write"} : handle_event(a, p, access)
               \/ skip_shredded(a, p)
    BY <2>2, <1>s, SameFiles DEF handle_event, skip_shredded
  <2>3. CASE \/ update_position(a) \/ concurrent_modification(a)
             \/ database_busy(a) \/ die(a)
    BY <2>3, <1>s, SameFiles
       DEF update_position, concurrent_modification, database_busy, die
  <2>4. CASE insert_meta(a)
    BY <2>4, <1>i, InsertMetaRewinds DEF Model!Next
  <2>5. CASE commit(a)
    <3>1. actor[a].conn \in Files
      BY Shapes DEF RInv, IInv
    <3> QED
      BY <2>5, <1>i, <3>1, CommitAdvances DEF Model!Next
  <2> QED
    BY <1>4, <2>1, <2>2, <2>3, <2>4, <2>5 DEF Run, Access
<1>5. ASSUME NEW f \in Files, checkpoint(f) PROVE Kept /\ UNCHANGED Model!vars
  BY <1>5, <1>s, CheckpointEarlier DEF checkpoint
<1>6. CASE power_loss
  BY <1>6, <1>i, PowerLossRewinds DEF RInv, Model!Next
<1>7. CASE UNCHANGED vars
  BY <1>7, <1>i, <1>s, SameFiles DEF vars, RInv
<1> QED
  BY <1>i, <1>1, <1>2, <1>3, <1>4, <1>5, <1>6, <1>7 DEF Next, RInv

\* The commits of all incarnations together, with every death, overlap and power
\* failure, are what one projector would write that moves rows and position in
\* one step: Projector implements ReadModel.
THEOREM ImplementsReadModel == Spec => ReadModelSpec
<1> QED
  BY InitRefines, NextRefines, PTL DEF Spec, ReadModelSpec, Model!Spec
=============================================================================
