------------------------------ MODULE Projector ------------------------------
(***************************************************************************)
(* A projector module (ModuleActor with POOL_SIZE = 0,                     *)
(* crates/runtime/src/module/actor.rs) and its SQLite file                 *)
(* (crates/runtime/src/module_store/mod.rs).                               *)
(*                                                                         *)
(* The actor applies each batch of its subscription inside one deferred    *)
(* transaction, which also moves module_meta.last_position; the UPDATE is  *)
(* guarded by the position the actor last saw.  A projector that fails is  *)
(* not restarted until an operator or a restart of the runtime starts it.  *)
(*                                                                         *)
(* Actors are incarnations of the module.  Two of them may run at once     *)
(* (see ModuleSupervisor), on one file or, after a major version change or *)
(* a replay, with the old one on a file that is already unlinked.          *)
(*                                                                         *)
(* SQLite in WAL mode: a transaction gets its snapshot at its first read   *)
(* or write; the first write takes the file's only writer lock, and fails  *)
(* when that lock is not free within busy_timeout or when the snapshot is  *)
(* no longer the newest one.                                               *)
(***************************************************************************)
EXTENDS Integers, Sequences

CONSTANTS
  Actors,         \* incarnations of the projector
  KeyIds,         \* encryption key ids
  Majors,         \* major versions the module may be started with
  StoreTimeouts,  \* may the module store fail to answer a key lookup?
  MaxPos,         \* bound: events ever appended
  MaxFiles,       \* bound: database files (1 + resets)
  MaxStarts       \* bound: incarnations started by operators and restarts

NoKey     == "plaintext"
NoMajor   == 0    \* module_meta has no row yet
None      == -1   \* Option::None for a position
Files     == 1..MaxFiles
Positions == 1..MaxPos

ASSUME BoundsAssumption ==
  /\ MaxPos \in Nat /\ MaxFiles \in Nat \ {0} /\ MaxStarts \in Nat
  /\ StoreTimeouts \in BOOLEAN

ASSUME NamesAssumption == NoKey \notin KeyIds

VARIABLES
  log,      \* the event store's log; positions are 1, 2, ...
  deleted,  \* encryption keys that have been shredded
  file,     \* the database file the module's path names now
  db,       \* the database files, as committed
  synced,   \* the database files, as far as they have reached the disk
  actor,    \* the incarnations and their open transactions
  starts    \* number of incarnations started so far

vars == <<log, deleted, file, db, synced, actor, starts>>

Event ==
  [matches : {TRUE}, key_id : KeyIds \cup {NoKey}]
    \cup {[matches |-> FALSE, key_id |-> NoKey]}

\* table is the sequence of positions whose effects the guest has written.
Database ==
  [major : Majors \cup {NoMajor}, position : Nat \cup {None}, table : Seq(Nat)]

Phases == {"stopped", "outdated", "opened", "recorded", "running"}

\* major is the version it is about to record.
\* snapshot, locked, updated and buffer describe the open transaction: whether
\* it has read, holds the writer lock, has moved the position, and its rows.
Actor ==
  [phase : Phases, conn : Files, major : Majors \cup {NoMajor},
   last_position : Nat \cup {None}, cursor : Nat, batch : SUBSET Nat,
   snapshot : {"none", "current", "stale"}, locked : BOOLEAN,
   updated : BOOLEAN, buffer : Seq(Nat)]

-----------------------------------------------------------------------------
(* Helpers *)

IsMin(p, S) == p \in S /\ \A q \in S : p <= q

resume_position(last) == IF last = None THEN 0 ELSE last

\* What decrypt_stored_event turns into Value::Null for good.
Shredded(p) == log[p].key_id \in deleted

\* The subscription's batch between two cursors.
Matching(lo, hi) == {p \in lo + 1 .. hi : p \in DOMAIN log /\ log[p].matches}

NotRunning ==
  [phase |-> "stopped", conn |-> 1, major |-> NoMajor, last_position |-> None,
   cursor |-> 0, batch |-> {}, snapshot |-> "none", locked |-> FALSE,
   updated |-> FALSE, buffer |-> <<>>]

\* The end of an actor rolls its transaction back.
Stopped(a) == actor' = [actor EXCEPT ![a] = NotRunning]

LockFree(a) ==
  \A b \in Actors \ {a} : ~(actor[b].locked /\ actor[b].conn = actor[a].conn)

CanWrite(a) == LockFree(a) /\ actor[a].snapshot # "stale"

\* The actors after a commit by a, which is left in state m: snapshots other
\* connections hold of the same file are no longer the newest.
Committed(a, m) ==
  [b \in Actors |->
     IF b = a THEN m
     ELSE IF actor[b].conn = m.conn /\ actor[b].snapshot = "current"
            THEN [actor[b] EXCEPT !.snapshot = "stale"]
            ELSE actor[b]]

-----------------------------------------------------------------------------
Init ==
  /\ log = <<>>
  /\ deleted = {}
  /\ file = 1
  /\ db = [f \in Files |-> [major |-> NoMajor, position |-> None, table |-> <<>>]]
  /\ synced = db
  /\ actor = [a \in Actors |-> NotRunning]
  /\ starts = 0

(* The environment: commands append events, operators shred keys. *)

append(e) ==
  /\ Len(log) < MaxPos
  /\ log' = Append(log, e)
  /\ UNCHANGED <<deleted, file, db, synced, actor, starts>>

delete_crypto_key(k) ==
  /\ deleted' = deleted \cup {k}
  /\ UNCHANGED <<log, file, db, synced, actor, starts>>

(* on_start: open the database the path names (after the supervisor removed *)
(* it, for a replay) and compare its major version.                        *)
open_database(a, major, reset_db) ==
  LET f == IF reset_db THEN file + 1 ELSE file
  IN /\ actor[a].phase = "stopped"
     /\ starts < MaxStarts
     /\ f \in Files
     /\ starts' = starts + 1
     /\ file' = f
     /\ actor' = [actor EXCEPT
          ![a].conn = f, ![a].major = major,
          ![a].phase = IF db[f].major \in {NoMajor, major}
                         THEN "opened" ELSE "outdated"]
     /\ UNCHANGED <<log, deleted, db, synced>>

(* on_start, the major version changed: unlink whatever the path names by  *)
(* now and open a fresh file.                                              *)
replace_database(a) ==
  /\ actor[a].phase = "outdated"
  /\ file + 1 \in Files
  /\ file' = file + 1
  /\ actor' = [actor EXCEPT ![a].conn = file + 1, ![a].phase = "opened"]
  /\ UNCHANGED <<log, deleted, db, synced, starts>>

(* on_start: record the version (a commit of its own) and read the stored  *)
(* position, from which the subscription resumes.                          *)
insert_meta(a) ==
  LET m == actor[a]
      f == m.conn
  IN /\ m.phase = "opened"
     /\ LockFree(a)
     /\ db' = [db EXCEPT ![f].major = m.major]
     /\ actor' = Committed(a, [m EXCEPT !.phase = "recorded", !.major = NoMajor,
                    !.last_position = db[f].position,
                    !.cursor = resume_position(db[f].position)])
     /\ UNCHANGED <<log, deleted, file, synced, starts>>

(* on_start: the guest's constructor creates its tables and commits. *)
construct(a) ==
  /\ actor[a].phase = "recorded"
  /\ LockFree(a)
  /\ actor' = Committed(a, [actor[a] EXCEPT !.phase = "running"])
  /\ UNCHANGED <<log, deleted, file, db, synced, starts>>

(* next: take a batch of the subscription once the last one is committed.  *)
(* The cursor moves past the batch, and past events that do not match.     *)
next_batch(a) ==
  LET m == actor[a]
  IN /\ m.phase = "running"
     /\ m.cursor = resume_position(m.last_position)
     /\ \E end \in m.cursor + 1 .. Len(log) :
          actor' = [actor EXCEPT ![a].cursor = end,
                                 ![a].batch = Matching(m.cursor, end)]
     /\ UNCHANGED <<log, deleted, file, db, synced, starts>>

\* Mutant: the guest's writes are committed event by event.
handle_event_autocommit(a, p, access) ==
  LET m == actor[a]
  IN /\ m.phase = "running"
     /\ IsMin(p, m.batch)
     /\ ~Shredded(p)
     /\ access = "write"
     /\ CanWrite(a)
     /\ actor' = Committed(a, [m EXCEPT !.batch = @ \ {p}])
     /\ db' = [db EXCEPT ![m.conn].table = Append(@, p)]
     /\ UNCHANGED <<log, deleted, file, synced, starts>>

(* process_batch, one event: the guest handles it in the open transaction, *)
(* which it may leave alone, read from or write to.                        *)
handle_event(a, p, access) ==
  LET m == actor[a]
  IN /\ m.phase = "running"
     /\ IsMin(p, m.batch)
     /\ ~Shredded(p)
     /\ access = "write" => CanWrite(a)
     /\ actor' = [actor EXCEPT
          ![a].batch = @ \ {p},
          ![a].buffer = Append(@, p),
          ![a].locked = @ \/ access = "write",
          ![a].snapshot = IF access # "none" /\ @ = "none" THEN "current" ELSE @]
     /\ UNCHANGED <<log, deleted, file, db, synced, starts>>

(* process_batch, an event that decrypts to Null: skipped.  An unanswered  *)
(* key lookup is read as a missing key.                                    *)
skip_shredded(a, p) ==
  LET m == actor[a]
  IN /\ m.phase = "running"
     /\ IsMin(p, m.batch)
     /\ log[p].key_id # NoKey
     /\ Shredded(p) \/ StoreTimeouts
     /\ actor' = [actor EXCEPT ![a].batch = @ \ {p}]
     /\ UNCHANGED <<log, deleted, file, db, synced, starts>>

BatchDone(m) ==
  /\ m.phase = "running"
  /\ m.batch = {}
  /\ m.cursor # resume_position(m.last_position)
  /\ ~m.updated

\* Mutant: the UPDATE is not guarded by the position the actor last saw.
update_position_unguarded(a) ==
  /\ BatchDone(actor[a])
  /\ CanWrite(a)
  /\ actor' = [actor EXCEPT ![a].updated = TRUE, ![a].locked = TRUE,
                            ![a].snapshot = "current"]
  /\ UNCHANGED <<log, deleted, file, db, synced, starts>>

(* process_batch, at the end: UPDATE module_meta where the position is the *)
(* one this actor last saw.                                                *)
update_position(a) ==
  /\ BatchDone(actor[a])
  /\ CanWrite(a)
  /\ db[actor[a].conn].position = actor[a].last_position
  /\ actor' = [actor EXCEPT ![a].updated = TRUE, ![a].locked = TRUE,
                            ![a].snapshot = "current"]
  /\ UNCHANGED <<log, deleted, file, db, synced, starts>>

(* The UPDATE matched no row: ConcurrentModification. *)
concurrent_modification(a) ==
  /\ BatchDone(actor[a])
  /\ CanWrite(a)
  /\ db[actor[a].conn].position # actor[a].last_position
  /\ Stopped(a)
  /\ UNCHANGED <<log, deleted, file, db, synced, starts>>

(* COMMIT; BEGIN *)
commit(a) ==
  LET m == actor[a]
  IN /\ m.updated
     /\ db' = [db EXCEPT ![m.conn].position = m.cursor,
                         ![m.conn].table = @ \o m.buffer]
     /\ actor' = Committed(a, [m EXCEPT !.last_position = m.cursor,
                    !.snapshot = "none", !.locked = FALSE, !.updated = FALSE,
                    !.buffer = <<>>])
     /\ UNCHANGED <<log, deleted, file, synced, starts>>

\* Mutant: an actor that cannot write waits for ever.
database_never_busy(a) == FALSE /\ UNCHANGED vars

(* A write that cannot get the writer lock: of the errors of SQLite the    *)
(* guest gets only a violated constraint, SQLITE_BUSY traps it.            *)
database_busy(a) ==
  LET m == actor[a]
  IN /\ \/ m.phase \in {"opened", "recorded"} /\ ~LockFree(a)
        \/ m.phase = "running" /\ ~CanWrite(a) /\ (m.batch # {} \/ BatchDone(m))
     /\ Stopped(a)
     /\ UNCHANGED <<log, deleted, file, db, synced, starts>>

(* Every other end of an actor: a trap of the guest, an event that does    *)
(* not deserialise, a stop, a crash of the process.                        *)
die(a) ==
  /\ actor[a].phase # "stopped"
  /\ Stopped(a)
  /\ UNCHANGED <<log, deleted, file, db, synced, starts>>

(* synchronous = NORMAL: commits reach the disk some time later ...        *)
checkpoint(f) ==
  /\ synced' = [synced EXCEPT ![f] = db[f]]
  /\ UNCHANGED <<log, deleted, file, db, actor, starts>>

(* ... and a power failure ends every actor and loses those that have not. *)
power_loss ==
  /\ db' = synced
  /\ actor' = [a \in Actors |-> NotRunning]
  /\ UNCHANGED <<log, deleted, file, synced, starts>>

-----------------------------------------------------------------------------
\* What the guest does with the connection while it handles an event.
Access == {"none", "read", "write"}

Run(a) ==
  \/ replace_database(a)
  \/ insert_meta(a)
  \/ construct(a)
  \/ next_batch(a)
  \/ \E p \in actor[a].batch :
       \/ \E access \in Access : handle_event(a, p, access)
       \/ skip_shredded(a, p)
  \/ update_position(a)
  \/ concurrent_modification(a)
  \/ commit(a)
  \/ database_busy(a)

Next ==
  \/ \E e \in Event : append(e)
  \/ \E k \in KeyIds : delete_crypto_key(k)
  \/ \E a \in Actors :
       \/ \E major \in Majors, reset_db \in BOOLEAN :
            open_database(a, major, reset_db)
       \/ Run(a)
       \/ die(a)
  \/ \E f \in Files : checkpoint(f)
  \/ power_loss

Spec == Init /\ [][Next]_vars

(* Fairness: a running actor is scheduled and its guest returns.  Nothing  *)
(* restarts a projector that failed.                                       *)
FairSpec == Spec /\ \A a \in Actors : WF_vars(Run(a))

-----------------------------------------------------------------------------
(* Properties *)

\* The shape of the state.
TypeOK ==
  /\ log \in Seq(Event)
  /\ deleted \in SUBSET KeyIds
  /\ file \in Files
  /\ db \in [Files -> Database]
  /\ synced \in [Files -> Database]
  /\ actor \in [Actors -> Actor]
  /\ starts \in Nat

\* Keys whose events may be taken for shredded.
Lost == IF StoreTimeouts THEN KeyIds ELSE deleted

Model == INSTANCE ReadModel WITH lost <- Lost, NoData <- None

\* What one database holds: the matching events up to its position, each applied
\* once and in the order of the log; only events that could not be read are left
\* out.
Faithful(d) ==
  LET upto == resume_position(d.position)
  IN /\ upto <= Len(log)
     /\ Model!Increasing(d.table)
     /\ Model!Applied(d.table) \subseteq Matching(0, upto)
     /\ \A p \in 1 .. upto : Model!Readable(p) => p \in Model!Applied(d.table)

\* Every database a projector ever wrote reflects each event exactly once, no
\* matter how actors overlap, fail, or lose power: rows and position commit
\* together under the guarded UPDATE (process_batch).
ExactlyOnce == \A f \in Files : Faithful(db[f])

\* The commits of all incarnations together are the batches of one projector:
\* Projector implements ReadModel.
ReadModelSpec == Model!Spec

\* What makes ExactlyOnce inductive: an open transaction holds exactly the
\* events between the position its actor last saw and the cursor, what is not
\* yet handled being in the batch; a file has one writer, and while it has moved
\* the position nobody else moves it.
Extends(m) ==
  LET from == resume_position(m.last_position)
  IN /\ from <= m.cursor /\ m.cursor <= Len(log)
     /\ Model!Increasing(m.buffer)
     /\ Model!Applied(m.buffer) \cup m.batch \subseteq Matching(from, m.cursor)
     /\ \A p \in Model!Applied(m.buffer), q \in m.batch : p < q
     /\ \A p \in from + 1 .. m.cursor : Model!Readable(p) =>
          p \in Model!Applied(m.buffer) \cup m.batch

NoTransaction(m) ==
  ~m.locked /\ ~m.updated /\ m.batch = {} /\ m.buffer = <<>>

Exclusive(a) ==
  /\ actor[a].locked => LockFree(a)
  /\ actor[a].updated =>
       /\ actor[a].batch = {} /\ actor[a].locked
       /\ actor[a].cursor # resume_position(actor[a].last_position)
       /\ db[actor[a].conn].position = actor[a].last_position

IInv ==
  /\ TypeOK
  /\ \A f \in Files : Faithful(db[f]) /\ Faithful(synced[f])
  /\ \A a \in Actors :
       /\ Extends(actor[a])
       /\ actor[a].phase # "running" => NoTransaction(actor[a])
       /\ Exclusive(a)

\* A running projector on the module's current database eventually applies every
\* readable event, unless it stops: an actor that meets another one's writes
\* fails instead of waiting for ever (busy_timeout, ConcurrentModification).
CatchesUp ==
  \A p \in Positions :
    Model!Readable(p) ~>
      \/ p \in Model!Applied(db[file].table)
      \/ ~Model!Readable(p)
      \/ \A a \in Actors :
           actor[a].phase = "running" => actor[a].conn # file
=============================================================================
