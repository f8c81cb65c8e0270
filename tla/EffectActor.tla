---------------------------- MODULE EffectActor ----------------------------
(***************************************************************************)
(* The dispatcher of an effect module (ModuleActor with POOL_SIZE > 0,     *)
(* crates/runtime/src/module/actor.rs) and its pool of worker actors       *)
(* (crates/runtime/src/worker.rs).                                         *)
(*                                                                         *)
(* The dispatcher pulls batches of matching events from a subscription to  *)
(* the event store, hands every event to the worker its partition key      *)
(* selects, and persists a watermark (module_meta.last_position) from      *)
(* which it resumes after a restart.  Workers handle events on their own   *)
(* threads and acknowledge them through the dispatcher's mailbox.          *)
(*                                                                         *)
(* Actors is the set of dispatcher incarnations.  Two of them may be alive *)
(* at once (the supervisor can start a second one, see the README); they   *)
(* share the module's SQLite file, which a major version change or a       *)
(* replay replaces by a fresh one while an old connection keeps the        *)
(* unlinked file.                                                          *)
(***************************************************************************)
EXTENDS Integers, Sequences, FiniteSets

CONSTANTS
  Actors,         \* incarnations of the module's dispatcher
  Keyed,          \* the POOL_SIZE keyed workers of a dispatcher
  PartitionKeys,  \* what the guest's partition_key() may return
  Route,          \* hash(key) % POOL_SIZE, as a function PartitionKeys -> Keyed
  KeyIds,         \* encryption key ids; {} when no event is encrypted
  Majors,         \* major versions the module may be started with
  InFlightLimit,  \* back-pressure threshold, 100 in the code
  StoreTimeouts,  \* may the module store fail to answer a key lookup?
  MaxPos,         \* bound: events ever appended
  MaxBatch,       \* bound: events in one batch of the subscription
  MaxFiles,       \* bound: database files (1 + resets)
  MaxFailures,    \* bound: handler failures
  MaxDeaths       \* bound: dispatcher deaths not caused by an ack

Global    == "global"     \* the worker for events without a partition key
Unkeyed   == "unkeyed"
NoKey     == "plaintext"
NoMajor   == 0            \* no version recorded yet
None      == -1           \* Option::None for a position
Workers   == {Global} \cup Keyed
Files     == 1..MaxFiles
Positions == 1..MaxPos

ASSUME BoundsAssumption ==
  /\ MaxPos \in Nat /\ MaxBatch \in Nat \ {0} /\ MaxFiles \in Nat \ {0}
  /\ MaxFailures \in Nat /\ MaxDeaths \in Nat /\ InFlightLimit \in Nat
  /\ StoreTimeouts \in BOOLEAN

ASSUME RouteAssumption == Route \in [PartitionKeys -> Keyed]

VARIABLES
  log,          \* the event store's log; positions are 1, 2, ...
  deleted,      \* encryption keys that have been shredded
  file,         \* the database file the module's path names now
  db_major,     \* module_meta.version, per file
  db_position,  \* module_meta.last_position, per file
  module,       \* the dispatchers
  worker,       \* the workers of each dispatcher
  handled,      \* history: events whose handling was committed, per file
  exposed,      \* history: events passed over, or left behind one, per file
  failures,     \* number of handler failures so far
  deaths        \* number of dispatcher deaths so far

vars == <<log, deleted, file, db_major, db_position, module, worker, handled,
          exposed, failures, deaths>>

Event ==
  [matches : {TRUE}, pkey : PartitionKeys \cup {Unkeyed},
   key_id : KeyIds \cup {NoKey}]
    \cup {[matches |-> FALSE, pkey |-> Unkeyed, key_id |-> NoKey]}

Ack    == [ok : BOOLEAN, pos : Nat]
Module ==
  [alive : BOOLEAN, conn : Files, last_position : Nat \cup {None},
   cursor : Nat, batch : SUBSET Nat, in_flight : SUBSET Nat,
   highest_completed : Nat, mailbox : Seq(Ack)]
Worker == [queue : Seq(Nat), current_position : Nat \cup {None}]

-----------------------------------------------------------------------------
(* Helpers *)

IsMin(p, S) == p \in S /\ \A q \in S : p <= q
Larger(m, n) == IF m >= n THEN m ELSE n

resume_position(last) == IF last = None THEN 0 ELSE last

\* Mutant: a watermark that ignores the gap.
watermark_ignores_gap(in_flight, cursor, highest_completed) ==
  Larger(cursor, highest_completed)

\* Mutant: a watermark one too low.
watermark_too_low(in_flight, cursor, highest_completed) ==
  IF in_flight = {} THEN Larger(cursor, highest_completed)
                    ELSE (CHOOSE p \in in_flight : IsMin(p, in_flight)) - 2

\* Below the oldest event in flight, or past everything delivered when drained.
calculate_watermark(in_flight, cursor, highest_completed) ==
  IF in_flight = {} THEN Larger(cursor, highest_completed)
                    ELSE (CHOOSE p \in in_flight : IsMin(p, in_flight)) - 1

route(e) == IF e.pkey = Unkeyed THEN Global ELSE Route[e.pkey]

\* What decrypt_stored_event turns into Value::Null for good.
Shredded(p) == log[p].key_id \in deleted

\* The subscription's batch between two cursors.
Matching(lo, hi) == {p \in lo + 1 .. hi : p \in DOMAIN log /\ log[p].matches}

\* A worker begins, or begins again after a failure, with what its mailbox holds and
\* no event of its own (ModuleWorkerActor::on_start).
started(queue) == [queue |-> queue, current_position |-> None]

Stopped(m) == [m EXCEPT !.alive = FALSE, !.batch = {}, !.in_flight = {},
                        !.mailbox = <<>>]

-----------------------------------------------------------------------------
Init ==
  /\ log = <<>>
  /\ deleted = {}
  /\ file = 1
  /\ db_major = [f \in Files |-> NoMajor]
  /\ db_position = [f \in Files |-> None]
  /\ module = [a \in Actors |->
       [alive |-> FALSE, conn |-> 1, last_position |-> None, cursor |-> 0,
        batch |-> {}, in_flight |-> {}, highest_completed |-> 0,
        mailbox |-> <<>>]]
  /\ worker = [a \in Actors |-> [w \in Workers |-> started(<<>>)]]
  /\ handled = [f \in Files |-> {}]
  /\ exposed = [f \in Files |-> {}]
  /\ failures = 0
  /\ deaths = 0

(* The environment: other modules append events, operators shred keys. *)

append(e) ==
  /\ Len(log) < MaxPos
  /\ log' = Append(log, e)
  /\ UNCHANGED <<deleted, file, db_major, db_position, module, worker, handled,
                 failures, deaths, exposed>>

delete_crypto_key(k) ==
  /\ deleted' = deleted \cup {k}
  /\ UNCHANGED <<log, file, db_major, db_position, module, worker, handled,
                 failures, deaths, exposed>>

(* on_start: open the database, replace it when the major version changed  *)
(* (or the supervisor asked for a reset), resume from the stored position. *)
on_start(a, major, reset_db) ==
  LET fresh == reset_db \/ db_major[file] \notin {NoMajor, major}
      f     == IF fresh THEN file + 1 ELSE file
  IN /\ ~module[a].alive
     /\ f \in Files
     /\ file' = f
     /\ db_major' = [db_major EXCEPT ![f] = major]
     /\ module' = [module EXCEPT ![a] =
          [alive |-> TRUE, conn |-> f, last_position |-> db_position[f],
           cursor |-> resume_position(db_position[f]), batch |-> {},
           in_flight |-> {}, highest_completed |-> 0, mailbox |-> <<>>]]
     /\ worker' = [worker EXCEPT ![a] = [w \in Workers |-> started(<<>>)]]
     /\ UNCHANGED <<log, deleted, db_position, handled, failures, deaths,
                    exposed>>

\* Mutant: no back-pressure.
next_batch_unlimited(a) ==
  /\ module[a].alive
  /\ module[a].batch = {}
  /\ \E end \in module[a].cursor + 1 .. Len(log) :
       LET batch == Matching(module[a].cursor, end)
       IN /\ Cardinality(batch) <= MaxBatch
          /\ module' = [module EXCEPT ![a].cursor = end, ![a].batch = batch]
  /\ UNCHANGED <<log, deleted, file, db_major, db_position, worker, handled,
                 failures, deaths, exposed>>

(* next: with at most InFlightLimit events in flight, take a batch from    *)
(* the subscription.  Its cursor moves past the whole batch at once, and   *)
(* past events that do not match.                                          *)
next_batch(a) ==
  /\ module[a].alive
  /\ module[a].batch = {}
  /\ Cardinality(module[a].in_flight) <= InFlightLimit
  /\ \E end \in module[a].cursor + 1 .. Len(log) :
       LET batch == Matching(module[a].cursor, end)
       IN /\ Cardinality(batch) <= MaxBatch
          /\ module' = [module EXCEPT ![a].cursor = end, ![a].batch = batch]
  /\ UNCHANGED <<log, deleted, file, db_major, db_position, worker, handled,
                 failures, deaths, exposed>>

\* Mutant: the UPDATE is not guarded by the position the dispatcher last saw.
handle_ack_unguarded(a, m, pos) ==
  LET rest      == m.in_flight \ {pos}
      completed == Larger(m.highest_completed, pos)
      watermark == calculate_watermark(rest, m.cursor, completed)
  IN /\ db_position' = [db_position EXCEPT ![m.conn] = watermark]
     /\ module' = [module EXCEPT ![a] =
          [m EXCEPT !.in_flight = rest, !.highest_completed = completed,
                    !.last_position = watermark]]

(* handle_ack for an event of the set in_flight: drop it and persist the   *)
(* new watermark, unless another dispatcher has moved the stored position  *)
(* (ConcurrentModification), which stops this one.  m is the dispatcher    *)
(* after whatever preceded the call.                                       *)
handle_ack(a, m, pos) ==
  LET rest      == m.in_flight \ {pos}
      completed == Larger(m.highest_completed, pos)
      watermark == calculate_watermark(rest, m.cursor, completed)
      done      == [m EXCEPT !.in_flight = rest, !.highest_completed = completed]
  IN \/ /\ watermark = m.last_position
        /\ module' = [module EXCEPT ![a] = done]
        /\ UNCHANGED db_position
     \/ /\ watermark # m.last_position
        /\ db_position[m.conn] = m.last_position
        /\ db_position' = [db_position EXCEPT ![m.conn] = watermark]
        /\ module' = [module EXCEPT ![a] =
                        [done EXCEPT !.last_position = watermark]]
     \/ /\ watermark # m.last_position
        /\ db_position[m.conn] # m.last_position
        /\ module' = [module EXCEPT ![a] = Stopped(m)]
        /\ UNCHANGED db_position

(* process_batch, one event: send it to its worker and count it in flight. *)
dispatch(a, p) ==
  LET w == route(log[p])
  IN /\ module[a].alive
     /\ IsMin(p, module[a].batch)
     /\ ~Shredded(p)
     /\ worker' = [worker EXCEPT ![a][w].queue = Append(@, p)]
     /\ module' = [module EXCEPT ![a].batch = @ \ {p},
                                 ![a].in_flight = @ \cup {p}]
     /\ UNCHANGED <<log, deleted, file, db_major, db_position, handled,
                    failures, deaths, exposed>>

\* What dispatcher a gives up by acknowledging p unread, unless that stops it: p, and
\* with nothing in flight the rest of the batch, which the cursor has passed.
Exposes(a, p) ==
  IF ~module'[a].alive THEN {}
  ELSE IF module'[a].in_flight # {} THEN {p} ELSE {p} \cup module'[a].batch

(* process_batch, an event that decrypts to Null: acknowledged on the spot.*)
(* decrypt_stored_event reads an unanswered key lookup as a missing key.   *)
skip_shredded(a, p) ==
  /\ module[a].alive
  /\ IsMin(p, module[a].batch)
  /\ log[p].key_id # NoKey
  /\ Shredded(p) \/ StoreTimeouts
  /\ handle_ack(a, [module[a] EXCEPT !.batch = @ \ {p},
                                     !.in_flight = @ \cup {p}], p)
  /\ exposed' = [exposed EXCEPT ![module[a].conn] = @ \cup Exposes(a, p)]
  /\ UNCHANGED <<log, deleted, file, db_major, worker, handled, failures, deaths>>

(* The dispatcher takes an ack from its mailbox: never in the middle of a  *)
(* batch, whose processing runs to its end first.                          *)
worker_ack_ok(a) ==
  LET m == module[a]
  IN /\ m.alive
     /\ m.batch = {}
     /\ m.mailbox # <<>>
     /\ Head(m.mailbox).ok
     /\ handle_ack(a, [m EXCEPT !.mailbox = Tail(@)], Head(m.mailbox).pos)
     /\ UNCHANGED <<log, deleted, file, db_major, worker, handled, failures,
                    deaths, exposed>>

\* Mutant: a failed event is acknowledged like a handled one.
worker_ack_err_as_ok(a) ==
  LET m == module[a]
  IN /\ m.alive
     /\ m.batch = {}
     /\ m.mailbox # <<>>
     /\ ~Head(m.mailbox).ok
     /\ handle_ack(a, [m EXCEPT !.mailbox = Tail(@)], Head(m.mailbox).pos)
     /\ UNCHANGED <<log, deleted, file, db_major, worker, handled, failures,
                    deaths, exposed>>

worker_ack_err(a) ==
  LET m == module[a]
  IN /\ m.alive
     /\ m.batch = {}
     /\ m.mailbox # <<>>
     /\ ~Head(m.mailbox).ok
     /\ module' = [module EXCEPT ![a] = Stopped(m)]
     /\ UNCHANGED <<log, deleted, file, db_major, db_position, worker, handled,
                    failures, deaths, exposed>>

(* Every other end of a dispatcher: a trap in partition_key, an event that *)
(* does not deserialise, a database error, a stop, a crash of the process. *)
die(a) ==
  /\ module[a].alive
  /\ deaths < MaxDeaths
  /\ deaths' = deaths + 1
  /\ module' = [module EXCEPT ![a] = Stopped(@)]
  /\ UNCHANGED <<log, deleted, file, db_major, db_position, worker, handled,
                 failures, exposed>>

-----------------------------------------------------------------------------
(* Workers.  The mailbox of a dead dispatcher takes no acks; its workers   *)
(* may still run down their queues until the link to it stops them.        *)

Tell(a, ack) ==
  module' = IF module[a].alive
              THEN [module EXCEPT ![a].mailbox = Append(@, ack)]
              ELSE module

\* Mutant: a worker takes its newest event first.
process_newest_event(a, w) ==
  LET queue == worker[a][w].queue
  IN /\ worker[a][w].current_position = None
     /\ queue # <<>>
     /\ worker' = [worker EXCEPT
          ![a][w] = [queue |-> SubSeq(queue, 1, Len(queue) - 1),
                     current_position |-> queue[Len(queue)]]]
     /\ UNCHANGED <<log, deleted, file, db_major, db_position, module, handled,
                    failures, deaths, exposed>>

process_event(a, w) ==
  /\ worker[a][w].current_position = None
  /\ worker[a][w].queue # <<>>
  /\ worker' = [worker EXCEPT
       ![a][w] = [queue |-> Tail(@.queue), current_position |-> Head(@.queue)]]
  /\ UNCHANGED <<log, deleted, file, db_major, db_position, module, handled,
                 failures, deaths, exposed>>

(* The guest handled the event and its transaction committed. *)
event_handled(a, w) ==
  LET p == worker[a][w].current_position
  IN /\ p # None
     /\ handled' = [handled EXCEPT ![module[a].conn] = @ \cup {p}]
     /\ Tell(a, [ok |-> TRUE, pos |-> p])
     /\ worker' = [worker EXCEPT ![a][w].current_position = None]
     /\ UNCHANGED <<log, deleted, file, db_major, db_position, failures, deaths,
                    exposed>>

\* Mutant: on_panic sends no ack, so the dispatcher never learns of the failure.
event_failed_silently(a, w) ==
  /\ worker[a][w].current_position # None
  /\ failures < MaxFailures
  /\ failures' = failures + 1
  /\ worker' = [worker EXCEPT ![a][w].current_position = None]
  /\ UNCHANGED <<log, deleted, file, db_major, db_position, module, handled,
                 deaths, exposed>>

(* The guest failed, or the commit did and on_panic sent the failure ack.  *)
(* Supervision restarts the worker, which goes on with its queue.          *)
event_failed(a, w) ==
  LET p == worker[a][w].current_position
  IN /\ p # None
     /\ failures < MaxFailures
     /\ failures' = failures + 1
     /\ Tell(a, [ok |-> FALSE, pos |-> p])
     /\ worker' = [worker EXCEPT ![a][w] = started(@.queue)]
     /\ UNCHANGED <<log, deleted, file, db_major, db_position, handled, deaths,
                    exposed>>

-----------------------------------------------------------------------------
Dispatch(a) ==
  \/ next_batch(a)
  \/ \E p \in module[a].batch : dispatch(a, p) \/ skip_shredded(a, p)
  \/ worker_ack_ok(a)
  \/ worker_ack_err(a)

Work(a, w) == process_event(a, w) \/ event_handled(a, w) \/ event_failed(a, w)

Next ==
  \/ \E e \in Event : append(e)
  \/ \E k \in KeyIds : delete_crypto_key(k)
  \/ \E a \in Actors :
       \/ \E major \in Majors, reset_db \in BOOLEAN : on_start(a, major, reset_db)
       \/ Dispatch(a)
       \/ die(a)
       \/ \E w \in Workers : Work(a, w)

Spec == Init /\ [][Next]_vars

(* Fairness: the actors are scheduled, the supervisor restarts an effect   *)
(* that died for as long as it stays active, and a handler that is called  *)
(* returns.  Failures are finitely many (MaxFailures, MaxDeaths).          *)
Fairness ==
  \A a \in Actors :
    /\ WF_vars(\E major \in Majors : on_start(a, major, FALSE))
    /\ WF_vars(Dispatch(a))
    /\ \A w \in Workers : WF_vars(Work(a, w))

FairSpec == Spec /\ Fairness

-----------------------------------------------------------------------------
(* Properties *)

\* The shape of the state.
TypeOK ==
  /\ log \in Seq(Event)
  /\ deleted \in SUBSET KeyIds
  /\ file \in Files
  /\ db_major \in [Files -> Majors \cup {NoMajor}]
  /\ db_position \in [Files -> Nat \cup {None}]
  /\ module \in [Actors -> Module]
  /\ worker \in [Actors -> [Workers -> Worker]]
  /\ handled \in [Files -> SUBSET Nat]
  /\ exposed \in [Files -> SUBSET Nat]
  /\ failures \in Nat
  /\ deaths \in Nat

Relevant(p) == p \in DOMAIN log /\ log[p].matches /\ ~Shredded(p)

\* Every readable event the effect subscribes to, at or below the persisted
\* watermark, has been handled with its transaction committed: a restart, which
\* resumes above the watermark, never skips an event (calculate_watermark's
\* at-least-once guarantee, handle_ack).
AtLeastOnce ==
  \A f \in Files : \A p \in 1 .. resume_position(db_position[f]) :
    Relevant(p) => p \in handled[f]

\* The same promise for effects whose events may be encrypted: a readable event at or
\* below the watermark has been handled, unless it was itself taken for shredded because
\* the store did not answer, or it stood in a batch behind an event passed over while
\* nothing was in flight (process_batch, decrypt_stored_event).
LostOnlyIfExposed ==
  \A f \in Files : \A p \in 1 .. resume_position(db_position[f]) :
    Relevant(p) => p \in handled[f] \cup exposed[f]

\* A promise the code does not keep: a readable event at or below the watermark has
\* been handled, or a live dispatcher still holds it in its batch or in flight.
NoEventLost ==
  \A f \in Files : \A p \in 1 .. resume_position(db_position[f]) :
    Relevant(p) =>
      \/ p \in handled[f]
      \/ \E a \in Actors : /\ module[a].alive
                           /\ p \in module[a].batch \cup module[a].in_flight

\* What makes LostOnlyIfExposed inductive: everything a live dispatcher has been given
\* is handled, in flight, in its batch or exposed; what it still holds lies beyond
\* its last_position or is exposed; acks tell the truth; and its workers know only of
\* events its cursor has passed.
DispatcherInv(a) ==
  LET m    == module[a]
      mark == resume_position(m.last_position)
  IN m.alive =>
       /\ mark <= m.cursor /\ m.cursor <= Len(log)
       /\ m.highest_completed <= m.cursor
       /\ \A p \in m.in_flight \cup m.batch :
            p \in 1 .. m.cursor /\ (mark < p \/ p \in exposed[m.conn])
       /\ \A p \in m.in_flight, q \in m.batch : p < q
       /\ \A p \in 1 .. m.cursor :
            Relevant(p) =>
              p \in handled[m.conn] \cup m.in_flight \cup m.batch \cup exposed[m.conn]
       /\ \A i \in DOMAIN m.mailbox :
            m.mailbox[i].ok => /\ m.mailbox[i].pos \in handled[m.conn]
                               /\ m.mailbox[i].pos <= m.cursor
       /\ \A w \in Workers :
            /\ worker[a][w].current_position <= m.cursor
            /\ \A i \in DOMAIN worker[a][w].queue :
                 worker[a][w].queue[i] <= m.cursor

IInv ==
  /\ TypeOK
  /\ LostOnlyIfExposed
  /\ \A f \in Files : resume_position(db_position[f]) <= Len(log)
  /\ \A a \in Actors : DispatcherInv(a)

\* No step moves a file's persisted watermark backwards, even when two
\* dispatchers of the module update the same row: the guarded UPDATE of
\* handle_ack lets only the one that saw the current value through.
WatermarkMonotone ==
  [][\A f \in Files :
       resume_position(db_position[f]) <= resume_position(db_position[f]')]_vars

\* With encrypted events it may move backwards, but then only to just below an exposed
\* event, back in flight: the file never takes back a position it may rely on.
FallsOnlyToExposed ==
  [][\A f \in Files :
       resume_position(db_position[f]') < resume_position(db_position[f]) =>
         resume_position(db_position[f]') + 1 \in exposed[f]]_vars

\* Within one incarnation, an event is taken up only once every earlier event
\* with its partition key has been answered for: same key, same worker, and
\* workers take their mailbox in order (process_batch, WorkerPool::route).
KeyedOrder ==
  \A a \in Actors, w \in Workers :
    LET p == worker[a][w].current_position
    IN module[a].alive /\ p # None =>
         \A q \in module[a].in_flight :
           q < p /\ log[q].pkey = log[p].pkey =>
             \E i \in DOMAIN module[a].mailbox : module[a].mailbox[i].pos = q

\* Strictly in order within a partition key: an event is handled only when no
\* earlier one with its key is still to be handled.
StrictKeyedOrder ==
  \A f \in Files : \A p \in handled[f], q \in Positions :
    Relevant(q) /\ q < p /\ log[q].pkey = log[p].pkey => q \in handled[f]

\* The back-pressure test in next looks at in_flight before a batch is taken, so
\* what is in flight exceeds the limit by at most one batch.
InFlightBounded ==
  \A a \in Actors :
    Cardinality(module[a].in_flight \cup module[a].batch)
      <= InFlightLimit + MaxBatch

\* Again and again the effect has caught up, whatever finitely many failures and
\* restarts happen on the way: every event it subscribes to is handled, its key deleted
\* or the event exposed.  So none of them waits for ever.
EventuallyHandled ==
  []<>(\A p \in Positions : Relevant(p) => p \in handled[file] \cup exposed[file])

\* What makes KeyedOrder inductive: a live dispatcher has handed out only events that
\* its cursor has passed and its batch comes after; a worker has events it was chosen
\* for, in order; and what is in flight is at its worker or answered for.
Queued(a, w) == {worker[a][w].queue[i] : i \in DOMAIN worker[a][w].queue}
Answered(a)  == {module[a].mailbox[i].pos : i \in DOMAIN module[a].mailbox}

AtWorker(a, w) ==
  Queued(a, w) \cup {p \in {worker[a][w].current_position} : p # None}

InOrder(a, w) ==
  LET queue == worker[a][w].queue
  IN /\ \A i, j \in DOMAIN queue : i < j => queue[i] < queue[j]
     /\ \A i \in DOMAIN queue : worker[a][w].current_position < queue[i]
     /\ \A p \in AtWorker(a, w) :
          /\ p \in 1 .. module[a].cursor /\ route(log[p]) = w
          /\ \A q \in module[a].batch : p < q

Ordered(a) ==
  /\ module[a].cursor <= Len(log)
  /\ module[a].highest_completed <= module[a].cursor
  /\ module[a].in_flight \cup module[a].batch \cup Answered(a) \subseteq 1 .. module[a].cursor
  /\ \A p \in module[a].in_flight : p \in AtWorker(a, route(log[p])) \cup Answered(a)
  /\ \A w \in Workers : InOrder(a, w)

OrderInv ==
  /\ TypeOK
  /\ \A f \in Files : resume_position(db_position[f]) <= Len(log)
  /\ \A a \in Actors : module[a].alive => Ordered(a)

\* What makes InFlightBounded inductive.
BatchBounded ==
  \A a \in Actors : /\ IsFiniteSet(module[a].in_flight \cup module[a].batch)
                    /\ Cardinality(module[a].batch) <= MaxBatch
=============================================================================
