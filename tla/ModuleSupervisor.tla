--------------------------- MODULE ModuleSupervisor ---------------------------
(***************************************************************************)
(* The supervisor of one module type (ModuleSupervisor,                    *)
(* crates/runtime/src/module/supervisor.rs), seen for one module name,     *)
(* together with the parts of the module store it answers to               *)
(* (crates/runtime/src/module_store/) and the lifecycle of module actors.  *)
(*                                                                         *)
(* Operators change which version is active in the store; the store        *)
(* publishes an event; the supervisor compiles the version in a task of    *)
(* its own, stops the old actor and spawns the new one once the old one is *)
(* gone.  An effect that dies is restarted by a delayed message.  Handlers *)
(* of the supervisor run one at a time; only reset awaits a compilation    *)
(* inside its handler.  Everything else interleaves.                       *)
(***************************************************************************)
EXTENDS Naturals, Sequences, FiniteSets

CONSTANTS
  Versions,          \* versions of the module
  NoVersion,         \* Option::None for a version
  Major,             \* the major version of each version
  RETRY_ON_FAILURE,  \* TRUE for effects, FALSE for projectors
  Careful,           \* do operators wait for one change before the next?
  MaxActors,         \* bound: actors ever spawned
  MaxFiles,          \* bound: database files
  MaxOps,            \* bound: operator actions
  MaxFailures,       \* bound: actors that fail
  MaxCrashes         \* bound: restarts of the process

NoMajor == 0         \* a database no actor has opened yet
Actors  == 1..MaxActors
Files   == 1..MaxFiles

ASSUME VersionsAssumption ==
  /\ NoVersion \notin Versions
  /\ Major \in [Versions -> Nat \ {NoMajor}]
  /\ RETRY_ON_FAILURE \in BOOLEAN /\ Careful \in BOOLEAN

ASSUME BoundsAssumption ==
  /\ MaxActors \in Nat /\ MaxFiles \in Nat \ {0}
  /\ MaxOps \in Nat /\ MaxFailures \in Nat /\ MaxCrashes \in Nat

VARIABLES
  active,             \* the store's active version of the module
  events,             \* module events on their way to the supervisor
  compiling,          \* compilation tasks per version
  timers,             \* delayed RestartModule messages per version
  mode,               \* what the supervisor is doing
  target,             \* the version it read from the store before compiling
  modules,            \* the actor in the supervisor's map, 0 if none
  pending,            \* what to spawn when an actor has stopped
  pending_deletions,  \* actors whose end removes the module's files
  backoff,            \* is there a backoff entry?
  actor,              \* the module's actors
  file,               \* the database file the module's path names now
  db_major,           \* the major version recorded in each file
  ops, failures, crashes

store      == <<active, ops>>
supervisor == <<mode, target, modules, pending, pending_deletions, backoff>>
disk       == <<file, db_major>>
bounds     == <<ops, failures, crashes>>
vars == <<active, events, compiling, timers, supervisor, actor, disk, bounds>>

ModuleEvent ==
  [type : {"Activated"}, version : Versions]
    \cup [type : {"Deactivated", "Deleted"}, version : {NoVersion}]

PendingModule == [version : Versions \cup {NoVersion}, reset_db : BOOLEAN]
NotPending    == [version |-> NoVersion, reset_db |-> FALSE]

\* stopping: stop_gracefully is on its way; restarted: spawned by RestartModule.
Actor ==
  [state : {"unborn", "starting", "running", "dead", "reaped"},
   version : Versions \cup {NoVersion}, conn : 0..MaxFiles,
   stopping : BOOLEAN, restarted : BOOLEAN]
Unborn ==
  [state |-> "unborn", version |-> NoVersion, conn |-> 0, stopping |-> FALSE,
   restarted |-> FALSE]

-----------------------------------------------------------------------------
Live(a)  == actor[a].state \in {"starting", "running"}
is_alive == modules # 0 /\ Live(modules)

\* Every change operators made so far has taken effect.
Settled ==
  /\ mode = "ready"
  /\ events = <<>>
  /\ \A v \in Versions : compiling[v] = 0
  /\ \A a \in Actors : /\ pending[a] = NotPending
                       /\ actor[a].state \notin {"starting", "dead"}
                       /\ ~(Live(a) /\ actor[a].stopping)

stop_gracefully(a) == actor' = [actor EXCEPT ![a].stopping = TRUE]

NewActor == Cardinality({a \in Actors : actor[a].state # "unborn"}) + 1

\* spawn_module, with the actors as acts has them: remove the database if that
\* was asked for, spawn the actor and register it.
spawn_module(acts, version, reset_db, restarted) ==
  /\ NewActor \in Actors
  /\ file' = IF reset_db THEN file + 1 ELSE file
  /\ file' \in Files
  /\ actor' = [acts EXCEPT ![NewActor] =
       [state |-> "starting", version |-> version, conn |-> 0,
        stopping |-> FALSE, restarted |-> restarted]]
  /\ modules' = NewActor
  /\ UNCHANGED db_major

\* Mutant: the new actor is spawned before the old one is gone.
load_without_waiting(version, reset_db) ==
  /\ backoff' = FALSE
  /\ spawn_module(IF is_alive THEN [actor EXCEPT ![modules].stopping = TRUE]
                              ELSE actor, version, reset_db, FALSE)
  /\ UNCHANGED pending

\* Mutant: the database of a replayed module is removed right away.
load_resets_at_once(version, reset_db) ==
  /\ backoff' = FALSE
  /\ \/ /\ is_alive
        /\ modules' = 0
        /\ pending' = [pending EXCEPT
             ![modules] = [version |-> version, reset_db |-> FALSE]]
        /\ stop_gracefully(modules)
        /\ file' = IF reset_db THEN file + 1 ELSE file
        /\ UNCHANGED db_major
     \/ /\ ~is_alive
        /\ spawn_module(actor, version, reset_db, FALSE)
        /\ UNCHANGED pending

(* load_module, and the end of reset: stop the registered actor and spawn  *)
(* when it has died, or spawn at once when there is none.                  *)
load_module(version, reset_db) ==
  /\ backoff' = FALSE
  /\ \/ /\ is_alive
        /\ modules' = 0
        /\ pending' = [pending EXCEPT
             ![modules] = [version |-> version, reset_db |-> reset_db]]
        /\ stop_gracefully(modules)
        /\ UNCHANGED disk
     \/ /\ ~is_alive
        /\ spawn_module(actor, version, reset_db, FALSE)
        /\ UNCHANGED pending

-----------------------------------------------------------------------------
Init ==
  /\ active = NoVersion
  /\ events = <<>>
  /\ compiling = [v \in Versions |-> 0]
  /\ timers = [v \in Versions |-> 0]
  /\ mode = "ready"
  /\ target = NoVersion
  /\ modules = 0
  /\ pending = [a \in Actors |-> NotPending]
  /\ pending_deletions = {}
  /\ backoff = FALSE
  /\ actor = [a \in Actors |-> Unborn]
  /\ file = 1
  /\ db_major = [f \in Files |-> NoMajor]
  /\ ops = 0 /\ failures = 0 /\ crashes = 0

(* Operators, through the module store and its pubsub. *)

Operate ==
  /\ ops < MaxOps
  /\ Careful => Settled
  /\ ops' = ops + 1

activate_module(v) ==
  /\ Operate
  /\ active' = v
  /\ events' = Append(events, [type |-> "Activated", version |-> v])
  /\ UNCHANGED <<compiling, timers, supervisor, actor, disk, failures, crashes>>

deactivate_module ==
  /\ Operate
  /\ active # NoVersion
  /\ active' = NoVersion
  /\ events' = Append(events, [type |-> "Deactivated", version |-> NoVersion])
  /\ UNCHANGED <<compiling, timers, supervisor, actor, disk, failures, crashes>>

delete_module ==
  /\ Operate
  /\ active' = NoVersion
  /\ events' = Append(events, [type |-> "Deleted", version |-> NoVersion])
  /\ UNCHANGED <<compiling, timers, supervisor, actor, disk, failures, crashes>>

(* reset, first half: read the active version, then await its compilation. *)
reset(v) ==
  /\ Operate
  /\ mode = "ready"
  /\ active = v
  /\ mode' = "resetting"
  /\ target' = v
  /\ UNCHANGED <<active, events, compiling, timers, modules, pending,
                 pending_deletions, backoff, actor, disk, failures, crashes>>

reset_compiled ==
  /\ mode = "resetting"
  /\ load_module(target, TRUE)
  /\ mode' = "ready"
  /\ target' = NoVersion
  /\ UNCHANGED <<active, events, compiling, timers, pending_deletions, bounds>>

-----------------------------------------------------------------------------
(* Messages of the supervisor *)

NextEvent(type) ==
  /\ mode = "ready"
  /\ events # <<>>
  /\ Head(events).type = type
  /\ events' = Tail(events)

\* Mutant: a live module is left alone whatever version it runs.
on_activated_ignores_version ==
  LET v == Head(events).version
  IN /\ NextEvent("Activated")
     /\ compiling' = IF is_alive THEN compiling
                     ELSE [compiling EXCEPT ![v] = @ + 1]
     /\ UNCHANGED <<active, timers, supervisor, actor, disk, bounds>>

(* Activated: nothing to do when that version is already alive, else start *)
(* compiling it.                                                           *)
on_activated ==
  LET v == Head(events).version
  IN /\ NextEvent("Activated")
     /\ compiling' = IF is_alive /\ actor[modules].version = v THEN compiling
                     ELSE [compiling EXCEPT ![v] = @ + 1]
     /\ UNCHANGED <<active, timers, supervisor, actor, disk, bounds>>

module_compiled(v) ==
  /\ mode = "ready"
  /\ compiling[v] > 0
  /\ compiling' = [compiling EXCEPT ![v] = @ - 1]
  /\ load_module(v, FALSE)
  /\ UNCHANGED <<active, events, timers, mode, target, pending_deletions, bounds>>

on_deactivated ==
  /\ NextEvent("Deactivated")
  /\ backoff' = FALSE
  /\ modules' = 0
  /\ IF is_alive THEN stop_gracefully(modules) ELSE UNCHANGED actor
  /\ UNCHANGED <<active, compiling, timers, mode, target, pending,
                 pending_deletions, disk, bounds>>

(* Deleted: the files go once the live actor has stopped, or right away.   *)
on_deleted ==
  /\ NextEvent("Deleted")
  /\ backoff' = FALSE
  /\ modules' = 0
  /\ \/ /\ is_alive
        /\ pending_deletions' = pending_deletions \cup {modules}
        /\ stop_gracefully(modules)
        /\ UNCHANGED file
     \/ /\ ~is_alive
        /\ file + 1 \in Files
        /\ file' = file + 1
        /\ UNCHANGED <<pending_deletions, actor>>
  /\ UNCHANGED <<active, compiling, timers, mode, target, pending, db_major, bounds>>

\* Mutant: a restart does not look whether the module is alive.
restart_unchecked(v) ==
  /\ mode = "ready"
  /\ timers[v] > 0
  /\ timers' = [timers EXCEPT ![v] = @ - 1]
  /\ IF backoff
       THEN spawn_module(actor, v, FALSE, TRUE)
       ELSE UNCHANGED <<modules, actor, disk>>
  /\ UNCHANGED <<active, events, compiling, mode, target, pending,
                 pending_deletions, backoff, bounds>>

(* RestartModule: the version is the one of the actor that failed when the *)
(* message was scheduled.                                                  *)
restart_module(v) ==
  /\ mode = "ready"
  /\ timers[v] > 0
  /\ timers' = [timers EXCEPT ![v] = @ - 1]
  /\ IF backoff /\ ~is_alive
       THEN spawn_module(actor, v, FALSE, TRUE)
       ELSE UNCHANGED <<modules, actor, disk>>
  /\ UNCHANGED <<active, events, compiling, mode, target, pending,
                 pending_deletions, backoff, bounds>>

-----------------------------------------------------------------------------
(* on_link_died, case by case *)

Died(a) == mode = "ready" /\ actor[a].state = "dead"
Reaped(a) == [actor EXCEPT ![a].state = "reaped"]

\* Mutant: a replay that waited for the actor to end keeps the old database.
on_link_died_keeps_database(a) ==
  /\ Died(a)
  /\ pending[a] # NotPending
  /\ pending' = [pending EXCEPT ![a] = NotPending]
  /\ spawn_module(Reaped(a), pending[a].version, FALSE, FALSE)
  /\ UNCHANGED <<active, events, compiling, timers, mode, target,
                 pending_deletions, backoff, bounds>>

on_link_died_pending(a) ==
  /\ Died(a)
  /\ pending[a] # NotPending
  /\ pending' = [pending EXCEPT ![a] = NotPending]
  /\ spawn_module(Reaped(a), pending[a].version, pending[a].reset_db, FALSE)
  /\ UNCHANGED <<active, events, compiling, timers, mode, target,
                 pending_deletions, backoff, bounds>>

on_link_died_deleted(a) ==
  /\ Died(a)
  /\ pending[a] = NotPending
  /\ a \in pending_deletions
  /\ pending_deletions' = pending_deletions \ {a}
  /\ actor' = Reaped(a)
  /\ file' = IF modules = 0 THEN file + 1 ELSE file
  /\ file' \in Files
  /\ UNCHANGED <<active, events, compiling, timers, mode, target, modules,
                 pending, backoff, db_major, bounds>>

\* Mutant: the backoff entry of the module is never made.
on_link_died_without_backoff(a) ==
  /\ Died(a)
  /\ pending[a] = NotPending
  /\ a \notin pending_deletions
  /\ actor' = Reaped(a)
  /\ IF modules = a /\ RETRY_ON_FAILURE
       THEN timers' = [timers EXCEPT ![actor[a].version] = @ + 1]
       ELSE UNCHANGED timers
  /\ UNCHANGED <<active, events, compiling, mode, target, modules, pending,
                 pending_deletions, backoff, disk, bounds>>

(* The actor was stopped for good, or it is still registered: then it      *)
(* failed, and an effect is restarted after a delay.                       *)
on_link_died(a) ==
  /\ Died(a)
  /\ pending[a] = NotPending
  /\ a \notin pending_deletions
  /\ actor' = Reaped(a)
  /\ IF modules = a /\ RETRY_ON_FAILURE
       THEN /\ backoff' = TRUE
            /\ timers' = [timers EXCEPT ![actor[a].version] = @ + 1]
       ELSE UNCHANGED <<backoff, timers>>
  /\ UNCHANGED <<active, events, compiling, mode, target, modules, pending,
                 pending_deletions, disk, bounds>>

-----------------------------------------------------------------------------
(* Module actors *)

(* on_start: open the database, which a new major version replaces. *)
start(a) ==
  LET major == Major[actor[a].version]
      f     == IF db_major[file] \in {NoMajor, major} THEN file ELSE file + 1
  IN /\ actor[a].state = "starting"
     /\ f \in Files
     /\ file' = f
     /\ db_major' = [db_major EXCEPT ![f] = major]
     /\ actor' = [actor EXCEPT ![a].state = "running", ![a].conn = f]
     /\ UNCHANGED <<active, events, compiling, timers, supervisor, bounds>>

stop(a) ==
  /\ actor[a].state = "running"
  /\ actor[a].stopping
  /\ actor' = [actor EXCEPT ![a].state = "dead"]
  /\ UNCHANGED <<active, events, compiling, timers, supervisor, disk, bounds>>

(* The guest traps, or on_start fails. *)
fail(a) ==
  /\ Live(a)
  /\ failures < MaxFailures
  /\ failures' = failures + 1
  /\ actor' = [actor EXCEPT ![a].state = "dead"]
  /\ UNCHANGED <<active, events, compiling, timers, supervisor, disk, ops,
                 crashes>>

(* The process dies and comes back: the store is all that is left.  The    *)
(* supervisor subscribes and reads the active modules, then compiles them. *)
restart_process ==
  /\ crashes < MaxCrashes
  /\ crashes' = crashes + 1
  /\ events' = <<>>
  /\ compiling' = [v \in Versions |-> 0]
  /\ timers' = [v \in Versions |-> 0]
  /\ mode' = "starting"
  /\ target' = active
  /\ modules' = 0
  /\ pending' = [a \in Actors |-> NotPending]
  /\ pending_deletions' = {}
  /\ backoff' = FALSE
  /\ actor' = [a \in Actors |->
       IF actor[a].state = "unborn" THEN Unborn
       ELSE [actor[a] EXCEPT !.state = "reaped"]]
  /\ UNCHANGED <<active, disk, ops, failures>>

on_start ==
  /\ mode = "starting"
  /\ mode' = "ready"
  /\ target' = NoVersion
  /\ IF target = NoVersion
       THEN UNCHANGED <<modules, pending, backoff, actor, disk>>
       ELSE load_module(target, FALSE)
  /\ UNCHANGED <<active, events, compiling, timers, pending_deletions, bounds>>

-----------------------------------------------------------------------------
Supervise ==
  \/ reset_compiled
  \/ on_activated
  \/ on_deactivated
  \/ on_deleted
  \/ \E v \in Versions : module_compiled(v) \/ restart_module(v)
  \/ \E a \in Actors :
       on_link_died_pending(a) \/ on_link_died_deleted(a) \/ on_link_died(a)
  \/ on_start

\* A replay from the page or the API.
replay == \E v \in Versions : reset(v)

Next ==
  \/ \E v \in Versions : activate_module(v)
  \/ replay
  \/ deactivate_module
  \/ delete_module
  \/ Supervise
  \/ \E a \in Actors : start(a) \/ stop(a) \/ fail(a)
  \/ restart_process

Spec == Init /\ [][Next]_vars

(* Fairness: the supervisor works through its mailbox, tasks and timers    *)
(* end, and an actor that was told to start or stop does so.               *)
FairSpec ==
  /\ Spec
  /\ WF_vars(Supervise)
  /\ \A a \in Actors : WF_vars(start(a)) /\ WF_vars(stop(a))

-----------------------------------------------------------------------------
(* Properties *)

\* The shape of the state.
TypeOK ==
  /\ active \in Versions \cup {NoVersion}
  /\ events \in Seq(ModuleEvent)
  /\ compiling \in [Versions -> Nat]
  /\ timers \in [Versions -> Nat]
  /\ mode \in {"starting", "ready", "resetting"}
  /\ target \in Versions \cup {NoVersion}
  /\ modules \in Actors \cup {0}
  /\ pending \in [Actors -> PendingModule]
  /\ pending_deletions \in SUBSET Actors
  /\ backoff \in BOOLEAN
  /\ actor \in [Actors -> Actor]
  /\ \A a \in Actors : actor[a].state # "unborn" => actor[a].version \in Versions
  /\ file \in Files
  /\ db_major \in [Files -> Nat]
  /\ ops \in Nat /\ failures \in Nat /\ crashes \in Nat

\* Two actors of one module never live at the same time: the successor of an
\* actor is spawned when it is gone (load_module, reset, on_link_died).
OneLiveActor ==
  \A a, b \in Actors : Live(a) /\ Live(b) => a = b

\* No live actor is forgotten: one that was not told to stop is in the
\* supervisor's map, so that a later deactivation, upgrade or replay reaches it.
NoOrphan ==
  \A a \in Actors : Live(a) /\ ~actor[a].stopping => modules = a

\* No database is removed or replaced under a running actor: a replay, a deletion
\* and a new major version wait until the actor before is gone (pending,
\* pending_deletions).
KeepsDatabase ==
  \A a \in Actors : actor[a].state = "running" => actor[a].conn = file

\* Once things have settled, the module that runs is the one that is active in
\* the store, unless a RestartModule message brought another one back.
SettledVersion ==
  Settled =>
    \A a \in Actors : Live(a) =>
      /\ active # NoVersion
      /\ actor[a].version = active \/ actor[a].restarted

\* What TypeOK leaves out: a version that is about to be spawned is one.
TypeInv ==
  /\ TypeOK
  /\ mode = "resetting" => target \in Versions
  /\ \A a \in Actors : pending[a] # NotPending => pending[a].version \in Versions

\* What makes these four inductive when operators are careful: a change is in one
\* place at a time and carries the active version; an actor on its way out is the
\* only one there is, and nothing else is under way until it is gone; actors are
\* numbered in the order of their birth.
Ending(a) ==
  \/ Live(a) /\ actor[a].stopping
  \/ pending[a] # NotPending
  \/ a \in pending_deletions

Compiling == \E v \in Versions : compiling[v] > 0
Upstream  == events # <<>> \/ mode # "ready" \/ Compiling

OneChange ==
  /\ events # <<>> => /\ Len(events) = 1
                      /\ Head(events).version = active
                      /\ mode = "ready" /\ ~Compiling
  /\ mode # "ready" => target = active /\ ~Compiling
  /\ \A v \in Versions : compiling[v] > 0 => active = v /\ compiling[v] = 1
  /\ \A a \in Actors : pending[a] # NotPending => pending[a].version = active

OneEnding ==
  \A a \in Actors : Ending(a) =>
    /\ ~Upstream /\ modules = 0 /\ ~backoff
    /\ Live(a) \/ actor[a].state = "dead"
    /\ \A b \in Actors : Ending(b) => a = b
    /\ pending[a] = NotPending \/ a \notin pending_deletions

Registered ==
  /\ modules # 0 => actor[modules].state # "unborn"
  /\ modules # 0 \/ backoff => active # NoVersion \/ events # <<>>

RightVersion ==
  \A a \in Actors : Live(a) /\ ~actor[a].stopping =>
    \/ events # <<>> \/ Compiling
    \/ active # NoVersion /\ (actor[a].version = active \/ actor[a].restarted)

Numbered ==
  \A a, b \in Actors : actor[a].state = "unborn" /\ a <= b => actor[b].state = "unborn"

IInv ==
  /\ TypeInv /\ Numbered
  /\ NoOrphan /\ KeepsDatabase
  /\ OneChange /\ OneEnding /\ Registered /\ RightVersion

-----------------------------------------------------------------------------
(* What operators see of it *)

Due ==
  IF events # <<>> THEN Head(events).type
  ELSE IF mode = "resetting" \/ \E a \in Actors : pending[a].reset_db THEN "Reset"
  ELSE IF pending_deletions # {} THEN "Deleted"
  ELSE IF \/ Compiling
          \/ mode = "starting" /\ active # NoVersion
          \/ \E a \in Actors : pending[a] # NotPending THEN "Activated"
  ELSE IF \E a \in Actors : Live(a) /\ actor[a].stopping THEN "Deactivated"
  ELSE "none"

Instance(a) ==
  [version |-> actor[a].version,
   database |-> IF actor[a].state = "running" THEN actor[a].conn ELSE 0]

Running == {Instance(a) : a \in {b \in Actors : Live(b)}}
Ended   == {actor[a].version : a \in {b \in Actors : actor[b].state \in {"dead", "reaped"}}}

Life == INSTANCE Lifecycle WITH
          due <- Due, running <- Running, ended <- Ended,
          database <- file, major <- db_major[file]

\* Actors that stop one after the other, compilations that end when they end, queued
\* successors, delayed restarts and restarts of the process together do no more than
\* Lifecycle: a change takes effect once, between two instances; an instance runs the
\* version that is active then, or one that failed before; and a database is replaced
\* only between two instances, for a replay, a deletion or a new major version.
LifeSpec == Life!Spec

\* Once things have settled, the version that runs is the active one.
RunsActiveVersion ==
  Settled => \A a \in Actors : Live(a) => actor[a].version = active

\* Finally an effect that is active runs and one that is not does not, whatever
\* finitely many failures, crashes and changes there were: no restart, queued
\* load or stop is lost.
Converges ==
  <>[](IF active = NoVersion THEN \A a \in Actors : ~Live(a)
                             ELSE \E a \in Actors : actor[a].state = "running")
=============================================================================
