------------------------------ MODULE Lifecycle ------------------------------
(***************************************************************************)
(* What the supervision of a module promises to operators who wait for one *)
(* change to take effect before they make the next: one instance at a      *)
(* time, of the active version or of one that failed before; databases     *)
(* that change hands only between two instances; and a database that is    *)
(* lost to a replay, a deletion or a new major version, and to nothing     *)
(* else.  There are neither actors nor messages here: a change is made,    *)
(* takes effect, and is no longer due.  ModuleSupervisor implements it.    *)
(***************************************************************************)
EXTENDS Naturals

CONSTANTS
  Versions, NoVersion,
  Major,             \* the major version of each version
  RETRY_ON_FAILURE   \* are instances that failed brought back?

NoMajor == 0   \* a database that was never opened

VARIABLES
  active,    \* the version operators want to run
  due,       \* the change that has not taken effect yet
  running,   \* the instance that runs: its version and its database, 0 until it has one
  ended,     \* versions an instance of which has ended
  database,  \* the database the module's path names, numbered as they are made
  major      \* the major version that opened it

vars == <<active, due, running, ended, database, major>>

Init ==
  /\ active = NoVersion /\ due = "none"
  /\ running = {} /\ ended = {}
  /\ database = 1 /\ major = NoMajor

Changes == {"Activated", "Deactivated", "Deleted", "Reset"}

Ask(change, version) ==
  /\ due = "none"
  /\ due' = change
  /\ CASE change = "Activated" -> version \in Versions
       [] change = "Deactivated" -> active # NoVersion /\ version = NoVersion
       [] change = "Deleted" -> version = NoVersion
       [] change = "Reset" -> active # NoVersion /\ version = active
  /\ active' = version
  /\ UNCHANGED <<running, ended, database, major>>

Fresh == database' = database + 1 /\ major' = NoMajor

\* The active version is brought up, on an empty database if it is to be replayed.
Begin ==
  /\ running = {}
  /\ due \in {"Activated", "Reset"}
  /\ due' = "none"
  /\ running' = {[version |-> active, database |-> 0]}
  /\ IF due = "Reset" THEN Fresh ELSE UNCHANGED <<database, major>>
  /\ UNCHANGED <<active, ended>>

\* A version that failed comes back.  It need not be the active one.
Resume(v) ==
  /\ RETRY_ON_FAILURE
  /\ running = {}
  /\ v \in ended
  /\ active # NoVersion \/ due \in {"Deactivated", "Deleted"}
  /\ running' = {[version |-> v, database |-> 0]}
  /\ UNCHANGED <<active, due, ended, database, major>>

\* The instance opens the database, which a new major version replaces.
Open(v) ==
  /\ running = {[version |-> v, database |-> 0]}
  /\ database' = IF major \in {NoMajor, Major[v]} THEN database ELSE database + 1
  /\ major' = Major[v]
  /\ running' = {[version |-> v, database |-> database']}
  /\ UNCHANGED <<active, due, ended>>

\* It stops, or fails.  A deactivation takes effect with that, if it is known yet.
End ==
  /\ running # {}
  /\ running' = {}
  /\ ended' = ended \cup {i.version : i \in running}
  /\ due' \in IF due = "Deactivated" THEN {due, "none"} ELSE {due}
  /\ UNCHANGED <<active, database, major>>

\* Nothing, or nothing else, has to be done for a change.
Done ==
  /\ due' = "none"
  /\ \/ /\ due = "Activated"
        /\ \E i \in running : i.version = active
        /\ UNCHANGED <<database, major>>
     \/ due = "Deactivated" /\ running = {} /\ UNCHANGED <<database, major>>
     \/ due = "Deleted" /\ running = {} /\ Fresh
  /\ UNCHANGED <<active, running, ended>>

\* After a restart of the process only what is active and the database are known.
Restart ==
  /\ running' = {}
  /\ ended' = ended \cup {i.version : i \in running}
  /\ due' = IF active = NoVersion THEN "none" ELSE "Activated"
  /\ UNCHANGED <<active, database, major>>

Next ==
  \/ \E change \in Changes, version \in Versions \cup {NoVersion} : Ask(change, version)
  \/ Begin
  \/ \E v \in Versions : Resume(v) \/ Open(v)
  \/ End
  \/ Done
  \/ Restart

Spec == Init /\ [][Next]_vars
=============================================================================
