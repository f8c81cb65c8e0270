----------------------- MODULE ModuleSupervisorProofs -----------------------
(* What holds of a module's supervisor, for every number of versions,       *)
(* actors, operator actions, failures and restarts of the process.          *)
EXTENDS ModuleSupervisor, FiniteSetTheorems, SequenceTheorems, TLAPS

-----------------------------------------------------------------------------
(* Types *)

LEMMA InitType == Init => TypeInv
<1> SUFFICES ASSUME Init PROVE TypeInv
  OBVIOUS
<1>1. 1 \in Files
  BY BoundsAssumption DEF Files
<1>2. NotPending \in PendingModule
  BY DEF NotPending, PendingModule
<1>3. Unborn \in Actor /\ Unborn.state = "unborn"
  BY BoundsAssumption DEF Unborn, Actor
<1>4. <<>> \in Seq(ModuleEvent)
  OBVIOUS
<1> QED
  BY <1>1, <1>2, <1>3, <1>4 DEF Init, TypeInv, TypeOK, NoMajor

\* Changing one actor's record.
LEMMA ActorType ==
  ASSUME TypeOK, NEW a \in Actors, NEW x \in Actor,
         x.state # "unborn" => x.version \in Versions
  PROVE  /\ [actor EXCEPT ![a] = x] \in [Actors -> Actor]
         /\ \A b \in Actors : [actor EXCEPT ![a] = x][b].state # "unborn" =>
              [actor EXCEPT ![a] = x][b].version \in Versions
BY DEF TypeOK

LEMMA StateType ==
  ASSUME TypeOK, NEW a \in Actors, actor[a].state # "unborn",
         NEW state \in {"starting", "running", "dead", "reaped"}
  PROVE  /\ [actor EXCEPT ![a].state = state] \in [Actors -> Actor]
         /\ \A b \in Actors : [actor EXCEPT ![a].state = state][b].state # "unborn" =>
              [actor EXCEPT ![a].state = state][b].version \in Versions
<1>1. actor[a] \in Actor /\ actor[a].version \in Versions
  BY DEF TypeOK
<1> DEFINE x == [actor[a] EXCEPT !.state = state]
<1>2. x \in Actor /\ x.version \in Versions
  BY <1>1 DEF Actor
<1>3. [actor EXCEPT ![a].state = state] = [actor EXCEPT ![a] = x]
  OBVIOUS
<1> HIDE DEF x
<1> QED
  BY <1>2, <1>3, ActorType

LEMMA StopType ==
  ASSUME TypeOK, NEW a \in Actors
  PROVE  /\ [actor EXCEPT ![a].stopping = TRUE] \in [Actors -> Actor]
         /\ \A b \in Actors : [actor EXCEPT ![a].stopping = TRUE][b].state # "unborn" =>
              [actor EXCEPT ![a].stopping = TRUE][b].version \in Versions
<1>1. actor[a] \in Actor /\ (actor[a].state # "unborn" => actor[a].version \in Versions)
  BY DEF TypeOK
<1> DEFINE x == [actor[a] EXCEPT !.stopping = TRUE]
<1>2. x \in Actor /\ x.version = actor[a].version /\ x.state = actor[a].state
  BY <1>1 DEF Actor
<1>3. [actor EXCEPT ![a].stopping = TRUE] = [actor EXCEPT ![a] = x]
  OBVIOUS
<1> HIDE DEF x
<1> QED
  BY <1>1, <1>2, <1>3, ActorType

LEMMA SpawnType ==
  ASSUME TypeOK, NEW acts \in [Actors -> Actor],
         \A a \in Actors : acts[a].state # "unborn" => acts[a].version \in Versions,
         NEW version \in Versions, NEW reset_db \in BOOLEAN, NEW restarted \in BOOLEAN,
         spawn_module(acts, version, reset_db, restarted)
  PROVE  /\ actor' \in [Actors -> Actor]
         /\ \A a \in Actors : actor'[a].state # "unborn" => actor'[a].version \in Versions
         /\ modules' \in Actors
         /\ file' \in Files /\ db_major' = db_major
<1> DEFINE new == [state |-> "starting", version |-> version, conn |-> 0,
                   stopping |-> FALSE, restarted |-> restarted]
<1>1. new \in Actor /\ new.version \in Versions
  BY BoundsAssumption DEF Actor
<1>2. /\ NewActor \in Actors /\ modules' = NewActor
      /\ actor' = [acts EXCEPT ![NewActor] = new]
      /\ file' \in Files /\ db_major' = db_major
  BY DEF spawn_module
<1> HIDE DEF new
<1> QED
  BY <1>1, <1>2

LEMMA LoadType ==
  ASSUME TypeInv, NEW version \in Versions, NEW reset_db \in BOOLEAN,
         load_module(version, reset_db)
  PROVE  /\ actor' \in [Actors -> Actor]
         /\ \A a \in Actors : actor'[a].state # "unborn" => actor'[a].version \in Versions
         /\ modules' \in Actors \cup {0} /\ backoff' \in BOOLEAN
         /\ file' \in Files /\ db_major' = db_major
         /\ pending' \in [Actors -> PendingModule]
         /\ \A a \in Actors : pending'[a] # NotPending => pending'[a].version \in Versions
<1>1. TypeOK /\ \A a \in Actors : pending[a] # NotPending => pending[a].version \in Versions
  BY DEF TypeInv
<1>2. CASE is_alive /\ modules' = 0 /\ stop_gracefully(modules) /\ UNCHANGED disk
           /\ pending' = [pending EXCEPT
                ![modules] = [version |-> version, reset_db |-> reset_db]]
  <2>1. modules \in Actors
    BY <1>1, <1>2 DEF is_alive, TypeOK
  <2>2. [version |-> version, reset_db |-> reset_db] \in PendingModule
    BY DEF PendingModule
  <2>3. pending' \in [Actors -> PendingModule]
    BY <1>1, <1>2, <2>2 DEF TypeOK
  <2>4. \A a \in Actors : pending'[a] # NotPending => pending'[a].version \in Versions
    BY <1>1, <1>2, <2>1 DEF TypeOK
  <2>5. actor' = [actor EXCEPT ![modules].stopping = TRUE]
    BY <1>2 DEF stop_gracefully
  <2>6. /\ actor' \in [Actors -> Actor]
        /\ \A a \in Actors : actor'[a].state # "unborn" => actor'[a].version \in Versions
    BY <1>1, <2>1, <2>5, StopType
  <2>7. backoff' = FALSE /\ file' \in Files /\ db_major' = db_major
    BY <1>1, <1>2 DEF load_module, disk, TypeOK
  <2> QED
    BY <1>2, <2>3, <2>4, <2>6, <2>7
<1>3. CASE spawn_module(actor, version, reset_db, FALSE) /\ UNCHANGED pending
  <2>1. /\ actor \in [Actors -> Actor] /\ FALSE \in BOOLEAN
        /\ \A a \in Actors : actor[a].state # "unborn" => actor[a].version \in Versions
    BY <1>1 DEF TypeOK
  <2>2. /\ actor' \in [Actors -> Actor]
        /\ \A a \in Actors : actor'[a].state # "unborn" => actor'[a].version \in Versions
        /\ modules' \in Actors /\ file' \in Files /\ db_major' = db_major
    BY <1>1, <1>3, <2>1, SpawnType
  <2>3. backoff' = FALSE
    BY DEF load_module
  <2> QED
    BY <1>1, <1>3, <2>2, <2>3 DEF TypeOK
<1> QED
  BY <1>2, <1>3 DEF load_module

LEMMA NextType == TypeInv /\ [Next]_vars => TypeInv'
<1> SUFFICES ASSUME TypeInv, [Next]_vars PROVE TypeInv'
  OBVIOUS
<1>0. /\ TypeOK
      /\ mode = "resetting" => target \in Versions
      /\ \A a \in Actors : pending[a] # NotPending => pending[a].version \in Versions
  BY DEF TypeInv
<1>a. ASSUME NEW v \in Versions PROVE compiling[v] \in Nat /\ timers[v] \in Nat
  BY <1>0 DEF TypeOK
<1>1. ASSUME NEW v \in Versions, activate_module(v) PROVE TypeInv'
  <2>1. events' \in Seq(ModuleEvent)
    <3>1. [type |-> "Activated", version |-> v] \in ModuleEvent
      BY DEF ModuleEvent
    <3> QED
      BY <1>0, <1>1, <3>1, AppendProperties DEF activate_module, TypeOK
  <2> QED
    BY <1>0, <1>1, <2>1
    DEF activate_module, Operate, TypeOK, TypeInv, supervisor, disk
<1>2. CASE deactivate_module \/ delete_module
  <2>1. events' \in Seq(ModuleEvent)
    <3>1. PICK t \in {"Deactivated", "Deleted"} :
            events' = Append(events, [type |-> t, version |-> NoVersion])
      BY <1>2 DEF deactivate_module, delete_module
    <3>2. [type |-> t, version |-> NoVersion] \in ModuleEvent
      BY DEF ModuleEvent
    <3> QED
      BY <1>0, <3>1, <3>2, AppendProperties DEF TypeOK
  <2>2. active' = NoVersion /\ ops' = ops + 1
        /\ UNCHANGED <<compiling, timers, supervisor, actor, disk, failures, crashes>>
    BY <1>2 DEF deactivate_module, delete_module, Operate
  <2> QED
    BY <1>0, <2>1, <2>2 DEF TypeOK, TypeInv, supervisor, disk
<1>3. ASSUME NEW v \in Versions, reset(v) PROVE TypeInv'
  BY <1>0, <1>3 DEF reset, Operate, TypeOK, TypeInv, disk
<1>4. CASE reset_compiled
  <2>1. target \in Versions /\ load_module(target, TRUE) /\ TRUE \in BOOLEAN
    BY <1>0, <1>4 DEF reset_compiled
  <2>2. /\ actor' \in [Actors -> Actor]
        /\ \A a \in Actors : actor'[a].state # "unborn" => actor'[a].version \in Versions
        /\ modules' \in Actors \cup {0} /\ backoff' \in BOOLEAN
        /\ file' \in Files /\ db_major' = db_major
        /\ pending' \in [Actors -> PendingModule]
        /\ \A a \in Actors : pending'[a] # NotPending => pending'[a].version \in Versions
    BY <2>1, LoadType
  <2> QED
    BY <1>0, <1>4, <2>2 DEF reset_compiled, TypeOK, TypeInv, bounds
<1>5. CASE on_activated
  <2>1. events # <<>> /\ Head(events).type = "Activated" /\ events' = Tail(events)
    BY <1>5 DEF on_activated, NextEvent
  <2>2. Head(events) \in ModuleEvent /\ events' \in Seq(ModuleEvent)
    BY <1>0, <2>1, HeadTailProperties DEF TypeOK
  <2>3. Head(events).version \in Versions
    BY <2>1, <2>2 DEF ModuleEvent
  <2>4. compiling' \in [Versions -> Nat]
    <3>1. CASE compiling' = compiling
      BY <1>0, <3>1 DEF TypeOK
    <3>2. CASE compiling' = [compiling EXCEPT ![Head(events).version] = @ + 1]
      BY <1>0, <1>a, <2>3, <3>2 DEF TypeOK
    <3> QED
      BY <1>5, <3>1, <3>2 DEF on_activated
  <2> QED
    BY <1>0, <1>5, <2>2, <2>4 DEF on_activated, TypeOK, TypeInv, supervisor, disk, bounds
<1>6. ASSUME NEW v \in Versions, module_compiled(v) PROVE TypeInv'
  <2>1. load_module(v, FALSE) /\ FALSE \in BOOLEAN
    BY <1>6 DEF module_compiled
  <2>2. /\ actor' \in [Actors -> Actor]
        /\ \A a \in Actors : actor'[a].state # "unborn" => actor'[a].version \in Versions
        /\ modules' \in Actors \cup {0} /\ backoff' \in BOOLEAN
        /\ file' \in Files /\ db_major' = db_major
        /\ pending' \in [Actors -> PendingModule]
        /\ \A a \in Actors : pending'[a] # NotPending => pending'[a].version \in Versions
    BY <2>1, LoadType
  <2>3. compiling' \in [Versions -> Nat]
    BY <1>0, <1>6, <1>a DEF module_compiled, TypeOK
  <2> QED
    BY <1>0, <1>6, <2>2, <2>3 DEF module_compiled, TypeOK, TypeInv, bounds
<1>b. ASSUME NEW type, NextEvent(type) PROVE events' \in Seq(ModuleEvent)
  BY <1>0, <1>b, HeadTailProperties DEF NextEvent, TypeOK
<1>7. CASE on_deactivated
  <2>1. events' \in Seq(ModuleEvent)
    BY <1>7, <1>b DEF on_deactivated
  <2>2. /\ actor' \in [Actors -> Actor]
        /\ \A a \in Actors : actor'[a].state # "unborn" => actor'[a].version \in Versions
    <3>1. CASE is_alive
      <4>1. modules \in Actors
        BY <1>0, <3>1 DEF is_alive, TypeOK
      <4>2. actor' = [actor EXCEPT ![modules].stopping = TRUE]
        BY <1>7, <3>1 DEF on_deactivated, stop_gracefully
      <4> QED
        BY <1>0, <4>1, <4>2, StopType
    <3>2. CASE ~is_alive
      BY <1>0, <1>7, <3>2 DEF on_deactivated, TypeOK
    <3> QED
      BY <3>1, <3>2
  <2> QED
    BY <1>0, <1>7, <2>1, <2>2 DEF on_deactivated, TypeOK, TypeInv, disk, bounds
<1>8. CASE on_deleted
  <2>1. events' \in Seq(ModuleEvent)
    BY <1>8, <1>b DEF on_deleted
  <2>2. /\ actor' \in [Actors -> Actor]
        /\ \A a \in Actors : actor'[a].state # "unborn" => actor'[a].version \in Versions
        /\ pending_deletions' \in SUBSET Actors /\ file' \in Files
    <3>1. CASE is_alive /\ pending_deletions' = pending_deletions \cup {modules}
               /\ stop_gracefully(modules) /\ UNCHANGED file
      <4>1. modules \in Actors
        BY <1>0, <3>1 DEF is_alive, TypeOK
      <4>2. actor' = [actor EXCEPT ![modules].stopping = TRUE]
        BY <3>1 DEF stop_gracefully
      <4>3. /\ actor' \in [Actors -> Actor]
            /\ \A a \in Actors :
                 actor'[a].state # "unborn" => actor'[a].version \in Versions
        BY <1>0, <4>1, <4>2, StopType
      <4> QED
        BY <1>0, <3>1, <4>1, <4>3 DEF TypeOK
    <3>2. CASE file + 1 \in Files /\ file' = file + 1
               /\ UNCHANGED <<pending_deletions, actor>>
      BY <1>0, <3>2 DEF TypeOK
    <3> QED
      BY <1>8, <3>1, <3>2 DEF on_deleted
  <2> QED
    BY <1>0, <1>8, <2>1, <2>2 DEF on_deleted, TypeOK, TypeInv, bounds
<1>9. ASSUME NEW v \in Versions, restart_module(v) PROVE TypeInv'
  <2>1. timers' \in [Versions -> Nat]
    BY <1>0, <1>9, <1>a DEF restart_module, TypeOK
  <2>2. /\ actor' \in [Actors -> Actor]
        /\ \A a \in Actors : actor'[a].state # "unborn" => actor'[a].version \in Versions
        /\ modules' \in Actors \cup {0} /\ file' \in Files /\ db_major' = db_major
    <3>1. CASE spawn_module(actor, v, FALSE, TRUE)
      <4>1. /\ actor \in [Actors -> Actor] /\ FALSE \in BOOLEAN /\ TRUE \in BOOLEAN
            /\ \A a \in Actors : actor[a].state # "unborn" => actor[a].version \in Versions
        BY <1>0 DEF TypeOK
      <4> QED
        BY <1>0, <3>1, <4>1, SpawnType
    <3>2. CASE UNCHANGED <<modules, actor, disk>>
      BY <1>0, <3>2 DEF TypeOK, disk
    <3> QED
      BY <1>9, <3>1, <3>2 DEF restart_module
  <2> QED
    BY <1>0, <1>9, <2>1, <2>2 DEF restart_module, TypeOK, TypeInv, bounds
<1>c. ASSUME NEW a \in Actors, Died(a)
      PROVE  /\ Reaped(a) \in [Actors -> Actor]
             /\ \A b \in Actors : Reaped(a)[b].state # "unborn" =>
                                    Reaped(a)[b].version \in Versions
  BY <1>0, <1>c, StateType DEF Died, Reaped
<1>10. ASSUME NEW a \in Actors, on_link_died_pending(a) PROVE TypeInv'
  <2>1. /\ Died(a) /\ pending[a] # NotPending
        /\ pending' = [pending EXCEPT ![a] = NotPending]
        /\ spawn_module(Reaped(a), pending[a].version, pending[a].reset_db, FALSE)
    BY <1>10 DEF on_link_died_pending
  <2>2. /\ pending[a].version \in Versions /\ pending[a].reset_db \in BOOLEAN
        /\ FALSE \in BOOLEAN
    BY <1>0, <2>1 DEF TypeOK, PendingModule
  <2>3. /\ actor' \in [Actors -> Actor]
        /\ \A b \in Actors : actor'[b].state # "unborn" => actor'[b].version \in Versions
        /\ modules' \in Actors /\ file' \in Files /\ db_major' = db_major
    BY <1>0, <1>c, <2>1, <2>2, SpawnType
  <2>4. NotPending \in PendingModule
    BY DEF NotPending, PendingModule
  <2>5. /\ pending' \in [Actors -> PendingModule]
        /\ \A b \in Actors : pending'[b] # NotPending => pending'[b].version \in Versions
    BY <1>0, <2>1, <2>4 DEF TypeOK
  <2> QED
    BY <1>0, <1>10, <2>3, <2>5 DEF on_link_died_pending, TypeOK, TypeInv, bounds
<1>11. ASSUME NEW a \in Actors, on_link_died_deleted(a) PROVE TypeInv'
  <2>1. /\ actor' \in [Actors -> Actor]
        /\ \A b \in Actors : actor'[b].state # "unborn" => actor'[b].version \in Versions
    BY <1>11, <1>c DEF on_link_died_deleted
  <2> QED
    BY <1>0, <1>11, <2>1 DEF on_link_died_deleted, TypeOK, TypeInv, bounds
<1>12. ASSUME NEW a \in Actors, on_link_died(a) PROVE TypeInv'
  <2>1. /\ actor' \in [Actors -> Actor]
        /\ \A b \in Actors : actor'[b].state # "unborn" => actor'[b].version \in Versions
    BY <1>12, <1>c DEF on_link_died
  <2>2. actor[a].version \in Versions
    BY <1>0, <1>12 DEF on_link_died, Died, TypeOK
  <2>3. timers' \in [Versions -> Nat] /\ backoff' \in BOOLEAN
    <3>1. CASE timers' = [timers EXCEPT ![actor[a].version] = @ + 1] /\ backoff' = TRUE
      BY <1>0, <1>a, <2>2, <3>1 DEF TypeOK
    <3>2. CASE UNCHANGED <<backoff, timers>>
      BY <1>0, <3>2 DEF TypeOK
    <3> QED
      BY <1>12, <3>1, <3>2 DEF on_link_died
  <2> QED
    BY <1>0, <1>12, <2>1, <2>3 DEF on_link_died, TypeOK, TypeInv, disk, bounds
<1>13. CASE on_start
  <2>1. /\ actor' \in [Actors -> Actor]
        /\ \A a \in Actors : actor'[a].state # "unborn" => actor'[a].version \in Versions
        /\ modules' \in Actors \cup {0} /\ backoff' \in BOOLEAN
        /\ file' \in Files /\ db_major' = db_major
        /\ pending' \in [Actors -> PendingModule]
        /\ \A a \in Actors : pending'[a] # NotPending => pending'[a].version \in Versions
    <3>1. CASE target = NoVersion
      BY <1>0, <1>13, <3>1 DEF on_start, TypeOK, disk
    <3>2. CASE target # NoVersion
      <4>1. target \in Versions /\ load_module(target, FALSE) /\ FALSE \in BOOLEAN
        BY <1>0, <1>13, <3>2 DEF on_start, TypeOK
      <4> QED
        BY <4>1, LoadType
    <3> QED
      BY <3>1, <3>2
  <2> QED
    BY <1>0, <1>13, <2>1 DEF on_start, TypeOK, TypeInv, bounds
<1>14. ASSUME NEW a \in Actors, start(a) PROVE TypeInv'
  <2> DEFINE major == Major[actor[a].version]
             f     == IF db_major[file] \in {NoMajor, major} THEN file ELSE file + 1
             x     == [actor[a] EXCEPT !.state = "running", !.conn = f]
  <2>1. actor[a] \in Actor /\ actor[a].version \in Versions
    BY <1>0, <1>14 DEF start, TypeOK
  <2>2. f \in Files /\ f \in 0 .. MaxFiles /\ major \in Nat
    BY <1>14, <2>1, VersionsAssumption, BoundsAssumption DEF start, Files
  <2>3. x \in Actor /\ x.version \in Versions
    BY <2>1, <2>2 DEF Actor
  <2>4. actor' = [actor EXCEPT ![a] = x]
    BY <1>14 DEF start
  <2>5. file' \in Files /\ db_major' \in [Files -> Nat]
    BY <1>0, <1>14, <2>2 DEF start, TypeOK
  <2> HIDE DEF x
  <2>6. /\ actor' \in [Actors -> Actor]
        /\ \A b \in Actors : actor'[b].state # "unborn" => actor'[b].version \in Versions
    BY <1>0, <2>3, <2>4, ActorType
  <2> QED
    BY <1>0, <1>14, <2>5, <2>6 DEF start, TypeOK, TypeInv, supervisor, bounds
<1>15. ASSUME NEW a \in Actors, stop(a) PROVE TypeInv'
  <2>1. /\ actor' \in [Actors -> Actor]
        /\ \A b \in Actors : actor'[b].state # "unborn" => actor'[b].version \in Versions
    BY <1>0, <1>15, StateType DEF stop
  <2> QED
    BY <1>0, <1>15, <2>1 DEF stop, TypeOK, TypeInv, supervisor, disk, bounds
<1>16. ASSUME NEW a \in Actors, fail(a) PROVE TypeInv'
  <2>1. /\ actor' \in [Actors -> Actor]
        /\ \A b \in Actors : actor'[b].state # "unborn" => actor'[b].version \in Versions
    BY <1>0, <1>16, StateType DEF fail, Live
  <2> QED
    BY <1>0, <1>16, <2>1 DEF fail, TypeOK, TypeInv, supervisor, disk
<1>17. CASE restart_process
  <2>1. NotPending \in PendingModule /\ <<>> \in Seq(ModuleEvent)
    BY DEF NotPending, PendingModule
  <2>2. Unborn \in Actor /\ Unborn.state = "unborn"
    BY BoundsAssumption DEF Unborn, Actor
  <2>3. \A a \in Actors : /\ [actor[a] EXCEPT !.state = "reaped"] \in Actor
                          /\ [actor[a] EXCEPT !.state = "reaped"].version = actor[a].version
    BY <1>0 DEF TypeOK, Actor
  <2>4. /\ actor' \in [Actors -> Actor]
        /\ \A a \in Actors : actor'[a].state # "unborn" => actor'[a].version \in Versions
    BY <1>0, <1>17, <2>2, <2>3 DEF restart_process, TypeOK
  <2>5. /\ compiling' \in [Versions -> Nat] /\ timers' \in [Versions -> Nat]
        /\ pending' \in [Actors -> PendingModule]
        /\ \A a \in Actors : pending'[a] = NotPending
    BY <1>17, <2>1 DEF restart_process
  <2>6. /\ active' = active /\ target' = active /\ events' = <<>> /\ mode' = "starting"
        /\ modules' = 0 /\ pending_deletions' = {} /\ backoff' = FALSE
        /\ crashes' = crashes + 1 /\ UNCHANGED <<file, db_major, ops, failures>>
    BY <1>17 DEF restart_process, disk
  <2>7. /\ active' \in Versions \cup {NoVersion} /\ target' \in Versions \cup {NoVersion}
        /\ file' \in Files /\ db_major' \in [Files -> Nat]
        /\ ops' \in Nat /\ failures' \in Nat /\ crashes' \in Nat
    BY <1>0, <2>6 DEF TypeOK
  <2>8. TypeOK'
    BY <2>1, <2>4, <2>5, <2>6, <2>7 DEF TypeOK
  <2> QED
    BY <2>5, <2>6, <2>8 DEF TypeInv
<1>18. CASE UNCHANGED vars
  BY <1>0, <1>18 DEF vars, TypeOK, TypeInv, supervisor, disk, bounds
<1> QED
  BY <1>1, <1>2, <1>3, <1>4, <1>5, <1>6, <1>7, <1>8, <1>9, <1>10, <1>11, <1>12, <1>13,
     <1>14, <1>15, <1>16, <1>17, <1>18 DEF Next, Supervise, replay

\* The state keeps its shape, whatever operators do and however careful they are.
THEOREM TypeCorrect == Spec => []TypeOK
<1>1. TypeInv => TypeOK
  BY DEF TypeInv
<1> QED
  BY InitType, NextType, <1>1, PTL DEF Spec

-----------------------------------------------------------------------------
(* What the parts of the invariant say together *)

\* A new actor gets the number after those already born.
LEMMA Fresh ==
  ASSUME TypeOK, Numbered, NewActor \in Actors
  PROVE  /\ actor[NewActor].state = "unborn"
         /\ \A a \in Actors : a < NewActor => actor[a].state # "unborn"
<1> DEFINE Born == {a \in Actors : actor[a].state # "unborn"}
           n    == Cardinality(Born)
<1>1. IsFiniteSet(Actors)
  BY FS_Interval, BoundsAssumption DEF Actors
<1>2. IsFiniteSet(Born) /\ n \in Nat
  BY <1>1, FS_Subset, FS_CardinalityType
<1>3. NewActor = n + 1
  BY DEF NewActor
<1>4. Born \subseteq Actors /\ Actors = 1 .. MaxActors /\ MaxActors \in Nat
  BY BoundsAssumption DEF Actors
<1>5. \A b \in Actors : b \in Born <=> actor[b].state # "unborn"
  OBVIOUS
<1> HIDE DEF Born
<1>6. actor[NewActor].state = "unborn"
  <2> SUFFICES ASSUME actor[NewActor].state # "unborn" PROVE FALSE
    OBVIOUS
  <2>1. 1 .. n + 1 \subseteq Born
    <3> SUFFICES ASSUME NEW b \in 1 .. n + 1 PROVE b \in Born
      OBVIOUS
    <3>1. b \in Actors /\ b <= NewActor
      BY <1>2, <1>3, <1>4
    <3> QED
      BY <1>5, <3>1 DEF Numbered
  <2>2. Cardinality(1 .. n + 1) <= n
    BY <1>2, <2>1, FS_Subset
  <2>3. Cardinality(1 .. n + 1) = n + 1
    BY <1>2, FS_Interval
  <2> QED
    BY <1>2, <2>2, <2>3
<1>7. ASSUME NEW a \in Actors, a < NewActor PROVE actor[a].state # "unborn"
  <2> SUFFICES ASSUME actor[a].state = "unborn" PROVE FALSE
    OBVIOUS
  <2>0. a \in Nat \ {0}
    BY <1>4
  <2>1. Born \subseteq 1 .. a - 1
    <3> SUFFICES ASSUME NEW b \in Born PROVE b \in 1 .. a - 1
      OBVIOUS
    <3>1. b \in Actors /\ b \in Nat \ {0} /\ actor[b].state # "unborn"
      BY <1>4, <1>5
    <3>2. ~(a <= b)
      BY <3>1 DEF Numbered
    <3> QED
      BY <2>0, <3>1, <3>2
  <2>2. IsFiniteSet(1 .. a - 1) /\ Cardinality(1 .. a - 1) = a - 1
    BY <2>0, FS_Interval
  <2>3. n <= a - 1
    BY <2>1, <2>2, FS_Subset
  <2> QED
    BY <1>2, <1>3, <1>7, <2>0, <2>3
<1> QED
  BY <1>6, <1>7

\* Two live actors would be two on their way out, or one that is registered.
LEMMA LiveIsOne == IInv => OneLiveActor
<1> SUFFICES ASSUME IInv, NEW a \in Actors, NEW b \in Actors, Live(a), Live(b)
             PROVE  a = b
  BY DEF OneLiveActor
<1>1. a # 0 /\ b # 0
  BY BoundsAssumption DEF Actors
<1>2. CASE actor[a].stopping
  BY <1>1, <1>2 DEF IInv, OneEnding, NoOrphan, Ending
<1>3. CASE ~actor[a].stopping
  BY <1>1, <1>3 DEF IInv, OneEnding, NoOrphan, Ending
<1> QED
  BY <1>2, <1>3

\* While a change is on its way to the supervisor, no actor is on its way out; a
\* live one is the registered one.
LEMMA UpstreamAlone ==
  ASSUME IInv, Upstream \/ backoff \/ modules # 0
  PROVE  /\ \A a \in Actors : ~Ending(a)
         /\ \A a \in Actors : pending[a] = NotPending
         /\ pending_deletions = {}
         /\ \A a \in Actors : Live(a) => ~actor[a].stopping /\ modules = a /\ is_alive
<1>1. \A a \in Actors : ~Ending(a)
  BY DEF IInv, OneEnding
<1>2. \A a \in Actors : a # 0
  BY BoundsAssumption DEF Actors
<1>3. pending_deletions \subseteq Actors
  BY DEF IInv, TypeInv, TypeOK
<1> QED
  BY <1>1, <1>2, <1>3 DEF Ending, IInv, NoOrphan, is_alive

\* An actor on its way out that is dead was the last one.
LEMMA EndingAlone ==
  ASSUME IInv, NEW a \in Actors, Ending(a), actor[a].state = "dead"
  PROVE  /\ ~Upstream /\ modules = 0 /\ ~backoff
         /\ \A b \in Actors : ~Live(b)
         /\ \A b \in Actors : b # a => ~Ending(b)
         /\ pending[a] = NotPending \/ a \notin pending_deletions
<1>1. /\ ~Upstream /\ modules = 0 /\ ~backoff
      /\ \A b \in Actors : b # a => ~Ending(b)
      /\ pending[a] = NotPending \/ a \notin pending_deletions
  BY DEF IInv, OneEnding
<1>2. \A b \in Actors : b # 0
  BY BoundsAssumption DEF Actors
<1>3. \A b \in Actors : ~Live(b)
  BY <1>1, <1>2 DEF IInv, NoOrphan, Ending, Live
<1> QED
  BY <1>1, <1>3

\* When things have settled nothing is on its way.
LEMMA SettledCalm ==
  ASSUME IInv, Settled
  PROVE  /\ ~Upstream /\ mode = "ready" /\ events = <<>> /\ ~Compiling
         /\ \A v \in Versions : compiling[v] = 0
         /\ \A a \in Actors : ~Ending(a)
<1>1. /\ mode = "ready" /\ events = <<>> /\ \A v \in Versions : compiling[v] = 0
      /\ \A a \in Actors : pending[a] = NotPending /\ actor[a].state # "dead"
                           /\ ~(Live(a) /\ actor[a].stopping)
  BY DEF Settled
<1>2. ~Compiling
  BY <1>1 DEF Compiling
<1>3. ASSUME NEW a \in Actors PROVE ~Ending(a)
  <2>1. a # 0
    BY BoundsAssumption DEF Actors
  <2> QED
    BY <1>1, <2>1 DEF Ending, IInv, OneEnding, NoOrphan
<1> QED
  BY <1>1, <1>2, <1>3 DEF Upstream

\* What a spawn does when no actor is alive.
LEMMA Spawned ==
  ASSUME TypeOK, Numbered, NEW acts \in [Actors -> Actor],
         \A a \in Actors : acts[a].state = "unborn" <=> actor[a].state = "unborn",
         \A a \in Actors : acts[a].state \notin {"starting", "running"},
         NEW version \in Versions, NEW reset_db \in BOOLEAN, NEW restarted \in BOOLEAN,
         spawn_module(acts, version, reset_db, restarted)
  PROVE  /\ modules' \in Actors /\ modules' # 0
         /\ actor'[modules'] = [state |-> "starting", version |-> version, conn |-> 0,
                                stopping |-> FALSE, restarted |-> restarted]
         /\ \A a \in Actors : a # modules' => actor'[a] = acts[a]
         /\ \A a \in Actors : Live(a)' => a = modules'
         /\ Numbered' /\ NoOrphan' /\ KeepsDatabase'
<1> DEFINE new == [state |-> "starting", version |-> version, conn |-> 0,
                   stopping |-> FALSE, restarted |-> restarted]
<1>1. NewActor \in Actors /\ modules' = NewActor /\ actor' = [acts EXCEPT ![NewActor] = new]
  BY DEF spawn_module
<1>2. /\ actor[NewActor].state = "unborn"
      /\ \A a \in Actors : a < NewActor => actor[a].state # "unborn"
  BY <1>1, Fresh
<1>3. new.state = "starting"
  OBVIOUS
<1>4. modules' # 0
  BY <1>1, BoundsAssumption DEF Actors
<1> HIDE DEF new
<1>5. \A a \in Actors : actor'[a] = IF a = modules' THEN new ELSE acts[a]
  BY <1>1
<1>6. \A a \in Actors : Live(a)' => a = modules'
  BY <1>5 DEF Live
<1>7. Numbered'
  <2> SUFFICES ASSUME NEW a \in Actors, NEW b \in Actors, a <= b,
                      actor'[a].state = "unborn"
               PROVE  actor'[b].state = "unborn"
    BY DEF Numbered
  <2>1. a # modules' /\ actor[a].state = "unborn"
    BY <1>3, <1>5
  <2>2. ~(a < NewActor) /\ a # NewActor
    BY <1>1, <1>2, <2>1
  <2>3. b # modules'
    BY <1>1, <2>2 DEF Actors
  <2>4. actor[b].state = "unborn"
    BY <2>1 DEF Numbered
  <2> QED
    BY <1>5, <2>3, <2>4
<1>8. NoOrphan'
  BY <1>6 DEF NoOrphan
<1>9. KeepsDatabase'
  BY <1>3, <1>5 DEF KeepsDatabase
<1> QED
  BY <1>1, <1>4, <1>5, <1>6, <1>7, <1>8, <1>9 DEF new

-----------------------------------------------------------------------------
(* The steps, under careful operators *)

Parts == /\ Numbered /\ NoOrphan /\ KeepsDatabase
         /\ OneChange /\ OneEnding /\ Registered /\ RightVersion

\* An operator's change is announced by an event.
LEMMA AnnounceInv ==
  ASSUME IInv, Settled, NEW e, events' = Append(events, e), e.version = active',
         UNCHANGED <<compiling, timers, supervisor, actor, disk>>
  PROVE  Parts'
<1>1. /\ mode = "ready" /\ events = <<>> /\ \A v \in Versions : compiling[v] = 0
      /\ \A a \in Actors : ~Ending(a)
  BY SettledCalm
<1>2. events' = <<e>>
  BY <1>1
<1>3. Len(events') = 1 /\ Head(events') = e /\ events' # <<>>
  BY <1>2
<1>4. Numbered' /\ NoOrphan' /\ KeepsDatabase'
  BY DEF IInv, Numbered, NoOrphan, KeepsDatabase, Live, supervisor, disk
<1>5. \A a \in Actors : ~Ending(a)'
  BY <1>1 DEF Ending, Live, supervisor
<1>6. OneChange'
  BY <1>1, <1>3, <1>5 DEF OneChange, Compiling, Ending, supervisor
<1>7. OneEnding'
  BY <1>5 DEF OneEnding
<1>8. Registered'
  BY <1>3 DEF IInv, Registered, supervisor
<1>9. RightVersion'
  BY <1>3 DEF RightVersion
<1> QED
  BY <1>4, <1>6, <1>7, <1>8, <1>9 DEF Parts

LEMMA OperatorInv ==
  ASSUME IInv, Careful,
         \/ \E v \in Versions : activate_module(v)
         \/ deactivate_module \/ delete_module
  PROVE  Parts'
<1>1. Settled
  BY DEF activate_module, deactivate_module, delete_module, Operate
<1>2. UNCHANGED <<compiling, timers, supervisor, actor, disk>>
  BY DEF activate_module, deactivate_module, delete_module
<1>3. PICK t \in {"Activated", "Deactivated", "Deleted"} :
        events' = Append(events, [type |-> t, version |-> active'])
  BY DEF activate_module, deactivate_module, delete_module
<1>4. [type |-> t, version |-> active'].version = active'
  OBVIOUS
<1> QED
  BY <1>1, <1>2, <1>3, <1>4, AnnounceInv

LEMMA ResetInv ==
  ASSUME IInv, Careful, NEW v \in Versions, reset(v)
  PROVE  Parts'
<1>1. /\ mode = "ready" /\ events = <<>> /\ ~Compiling
      /\ \A u \in Versions : compiling[u] = 0
      /\ \A a \in Actors : ~Ending(a)
  BY SettledCalm DEF reset, Operate
<1>2. /\ mode' = "resetting" /\ target' = v /\ active = v
      /\ UNCHANGED <<active, events, compiling, timers, modules, pending,
                     pending_deletions, backoff, actor, file, db_major>>
  BY DEF reset, disk
<1>3. Numbered' /\ NoOrphan' /\ KeepsDatabase'
  BY <1>2 DEF IInv, Numbered, NoOrphan, KeepsDatabase, Live
<1>4. \A a \in Actors : ~Ending(a)'
  BY <1>1, <1>2 DEF Ending, Live
<1>5. OneChange'
  BY <1>1, <1>2, <1>4 DEF OneChange, Compiling, Ending
<1>6. OneEnding'
  BY <1>4 DEF OneEnding
<1>7. Registered' /\ RightVersion'
  BY <1>1, <1>2 DEF IInv, Registered, RightVersion, Live, Compiling
<1> QED
  BY <1>3, <1>5, <1>6, <1>7 DEF Parts

\* load_module, once the version to be loaded is the only thing on its way.
LEMMA LoadInv ==
  ASSUME IInv, Upstream, active \in Versions, NEW reset_db \in BOOLEAN,
         load_module(active, reset_db),
         events' = <<>>, mode' = "ready", \A v \in Versions : compiling'[v] = 0,
         UNCHANGED <<active, pending_deletions>>
  PROVE  Parts'
<1>0. TypeOK /\ Numbered /\ NoVersion \notin Versions
  BY VersionsAssumption DEF IInv, TypeInv
<1>1. /\ \A a \in Actors : ~Ending(a)
      /\ \A a \in Actors : pending[a] = NotPending
      /\ pending_deletions = {}
      /\ \A a \in Actors : Live(a) => ~actor[a].stopping /\ modules = a /\ is_alive
  BY UpstreamAlone
<1>2. ~Upstream'
  BY DEF Upstream, Compiling
<1>3. CASE /\ is_alive /\ modules' = 0 /\ stop_gracefully(modules) /\ UNCHANGED disk
           /\ pending' = [pending EXCEPT
                ![modules] = [version |-> active, reset_db |-> reset_db]]
  <2>1. modules \in Actors /\ modules # 0 /\ Live(modules)
    BY <1>0, <1>3 DEF is_alive, TypeOK
  <2>2. /\ \A a \in Actors : actor'[a].state = actor[a].state
        /\ \A a \in Actors : actor'[a].conn = actor[a].conn
        /\ \A a \in Actors : a # modules => actor'[a] = actor[a]
        /\ actor'[modules].stopping
    BY <1>0, <1>3, <2>1 DEF stop_gracefully, TypeOK, Actor
  <2>3. /\ \A a \in Actors : a # modules => pending'[a] = NotPending
        /\ pending'[modules] = [version |-> active, reset_db |-> reset_db]
    BY <1>0, <1>1, <1>3, <2>1 DEF TypeOK
  <2>4. \A a \in Actors : Live(a)' = Live(a)
    BY <2>2 DEF Live
  <2>5. \A a \in Actors : Live(a)' => a = modules /\ actor'[a].stopping
    BY <1>1, <2>2, <2>4
  <2>6. Numbered' /\ NoOrphan' /\ KeepsDatabase'
    BY <1>3, <2>2, <2>5 DEF IInv, Numbered, NoOrphan, KeepsDatabase, Live, disk
  <2>7. OneChange'
    BY <2>3 DEF OneChange, Compiling
  <2>8. \A a \in Actors : Ending(a)' => a = modules
    BY <1>1, <2>3, <2>5 DEF Ending
  <2>9. OneEnding'
    <3>1. backoff' = FALSE
      BY DEF load_module
    <3>2. pending_deletions' = {}
      BY <1>1
    <3> QED
      BY <1>2, <1>3, <2>1, <2>4, <2>8, <3>1, <3>2 DEF OneEnding
  <2>10. Registered' /\ RightVersion'
    BY <1>0, <1>3, <2>5 DEF Registered, RightVersion, load_module
  <2> QED
    BY <2>6, <2>7, <2>9, <2>10 DEF Parts
<1>4. CASE ~is_alive /\ spawn_module(actor, active, reset_db, FALSE) /\ UNCHANGED pending
  <2>1. \A a \in Actors : actor[a].state \notin {"starting", "running"}
    BY <1>1, <1>4 DEF Live
  <2>2. actor \in [Actors -> Actor]
    BY <1>0 DEF TypeOK
  <2>3. /\ modules' \in Actors /\ modules' # 0
        /\ actor'[modules'] = [state |-> "starting", version |-> active, conn |-> 0,
                               stopping |-> FALSE, restarted |-> FALSE]
        /\ \A a \in Actors : Live(a)' => a = modules'
        /\ Numbered' /\ NoOrphan' /\ KeepsDatabase'
    <3> DEFINE acts == actor
    <3>1. spawn_module(acts, active, reset_db, FALSE)
      BY <1>4
    <3>2. /\ acts \in [Actors -> Actor]
          /\ \A a \in Actors : acts[a].state = "unborn" <=> actor[a].state = "unborn"
          /\ \A a \in Actors : acts[a].state \notin {"starting", "running"}
      BY <2>1, <2>2
    <3> HIDE DEF acts
    <3> QED
      BY <1>0, <3>1, <3>2, Spawned, FALSE \in BOOLEAN
  <2>4. \A a \in Actors : Live(a)' => ~actor'[a].stopping /\ actor'[a].version = active
    BY <2>3
  <2>5. \A a \in Actors : pending'[a] = NotPending
    BY <1>1, <1>4
  <2>6. \A a \in Actors : ~Ending(a)'
    BY <1>1, <2>4, <2>5 DEF Ending
  <2>7. OneChange' /\ OneEnding'
    BY <2>5, <2>6 DEF OneChange, OneEnding, Compiling
  <2>8. Registered'
    BY <1>0, <2>3 DEF Registered
  <2>9. RightVersion'
    BY <1>0, <2>4 DEF RightVersion
  <2> QED
    BY <2>3, <2>7, <2>8, <2>9 DEF Parts
<1> QED
  BY <1>3, <1>4 DEF load_module

LEMMA ResetCompiledInv == ASSUME IInv, reset_compiled PROVE Parts'
<1>1. /\ mode = "resetting" /\ mode' = "ready" /\ target = active /\ target \in Versions
      /\ \A v \in Versions : compiling[v] = 0
      /\ events = <<>> /\ Upstream
  BY DEF IInv, TypeInv, TypeOK, OneChange, reset_compiled, Compiling, Upstream
<1>2. load_module(active, TRUE) /\ TRUE \in BOOLEAN
  BY <1>1 DEF reset_compiled
<1>3. UNCHANGED <<active, events, compiling, pending_deletions>>
  BY DEF reset_compiled
<1> QED
  BY <1>1, <1>2, <1>3, LoadInv

LEMMA CompiledInv == ASSUME IInv, NEW v \in Versions, module_compiled(v) PROVE Parts'
<1>1. /\ mode = "ready" /\ mode' = "ready" /\ compiling[v] = 1 /\ active = v
      /\ events = <<>> /\ Upstream
      /\ \A u \in Versions : u # v => compiling[u] = 0
  BY DEF IInv, TypeInv, TypeOK, OneChange, module_compiled, Compiling, Upstream
<1>2. \A u \in Versions : compiling'[u] = 0
  BY <1>1 DEF IInv, TypeInv, TypeOK, module_compiled
<1>3. load_module(active, FALSE) /\ FALSE \in BOOLEAN
  BY <1>1 DEF module_compiled
<1>4. UNCHANGED <<active, events, pending_deletions>>
  BY DEF module_compiled
<1> QED
  BY <1>1, <1>2, <1>3, <1>4, LoadInv

LEMMA OnStartInv == ASSUME IInv, on_start PROVE Parts'
<1>1. /\ mode = "starting" /\ mode' = "ready" /\ target = active
      /\ \A v \in Versions : compiling[v] = 0
      /\ events = <<>> /\ Upstream /\ ~Compiling
  BY DEF IInv, TypeInv, TypeOK, OneChange, on_start, Compiling, Upstream
<1>2. UNCHANGED <<active, events, compiling, pending_deletions>>
  BY DEF on_start
<1>3. CASE target # NoVersion
  <2>1. active \in Versions /\ load_module(active, FALSE) /\ FALSE \in BOOLEAN
    BY <1>1, <1>3 DEF on_start, IInv, TypeInv, TypeOK
  <2> QED
    BY <1>1, <1>2, <2>1, LoadInv
<1>4. CASE target = NoVersion
  <2>1. UNCHANGED <<modules, pending, backoff, actor, file, db_major>>
    BY <1>4 DEF on_start, disk
  <2>2. \A a \in Actors : ~Ending(a) /\ pending[a] = NotPending
    BY <1>1, UpstreamAlone
  <2>3. Numbered' /\ NoOrphan' /\ KeepsDatabase'
    BY <2>1 DEF IInv, Numbered, NoOrphan, KeepsDatabase, Live
  <2>4. \A a \in Actors : ~Ending(a)' /\ pending'[a] = NotPending
    BY <1>2, <2>1, <2>2 DEF Ending, Live
  <2>5. OneChange' /\ OneEnding'
    BY <1>1, <1>2, <2>4 DEF OneChange, OneEnding, Compiling
  <2>6. Registered' /\ RightVersion'
    BY <1>1, <1>2, <2>1 DEF IInv, Registered, RightVersion, Live, Compiling
  <2> QED
    BY <2>3, <2>5, <2>6 DEF Parts
<1> QED
  BY <1>3, <1>4

\* An event is the only one, and names the active version.
LEMMA OneEvent ==
  ASSUME IInv, NEW type, NextEvent(type)
  PROVE  /\ events' = <<>> /\ events # <<>> /\ mode = "ready" /\ Upstream
         /\ Head(events).version = active /\ Head(events).type = type
         /\ \A v \in Versions : compiling[v] = 0
         /\ Head(events) \in ModuleEvent
<1>1. events # <<>> /\ events' = Tail(events) /\ Head(events).type = type
  BY DEF NextEvent
<1>2. /\ Len(events) = 1 /\ Head(events).version = active /\ ~Compiling
      /\ events \in Seq(ModuleEvent) /\ mode = "ready"
  BY <1>1 DEF IInv, TypeInv, TypeOK, OneChange, NextEvent
<1>3. events' = <<>> /\ Head(events) \in ModuleEvent
  BY <1>1, <1>2
<1>4. \A v \in Versions : compiling[v] = 0
  BY <1>2 DEF Compiling, IInv, TypeInv, TypeOK
<1> QED
  BY <1>1, <1>2, <1>3, <1>4 DEF Upstream

LEMMA ActivatedInv == ASSUME IInv, on_activated PROVE Parts'
<1> DEFINE v == Head(events).version
<1>1. /\ events' = <<>> /\ events # <<>> /\ mode = "ready" /\ Upstream /\ v = active
      /\ v \in Versions /\ NoVersion \notin Versions
      /\ \A u \in Versions : compiling[u] = 0
  BY OneEvent, VersionsAssumption DEF on_activated, ModuleEvent
<1>2. UNCHANGED <<active, mode, target, modules, pending, pending_deletions, backoff,
                  actor, file, db_major>>
  BY DEF on_activated, supervisor, disk
<1>3. /\ \A a \in Actors : ~Ending(a) /\ pending[a] = NotPending
      /\ \A a \in Actors : Live(a) => ~actor[a].stopping /\ modules = a /\ is_alive
  BY <1>1, UpstreamAlone
<1>4. Numbered' /\ NoOrphan' /\ KeepsDatabase'
  BY <1>2 DEF IInv, Numbered, NoOrphan, KeepsDatabase, Live
<1>5. \A a \in Actors : ~Ending(a)' /\ pending'[a] = NotPending
  BY <1>2, <1>3 DEF Ending, Live
<1>6. OneEnding' /\ Registered'
  BY <1>1, <1>2, <1>5 DEF IInv, OneEnding, Registered
<1>7. CASE is_alive /\ actor[modules].version = v /\ compiling' = compiling
  <2>1. OneChange'
    BY <1>1, <1>2, <1>5, <1>7 DEF OneChange, Compiling
  <2>2. RightVersion'
    BY <1>1, <1>2, <1>3, <1>7 DEF RightVersion, Live
  <2> QED
    BY <1>4, <1>6, <2>1, <2>2 DEF Parts
<1>8. CASE compiling' = [compiling EXCEPT ![v] = @ + 1]
  <2>1. \A u \in Versions : compiling'[u] = IF u = v THEN 1 ELSE 0
    BY <1>1, <1>8 DEF IInv, TypeInv, TypeOK
  <2>2. OneChange'
    BY <1>1, <1>2, <1>5, <2>1 DEF OneChange, Compiling
  <2>3. RightVersion'
    BY <1>1, <2>1 DEF RightVersion, Compiling
  <2> QED
    BY <1>4, <1>6, <2>2, <2>3 DEF Parts
<1> QED
  BY <1>7, <1>8 DEF on_activated

\* A deactivation or deletion stops the registered actor, which is the only one.
LEMMA StopInv ==
  ASSUME IInv, Upstream, events' = <<>>, mode' = "ready",
         \A v \in Versions : compiling'[v] = 0,
         backoff' = FALSE, modules' = 0, active = NoVersion, UNCHANGED <<active, pending>>,
         \/ /\ is_alive
            /\ stop_gracefully(modules)
            /\ pending_deletions' \subseteq {modules}
            /\ UNCHANGED file
         \/ ~is_alive /\ pending_deletions' = {} /\ UNCHANGED actor
  PROVE  Parts'
<1>0. TypeOK /\ modules \in Actors \cup {0}
  BY DEF IInv, TypeInv, TypeOK
<1>1. /\ \A a \in Actors : ~Ending(a) /\ pending[a] = NotPending
      /\ \A a \in Actors : Live(a) => ~actor[a].stopping /\ modules = a /\ is_alive
  BY UpstreamAlone
<1>2. ~Upstream' /\ ~Compiling'
  BY DEF Upstream, Compiling
<1>3. CASE is_alive
  <2>1. modules \in Actors /\ Live(modules) /\ modules # 0
    BY <1>0, <1>3 DEF is_alive
  <2>0. stop_gracefully(modules) /\ pending_deletions' \subseteq {modules} /\ UNCHANGED file
    BY <1>3
  <2>2. /\ \A a \in Actors : actor'[a].state = actor[a].state
        /\ \A a \in Actors : actor'[a].conn = actor[a].conn
        /\ \A a \in Actors : a # modules => actor'[a] = actor[a]
        /\ actor'[modules].stopping
    BY <1>0, <2>0, <2>1 DEF stop_gracefully, TypeOK, Actor
  <2>3. \A a \in Actors : Live(a)' = Live(a)
    BY <2>2 DEF Live
  <2>4. \A a \in Actors : Live(a)' => a = modules /\ actor'[a].stopping
    BY <1>1, <2>2, <2>3
  <2>5. Numbered' /\ NoOrphan' /\ KeepsDatabase'
    BY <1>3, <2>2, <2>4 DEF IInv, Numbered, NoOrphan, KeepsDatabase, Live
  <2>6. \A a \in Actors : Ending(a)' => a = modules
    BY <1>1, <1>3, <2>4 DEF Ending
  <2>7. OneEnding'
    BY <1>1, <1>2, <2>1, <2>3, <2>6 DEF OneEnding
  <2>8. OneChange' /\ Registered' /\ RightVersion'
    BY <1>1, <1>2, <2>4 DEF OneChange, Registered, RightVersion, Compiling
  <2> QED
    BY <2>5, <2>7, <2>8 DEF Parts
<1>4. CASE ~is_alive /\ pending_deletions' = {} /\ UNCHANGED actor
  <2>1. \A a \in Actors : ~Live(a)' /\ ~Live(a)
    BY <1>1, <1>4 DEF Live
  <2>2. Numbered' /\ NoOrphan' /\ KeepsDatabase'
    BY <1>4, <2>1 DEF IInv, Numbered, NoOrphan, KeepsDatabase, Live
  <2>3. \A a \in Actors : ~Ending(a)'
    BY <1>1, <1>4, <2>1 DEF Ending
  <2>4. OneEnding' /\ Registered' /\ RightVersion'
    BY <2>1, <2>3 DEF OneEnding, Registered, RightVersion
  <2>5. OneChange'
    BY <1>1, <1>2 DEF OneChange, Compiling
  <2> QED
    BY <2>2, <2>4, <2>5 DEF Parts
<1> QED
  BY <1>3, <1>4

LEMMA DeactivatedInv == ASSUME IInv, on_deactivated PROVE Parts'
<1>1. /\ events' = <<>> /\ mode = "ready" /\ Upstream /\ active = NoVersion
      /\ \A v \in Versions : compiling[v] = 0
  BY OneEvent DEF on_deactivated, ModuleEvent
<1>2. pending_deletions = {}
  BY <1>1, UpstreamAlone
<1>3. /\ mode' = "ready" /\ backoff' = FALSE /\ modules' = 0
      /\ UNCHANGED <<active, compiling, pending, pending_deletions, file>>
  BY <1>1 DEF on_deactivated, disk
<1>4. IF is_alive THEN stop_gracefully(modules) ELSE UNCHANGED actor
  BY DEF on_deactivated
<1> QED
  BY <1>1, <1>2, <1>3, <1>4, StopInv

LEMMA DeletedInv == ASSUME IInv, on_deleted PROVE Parts'
<1>1. /\ events' = <<>> /\ mode = "ready" /\ Upstream /\ active = NoVersion
      /\ \A v \in Versions : compiling[v] = 0
  BY OneEvent DEF on_deleted, ModuleEvent
<1>2. pending_deletions = {}
  BY <1>1, UpstreamAlone
<1>3. /\ mode' = "ready" /\ backoff' = FALSE /\ modules' = 0
      /\ UNCHANGED <<active, compiling, pending>>
  BY <1>1 DEF on_deleted
<1>4. \/ is_alive /\ stop_gracefully(modules) /\ UNCHANGED file
         /\ pending_deletions' \subseteq {modules}
      \/ ~is_alive /\ pending_deletions' = {} /\ UNCHANGED actor
  BY <1>2 DEF on_deleted
<1> QED
  BY <1>1, <1>3, <1>4, StopInv

LEMMA RestartInv == ASSUME IInv, NEW v \in Versions, restart_module(v) PROVE Parts'
<1>0. TypeOK /\ Numbered /\ NoVersion \notin Versions
  BY VersionsAssumption DEF IInv, TypeInv
<1>1. /\ mode = "ready"
      /\ UNCHANGED <<active, events, compiling, mode, target, pending,
                     pending_deletions, backoff>>
  BY DEF restart_module
<1>2. CASE backoff /\ ~is_alive /\ spawn_module(actor, v, FALSE, TRUE)
  <2>1. /\ \A a \in Actors : ~Ending(a) /\ pending[a] = NotPending
        /\ pending_deletions = {}
        /\ \A a \in Actors : Live(a) => ~actor[a].stopping /\ modules = a /\ is_alive
    BY <1>2, UpstreamAlone
  <2>2. \A a \in Actors : actor[a].state \notin {"starting", "running"}
    BY <1>2, <2>1 DEF Live
  <2>3. /\ modules' \in Actors /\ modules' # 0
        /\ actor'[modules'] = [state |-> "starting", version |-> v, conn |-> 0,
                               stopping |-> FALSE, restarted |-> TRUE]
        /\ \A a \in Actors : Live(a)' => a = modules'
        /\ Numbered' /\ NoOrphan' /\ KeepsDatabase'
    <3> DEFINE acts == actor
    <3>1. spawn_module(acts, v, FALSE, TRUE)
      BY <1>2
    <3>2. /\ acts \in [Actors -> Actor]
          /\ \A a \in Actors : acts[a].state = "unborn" <=> actor[a].state = "unborn"
          /\ \A a \in Actors : acts[a].state \notin {"starting", "running"}
      BY <1>0, <2>2 DEF TypeOK
    <3> HIDE DEF acts
    <3> QED
      BY <1>0, <3>1, <3>2, Spawned, FALSE \in BOOLEAN, TRUE \in BOOLEAN
  <2>4. \A a \in Actors : Live(a)' => ~actor'[a].stopping /\ actor'[a].restarted
    BY <2>3
  <2>5. \A a \in Actors : ~Ending(a)'
    BY <1>1, <2>1, <2>4 DEF Ending
  <2>6. OneChange' /\ OneEnding'
    BY <1>1, <2>1, <2>5 DEF IInv, OneChange, OneEnding, Compiling
  <2>7. active # NoVersion \/ events # <<>>
    BY <1>2 DEF IInv, Registered
  <2>8. Registered' /\ RightVersion'
    BY <1>1, <2>3, <2>4, <2>7 DEF Registered, RightVersion
  <2> QED
    BY <2>3, <2>6, <2>8 DEF Parts
<1>3. CASE UNCHANGED <<modules, actor, disk>>
  BY <1>1, <1>3 DEF Parts, IInv, Numbered, NoOrphan, KeepsDatabase, OneChange, OneEnding,
     Registered, RightVersion, Ending, Live, Compiling, Upstream, disk
<1> QED
  BY <1>2, <1>3 DEF restart_module

\* The end of an actor, as the supervisor learns of it.
LEMMA ReapedFacts ==
  ASSUME IInv, NEW a \in Actors, actor[a].state = "dead"
  PROVE  /\ Reaped(a) \in [Actors -> Actor]
         /\ \A b \in Actors : b # a => Reaped(a)[b] = actor[b]
         /\ Reaped(a)[a].state = "reaped"
         /\ \A b \in Actors : Reaped(a)[b].state = "unborn" <=> actor[b].state = "unborn"
<1>1. TypeOK /\ actor[a] \in Actor /\ actor[a].state # "unborn"
  BY DEF IInv, TypeInv, TypeOK
<1>2. Reaped(a) \in [Actors -> Actor]
  BY <1>1, StateType DEF Reaped
<1>3. Reaped(a)[a].state = "reaped" /\ \A b \in Actors : b # a => Reaped(a)[b] = actor[b]
  BY <1>1 DEF Reaped, TypeOK, Actor
<1> QED
  BY <1>1, <1>2, <1>3

LEMMA DiedPendingInv ==
  ASSUME IInv, NEW a \in Actors, on_link_died_pending(a)
  PROVE  Parts'
<1>0. TypeOK /\ Numbered /\ NoVersion \notin Versions
  BY VersionsAssumption DEF IInv, TypeInv
<1>1. /\ actor[a].state = "dead" /\ Ending(a) /\ mode = "ready"
      /\ pending[a].version = active /\ active \in Versions
      /\ pending[a].reset_db \in BOOLEAN
  BY DEF on_link_died_pending, Died, Ending, IInv, TypeInv, TypeOK, OneChange,
         PendingModule
<1>2. /\ ~Upstream /\ modules = 0 /\ ~backoff
      /\ \A b \in Actors : ~Live(b)
      /\ \A b \in Actors : b # a => ~Ending(b)
      /\ a \notin pending_deletions
  BY <1>1, EndingAlone DEF on_link_died_pending
<1>3. /\ spawn_module(Reaped(a), active, pending[a].reset_db, FALSE)
      /\ pending' = [pending EXCEPT ![a] = NotPending]
      /\ UNCHANGED <<active, events, compiling, mode, target, pending_deletions, backoff>>
  BY <1>1 DEF on_link_died_pending
<1>4. \A b \in Actors : Reaped(a)[b].state \notin {"starting", "running"}
  <2> SUFFICES ASSUME NEW b \in Actors
               PROVE  Reaped(a)[b].state \notin {"starting", "running"}
    OBVIOUS
  <2> QED
    BY <1>1, <1>2, ReapedFacts DEF Live
<1>5. /\ modules' \in Actors /\ modules' # 0
      /\ actor'[modules'] = [state |-> "starting", version |-> active, conn |-> 0,
                             stopping |-> FALSE, restarted |-> FALSE]
      /\ \A b \in Actors : Live(b)' => b = modules'
      /\ Numbered' /\ NoOrphan' /\ KeepsDatabase'
  <2> DEFINE acts == Reaped(a)
  <2>1. /\ spawn_module(acts, active, pending[a].reset_db, FALSE)
        /\ \A b \in Actors : acts[b].state \notin {"starting", "running"}
    BY <1>3, <1>4
  <2>2. /\ acts \in [Actors -> Actor]
        /\ \A b \in Actors : acts[b].state = "unborn" <=> actor[b].state = "unborn"
    BY <1>1, ReapedFacts
  <2> HIDE DEF acts
  <2> QED
    BY <1>0, <1>1, <2>1, <2>2, Spawned, FALSE \in BOOLEAN
<1>6. \A b \in Actors : Live(b)' => ~actor'[b].stopping /\ actor'[b].version = active
  BY <1>5
<1>7. \A b \in Actors : pending'[b] = NotPending
  BY <1>0, <1>2, <1>3 DEF Ending, TypeOK
<1>8. \A b \in Actors : ~Ending(b)'
  BY <1>2, <1>3, <1>6, <1>7 DEF Ending
<1>9. /\ events' = <<>> /\ mode' = "ready"
      /\ \A v \in Versions : compiling'[v] = compiling[v]
      /\ \A v \in Versions : ~(compiling'[v] > 0)
  BY <1>1, <1>2, <1>3 DEF Upstream, Compiling
<1>10. OneChange'
  BY <1>7, <1>9 DEF OneChange
<1>11. OneEnding'
  BY <1>8 DEF OneEnding
<1>12. RightVersion'
  BY <1>0, <1>1, <1>3, <1>6 DEF RightVersion
<1>13. Registered'
  BY <1>0, <1>1, <1>3, <1>5 DEF Registered
<1> QED
  BY <1>5, <1>10, <1>11, <1>12, <1>13 DEF Parts

\* An actor that is reaped, or dies, takes nothing along.
LEMMA GoneInv ==
  ASSUME IInv, NEW a \in Actors, NEW state \in {"dead", "reaped"},
         actor[a].state # "unborn",
         actor' = [actor EXCEPT ![a].state = state],
         state = "reaped" => actor[a].state = "dead" /\ pending[a] = NotPending
                               /\ a \notin pending_deletions',
         pending_deletions' \subseteq pending_deletions,
         UNCHANGED <<active, events, compiling, mode, target, modules, pending>>,
         backoff' = backoff \/ modules = a,
         file' = file \/ \A b \in Actors : ~Live(b)
  PROVE  Parts'
<1>0. TypeOK /\ \A b \in Actors : b # 0
  BY BoundsAssumption DEF IInv, TypeInv, Actors
<1>1. /\ actor'[a].state = state
      /\ actor'[a].stopping = actor[a].stopping
      /\ \A b \in Actors : b # a => actor'[b] = actor[b]
  BY <1>0 DEF TypeOK, Actor
<1>2. ~Live(a)' /\ \A b \in Actors : b # a => Live(b)' = Live(b)
  BY <1>1 DEF Live
<1>3. Numbered' /\ NoOrphan'
  BY <1>1, <1>2 DEF IInv, Numbered, NoOrphan
<1>4. KeepsDatabase'
  BY <1>1, <1>2 DEF IInv, KeepsDatabase, Live
<1>5. OneChange'
  BY DEF IInv, OneChange, Compiling
<1>6. \A b \in Actors : Ending(b)' => Ending(b)
  BY <1>1, <1>2 DEF Ending
<1>7. OneEnding'
  <2> SUFFICES ASSUME NEW b \in Actors, Ending(b)'
               PROVE  /\ ~Upstream' /\ modules' = 0 /\ ~backoff'
                      /\ Live(b)' \/ actor'[b].state = "dead"
                      /\ \A c \in Actors : Ending(c)' => b = c
                      /\ pending'[b] = NotPending \/ b \notin pending_deletions'
    BY DEF OneEnding
  <2>1. /\ ~Upstream /\ modules = 0 /\ ~backoff
        /\ Live(b) \/ actor[b].state = "dead"
        /\ \A c \in Actors : Ending(c) => b = c
        /\ pending[b] = NotPending \/ b \notin pending_deletions
    BY <1>6 DEF IInv, OneEnding
  <2>2. ~Upstream' /\ modules' = 0 /\ ~backoff'
    BY <1>0, <2>1 DEF Upstream, Compiling
  <2>3. Live(b)' \/ actor'[b].state = "dead"
    BY <1>1, <1>2, <2>1 DEF Ending
  <2> QED
    BY <1>6, <2>1, <2>2, <2>3
<1>8. Registered'
  BY <1>0, <1>1 DEF IInv, Registered
<1>9. RightVersion'
  BY <1>1, <1>2 DEF IInv, RightVersion, Compiling
<1> QED
  BY <1>3, <1>4, <1>5, <1>7, <1>8, <1>9 DEF Parts

LEMMA DiedDeletedInv ==
  ASSUME IInv, NEW a \in Actors, on_link_died_deleted(a)
  PROVE  Parts'
<1>1. /\ actor[a].state = "dead" /\ Ending(a) /\ pending[a] = NotPending
      /\ pending_deletions' = pending_deletions \ {a}
      /\ actor' = [actor EXCEPT ![a].state = "reaped"]
      /\ UNCHANGED <<active, events, compiling, mode, target, modules, pending, backoff>>
  BY DEF on_link_died_deleted, Died, Ending, Reaped
<1>2. \A b \in Actors : ~Live(b)
  BY <1>1, EndingAlone
<1> QED
  BY <1>1, <1>2, GoneInv

LEMMA DiedInv ==
  ASSUME IInv, NEW a \in Actors, on_link_died(a)
  PROVE  Parts'
<1>1. /\ actor[a].state = "dead" /\ pending[a] = NotPending
      /\ a \notin pending_deletions /\ pending_deletions' = pending_deletions
      /\ actor' = [actor EXCEPT ![a].state = "reaped"] /\ file' = file
      /\ UNCHANGED <<active, events, compiling, mode, target, modules, pending>>
      /\ backoff' = backoff \/ modules = a
  BY DEF on_link_died, Died, Reaped, disk
<1> QED
  BY <1>1, GoneInv

LEMMA StoppedInv ==
  ASSUME IInv, NEW a \in Actors, stop(a) \/ fail(a)
  PROVE  Parts'
<1>1. /\ actor[a].state # "unborn" /\ pending_deletions' = pending_deletions
      /\ actor' = [actor EXCEPT ![a].state = "dead"] /\ file' = file
      /\ UNCHANGED <<active, events, compiling, mode, target, modules, pending, backoff>>
  BY DEF stop, fail, Live, supervisor, disk
<1> QED
  BY <1>1, GoneInv

\* The one live actor opens its database, a fresh one for a new major version.
LEMMA StartInv ==
  ASSUME IInv, NEW a \in Actors, start(a)
  PROVE  Parts'
<1>0. TypeOK /\ actor[a] \in Actor
  BY DEF IInv, TypeInv, TypeOK
<1>1. /\ actor[a].state = "starting"
      /\ UNCHANGED <<active, events, compiling, mode, target, modules, pending,
                     pending_deletions, backoff>>
      /\ actor' = [actor EXCEPT ![a].state = "running", ![a].conn = file']
  BY DEF start, supervisor
<1>2. /\ actor'[a].state = "running" /\ actor'[a].conn = file'
      /\ actor'[a].stopping = actor[a].stopping
      /\ actor'[a].version = actor[a].version /\ actor'[a].restarted = actor[a].restarted
      /\ \A b \in Actors : b # a => actor'[b] = actor[b]
  <2>1. actor \in [Actors -> Actor]
    BY <1>0 DEF TypeOK
  <2>2. \A b \in Actors : b # a => actor'[b] = actor[b]
    BY <1>1, <2>1
  <2> DEFINE x == [actor[a] EXCEPT !.state = "running", !.conn = file']
  <2>3. actor'[a] = x
    BY <1>1, <2>1
  <2>4. /\ x.state = "running" /\ x.conn = file' /\ x.stopping = actor[a].stopping
        /\ x.version = actor[a].version /\ x.restarted = actor[a].restarted
    BY <1>0 DEF Actor
  <2> HIDE DEF x
  <2> QED
    BY <2>2, <2>3, <2>4
<1>3. \A b \in Actors : Live(b)' = Live(b)
  <2> SUFFICES ASSUME NEW b \in Actors PROVE Live(b)' = Live(b)
    OBVIOUS
  <2>1. CASE b = a
    <3>1. actor[b].state = "starting" /\ actor'[b].state = "running"
      BY <1>1, <1>2, <2>1
    <3> QED
      BY <3>1 DEF Live
  <2>2. CASE b # a
    BY <1>2, <2>2 DEF Live
  <2> QED
    BY <2>1, <2>2
<1>4. \A b \in Actors : Live(b) => b = a
  BY <1>1, LiveIsOne DEF OneLiveActor, Live
<1>5. Numbered' /\ NoOrphan'
  BY <1>1, <1>2, <1>3 DEF IInv, Numbered, NoOrphan
<1>6. KeepsDatabase'
  BY <1>2, <1>4 DEF KeepsDatabase, Live
<1>7. \A b \in Actors : Ending(b)' = Ending(b)
  BY <1>1, <1>2, <1>3 DEF Ending
<1>8. OneChange'
  BY <1>1 DEF IInv, OneChange, Compiling
<1>9. OneEnding'
  <2>1. Upstream' = Upstream
    BY <1>1 DEF Upstream, Compiling
  <2> QED
    BY <1>1, <1>2, <1>3, <1>7, <2>1 DEF IInv, OneEnding
<1>10. Registered'
  BY <1>0, <1>1, <1>2 DEF IInv, Registered, TypeOK
<1>11. Compiling' = Compiling
  BY <1>1 DEF Compiling
<1>12. RightVersion'
  <2> SUFFICES ASSUME NEW b \in Actors, Live(b)', ~actor'[b].stopping, events = <<>>, ~Compiling
               PROVE  active # NoVersion /\ (actor'[b].version = active \/ actor'[b].restarted)
    BY <1>1, <1>11 DEF RightVersion
  <2>1. b = a /\ Live(a) /\ ~actor[a].stopping
    BY <1>2, <1>3, <1>4
  <2> QED
    BY <1>2, <2>1 DEF IInv, RightVersion
<1> QED
  BY <1>5, <1>6, <1>8, <1>9, <1>10, <1>12 DEF Parts

LEMMA ProcessInv == ASSUME IInv, restart_process PROVE Parts'
<1>0. TypeOK
  BY DEF IInv, TypeInv
<1>1. /\ events' = <<>> /\ \A v \in Versions : compiling'[v] = 0
      /\ mode' = "starting" /\ target' = active' /\ modules' = 0
      /\ pending' = [a \in Actors |-> NotPending] /\ pending_deletions' = {}
      /\ backoff' = FALSE
  BY DEF restart_process
<1>2. \A a \in Actors : /\ actor'[a].state \in {"unborn", "reaped"}
                        /\ actor'[a].state = "unborn" <=> actor[a].state = "unborn"
  BY <1>0 DEF restart_process, Unborn, TypeOK, Actor
<1>3. \A a \in Actors : ~Live(a)'
  BY <1>2 DEF Live
<1>4. Numbered' /\ NoOrphan' /\ KeepsDatabase'
  BY <1>2, <1>3 DEF IInv, Numbered, NoOrphan, KeepsDatabase
<1>5. \A a \in Actors : ~Ending(a)'
  BY <1>1, <1>3 DEF Ending
<1>6. OneChange'
  BY <1>1 DEF OneChange, Compiling
<1>7. OneEnding' /\ Registered' /\ RightVersion'
  BY <1>1, <1>3, <1>5 DEF OneEnding, Registered, RightVersion
<1> QED
  BY <1>4, <1>6, <1>7 DEF Parts

LEMMA InitInv == Init => IInv
<1> SUFFICES ASSUME Init PROVE IInv
  OBVIOUS
<1>1. TypeInv
  BY InitType
<1>2. \A a \in Actors : actor[a].state = "unborn"
  BY DEF Init, Unborn
<1>3. \A a \in Actors : ~Live(a) /\ ~Ending(a)
  BY <1>2 DEF Init, Live, Ending
<1>4. Numbered /\ NoOrphan /\ KeepsDatabase
  BY <1>2, <1>3 DEF Numbered, NoOrphan, KeepsDatabase
<1>5. OneChange /\ OneEnding /\ Registered /\ RightVersion
  BY <1>3 DEF Init, OneChange, OneEnding, Registered, RightVersion, Compiling
<1> QED
  BY <1>1, <1>4, <1>5 DEF IInv

LEMMA NextInv == ASSUME Careful, IInv, [Next]_vars PROVE IInv'
<1>1. TypeInv'
  BY NextType DEF IInv
<1>2. CASE UNCHANGED vars
  <2>1. UNCHANGED <<active, events, compiling, mode, target, modules, pending,
                    pending_deletions, backoff, actor, file>>
    BY <1>2 DEF vars, supervisor, disk
  <2>2. Numbered' /\ NoOrphan' /\ KeepsDatabase'
    BY <2>1 DEF IInv, Numbered, NoOrphan, KeepsDatabase, Live
  <2>3. OneChange' /\ Registered'
    BY <2>1 DEF IInv, OneChange, Registered, Compiling
  <2>4. OneEnding'
    <3>1. (Upstream' = Upstream) /\ \A a \in Actors : (Ending(a)' = Ending(a)) /\ (Live(a)' = Live(a))
      BY <2>1 DEF Ending, Live, Upstream, Compiling
    <3> QED
      BY <2>1, <3>1 DEF IInv, OneEnding
  <2>5. RightVersion'
    BY <2>1 DEF IInv, RightVersion, Live, Compiling
  <2> QED
    BY <1>1, <2>2, <2>3, <2>4, <2>5 DEF IInv
<1>3. CASE Next
  <2>1. Parts'
    BY <1>3, OperatorInv, ResetInv, ResetCompiledInv, CompiledInv, OnStartInv,
       ActivatedInv, DeactivatedInv, DeletedInv, RestartInv, DiedPendingInv,
       DiedDeletedInv, DiedInv, StoppedInv, StartInv, ProcessInv
    DEF Next, Supervise, replay
  <2> QED
    BY <1>1, <2>1 DEF Parts, IInv
<1> QED
  BY <1>1, <1>2, <1>3 DEF Parts, IInv

LEMMA Invariance == ASSUME Careful PROVE Spec => []IInv
<1>1. IInv /\ [Next]_vars => IInv'
  BY NextInv
<1> QED
  BY <1>1, InitInv, PTL DEF Spec

-----------------------------------------------------------------------------
(* The theorems, for operators that wait for one change before the next *)

\* Two actors of a module are never alive at once.
THEOREM AtMostOneActor == ASSUME Careful PROVE Spec => []OneLiveActor
<1>1. IInv => OneLiveActor
  BY LiveIsOne
<1> QED
  BY <1>1, Invariance, PTL

\* A live actor that was not told to stop is the one the supervisor has registered.
THEOREM NoActorForgotten == ASSUME Careful PROVE Spec => []NoOrphan
<1>1. IInv => NoOrphan
  BY DEF IInv
<1> QED
  BY <1>1, Invariance, PTL

\* No database is removed or replaced under a running actor.
THEOREM DatabaseKept == ASSUME Careful PROVE Spec => []KeepsDatabase
<1>1. IInv => KeepsDatabase
  BY DEF IInv
<1> QED
  BY <1>1, Invariance, PTL

\* When things have settled, what runs is the active version, or a restarted one.
THEOREM SettledRight == ASSUME Careful PROVE Spec => []SettledVersion
<1>1. IInv => SettledVersion
  <2> SUFFICES ASSUME IInv, Settled, NEW a \in Actors, Live(a)
               PROVE  /\ active # NoVersion
                      /\ actor[a].version = active \/ actor[a].restarted
    BY DEF SettledVersion
  <2>1. ~Compiling /\ events = <<>> /\ ~actor[a].stopping
    BY SettledCalm DEF Settled
  <2> QED
    BY <2>1 DEF IInv, RightVersion
<1> QED
  BY <1>1, Invariance, PTL

-----------------------------------------------------------------------------
(* Lifecycle: what all this looks like from outside *)

\* Files that are not in use yet are empty.
SpareFiles == \A f \in Files : f > file => db_major[f] = NoMajor

\* A restart is due only for a version of which an instance has failed.
TimersInv == \A v \in Versions : timers[v] > 0 => RETRY_ON_FAILURE /\ v \in Ended

LInv == IInv /\ SpareFiles /\ TimersInv

Step == Life!Next \/ UNCHANGED <<active, Due, Running, Ended, file, db_major[file]>>

\* What runs is the one live actor.
LEMMA RunningOne ==
  ASSUME IInv, NEW a \in Actors, Live(a)
  PROVE  Running = {Instance(a)}
<1>1. \A b \in Actors : Live(b) => b = a
  BY LiveIsOne DEF OneLiveActor
<1> QED
  BY <1>1 DEF Running

LEMMA SameRunning ==
  ASSUME \A a \in Actors : Live(a)' = Live(a),
         \A a \in Actors : Live(a) =>
           /\ actor'[a].version = actor[a].version /\ actor'[a].state = actor[a].state
           /\ actor'[a].conn = actor[a].conn
  PROVE  Running' = Running
<1>1. \A a \in Actors : Live(a) => Instance(a)' = Instance(a)
  BY DEF Instance
<1> QED
  BY <1>1 DEF Running

LEMMA SameEnded ==
  ASSUME \A a \in Actors :
           /\ actor'[a].state \in {"dead", "reaped"} <=> actor[a].state \in {"dead", "reaped"}
           /\ actor[a].state \in {"dead", "reaped"} => actor'[a].version = actor[a].version
  PROVE  Ended' = Ended
BY DEF Ended

LEMMA SameActors ==
  ASSUME actor' = actor
  PROVE  Running' = Running /\ Ended' = Ended /\ \A a \in Actors : Live(a)' = Live(a)
BY SameRunning, SameEnded DEF Live

LEMMA NoReset == ASSUME NEW p, p = NotPending PROVE ~p.reset_db
<1>1. NotPending.reset_db = FALSE
  BY DEF NotPending
<1> QED
  BY <1>1

\* While a change has not reached the supervisor, only its way there matters.
LEMMA DueUpstream ==
  ASSUME IInv, Upstream \/ backoff \/ modules # 0
  PROVE  Due = IF events # <<>> THEN Head(events).type
               ELSE IF mode = "resetting" THEN "Reset"
               ELSE IF Compiling \/ (mode = "starting" /\ active # NoVersion) THEN "Activated"
               ELSE "none"
<1>1. /\ \A a \in Actors : pending[a] = NotPending
      /\ pending_deletions = {}
      /\ \A a \in Actors : ~(Live(a) /\ actor[a].stopping)
  BY UpstreamAlone
<1>2. \A a \in Actors : ~pending[a].reset_db
  BY <1>1, NoReset
<1> QED
  BY <1>1, <1>2 DEF Due

LEMMA DueSettled == ASSUME IInv, Settled PROVE Due = "none"
<1>1. /\ mode = "ready" /\ events = <<>> /\ ~Compiling
      /\ \A a \in Actors : ~Ending(a)
  BY SettledCalm
<1>2. \A a \in Actors : pending[a] = NotPending /\ ~pending[a].reset_db
  BY <1>1, NoReset DEF Ending
<1>3. pending_deletions = {}
  BY <1>1 DEF Ending, IInv, TypeInv, TypeOK
<1> QED
  BY <1>1, <1>2, <1>3 DEF Due, Ending

\* Operators ask for a change when none is due.
LEMMA AskStep ==
  ASSUME LInv, Careful,
         \/ \E v \in Versions : activate_module(v) \/ reset(v)
         \/ deactivate_module \/ delete_module
  PROVE  Step
<1>0. IInv /\ TypeOK /\ NoVersion \notin Versions
  BY VersionsAssumption DEF LInv, IInv, TypeInv
<1>1. Settled
  BY DEF activate_module, deactivate_module, delete_module, reset, Operate
<1>2. Due = "none" /\ events = <<>>
  BY <1>0, <1>1, DueSettled DEF Settled
<1>3. UNCHANGED <<actor, file, db_major>>
  BY DEF activate_module, deactivate_module, delete_module, reset, disk
<1>4. Running' = Running /\ Ended' = Ended
  BY <1>3, SameActors
<1>5. active' \in Versions \cup {NoVersion}
  BY <1>0 DEF activate_module, deactivate_module, delete_module, reset, TypeOK
<1>6. ASSUME NEW t \in {"Activated", "Deactivated", "Deleted"},
             events' = Append(events, [type |-> t, version |-> active']),
             t = "Activated" => active' \in Versions,
             t = "Deactivated" => active # NoVersion /\ active' = NoVersion,
             t = "Deleted" => active' = NoVersion
      PROVE  Life!Ask(t, active') /\ t \in Life!Changes
  <2> DEFINE e == [type |-> t, version |-> active']
  <2>1. events' = <<e>>
    BY <1>2, <1>6
  <2>2. events' # <<>> /\ Head(events') = e
    BY <2>1
  <2>3. Due' = t
    BY <2>2 DEF Due
  <2> QED
    BY <1>2, <1>3, <1>4, <1>6, <2>3 DEF Life!Ask, Life!Changes
<1>7. CASE \E v \in Versions : activate_module(v)
  <2>1. Life!Ask("Activated", active') /\ "Activated" \in Life!Changes
    BY <1>6, <1>7 DEF activate_module
  <2> QED
    BY <1>5, <2>1 DEF Step, Life!Next
<1>8. CASE deactivate_module
  <2>1. Life!Ask("Deactivated", active') /\ "Deactivated" \in Life!Changes
    BY <1>6, <1>8 DEF deactivate_module
  <2> QED
    BY <1>5, <2>1 DEF Step, Life!Next
<1>9. CASE delete_module
  <2>1. Life!Ask("Deleted", active') /\ "Deleted" \in Life!Changes
    BY <1>6, <1>9 DEF delete_module
  <2> QED
    BY <1>5, <2>1 DEF Step, Life!Next
<1>10. CASE \E v \in Versions : reset(v)
  <2>1. events' = <<>> /\ mode' = "resetting" /\ active' = active /\ active # NoVersion
    BY <1>0, <1>2, <1>10 DEF reset
  <2>2. Due' = "Reset"
    BY <2>1 DEF Due
  <2>3. Life!Ask("Reset", active') /\ "Reset" \in Life!Changes
    BY <1>2, <1>3, <1>4, <2>1, <2>2 DEF Life!Ask, Life!Changes
  <2> QED
    BY <1>5, <2>3 DEF Step, Life!Next
<1> QED
  BY <1>7, <1>8, <1>9, <1>10

\* What a spawn does to the instances: the new one runs.
LEMMA SpawnedLife ==
  ASSUME TypeOK, Numbered, NEW acts \in [Actors -> Actor],
         \A a \in Actors : acts[a].state = "unborn" <=> actor[a].state = "unborn",
         \A a \in Actors : acts[a].state \notin {"starting", "running"},
         NEW version \in Versions, NEW reset_db \in BOOLEAN, NEW restarted \in BOOLEAN,
         spawn_module(acts, version, reset_db, restarted)
  PROVE  /\ Running' = {[version |-> version, database |-> 0]}
         /\ Ended' = {acts[a].version : a \in {b \in Actors : acts[b].state \in {"dead", "reaped"}}}
         /\ \A a \in Actors : Live(a)' => ~actor'[a].stopping
         /\ file' = IF reset_db THEN file + 1 ELSE file
         /\ file' \in Files /\ db_major' = db_major
<1> DEFINE new == [state |-> "starting", version |-> version, conn |-> 0,
                   stopping |-> FALSE, restarted |-> restarted]
<1>1. PICK n \in Actors :
        /\ n = modules' /\ actor'[n] = new
        /\ \A a \in Actors : a # n => actor'[a] = acts[a]
        /\ \A a \in Actors : Live(a)' => a = n
  BY Spawned
<1>2. acts[n].state = "unborn"
  BY <1>1, Fresh DEF spawn_module
<1>3. new.state = "starting" /\ new.version = version /\ new.stopping = FALSE
  OBVIOUS
<1> HIDE DEF new
<1>4. Live(n)'
  BY <1>1, <1>3 DEF Live
<1>5. Instance(n)' = [version |-> version, database |-> 0]
  BY <1>1, <1>3 DEF Instance
<1>6. Running' = {[version |-> version, database |-> 0]}
  BY <1>1, <1>4, <1>5 DEF Running
<1>7. \A a \in Actors :
        /\ actor'[a].state \in {"dead", "reaped"} <=> acts[a].state \in {"dead", "reaped"}
        /\ actor'[a].state \in {"dead", "reaped"} => actor'[a].version = acts[a].version
  BY <1>1, <1>2, <1>3
<1>8. Ended' = {acts[a].version : a \in {b \in Actors : acts[b].state \in {"dead", "reaped"}}}
  BY <1>7 DEF Ended
<1>9. /\ file' = IF reset_db THEN file + 1 ELSE file
      /\ file' \in Files /\ db_major' = db_major
  BY DEF spawn_module
<1> QED
  BY <1>1, <1>3, <1>6, <1>8, <1>9

\* A file that is not in use yet is empty.
LEMMA NextFile ==
  ASSUME LInv, file' = file + 1, file' \in Files, db_major' = db_major
  PROVE  Life!Fresh
<1>1. file \in Nat /\ file' > file
  BY BoundsAssumption DEF LInv, IInv, TypeInv, TypeOK, Files
<1>2. db_major[file'] = NoMajor
  BY <1>1 DEF LInv, SpareFiles
<1> QED
  BY <1>2 DEF Life!Fresh, Life!NoMajor, NoMajor

\* Once nothing runs, the active version is brought up.
LEMMA BeginStep ==
  ASSUME LInv, NEW reset_db \in BOOLEAN,
         Running = {}, Running' = {[version |-> active, database |-> 0]},
         Ended' = Ended, active' = active,
         file' = IF reset_db THEN file + 1 ELSE file, file' \in Files, db_major' = db_major,
         Due = IF reset_db THEN "Reset" ELSE "Activated", Due' = "none"
  PROVE  Step
<1>1. CASE reset_db
  <2>1. Life!Fresh
    BY <1>1, NextFile
  <2> QED
    BY <1>1, <2>1 DEF Step, Life!Next, Life!Begin
<1>2. CASE ~reset_db
  BY <1>2 DEF Step, Life!Next, Life!Begin
<1> QED
  BY <1>1, <1>2

\* load_module: the successor waits for the live actor, or begins.
LEMMA LoadStep ==
  ASSUME LInv, Upstream, active \in Versions, NEW reset_db \in BOOLEAN,
         load_module(active, reset_db),
         events' = <<>>, mode' = "ready", \A v \in Versions : compiling'[v] = 0,
         UNCHANGED <<active, pending_deletions>>,
         Due = IF reset_db THEN "Reset" ELSE "Activated"
  PROVE  Step
<1>0. IInv /\ TypeOK /\ Numbered /\ NoVersion \notin Versions
  BY VersionsAssumption DEF LInv, IInv, TypeInv
<1>1. /\ \A a \in Actors : pending[a] = NotPending
      /\ pending_deletions = {}
      /\ \A a \in Actors : Live(a) => ~actor[a].stopping /\ modules = a /\ is_alive
  BY <1>0, UpstreamAlone
<1>2. ~Compiling'
  BY DEF Compiling
<1>3. CASE /\ is_alive /\ stop_gracefully(modules) /\ UNCHANGED disk
           /\ pending' = [pending EXCEPT
                ![modules] = [version |-> active, reset_db |-> reset_db]]
  <2>1. modules \in Actors
    BY <1>0, <1>3 DEF is_alive, TypeOK
  <2>2. \A a \in Actors : /\ actor'[a].state = actor[a].state
                          /\ actor'[a].version = actor[a].version
                          /\ actor'[a].conn = actor[a].conn
    BY <1>0, <1>3, <2>1 DEF stop_gracefully, TypeOK, Actor
  <2>3. Running' = Running /\ Ended' = Ended
    BY <2>2, SameRunning, SameEnded DEF Live
  <2> DEFINE p == [version |-> active, reset_db |-> reset_db]
  <2>4. pending'[modules] = p /\ \A a \in Actors : a # modules => pending'[a] = NotPending
    BY <1>0, <1>1, <1>3, <2>1 DEF TypeOK
  <2>5. p.version # NoVersion /\ p.reset_db = reset_db
    BY <1>0
  <2>6. NotPending.version = NoVersion
    BY DEF NotPending
  <2> HIDE DEF p
  <2>7. (\E a \in Actors : pending'[a].reset_db) <=> reset_db
    BY <2>1, <2>4, <2>5, NoReset
  <2>8. \E a \in Actors : pending'[a] # NotPending
    BY <2>1, <2>4, <2>5, <2>6
  <2>9. Due' = IF reset_db THEN "Reset" ELSE "Activated"
    BY <1>1, <2>7, <2>8 DEF Due
  <2> QED
    BY <1>3, <2>3, <2>9 DEF Step, disk
<1>4. CASE ~is_alive /\ spawn_module(actor, active, reset_db, FALSE) /\ UNCHANGED pending
  <2>1. \A a \in Actors : ~Live(a) /\ actor[a].state \notin {"starting", "running"}
    BY <1>1, <1>4 DEF Live
  <2>2. Running = {}
    BY <2>1 DEF Running
  <2>3. /\ Running' = {[version |-> active, database |-> 0]} /\ Ended' = Ended
        /\ \A a \in Actors : Live(a)' => ~actor'[a].stopping
        /\ file' = IF reset_db THEN file + 1 ELSE file
        /\ file' \in Files /\ db_major' = db_major
    <3> DEFINE acts == actor
    <3>1. spawn_module(acts, active, reset_db, FALSE)
      BY <1>4
    <3>2. /\ acts \in [Actors -> Actor]
          /\ \A a \in Actors : acts[a].state = "unborn" <=> actor[a].state = "unborn"
          /\ \A a \in Actors : acts[a].state \notin {"starting", "running"}
      BY <1>0, <2>1 DEF TypeOK
    <3>3. Ended = {acts[a].version : a \in {b \in Actors : acts[b].state \in {"dead", "reaped"}}}
      BY DEF Ended
    <3> HIDE DEF acts
    <3> QED
      BY <1>0, <3>1, <3>2, <3>3, SpawnedLife, FALSE \in BOOLEAN
  <2>4. \A a \in Actors : pending'[a] = NotPending /\ ~pending'[a].reset_db
    BY <1>1, <1>4, NoReset
  <2>5. Due' = "none"
    BY <1>1, <1>2, <2>3, <2>4 DEF Due
  <2> QED
    BY <2>2, <2>3, <2>5, BeginStep
<1> QED
  BY <1>3, <1>4 DEF load_module

LEMMA ResetCompiledStep == ASSUME LInv, reset_compiled PROVE Step
<1>0. IInv
  BY DEF LInv
<1>1. /\ mode = "resetting" /\ mode' = "ready" /\ target = active /\ target \in Versions
      /\ \A v \in Versions : compiling[v] = 0
      /\ events = <<>> /\ Upstream
  BY <1>0 DEF IInv, TypeInv, TypeOK, OneChange, reset_compiled, Compiling, Upstream
<1>2. load_module(active, TRUE) /\ TRUE \in BOOLEAN
  BY <1>1 DEF reset_compiled
<1>3. UNCHANGED <<active, events, compiling, pending_deletions>>
  BY DEF reset_compiled
<1>4. Due = "Reset"
  BY <1>1 DEF Due
<1> QED
  BY <1>1, <1>2, <1>3, <1>4, LoadStep

LEMMA CompiledStep == ASSUME LInv, NEW v \in Versions, module_compiled(v) PROVE Step
<1>0. IInv
  BY DEF LInv
<1>1. /\ mode = "ready" /\ mode' = "ready" /\ compiling[v] = 1 /\ active = v
      /\ events = <<>> /\ Upstream /\ Compiling
      /\ \A u \in Versions : u # v => compiling[u] = 0
  BY <1>0 DEF IInv, TypeInv, TypeOK, OneChange, module_compiled, Compiling, Upstream
<1>2. \A u \in Versions : compiling'[u] = 0
  BY <1>0, <1>1 DEF IInv, TypeInv, TypeOK, module_compiled
<1>3. load_module(active, FALSE) /\ FALSE \in BOOLEAN
  BY <1>1 DEF module_compiled
<1>4. UNCHANGED <<active, events, pending_deletions>>
  BY DEF module_compiled
<1>5. Due = "Activated"
  BY <1>0, <1>1, DueUpstream
<1> QED
  BY <1>1, <1>2, <1>3, <1>4, <1>5, LoadStep

LEMMA OnStartStep == ASSUME LInv, on_start PROVE Step
<1>0. IInv
  BY DEF LInv
<1>1. /\ mode = "starting" /\ mode' = "ready" /\ target = active
      /\ \A v \in Versions : compiling[v] = 0
      /\ events = <<>> /\ Upstream /\ ~Compiling
  BY <1>0 DEF IInv, TypeInv, TypeOK, OneChange, on_start, Compiling, Upstream
<1>2. UNCHANGED <<active, events, compiling, pending_deletions>>
  BY DEF on_start
<1>3. CASE target # NoVersion
  <2>1. active \in Versions /\ load_module(active, FALSE) /\ FALSE \in BOOLEAN
    BY <1>0, <1>1, <1>3 DEF on_start, IInv, TypeInv, TypeOK
  <2>2. Due = "Activated"
    BY <1>0, <1>1, <1>3, DueUpstream
  <2> QED
    BY <1>1, <1>2, <2>1, <2>2, LoadStep
<1>4. CASE target = NoVersion
  <2>1. UNCHANGED <<pending, actor, file, db_major>>
    BY <1>4 DEF on_start, disk
  <2>2. Running' = Running /\ Ended' = Ended
    BY <2>1, SameActors
  <2>3. Due' = Due
    BY <1>1, <1>2, <1>4, <2>1 DEF Due, Live, Compiling
  <2> QED
    BY <1>2, <2>1, <2>2, <2>3 DEF Step
<1> QED
  BY <1>3, <1>4

LEMMA ActivatedStep == ASSUME LInv, on_activated PROVE Step
<1> DEFINE v == Head(events).version
<1>0. IInv
  BY DEF LInv
<1>1. /\ events' = <<>> /\ events # <<>> /\ mode = "ready" /\ Upstream /\ v = active
      /\ Head(events).type = "Activated" /\ v \in Versions
      /\ \A u \in Versions : compiling[u] = 0
  BY <1>0, OneEvent DEF on_activated, ModuleEvent
<1>2. UNCHANGED <<active, mode, pending, pending_deletions, actor, file, db_major>>
  BY DEF on_activated, supervisor, disk
<1>3. /\ \A a \in Actors : pending[a] = NotPending /\ ~pending[a].reset_db
      /\ pending_deletions = {}
      /\ \A a \in Actors : Live(a) => ~actor[a].stopping
  BY <1>0, <1>1, UpstreamAlone, NoReset
<1>4. /\ Running' = Running /\ Ended' = Ended
      /\ \A a \in Actors : Live(a)' = Live(a)
  BY <1>2, SameActors
<1>5. Due = "Activated"
  BY <1>1 DEF Due
<1>6. Due' = IF Compiling' THEN "Activated" ELSE "none"
  BY <1>1, <1>2, <1>3, <1>4 DEF Due
<1>7. CASE is_alive /\ actor[modules].version = v /\ compiling' = compiling
  <2>1. modules \in Actors /\ Live(modules)
    BY <1>0, <1>7 DEF is_alive, IInv, TypeInv, TypeOK
  <2>2. Instance(modules) \in Running /\ Instance(modules).version = active
    BY <1>1, <1>7, <2>1 DEF Running, Instance
  <2>3. ~Compiling'
    BY <1>1, <1>7 DEF Compiling
  <2> QED
    BY <1>2, <1>4, <1>5, <1>6, <2>2, <2>3 DEF Step, Life!Next, Life!Done
<1>8. CASE compiling' = [compiling EXCEPT ![v] = @ + 1]
  <2>1. compiling'[v] = 1
    BY <1>0, <1>1, <1>8 DEF IInv, TypeInv, TypeOK
  <2>2. Compiling'
    BY <1>1, <2>1 DEF Compiling
  <2> QED
    BY <1>2, <1>4, <1>5, <1>6, <2>2 DEF Step
<1> QED
  BY <1>7, <1>8 DEF on_activated

\* A change that ends the module: with the live actor, or at once.
LEMMA StoppingLife ==
  ASSUME IInv, Upstream, is_alive, stop_gracefully(modules)
  PROVE  /\ Running' = Running /\ Ended' = Ended
         /\ \E a \in Actors : Live(a)' /\ actor'[a].stopping
<1>1. TypeOK /\ modules \in Actors /\ Live(modules)
  BY DEF is_alive, IInv, TypeInv, TypeOK
<1>2. PICK n \in Actors : n = modules
  BY <1>1
<1>3. /\ \A a \in Actors : /\ actor'[a].state = actor[a].state
                           /\ actor'[a].version = actor[a].version
                           /\ actor'[a].conn = actor[a].conn
      /\ actor'[n].stopping = TRUE
  BY <1>1, <1>2 DEF stop_gracefully, TypeOK, Actor
<1>4. Running' = Running /\ Ended' = Ended
  BY <1>3, SameRunning, SameEnded DEF Live
<1>5. Live(n)' /\ actor'[n].stopping
  BY <1>1, <1>2, <1>3 DEF Live
<1> QED
  BY <1>4, <1>5

LEMMA DeactivatedStep == ASSUME LInv, on_deactivated PROVE Step
<1>0. IInv
  BY DEF LInv
<1>1. /\ events' = <<>> /\ events # <<>> /\ mode = "ready" /\ Upstream
      /\ Head(events).type = "Deactivated"
      /\ \A u \in Versions : compiling[u] = 0
  BY <1>0, OneEvent DEF on_deactivated
<1>2. UNCHANGED <<active, compiling, mode, pending, pending_deletions, file, db_major>>
  BY DEF on_deactivated, disk
<1>3. /\ \A a \in Actors : pending[a] = NotPending /\ ~pending[a].reset_db
      /\ pending_deletions = {}
      /\ \A a \in Actors : Live(a) => is_alive
  BY <1>0, <1>1, UpstreamAlone, NoReset
<1>4. Due = "Deactivated"
  BY <1>1 DEF Due
<1>5. ~Compiling'
  BY <1>1, <1>2 DEF Compiling
<1>6. CASE is_alive /\ stop_gracefully(modules)
  <2>1. /\ Running' = Running /\ Ended' = Ended
        /\ \E a \in Actors : Live(a)' /\ actor'[a].stopping
    BY <1>0, <1>1, <1>6, StoppingLife
  <2>2. Due' = "Deactivated"
    BY <1>1, <1>2, <1>3, <1>5, <2>1 DEF Due
  <2> QED
    BY <1>2, <1>4, <2>1, <2>2 DEF Step
<1>7. CASE ~is_alive /\ UNCHANGED actor
  <2>1. Running' = Running /\ Ended' = Ended /\ \A a \in Actors : ~Live(a) /\ ~Live(a)'
    BY <1>3, <1>7, SameActors
  <2>2. Running = {} /\ Due' = "none"
    BY <1>1, <1>2, <1>3, <1>5, <2>1 DEF Due, Running
  <2> QED
    BY <1>2, <1>4, <2>1, <2>2 DEF Step, Life!Next, Life!Done
<1> QED
  BY <1>6, <1>7 DEF on_deactivated

LEMMA DeletedStep == ASSUME LInv, on_deleted PROVE Step
<1>0. IInv
  BY DEF LInv
<1>1. /\ events' = <<>> /\ events # <<>> /\ mode = "ready" /\ Upstream
      /\ Head(events).type = "Deleted"
      /\ \A u \in Versions : compiling[u] = 0
  BY <1>0, OneEvent DEF on_deleted
<1>2. UNCHANGED <<active, compiling, mode, pending, db_major>>
  BY DEF on_deleted
<1>3. /\ \A a \in Actors : pending[a] = NotPending /\ ~pending[a].reset_db
      /\ pending_deletions = {}
      /\ \A a \in Actors : Live(a) => is_alive
  BY <1>0, <1>1, UpstreamAlone, NoReset
<1>4. Due = "Deleted"
  BY <1>1 DEF Due
<1>5. ~Compiling'
  BY <1>1, <1>2 DEF Compiling
<1>6. CASE /\ is_alive /\ stop_gracefully(modules) /\ UNCHANGED file
           /\ pending_deletions' = pending_deletions \cup {modules}
  <2>1. Running' = Running /\ Ended' = Ended
    BY <1>0, <1>1, <1>6, StoppingLife
  <2>2. pending_deletions' # {}
    BY <1>6
  <2>3. Due' = "Deleted"
    BY <1>1, <1>2, <1>3, <2>2 DEF Due
  <2> QED
    BY <1>2, <1>4, <1>6, <2>1, <2>3 DEF Step
<1>7. CASE /\ ~is_alive /\ file + 1 \in Files /\ file' = file + 1
           /\ UNCHANGED <<pending_deletions, actor>>
  <2>1. Running' = Running /\ Ended' = Ended /\ \A a \in Actors : ~Live(a) /\ ~Live(a)'
    BY <1>3, <1>7, SameActors
  <2>2. Running = {} /\ Due' = "none"
    BY <1>1, <1>2, <1>3, <1>5, <1>7, <2>1 DEF Due, Running
  <2>3. Life!Fresh
    BY <1>2, <1>7, NextFile
  <2> QED
    BY <1>2, <1>4, <2>1, <2>2, <2>3 DEF Step, Life!Next, Life!Done
<1> QED
  BY <1>6, <1>7 DEF on_deleted

LEMMA RestartStep == ASSUME LInv, NEW v \in Versions, restart_module(v) PROVE Step
<1>0. IInv /\ TypeOK /\ Numbered
  BY DEF LInv, IInv, TypeInv
<1>1. /\ mode = "ready" /\ timers[v] > 0
      /\ UNCHANGED <<active, events, compiling, mode, pending, pending_deletions>>
  BY DEF restart_module
<1>2. CASE backoff /\ ~is_alive /\ spawn_module(actor, v, FALSE, TRUE)
  <2>1. /\ \A a \in Actors : ~Live(a)
        /\ \A a \in Actors : pending[a] = NotPending /\ ~pending[a].reset_db
        /\ pending_deletions = {}
    BY <1>0, <1>2, UpstreamAlone, NoReset
  <2>2. Running = {}
    BY <2>1 DEF Running
  <2>3. /\ Running' = {[version |-> v, database |-> 0]} /\ Ended' = Ended
        /\ \A a \in Actors : Live(a)' => ~actor'[a].stopping
        /\ file' = file /\ db_major' = db_major
    <3> DEFINE acts == actor
    <3>1. spawn_module(acts, v, FALSE, TRUE)
      BY <1>2
    <3>2. /\ acts \in [Actors -> Actor]
          /\ \A a \in Actors : acts[a].state = "unborn" <=> actor[a].state = "unborn"
          /\ \A a \in Actors : acts[a].state \notin {"starting", "running"}
      BY <1>0, <2>1 DEF TypeOK, Live
    <3>3. Ended = {acts[a].version : a \in {b \in Actors : acts[b].state \in {"dead", "reaped"}}}
      BY DEF Ended
    <3> HIDE DEF acts
    <3> QED
      BY <1>0, <3>1, <3>2, <3>3, SpawnedLife, FALSE \in BOOLEAN, TRUE \in BOOLEAN
  <2>4. Due' = Due
    BY <1>1, <2>1, <2>3 DEF Due, Compiling
  <2>5. active # NoVersion \/ Due \in {"Deactivated", "Deleted"}
    <3> SUFFICES ASSUME active = NoVersion PROVE Due \in {"Deactivated", "Deleted"}
      OBVIOUS
    <3>1. events # <<>>
      BY <1>0, <1>2 DEF IInv, Registered
    <3>2. Head(events) \in ModuleEvent /\ Head(events).version = NoVersion
      BY <1>0, <3>1 DEF IInv, TypeInv, TypeOK, OneChange
    <3>3. Head(events).type \in {"Deactivated", "Deleted"}
      BY <3>2, VersionsAssumption DEF ModuleEvent
    <3> QED
      BY <3>1, <3>3 DEF Due
  <2>6. RETRY_ON_FAILURE /\ v \in Ended
    BY <1>1 DEF LInv, TimersInv
  <2>7. Life!Resume(v)
    BY <1>1, <2>2, <2>3, <2>4, <2>5, <2>6 DEF Life!Resume
  <2> QED
    BY <2>7 DEF Step, Life!Next
<1>3. CASE UNCHANGED <<modules, actor, disk>>
  <2>1. /\ Running' = Running /\ Ended' = Ended
        /\ \A a \in Actors : Live(a)' = Live(a)
    BY <1>3, SameActors
  <2>2. Due' = Due
    BY <1>1, <1>3, <2>1 DEF Due, Compiling
  <2> QED
    BY <1>1, <1>3, <2>1, <2>2 DEF Step, disk
<1> QED
  BY <1>2, <1>3 DEF restart_module

LEMMA DiedPendingStep ==
  ASSUME LInv, NEW a \in Actors, on_link_died_pending(a)
  PROVE  Step
<1>0. IInv /\ TypeOK /\ Numbered
  BY DEF LInv, IInv, TypeInv
<1>1. /\ actor[a].state = "dead" /\ Ending(a) /\ mode = "ready"
      /\ pending[a] # NotPending /\ pending[a].version = active /\ active \in Versions
      /\ pending[a].reset_db \in BOOLEAN
  BY <1>0 DEF on_link_died_pending, Died, Ending, IInv, TypeInv, TypeOK, OneChange,
         PendingModule
<1>2. /\ events = <<>> /\ ~Compiling /\ \A b \in Actors : ~Live(b)
      /\ \A b \in Actors : b # a => ~Ending(b)
      /\ a \notin pending_deletions
  BY <1>0, <1>1, EndingAlone DEF Upstream
<1>3. /\ pending_deletions = {}
      /\ \A b \in Actors : b # a => pending[b] = NotPending /\ ~pending[b].reset_db
  BY <1>0, <1>2, NoReset DEF Ending, TypeOK
<1>4. /\ spawn_module(Reaped(a), active, pending[a].reset_db, FALSE)
      /\ pending' = [pending EXCEPT ![a] = NotPending]
      /\ UNCHANGED <<active, events, compiling, mode, pending_deletions>>
  BY <1>1 DEF on_link_died_pending
<1>5. Running = {}
  BY <1>2 DEF Running
<1>6. Due = IF pending[a].reset_db THEN "Reset" ELSE "Activated"
  BY <1>1, <1>2, <1>3 DEF Due
<1>7. /\ Running' = {[version |-> active, database |-> 0]} /\ Ended' = Ended
      /\ \A b \in Actors : Live(b)' => ~actor'[b].stopping
      /\ file' = IF pending[a].reset_db THEN file + 1 ELSE file
      /\ file' \in Files /\ db_major' = db_major
  <2> DEFINE acts == Reaped(a)
  <2>1. /\ spawn_module(acts, active, pending[a].reset_db, FALSE)
        /\ acts \in [Actors -> Actor]
        /\ \A b \in Actors : acts[b].state = "unborn" <=> actor[b].state = "unborn"
        /\ \A b \in Actors : b # a => acts[b] = actor[b]
        /\ acts[a].state = "reaped"
    BY <1>0, <1>1, <1>4, ReapedFacts
  <2>2. acts[a].version = actor[a].version
    BY <1>0, <1>1 DEF Reaped, TypeOK, Actor
  <2> HIDE DEF acts
  <2>3. \A b \in Actors : acts[b].state \notin {"starting", "running"}
    BY <1>2, <2>1 DEF Live
  <2>4. \A b \in Actors :
          /\ acts[b].state \in {"dead", "reaped"} <=> actor[b].state \in {"dead", "reaped"}
          /\ acts[b].version = actor[b].version
    BY <1>1, <2>1, <2>2
  <2>5. Ended = {acts[b].version : b \in {c \in Actors : acts[c].state \in {"dead", "reaped"}}}
    BY <2>4 DEF Ended
  <2> QED
    BY <1>0, <1>1, <2>1, <2>3, <2>5, SpawnedLife, FALSE \in BOOLEAN
<1>8. \A b \in Actors : pending'[b] = NotPending /\ ~pending'[b].reset_db
  BY <1>0, <1>3, <1>4, NoReset DEF TypeOK
<1>9. ~Compiling'
  BY <1>2, <1>4 DEF Compiling
<1>10. Due' = "none"
  BY <1>1, <1>2, <1>3, <1>4, <1>7, <1>8, <1>9 DEF Due
<1> QED
  BY <1>1, <1>4, <1>5, <1>6, <1>7, <1>10, BeginStep

\* An actor that is reaped had ended before.
LEMMA ReapedLife ==
  ASSUME IInv, NEW a \in Actors, actor[a].state = "dead", actor' = Reaped(a)
  PROVE  /\ Running' = Running /\ Ended' = Ended
         /\ \A b \in Actors : Live(b)' = Live(b) /\ actor'[b].stopping = actor[b].stopping
<1>1. /\ \A b \in Actors : b # a => actor'[b] = actor[b]
      /\ actor'[a].state = "reaped" /\ actor'[a].version = actor[a].version
      /\ actor'[a].stopping = actor[a].stopping
  BY DEF Reaped, IInv, TypeInv, TypeOK, Actor
<1>2. \A b \in Actors : Live(b)' = Live(b)
  BY <1>1 DEF Live
<1>3. \A b \in Actors : Live(b) => b # a
  BY DEF Live
<1> QED
  BY <1>1, <1>2, <1>3, SameRunning, SameEnded

LEMMA DiedDeletedStep ==
  ASSUME LInv, NEW a \in Actors, on_link_died_deleted(a)
  PROVE  Step
<1>0. IInv /\ TypeOK
  BY DEF LInv, IInv, TypeInv
<1>1. /\ actor[a].state = "dead" /\ Ending(a) /\ mode = "ready"
      /\ pending[a] = NotPending /\ a \in pending_deletions
      /\ pending_deletions' = pending_deletions \ {a} /\ actor' = Reaped(a)
      /\ file' = (IF modules = 0 THEN file + 1 ELSE file) /\ file' \in Files
      /\ UNCHANGED <<active, events, compiling, mode, pending, db_major>>
  BY DEF on_link_died_deleted, Died, Ending
<1>2. /\ events = <<>> /\ ~Compiling /\ modules = 0
      /\ \A b \in Actors : ~Live(b)
      /\ \A b \in Actors : b # a => ~Ending(b)
  BY <1>0, <1>1, EndingAlone DEF Upstream
<1>3. /\ pending_deletions' = {}
      /\ \A b \in Actors : pending[b] = NotPending /\ ~pending[b].reset_db
  BY <1>0, <1>1, <1>2, NoReset DEF Ending, TypeOK
<1>4. /\ Running' = Running /\ Ended' = Ended
      /\ \A b \in Actors : ~Live(b)'
  BY <1>0, <1>1, <1>2, ReapedLife
<1>5. Due = "Deleted" /\ Running = {}
  BY <1>1, <1>2, <1>3 DEF Due, Running
<1>6. ~Compiling'
  BY <1>1, <1>2 DEF Compiling
<1>7. Due' = "none"
  BY <1>1, <1>2, <1>3, <1>4, <1>6 DEF Due
<1>8. Life!Fresh
  BY <1>1, <1>2, NextFile
<1> QED
  BY <1>1, <1>4, <1>5, <1>7, <1>8 DEF Step, Life!Next, Life!Done

LEMMA DiedStep ==
  ASSUME LInv, NEW a \in Actors, on_link_died(a)
  PROVE  Step
<1>0. IInv
  BY DEF LInv
<1>1. /\ actor[a].state = "dead" /\ actor' = Reaped(a)
      /\ UNCHANGED <<active, events, compiling, mode, pending, pending_deletions,
                     file, db_major>>
  BY DEF on_link_died, Died, disk
<1>2. /\ Running' = Running /\ Ended' = Ended
      /\ \A b \in Actors : Live(b)' = Live(b) /\ actor'[b].stopping = actor[b].stopping
  BY <1>0, <1>1, ReapedLife
<1>3. Compiling' = Compiling
  BY <1>1 DEF Compiling
<1>4. Due' = Due
  BY <1>1, <1>2, <1>3 DEF Due
<1> QED
  BY <1>1, <1>2, <1>4 DEF Step

LEMMA OpenStep ==
  ASSUME LInv, NEW a \in Actors, start(a)
  PROVE  Step
<1>0. IInv /\ TypeOK
  BY DEF LInv, IInv, TypeInv
<1> DEFINE v == actor[a].version
<1>1. /\ actor[a].state = "starting" /\ Live(a) /\ v \in Versions
      /\ UNCHANGED <<active, events, compiling, mode, pending, pending_deletions>>
      /\ file' = (IF db_major[file] \in {NoMajor, Major[v]} THEN file ELSE file + 1)
      /\ file' \in Files
      /\ db_major' = [db_major EXCEPT ![file'] = Major[v]]
      /\ actor' = [actor EXCEPT ![a].state = "running", ![a].conn = file']
  BY <1>0 DEF start, supervisor, Live, TypeOK
<1>2. Running = {[version |-> v, database |-> 0]}
  <2>1. Instance(a) = [version |-> v, database |-> 0]
    BY <1>1 DEF Instance
  <2> QED
    BY <1>0, <1>1, <2>1, RunningOne
<1> DEFINE x == [actor[a] EXCEPT !.state = "running", !.conn = file']
<1>3. actor'[a] = x /\ \A b \in Actors : b # a => actor'[b] = actor[b]
  BY <1>0, <1>1 DEF TypeOK
<1>4. x.state = "running" /\ x.version = v /\ x.conn = file' /\ x.stopping = actor[a].stopping
  BY <1>0 DEF TypeOK, Actor
<1> HIDE DEF x
<1>5. ASSUME NEW b \in Actors
      PROVE  Live(b)' = Live(b) /\ actor'[b].stopping = actor[b].stopping
  <2>1. CASE b = a
    <3>1. /\ actor'[b].state = "running" /\ actor[b].state = "starting"
          /\ actor'[b].stopping = actor[b].stopping
      BY <1>1, <1>3, <1>4, <2>1
    <3> QED
      BY <3>1 DEF Live
  <2>2. CASE b # a
    BY <1>3, <2>2 DEF Live
  <2> QED
    BY <2>1, <2>2
<1>6. \A b \in Actors : Live(b)' <=> b = a
  BY <1>0, <1>1, <1>5, LiveIsOne DEF OneLiveActor
<1>7. Instance(a)' = [version |-> v, database |-> file']
  BY <1>3, <1>4 DEF Instance
<1>8. Running' = {[version |-> v, database |-> file']}
  BY <1>6, <1>7 DEF Running
<1>9. Ended' = Ended
  <2>1. \A b \in Actors :
          /\ actor'[b].state \in {"dead", "reaped"} <=> actor[b].state \in {"dead", "reaped"}
          /\ actor'[b].version = actor[b].version
    BY <1>1, <1>3, <1>4
  <2> QED
    BY <2>1, SameEnded
<1>10. Compiling' = Compiling
  BY <1>1 DEF Compiling
<1>11. Due' = Due
  BY <1>1, <1>5, <1>10 DEF Due
<1>12. db_major'[file'] = Major[v]
  BY <1>0, <1>1 DEF TypeOK
<1>13. Life!Open(v)
  BY <1>1, <1>2, <1>8, <1>9, <1>11, <1>12 DEF Life!Open, Life!NoMajor, NoMajor
<1> QED
  BY <1>1, <1>13 DEF Step, Life!Next

LEMMA EndStep ==
  ASSUME LInv, NEW a \in Actors, stop(a) \/ fail(a)
  PROVE  Step
<1>0. IInv /\ TypeOK
  BY DEF LInv, IInv, TypeInv
<1>1. /\ Live(a) /\ actor' = [actor EXCEPT ![a].state = "dead"]
      /\ UNCHANGED <<active, events, compiling, mode, pending, pending_deletions,
                     file, db_major>>
  BY DEF stop, fail, Live, supervisor, disk
<1>2. Running = {Instance(a)} /\ Instance(a).version = actor[a].version
  BY <1>0, <1>1, RunningOne DEF Instance
<1>3. /\ actor'[a].state = "dead" /\ actor'[a].version = actor[a].version
      /\ \A b \in Actors : b # a => actor'[b] = actor[b]
  BY <1>0, <1>1 DEF TypeOK, Actor
<1>4. \A b \in Actors : ~Live(b)'
  <2>1. \A b \in Actors : Live(b) => b = a
    BY <1>0, <1>1, LiveIsOne DEF OneLiveActor
  <2> QED
    BY <1>3, <2>1 DEF Live
<1>5. Running' = {}
  BY <1>4 DEF Running
<1>6. Ended' = Ended \cup {actor[a].version}
  <2>1. \A b \in Actors :
          /\ actor'[b].state \in {"dead", "reaped"}
               <=> actor[b].state \in {"dead", "reaped"} \/ b = a
          /\ actor'[b].version = actor[b].version
    BY <1>3
  <2> QED
    BY <2>1 DEF Ended
<1>7. Ended' = Ended \cup {i.version : i \in Running}
  BY <1>2, <1>6
<1>8. Compiling' = Compiling
  BY <1>1 DEF Compiling
<1>9. Due' \in IF Due = "Deactivated" THEN {Due, "none"} ELSE {Due}
  BY <1>1, <1>4, <1>8 DEF Due
<1>10. Life!End
  BY <1>1, <1>2, <1>5, <1>7, <1>9 DEF Life!End
<1> QED
  BY <1>10 DEF Step, Life!Next

LEMMA ProcessStep == ASSUME LInv, restart_process PROVE Step
<1>0. IInv /\ TypeOK
  BY DEF LInv, IInv, TypeInv
<1>1. /\ events' = <<>> /\ mode' = "starting" /\ pending_deletions' = {}
      /\ \A v \in Versions : compiling'[v] = 0
      /\ \A a \in Actors : pending'[a] = NotPending
      /\ UNCHANGED <<active, file, db_major>>
  BY DEF restart_process, disk
<1>2. \A a \in Actors :
        /\ actor'[a].state = IF actor[a].state = "unborn" THEN "unborn" ELSE "reaped"
        /\ actor[a].state # "unborn" => actor'[a].version = actor[a].version
  BY <1>0 DEF restart_process, Unborn, TypeOK, Actor
<1>3. \A a \in Actors : ~Live(a)'
  BY <1>2 DEF Live
<1>4. Running' = {}
  BY <1>3 DEF Running
<1>5. Ended' = Ended \cup {i.version : i \in Running}
  <2>1. \A a \in Actors :
          /\ actor'[a].state \in {"dead", "reaped"}
               <=> actor[a].state \in {"dead", "reaped"} \/ Live(a)
          /\ actor'[a].state \in {"dead", "reaped"} => actor'[a].version = actor[a].version
    BY <1>0, <1>2 DEF Live, TypeOK, Actor
  <2>2. \A a \in Actors : Instance(a).version = actor[a].version
    BY DEF Instance
  <2>3. {i.version : i \in Running} = {actor[a].version : a \in {b \in Actors : Live(b)}}
    BY <2>2 DEF Running
  <2> QED
    BY <2>1, <2>3 DEF Ended
<1>6. ~Compiling'
  BY <1>1 DEF Compiling
<1>7. \A a \in Actors : ~pending'[a].reset_db
  BY <1>1, NoReset
<1>8. Due' = IF active = NoVersion THEN "none" ELSE "Activated"
  BY <1>1, <1>3, <1>6, <1>7 DEF Due
<1>9. Life!Restart
  BY <1>1, <1>4, <1>5, <1>8 DEF Life!Restart
<1> QED
  BY <1>9 DEF Step, Life!Next

\* Every step is one of Lifecycle, or none.
LEMMA LifeStep == ASSUME Careful, LInv, [Next]_vars PROVE Step
<1>1. CASE Next
  BY <1>1, AskStep, ResetCompiledStep, ActivatedStep, DeactivatedStep, DeletedStep,
     CompiledStep, RestartStep, DiedPendingStep, DiedDeletedStep, DiedStep, OnStartStep,
     OpenStep, EndStep, ProcessStep
  DEF Next, Supervise, replay
<1>2. CASE UNCHANGED vars
  <2>1. /\ UNCHANGED <<active, events, compiling, mode, pending, pending_deletions,
                       actor, file, db_major>>
    BY <1>2 DEF vars, supervisor, disk
  <2>2. /\ Running' = Running /\ Ended' = Ended
        /\ \A a \in Actors : Live(a)' = Live(a)
    BY <2>1, SameActors
  <2>3. Compiling' = Compiling
    BY <2>1 DEF Compiling
  <2>4. Due' = Due
    BY <2>1, <2>2, <2>3 DEF Due
  <2> QED
    BY <2>1, <2>2, <2>4 DEF Step
<1> QED
  BY <1>1, <1>2

\* What has ended stays so, and database files are used in turn.
LEMMA StepGrows ==
  ASSUME LInv, Step
  PROVE  Ended \subseteq Ended' /\ file' >= file
<1>1. file \in Nat
  BY BoundsAssumption DEF LInv, IInv, TypeInv, TypeOK, Files
<1>2. CASE UNCHANGED <<Ended, file>>
  BY <1>1, <1>2
<1>3. ASSUME NEW change \in Life!Changes, NEW version, Life!Ask(change, version)
      PROVE  UNCHANGED <<Ended, file>>
  BY <1>3 DEF Life!Ask
<1>4. CASE Life!Begin \/ \E v \in Versions : Life!Resume(v) \/ Life!Open(v)
  BY <1>1, <1>4 DEF Life!Begin, Life!Fresh, Life!Resume, Life!Open
<1>5. CASE Life!End \/ Life!Restart
  BY <1>1, <1>5 DEF Life!End, Life!Restart
<1>6. CASE Life!Done
  BY <1>1, <1>6 DEF Life!Done, Life!Fresh
<1> QED
  BY <1>2, <1>3, <1>4, <1>5, <1>6 DEF Step, Life!Next

LEMMA NextTimers == ASSUME Careful, LInv, [Next]_vars PROVE TimersInv'
<1>0. IInv /\ TypeOK
  BY DEF LInv, IInv, TypeInv
<1>1. Ended \subseteq Ended'
  BY LifeStep, StepGrows
<1>2. CASE \E a \in Actors : on_link_died(a)
  <2>1. PICK a \in Actors : on_link_died(a)
    BY <1>2
  <2>2. actor[a].version \in Ended /\ actor[a].version \in Versions
    BY <1>0, <2>1 DEF on_link_died, Died, Ended, TypeOK
  <2>3. \/ timers' = timers
        \/ RETRY_ON_FAILURE /\ timers' = [timers EXCEPT ![actor[a].version] = @ + 1]
    BY <2>1 DEF on_link_died
  <2>4. ASSUME NEW v \in Versions, timers'[v] > 0
        PROVE  RETRY_ON_FAILURE /\ v \in Ended
    BY <1>0, <2>2, <2>3, <2>4 DEF LInv, TimersInv, TypeOK
  <2> QED
    BY <1>1, <2>4 DEF TimersInv
<1>3. CASE ~\E a \in Actors : on_link_died(a)
  <2>1. \A v \in Versions : timers'[v] > 0 => timers[v] > 0
    <3>1. \/ timers' = timers
          \/ timers' = [v \in Versions |-> 0]
          \/ \E v \in Versions : /\ timers[v] > 0
                                 /\ timers' = [timers EXCEPT ![v] = @ - 1]
      BY <1>3 DEF Next, Supervise, replay, vars, activate_module, deactivate_module,
         delete_module, reset, reset_compiled, on_activated, on_deactivated, on_deleted,
         module_compiled, restart_module, on_link_died_pending, on_link_died_deleted,
         on_start, start, stop, fail, restart_process
    <3> QED
      BY <1>0, <3>1 DEF TypeOK
  <2> QED
    BY <1>1, <2>1 DEF LInv, TimersInv
<1> QED
  BY <1>2, <1>3

LEMMA NextSpare == ASSUME Careful, LInv, [Next]_vars PROVE SpareFiles'
<1>0. IInv /\ TypeOK
  BY DEF LInv, IInv, TypeInv
<1>1. file' >= file /\ file \in Nat /\ file' \in Nat
  <2>1. file' \in Files
    BY <1>0, NextType DEF IInv, TypeInv, TypeOK
  <2> QED
    BY <1>0, <2>1, LifeStep, StepGrows, BoundsAssumption DEF Files, TypeOK
<1>2. \/ db_major' = db_major
      \/ \E major \in Nat : db_major' = [db_major EXCEPT ![file'] = major]
  <2>1. CASE \E a \in Actors : start(a)
    <3>1. PICK a \in Actors : start(a)
      BY <2>1
    <3>2. Major[actor[a].version] \in Nat
      BY <1>0, <3>1, VersionsAssumption DEF start, TypeOK
    <3> QED
      BY <3>1, <3>2 DEF start
  <2>2. CASE ~\E a \in Actors : start(a)
    BY <2>2 DEF Next, Supervise, replay, vars, disk, activate_module, deactivate_module,
       delete_module, reset, reset_compiled, on_activated, on_deactivated, on_deleted,
       module_compiled, restart_module, on_link_died_pending, on_link_died_deleted,
       on_link_died, on_start, load_module, spawn_module, stop, fail, restart_process
  <2> QED
    BY <2>1, <2>2
<1>3. ASSUME NEW f \in Files, f > file'
      PROVE  db_major'[f] = NoMajor
  <2>1. f \in Nat /\ f > file /\ f # file'
    BY <1>1, <1>3, BoundsAssumption DEF Files
  <2>2. db_major'[f] = db_major[f]
    BY <1>0, <1>2, <2>1 DEF TypeOK
  <2> QED
    BY <2>1, <2>2 DEF LInv, SpareFiles
<1> QED
  BY <1>3 DEF SpareFiles

\* The steps of supervision are those of Lifecycle: what operators who wait see is one
\* instance at a time, brought up and ended as Lifecycle says.
THEOREM ImplementsLifecycle == ASSUME Careful PROVE Spec => LifeSpec
<1>1. Init => LInv /\ Life!Init
  <2> SUFFICES ASSUME Init PROVE LInv /\ Life!Init
    OBVIOUS
  <2>1. \A a \in Actors : actor[a].state = "unborn"
    BY DEF Init, Unborn
  <2>2. Running = {} /\ Ended = {}
    BY <2>1 DEF Running, Ended, Live
  <2>3. ~Compiling /\ \A a \in Actors : ~Live(a) /\ ~pending[a].reset_db
    BY <2>1, NoReset DEF Init, Compiling, Live
  <2>4. Due = "none"
    BY <2>3 DEF Init, Due
  <2>5. 1 \in Files /\ db_major[1] = NoMajor
    BY BoundsAssumption DEF Init, Files
  <2>6. LInv
    BY InitInv DEF LInv, SpareFiles, TimersInv, Init
  <2> QED
    BY <2>2, <2>4, <2>5, <2>6 DEF Init, Life!Init, Life!NoMajor, NoMajor
<1>2. LInv /\ [Next]_vars => LInv'
  BY NextInv, NextTimers, NextSpare DEF LInv
<1>3. LInv /\ [Next]_vars => [Life!Next]_(Life!vars)
  BY LifeStep DEF Step, Life!vars
<1> QED
  BY <1>1, <1>2, <1>3, PTL DEF Spec, LifeSpec, Life!Spec

=============================================================================
