--------------------------- MODULE DeploymentProofs ---------------------------
(***************************************************************************)
(* Theorems about ModuleStore and Deployment, for every set of modules,    *)
(* versions, contents and clients, and every bound.                        *)
(***************************************************************************)
EXTENDS Deployment, SequenceTheorems, TLAPS

-----------------------------------------------------------------------------
(* The tables *)

\* The keys of the tables and the reference between them, together.
StoreInv == StoreTypeOK /\ UniqueRows /\ ActiveRowOwned

\* SQLite's next row id is larger than all there are.
LEMMA NextIdsFresh ==
  ASSUME StoreTypeOK, NEW i \in NextIds
  PROVE  i \in Nat /\ \A r \in modules : r.id < i
<1>1. \A r \in modules : r.id \in Nat
  BY DEF StoreTypeOK, Row
<1> QED
  BY <1>1 DEF NextIds

\* An active row's module is the module of the row with its id.
LEMMA JoinOwned ==
  ASSUME StoreInv, NEW a \in active_modules, NEW r \in modules, a.id = r.id
  PROVE  r.module = a.module
<1>1. PICK s \in modules : s.id = a.id /\ s.module = a.module
  BY DEF StoreInv, ActiveRowOwned
<1>2. r = s
  BY <1>1 DEF StoreInv, UniqueRows
<1> QED
  BY <1>1, <1>2

LEMMA StoreInit == init => StoreInv
BY DEF init, StoreInv, StoreTypeOK, UniqueRows, ActiveRowOwned

\* An upload that is accepted adds a row with a fresh id.
LEMMA SaveAdds ==
  ASSUME StoreInv, NEW m \in Modules, NEW v \in Versions, NEW env \in Settings,
         NEW c \in Codes, NEW reply, save_module(m, v, env, c, reply), modules' # modules
  PROVE  \E i \in NextIds :
           /\ modules' = modules \cup {[id |-> i, module |-> m, version |-> v, code |-> c]}
           /\ RowsAt(m, v) = {}
           /\ active_modules' = active_modules
           /\ module_env_vars' \subseteq EnvVar
<1>1. RowsAt(m, v) = {} /\ module_env_vars' = WithEnv(m, env) /\ UNCHANGED active_modules
  BY DEF save_module, tables
<1>2. module_env_vars' \subseteq EnvVar
  BY <1>1 DEF StoreInv, StoreTypeOK, WithEnv, EnvVar, Settings
<1>3. PICK i \in NextIds :
        modules' = modules \cup {[id |-> i, module |-> m, version |-> v, code |-> c]}
  BY DEF save_module, tables
<1> QED
  BY <1>1, <1>2, <1>3

LEMMA SaveInv ==
  ASSUME StoreInv, NEW m \in Modules, NEW v \in Versions, NEW env \in Settings,
         NEW c \in Codes, NEW reply, save_module(m, v, env, c, reply)
  PROVE  StoreInv'
<1>1. CASE modules' = modules
  <2>1. UNCHANGED tables
    <3>1. CASE reply = "Ok"
      <4>1. PICK i \in NextIds :
              modules' = modules \cup {[id |-> i, module |-> m, version |-> v, code |-> c]}
        BY <3>1 DEF save_module
      <4>2. [id |-> i, module |-> m, version |-> v, code |-> c] \in RowsAt(m, v)
        BY <4>1, <1>1 DEF RowsAt
      <4>3. RowsAt(m, v) = {}
        BY <3>1 DEF save_module
      <4> QED
        BY <4>2, <4>3
    <3> QED
      BY <3>1 DEF save_module
  <2> QED
    BY <2>1 DEF tables, StoreInv, StoreTypeOK, UniqueRows, ActiveRowOwned
<1>2. CASE modules' # modules
  <2>1. PICK i \in NextIds :
          /\ modules' = modules \cup {[id |-> i, module |-> m, version |-> v, code |-> c]}
          /\ RowsAt(m, v) = {}
          /\ active_modules' = active_modules
          /\ module_env_vars' \subseteq EnvVar
    BY <1>2, SaveAdds
  <2>2. i \in Nat /\ \A r \in modules : r.id < i /\ r.id \in Nat
    BY NextIdsFresh DEF StoreInv, StoreTypeOK, Row
  <2> DEFINE new == [id |-> i, module |-> m, version |-> v, code |-> c]
  <2>3. \A r \in modules : r.id # new.id /\ ~(r.module = m /\ r.version = v)
    BY <2>1, <2>2 DEF RowsAt
  <2>4. StoreTypeOK'
    BY <2>1, <2>2 DEF StoreInv, StoreTypeOK, Row
  <2>5. UniqueRows'
    BY <2>1, <2>3 DEF StoreInv, UniqueRows
  <2>6. ActiveRowOwned'
    BY <2>1 DEF StoreInv, ActiveRowOwned
  <2> QED
    BY <2>4, <2>5, <2>6 DEF StoreInv
<1> QED
  BY <1>1, <1>2

LEMMA ActivateInv ==
  ASSUME StoreInv, NEW m \in Modules, NEW v \in Versions, NEW reply,
         activate_module(m, v, reply)
  PROVE  StoreInv'
<1>1. CASE UNCHANGED tables
  BY <1>1 DEF tables, StoreInv, StoreTypeOK, UniqueRows, ActiveRowOwned
<1>2. CASE \E r \in RowsAt(m, v) :
             /\ active_modules' = {a \in active_modules : a.module # m}
                                     \cup {[module |-> m, id |-> r.id]}
             /\ UNCHANGED <<modules, module_env_vars>>
  <2>1. PICK r \in RowsAt(m, v) :
          /\ active_modules' = {a \in active_modules : a.module # m}
                                  \cup {[module |-> m, id |-> r.id]}
          /\ UNCHANGED <<modules, module_env_vars>>
    BY <1>2
  <2>2. r \in modules /\ r.module = m /\ r.id \in Nat
    BY DEF RowsAt, StoreInv, StoreTypeOK, Row
  <2>3. StoreTypeOK'
    BY <2>1, <2>2 DEF StoreInv, StoreTypeOK, Active
  <2>4. UniqueRows'
    BY <2>1 DEF StoreInv, UniqueRows
  <2>5. ActiveRowOwned'
    BY <2>1, <2>2 DEF StoreInv, ActiveRowOwned
  <2> QED
    BY <2>3, <2>4, <2>5 DEF StoreInv
<1> QED
  BY <1>1, <1>2 DEF activate_module

LEMMA DeleteVersionInv ==
  ASSUME StoreInv, NEW m \in Modules, NEW v \in Versions, NEW reply,
         delete_module_version(m, v, reply)
  PROVE  StoreInv'
<1>1. CASE UNCHANGED tables
  BY <1>1 DEF tables, StoreInv, StoreTypeOK, UniqueRows, ActiveRowOwned
<1>2. CASE /\ \A r \in RowsAt(m, v), a \in active_modules : a.id # r.id
           /\ modules' = modules \ RowsAt(m, v)
           /\ UNCHANGED <<active_modules, module_env_vars>>
  <2>1. StoreTypeOK' /\ UniqueRows'
    BY <1>2 DEF StoreInv, StoreTypeOK, UniqueRows
  <2>2. ActiveRowOwned'
    BY <1>2 DEF StoreInv, ActiveRowOwned
  <2> QED
    BY <2>1, <2>2 DEF StoreInv
<1> QED
  BY <1>1, <1>2 DEF delete_module_version

LEMMA StoreNext == StoreInv /\ [StoreStep]_tables => StoreInv'
<1> SUFFICES ASSUME StoreInv, [StoreStep]_tables PROVE StoreInv'
  OBVIOUS
<1>1. ASSUME NEW m \in Modules, NEW reply, deactivate_module(m, reply) PROVE StoreInv'
  BY <1>1 DEF deactivate_module, StoreInv, StoreTypeOK, UniqueRows, ActiveRowOwned
<1>2. ASSUME NEW m \in Modules, NEW reply, delete_module(m, reply) PROVE StoreInv'
  <2>1. StoreTypeOK' /\ UniqueRows'
    BY <1>2 DEF delete_module, StoreInv, StoreTypeOK, UniqueRows
  <2>2. ActiveRowOwned'
    BY <1>2 DEF delete_module, StoreInv, ActiveRowOwned, RowsOf
  <2> QED
    BY <2>1, <2>2 DEF StoreInv
<1>3. ASSUME NEW m \in Modules, NEW key \in Keys, NEW value \in Values,
             set_env_var(m, key, value)
      PROVE  StoreInv'
  BY <1>3 DEF set_env_var, Replace, EnvVar, StoreInv, StoreTypeOK, UniqueRows, ActiveRowOwned
<1>4. ASSUME NEW m \in Modules, NEW key \in Keys, NEW reply, delete_env_var(m, key, reply)
      PROVE  StoreInv'
  BY <1>4 DEF delete_env_var, StoreInv, StoreTypeOK, UniqueRows, ActiveRowOwned
<1>5. CASE UNCHANGED tables
  BY <1>5 DEF tables, StoreInv, StoreTypeOK, UniqueRows, ActiveRowOwned
<1> QED
  BY <1>1, <1>2, <1>3, <1>4, <1>5, SaveInv, ActivateInv, DeleteVersionInv DEF StoreStep

-----------------------------------------------------------------------------
(* The tables implement the catalogue *)

\* A row that was added is of no active row: its id is larger than all there were.
LEMMA SaveRefines ==
  ASSUME StoreInv, NEW m \in Modules, NEW v \in Versions, NEW env \in Settings,
         NEW c \in Codes, NEW reply, save_module(m, v, env, c, reply), modules' # modules
  PROVE  Promised!Publish(m, v, c)
<1>1. PICK i \in NextIds :
        /\ modules' = modules \cup {[id |-> i, module |-> m, version |-> v, code |-> c]}
        /\ RowsAt(m, v) = {}
        /\ active_modules' = active_modules
  BY SaveAdds
<1>2. \A a \in active_modules : a.id # i
  BY NextIdsFresh DEF StoreInv, StoreTypeOK, ActiveRowOwned, Row
<1>3. Published' = Published \cup {[module |-> m, version |-> v, code |-> c]}
  BY <1>1 DEF Published
<1>4. ActiveChoices' = ActiveChoices
  BY <1>1, <1>2 DEF ActiveChoices
<1>5. ~Promised!IsPublished(m, v)
  BY <1>1 DEF Promised!IsPublished, Published, RowsAt
<1> QED
  BY <1>3, <1>4, <1>5 DEF Promised!Publish

LEMMA ActivateRefines ==
  ASSUME StoreInv, NEW m \in Modules, NEW v \in Versions, NEW r \in RowsAt(m, v),
         active_modules' = {a \in active_modules : a.module # m}
                              \cup {[module |-> m, id |-> r.id]},
         modules' = modules
  PROVE  Promised!Activate(m, v)
<1>1. r \in modules /\ r.module = m /\ r.version = v
  BY DEF RowsAt
<1>2. Published' = Published
  BY DEF Published
<1>3. Promised!IsPublished(m, v)
  <2>1. [module |-> r.module, version |-> r.version, code |-> r.code] \in Published
    BY <1>1 DEF Published
  <2> QED
    BY <1>1, <2>1 DEF Promised!IsPublished
<1>4. ASSUME NEW x \in [module : Modules, version : Versions]
      PROVE  x \in ActiveChoices' <=>
               x \in {a \in ActiveChoices : a.module # m}
                       \cup {[module |-> m, version |-> v]}
  <2>1. CASE x.module = m
    <3>0. \A a \in active_modules' : a.module = m <=> a = [module |-> m, id |-> r.id]
      OBVIOUS
    <3>1. x \in ActiveChoices' <=> \E s \in modules : r.id = s.id /\ s.version = x.version
      <4>1. [module |-> m, id |-> r.id] \in active_modules'
        OBVIOUS
      <4>2. x \in ActiveChoices' <=>
              \E a \in active_modules', s \in modules' :
                a.id = s.id /\ a.module = m /\ s.version = x.version
        BY <2>1 DEF ActiveChoices
      <4>3. \A a \in active_modules', s \in modules' :
              a.module = m => (a.id = s.id <=> r.id = s.id)
        BY <3>0
      <4> QED
        BY <4>1, <4>2, <4>3
    <3>2. \A s \in modules : r.id = s.id => s = r
      BY <1>1 DEF StoreInv, UniqueRows
    <3>3. x \in ActiveChoices' <=> x.version = v
      BY <1>1, <3>1, <3>2
    <3> QED
      BY <2>1, <3>3
  <2>2. CASE x.module # m
    BY <2>2 DEF ActiveChoices
  <2> QED
    BY <2>1, <2>2
<1>5. ActiveChoices' = {a \in ActiveChoices : a.module # m}
                          \cup {[module |-> m, version |-> v]}
  <2>1. ActiveChoices' \subseteq [module : Modules, version : Versions]
        /\ ActiveChoices \subseteq [module : Modules, version : Versions]
    BY DEF ActiveChoices
  <2> QED
    BY <1>4, <2>1
<1> QED
  BY <1>2, <1>3, <1>5 DEF Promised!Activate

\* No active choice is lost with a version that no active row points to.
LEMMA DeleteVersionRefines ==
  ASSUME StoreInv, NEW m \in Modules, NEW v \in Versions,
         \A r \in RowsAt(m, v), a \in active_modules : a.id # r.id,
         modules' = modules \ RowsAt(m, v), active_modules' = active_modules
  PROVE  Promised!Withdraw(m, v)
<1>1. ~Promised!IsActive(m, v)
  <2>1. SUFFICES ASSUME NEW a \in active_modules, NEW r \in modules,
                        a.id = r.id, a.module = m, r.version = v
                 PROVE  FALSE
    BY DEF Promised!IsActive, ActiveChoices
  <2>2. r \in RowsAt(m, v)
    BY <2>1, JoinOwned DEF RowsAt
  <2> QED
    BY <2>1, <2>2
<1>2. Published' = {r \in Published : ~(r.module = m /\ r.version = v)}
  BY DEF Published, RowsAt
<1>3. ActiveChoices' = ActiveChoices
  BY DEF ActiveChoices
<1> QED
  BY <1>1, <1>2, <1>3 DEF Promised!Withdraw

LEMMA DeactivateRefines ==
  ASSUME StoreInv, NEW m \in Modules,
         active_modules' = {a \in active_modules : a.module # m}, modules' = modules
  PROVE  Promised!Deactivate(m)
BY DEF Promised!Deactivate, Published, ActiveChoices

LEMMA DeleteModuleRefines ==
  ASSUME StoreInv, NEW m \in Modules,
         active_modules' = {a \in active_modules : a.module # m},
         modules' = modules \ RowsOf(m)
  PROVE  Promised!Remove(m)
<1>1. Published' = {r \in Published : r.module # m}
  BY DEF Published, RowsOf
<1>2. \A a \in active_modules, r \in modules :
        a.id = r.id => (r \in RowsOf(m) <=> a.module = m)
  BY JoinOwned DEF RowsOf
<1>3. ActiveChoices' = {a \in ActiveChoices : a.module # m}
  BY <1>2 DEF ActiveChoices
<1> QED
  BY <1>1, <1>3 DEF Promised!Remove

\* Every message the store handles is one step of the catalogue, or none.
LEMMA StoreRefines ==
  StoreInv /\ [StoreStep]_tables => [Promised!Next]_<<Published, ActiveChoices>>
<1> SUFFICES ASSUME StoreInv, [StoreStep]_tables,
                    ~(UNCHANGED <<Published, ActiveChoices>>)
             PROVE  Promised!Next
  OBVIOUS
<1>0. ~(modules' = modules /\ active_modules' = active_modules)
  BY DEF Published, ActiveChoices
<1>1. ASSUME NEW m \in Modules, NEW v \in Versions, NEW env \in Settings,
             NEW c \in Codes, NEW reply, save_module(m, v, env, c, reply)
      PROVE  Promised!Next
  <2>1. active_modules' = active_modules
    BY <1>1 DEF save_module, tables
  <2>2. Promised!Publish(m, v, c)
    BY <1>0, <1>1, <2>1, SaveRefines
  <2> QED
    BY <2>2 DEF Promised!Next
<1>2. ASSUME NEW m \in Modules, NEW v \in Versions, NEW reply, activate_module(m, v, reply)
      PROVE  Promised!Next
  <2>1. PICK r \in RowsAt(m, v) :
          /\ active_modules' = {a \in active_modules : a.module # m}
                                 \cup {[module |-> m, id |-> r.id]}
          /\ modules' = modules
    BY <1>0, <1>2 DEF activate_module, tables
  <2>2. Promised!Activate(m, v)
    BY <2>1, ActivateRefines
  <2> QED
    BY <2>2 DEF Promised!Next
<1>3. ASSUME NEW m \in Modules, NEW v \in Versions, NEW reply,
             delete_module_version(m, v, reply)
      PROVE  Promised!Next
  <2>1. Promised!Withdraw(m, v)
    BY <1>0, <1>3, DeleteVersionRefines DEF delete_module_version, tables
  <2> QED
    BY <2>1 DEF Promised!Next
<1>4. ASSUME NEW m \in Modules, NEW reply, deactivate_module(m, reply) PROVE Promised!Next
  <2>1. Promised!Deactivate(m)
    BY <1>4, DeactivateRefines DEF deactivate_module
  <2> QED
    BY <2>1 DEF Promised!Next
<1>5. ASSUME NEW m \in Modules, NEW reply, delete_module(m, reply) PROVE Promised!Next
  <2>1. Promised!Remove(m)
    BY <1>5, DeleteModuleRefines DEF delete_module
  <2> QED
    BY <2>1 DEF Promised!Next
<1>6. ASSUME NEW m \in Modules, NEW key \in Keys,
             \/ \E value \in Values : set_env_var(m, key, value)
             \/ \E r \in BOOLEAN : delete_env_var(m, key, r)
      PROVE  FALSE
  BY <1>0, <1>6 DEF set_env_var, delete_env_var
<1>7. StoreStep
  BY <1>0 DEF tables
<1> QED
  BY <1>1, <1>2, <1>3, <1>4, <1>5, <1>6, <1>7 DEF StoreStep

LEMMA StoreInitRefines == init => Promised!Init
BY DEF init, Promised!Init, Published, ActiveChoices

\* The module store alone: whatever is asked of it, in whatever order, is what a
\* catalogue of versions does, with row ids that are used again (sqlite.rs).
THEOREM StoreImplementsCatalog == StoreSpec => CatalogSpec
<1>1. StoreInv /\ [StoreStep]_tables => [Promised!Next]_<<Published, ActiveChoices>>
  BY StoreRefines
<1> QED
  BY <1>1, StoreInit, StoreNext, StoreInitRefines, PTL
     DEF StoreSpec, CatalogSpec, Promised!Spec, Promised!catalog

-----------------------------------------------------------------------------
(* What a request under way knows *)

Rel(m, v, k) == [module |-> m, version |-> v, code |-> k]

CallType == call \in [Clients -> Call \cup {Idle}]

\* A request that is to activate knows that its release is published; one that is
\* to flag, that what it read is; one that has flagged, that it was active.
Facts(x, pub, was) ==
  /\ x.at = "upload" => Rel(x.module, x.version, x.code) \in pub
  /\ x.at \in {"flags", "page"} =>
       \A f \in x.versions : Rel(x.module, f.version, f.code) \in pub
  /\ x.at = "list" /\ x.previous # NoVersion =>
       \E k \in Codes : Rel(x.module, x.previous, k) \in pub \cap was
  /\ x.at = "loaded" => \A f \in x.versions : Rel(x.module, f.version, f.code) \in was

CallInv == \A c \in Clients : withdrawn[c] \/ Facts(call[c], Published, seen[c])

IInv == StoreInv /\ CallType /\ CallInv

\* The effect of a client's step on the requests.
ClientMoves(c) ==
  \E x \in Call \cup {Idle}, deletes \in BOOLEAN :
    /\ call' = [call EXCEPT ![c] = x]
    /\ Record(deletes)
    /\ deletes \/ modules \subseteq modules'
    /\ withdrawn[c] \/ Facts(x, Published', seen[c] \cup ActiveReleases \cup ActiveReleases')

LEMMA IdleFacts == \A pub, was : Facts(Idle, pub, was)
BY DEF Facts, Idle

\* More published releases and more that were active leave what is known true.
LEMMA FactsGrow ==
  ASSUME NEW x, NEW pub, NEW was, NEW pub1, NEW was1,
         Facts(x, pub, was), pub \subseteq pub1, was \subseteq was1
  PROVE  Facts(x, pub1, was1)
BY DEF Facts

\* Whatever a client does, what the others know stays true or is withdrawn.
LEMMA ClientKeeps ==
  ASSUME IInv, NEW c \in Clients, ClientMoves(c)
  PROVE  CallType' /\ CallInv'
<1>1. PICK x \in Call \cup {Idle}, deletes \in BOOLEAN :
        /\ call' = [call EXCEPT ![c] = x]
        /\ Record(deletes)
        /\ deletes \/ modules \subseteq modules'
        /\ withdrawn[c]
             \/ Facts(x, Published', seen[c] \cup ActiveReleases \cup ActiveReleases')
  BY DEF ClientMoves
<1>2. CallType'
  BY <1>1 DEF IInv, CallType
<1>3. \A d \in Clients : call'[d] # Idle =>
        /\ seen'[d] = seen[d] \cup ActiveReleases \cup ActiveReleases'
        /\ withdrawn'[d] = (withdrawn[d] \/ (deletes /\ call[d] # Idle))
  BY <1>1 DEF Record
<1>4. deletes \/ Published \subseteq Published'
  BY <1>1 DEF Published
<1>5. ASSUME NEW d \in Clients
      PROVE  withdrawn'[d] \/ Facts(call'[d], Published', seen'[d])
  <2>1. CASE call'[d] = Idle
    BY <2>1, IdleFacts
  <2>2. CASE call'[d] # Idle /\ d = c
    <3>1. call'[c] = x
      BY <1>1 DEF IInv, CallType
    <3> QED
      BY <1>1, <1>3, <2>2, <3>1
  <2>3. CASE call'[d] # Idle /\ d # c /\ ~withdrawn'[d]
    <3>1. call'[d] = call[d]
      BY <1>1, <2>3 DEF IInv, CallType
    <3>2. ~withdrawn[d] /\ Published \subseteq Published' /\ seen[d] \subseteq seen'[d]
      BY <1>3, <1>4, <2>3, <3>1
    <3>3. Facts(call[d], Published, seen[d])
      BY <3>2 DEF IInv, CallInv
    <3>4. Facts(call[d], Published', seen'[d])
      BY <3>2, <3>3, FactsGrow
    <3> QED
      BY <3>1, <3>4
  <2> QED
    BY <2>1, <2>2, <2>3
<1> QED
  BY <1>2, <1>5 DEF CallInv

LEMMA AskMoves ==
  ASSUME NEW c \in Clients, NEW m \in Modules, NEW v \in Versions \cup {NoVersion},
         NEW k \in Codes \cup {"none"}, NEW previous \in Versions \cup {NoVersion},
         NEW versions \in SUBSET Flag,
         NEW at \in {"upload", "activate", "deactivate", "delete", "details", "flags",
                     "list", "page", "row", "loaded"},
         Ask(c, at, m, v, k, previous, versions),
         NEW deletes \in BOOLEAN, Record(deletes), deletes \/ modules \subseteq modules',
         withdrawn[c] \/
           Facts([at |-> at, module |-> m, version |-> v, code |-> k,
                  previous |-> previous, versions |-> versions], Published',
                 seen[c] \cup ActiveReleases \cup ActiveReleases')
  PROVE  ClientMoves(c)
<1> DEFINE x == [at |-> at, module |-> m, version |-> v, code |-> k,
                 previous |-> previous, versions |-> versions]
<1>1. x \in Call
  BY DEF Call
<1>2. call' = [call EXCEPT ![c] = x]
  BY DEF Ask
<1> QED
  BY <1>1, <1>2 DEF ClientMoves

LEMMA RespondMoves ==
  ASSUME NEW c \in Clients, NEW response, Respond(c, response),
         NEW deletes \in BOOLEAN, Record(deletes), deletes \/ modules \subseteq modules'
  PROVE  ClientMoves(c)
<1>1. call' = [call EXCEPT ![c] = Idle]
  BY DEF Respond
<1> QED
  BY <1>1, IdleFacts DEF ClientMoves

\* A request for which there is nothing to know yet.
LEMMA PlainFacts ==
  ASSUME NEW x, x.at \in {"activate", "deactivate", "delete", "details", "row"}
  PROVE  \A pub, was : Facts(x, pub, was)
BY DEF Facts

-----------------------------------------------------------------------------
(* What the reads amount to *)

LEMMA ActiveVersionType ==
  ASSUME StoreInv, NEW m \in Modules
  PROVE  ActiveVersion(m) \in Versions \cup {NoVersion}
<1>1. \A r \in get_active_module(m) : r.version \in Versions
  BY DEF get_active_module, StoreInv, StoreTypeOK, Row
<1> QED
  BY <1>1 DEF ActiveVersion

LEMMA FlagsType ==
  ASSUME StoreInv, NEW m \in Modules
  PROVE  /\ Flags(m) \in SUBSET Flag
         /\ \A f \in Flags(m) : Rel(m, f.version, f.code) \in Published
BY DEF Flags, Flag, RowsOf, Published, Rel, StoreInv, StoreTypeOK, Row

\* The active version is published and counted as active.
LEMMA ActiveVersionHeld ==
  ASSUME StoreInv, NEW m \in Modules, ActiveVersion(m) # NoVersion
  PROVE  \E k \in Codes : Rel(m, ActiveVersion(m), k) \in Published \cap ActiveReleases
<1>1. PICK r \in get_active_module(m) : ActiveVersion(m) = r.version
  BY DEF ActiveVersion
<1>2. PICK a \in active_modules : a.module = m /\ a.id = r.id
  BY <1>1 DEF get_active_module
<1>3. r \in modules /\ r.module = m
  BY <1>1, <1>2, JoinOwned DEF get_active_module
<1>4. r.version \in Versions /\ r.code \in Codes
  BY <1>3 DEF StoreInv, StoreTypeOK, Row
<1>5. Rel(m, r.version, r.code) \in Published
  BY <1>3 DEF Published, Rel
<1>6. Rel(m, r.version, r.code) \in ActiveReleases
  BY <1>2, <1>3, <1>4 DEF ActiveReleases, get_all_active_modules, Rel
<1> QED
  BY <1>1, <1>4, <1>5, <1>6

\* A version has one code.
LEMMA OneCode ==
  ASSUME StoreInv, NEW m, NEW v, NEW j, NEW k,
         Rel(m, v, j) \in Published, Rel(m, v, k) \in Published
  PROVE  j = k
<1>1. PICK r \in modules : r.module = m /\ r.version = v /\ r.code = j
  BY DEF Published, Rel
<1>2. PICK s \in modules : s.module = m /\ s.version = v /\ s.code = k
  BY DEF Published, Rel
<1> QED
  BY <1>1, <1>2 DEF StoreInv, UniqueRows

\* What is flagged among the versions that are published is active.
LEMMA FlaggedHeld ==
  ASSUME StoreInv, NEW m \in Modules, NEW f, Rel(m, f.version, f.code) \in Published,
         IsActive(m, f)
  PROVE  Rel(m, f.version, f.code) \in ActiveReleases
<1>1. f.version \in Versions
  BY DEF Published, Rel, StoreInv, StoreTypeOK, Row
<1>2. ActiveVersion(m) = f.version /\ ActiveVersion(m) # NoVersion
  BY <1>1, ModulesAssumption DEF IsActive
<1>3. PICK k \in Codes : Rel(m, f.version, k) \in Published \cap ActiveReleases
  BY <1>2, ActiveVersionHeld
<1>4. k = f.code
  BY <1>3, OneCode
<1> QED
  BY <1>3, <1>4

-----------------------------------------------------------------------------
(* The clients' steps.  Each asks the store for at most one thing, and each   *)
(* leaves its request with what it may rely on.                               *)

LEMMA SaveKeepsRows ==
  ASSUME StoreInv, NEW m \in Modules, NEW v \in Versions, NEW env \in Settings,
         NEW c \in Codes, NEW reply \in SaveReplies, save_module(m, v, env, c, reply)
  PROVE  /\ StoreStep
         /\ modules \subseteq modules'
         /\ reply \in {"Ok", "ModuleExistsWithSameHash"} => Rel(m, v, c) \in Published'
<1>1. StoreStep
  BY DEF StoreStep
<1>2. modules \subseteq modules'
  BY SaveAdds
<1>3. CASE reply = "Ok"
  <2>1. PICK i \in NextIds :
          modules' = modules \cup {[id |-> i, module |-> m, version |-> v, code |-> c]}
    BY <1>3 DEF save_module
  <2> DEFINE new == [id |-> i, module |-> m, version |-> v, code |-> c]
  <2>2. new \in modules' /\ Rel(m, v, c) = Rel(new.module, new.version, new.code)
    BY <2>1
  <2> HIDE DEF new
  <2>3. Rel(m, v, c) \in Published'
    BY <2>2 DEF Published, Rel
  <2> QED
    BY <1>1, <1>2, <2>3
<1>4. CASE reply = "ModuleExistsWithSameHash"
  <2>1. modules' = modules /\ c \in load_module(m, v)
    BY <1>4 DEF save_module, tables
  <2>2. PICK r \in modules : r.module = m /\ r.version = v /\ r.code = c
    BY <2>1 DEF load_module, RowsAt
  <2>3. Rel(m, v, c) \in Published'
    BY <2>1, <2>2 DEF Published, Rel
  <2> QED
    BY <1>1, <1>2, <2>3
<1> QED
  BY <1>1, <1>2, <1>3, <1>4

LEMMA ActivateKeepsRows ==
  ASSUME NEW m \in Modules, NEW v \in Versions, NEW reply \in {"Ok", "ModuleNotFound"},
         ActivateModule(m, v, reply)
  PROVE  StoreStep /\ modules' = modules
<1>1. activate_module(m, v, reply)
  BY DEF ActivateModule
<1> QED
  BY <1>1 DEF StoreStep, activate_module, tables

LEMMA DeactivateKeepsRows ==
  ASSUME NEW m \in Modules, DeactivateModule(m)
  PROVE  StoreStep /\ modules' = modules
<1>1. PICK reply \in BOOLEAN : deactivate_module(m, reply)
  BY DEF DeactivateModule
<1> QED
  BY <1>1 DEF StoreStep, deactivate_module

LEMMA DeleteTells ==
  ASSUME NEW m \in Modules, NEW reply \in BOOLEAN, DeleteModule(m, reply)
  PROVE  StoreStep /\ (reply \/ modules \subseteq modules')
<1>1. delete_module(m, reply)
  BY DEF DeleteModule
<1> QED
  BY <1>1 DEF StoreStep, delete_module

LEMMA DeleteVersionTells ==
  ASSUME NEW m \in Modules, NEW v \in Versions, NEW reply \in DeleteReplies,
         delete_module_version(m, v, reply)
  PROVE  StoreStep /\ ((reply = "Ok") \/ modules \subseteq modules')
<1>1. (reply = "Ok") \/ modules \subseteq modules'
  BY DEF delete_module_version, tables
<1> QED
  BY <1>1 DEF StoreStep

\* Of both upload handlers.
LEMMA SaveThenMoves ==
  ASSUME IInv, NEW c \in Clients, NEW accepted,
         accepted \subseteq {"Ok", "ModuleExistsWithSameHash"},
         NEW m \in Modules, NEW v \in Versions, NEW env \in Settings, NEW k \in Codes,
         NEW act \in BOOLEAN, SaveThen(c, accepted, m, v, env, k, act)
  PROVE  StoreStep /\ ClientMoves(c)
<1>1. PICK reply \in SaveReplies :
        /\ save_module(m, v, env, k, reply)
        /\ IF reply \in accepted /\ act
             THEN Ask(c, "upload", m, v, k, NoVersion, {})
             ELSE Respond(c, NoAnswer)
  BY DEF SaveThen
<1>2. Record(FALSE)
  BY DEF SaveThen
<1>3. StoreInv
  BY DEF IInv
<1>4. /\ StoreStep /\ modules \subseteq modules'
      /\ reply \in accepted => Rel(m, v, k) \in Published'
  BY <1>1, <1>3, SaveKeepsRows
<1>5. CASE reply \in accepted /\ act
  <2> DEFINE x == [at |-> "upload", module |-> m, version |-> v, code |-> k,
                   previous |-> NoVersion, versions |-> {}]
  <2>1. Rel(x.module, x.version, x.code) \in Published'
    BY <1>4, <1>5
  <2>2. Facts(x, Published', seen[c] \cup ActiveReleases \cup ActiveReleases')
    BY <2>1 DEF Facts
  <2>3. Ask(c, "upload", m, v, k, NoVersion, {})
    BY <1>1, <1>5
  <2> QED
    BY <1>2, <1>4, <2>2, <2>3, AskMoves
<1>6. CASE ~(reply \in accepted /\ act)
  BY <1>1, <1>2, <1>4, <1>6, RespondMoves
<1> QED
  BY <1>5, <1>6

\* A read leaves the tables alone, and so what is published and active.
LEMMA ReadKeeps ==
  ASSUME NEW c, NEW at, Read(c, at)
  PROVE  UNCHANGED tables /\ modules' = modules /\ Published' = Published
BY DEF Read, tables, Published

\* A step that reads versions for a module, to flag some later.
LEMMA ReadsFlags ==
  ASSUME IInv, NEW c \in Clients, NEW m \in Modules, NEW vs, NEW at \in {"flags", "page"},
         NEW from, Read(c, from), AskAbout(c, at, m, vs), vs \subseteq Flags(m)
  PROVE  [StoreStep]_tables /\ ClientMoves(c)
<1>1. UNCHANGED tables /\ modules' = modules /\ Published' = Published
  BY ReadKeeps
<1>2. vs \in SUBSET Flag /\ \A f \in vs : Rel(m, f.version, f.code) \in Published
  BY FlagsType DEF IInv
<1>3. Facts([at |-> at, module |-> m, version |-> NoVersion, code |-> "none",
             previous |-> NoVersion, versions |-> vs], Published',
            seen[c] \cup ActiveReleases \cup ActiveReleases')
  BY <1>1, <1>2 DEF Facts
<1>4. Record(FALSE) /\ Ask(c, at, m, NoVersion, "none", NoVersion, vs)
  BY DEF AskAbout
<1> QED
  BY <1>1, <1>2, <1>3, <1>4, AskMoves

\* A step that reads with nothing to rely on later.
LEMMA ReadsPlainly ==
  ASSUME IInv, NEW c \in Clients, NEW m \in Modules, NEW v \in Versions \cup {NoVersion},
         NEW at \in {"activate", "deactivate", "delete", "row", "details"},
         NEW previous \in Versions \cup {NoVersion}, NEW vs \in SUBSET Flag,
         Ask(c, at, m, v, "none", previous, vs), Record(FALSE), modules' = modules
  PROVE  ClientMoves(c)
<1>1. Facts([at |-> at, module |-> m, version |-> v, code |-> "none",
             previous |-> previous, versions |-> vs], Published',
            seen[c] \cup ActiveReleases \cup ActiveReleases')
  BY PlainFacts
<1>2. /\ FALSE \in BOOLEAN /\ modules \subseteq modules' /\ "none" \in Codes \cup {"none"}
      /\ at \in {"upload", "activate", "deactivate", "delete", "details", "flags", "list",
                "page", "row", "loaded"}
  OBVIOUS
<1> QED
  BY <1>1, <1>2, AskMoves

\* A report.
LEMMA ReportMoves ==
  ASSUME NEW c \in Clients, NEW from, Read(c, from), NEW m, NEW flagged,
         Report(c, m, flagged)
  PROVE  [StoreStep]_tables /\ ClientMoves(c)
BY ReadKeeps, RespondMoves DEF Report

\* The module a request in the middle is about.
LEMMA CallModule ==
  ASSUME IInv, NEW c \in Clients, call[c].at # "idle"
  PROVE  call[c] \in Call
BY DEF IInv, CallType, Idle

LEMMA UploadMoves ==
  ASSUME IInv, NEW c \in Clients, upload_module(c) \/ upload_module_inner(c)
  PROVE  StoreStep /\ ClientMoves(c)
<1>1. CASE upload_module(c)
  BY <1>1, SaveThenMoves DEF upload_module
<1>2. CASE upload_module_inner(c)
  <2>1. {} \in Settings
    BY DEF Settings
  <2> QED
    BY <1>2, <2>1, SaveThenMoves DEF upload_module_inner
<1> QED
  BY <1>1, <1>2

\* Nothing is changed but what the store is asked for.
LEMMA ApiMoves ==
  ASSUME IInv, NEW c \in Clients, ApiStep(c)
  PROVE  [StoreStep]_tables /\ ClientMoves(c)
<1>0. StoreInv
  BY DEF IInv
<1>1. CASE upload_module(c)
  BY <1>1, UploadMoves
<1>2. CASE activate_reads(c)
  <2>1. PICK m \in Modules, v \in Versions :
          Ask(c, "activate", m, v, "none", ActiveVersion(m), {})
    BY <1>2 DEF activate_reads
  <2>2. Read(c, "idle") /\ Record(FALSE)
    BY <1>2 DEF activate_reads, ChangingRead
  <2>3. ActiveVersion(m) \in Versions \cup {NoVersion}
    BY <1>0, ActiveVersionType
  <2>4. UNCHANGED tables /\ modules' = modules
    BY <2>2, ReadKeeps
  <2>5. {} \in SUBSET Flag
    OBVIOUS
  <2>6. Facts([at |-> "activate", module |-> m, version |-> v, code |-> "none",
               previous |-> ActiveVersion(m), versions |-> {}], Published',
              seen[c] \cup ActiveReleases \cup ActiveReleases')
    BY DEF Facts
  <2>7. ClientMoves(c)
    BY <2>1, <2>2, <2>3, <2>4, <2>5, <2>6, AskMoves
  <2> QED
    BY <2>4, <2>7
<1>3. CASE activate_writes(c)
  <2>1. call[c] \in Call /\ call[c].at = "activate"
    BY <1>3, CallModule DEF activate_writes, Change, Serve
  <2>0. PICK reply \in {"Ok", "ModuleNotFound"} :
          /\ ActivateModule(call[c].module, call[c].version, reply)
          /\ \E response : Respond(c, response)
    BY <1>3 DEF activate_writes
  <2>2. PICK response :
          /\ ActivateModule(call[c].module, call[c].version, reply)
          /\ Respond(c, response)
    BY <2>0
  <2>3. Record(FALSE)
    BY <1>3 DEF activate_writes
  <2>4. CASE call[c].version \in Versions
    BY <2>1, <2>2, <2>3, <2>4, ActivateKeepsRows, RespondMoves DEF Call
  <2>5. CASE call[c].version \notin Versions
    <3>1. RowsAt(call[c].module, call[c].version) = {}
      BY <1>0, <2>5 DEF RowsAt, StoreInv, StoreTypeOK, Row
    <3>2. UNCHANGED tables
      BY <2>2, <3>1 DEF ActivateModule, activate_module
    <3> QED
      BY <2>2, <2>3, <3>2, RespondMoves DEF tables
  <2> QED
    BY <2>4, <2>5
<1>4. CASE deactivate_reads(c)
  <2>1. PICK m \in Modules :
          Ask(c, "deactivate", m, NoVersion, "none", ActiveVersion(m), {})
    BY <1>4 DEF deactivate_reads
  <2>2. Read(c, "idle") /\ Record(FALSE)
    BY <1>4 DEF deactivate_reads, ChangingRead
  <2>3. ActiveVersion(m) \in Versions \cup {NoVersion}
    BY <1>0, ActiveVersionType
  <2>4. UNCHANGED tables /\ modules' = modules
    BY <2>2, ReadKeeps
  <2>5. {} \in SUBSET Flag
    OBVIOUS
  <2>6. Facts([at |-> "deactivate", module |-> m, version |-> NoVersion, code |-> "none",
               previous |-> ActiveVersion(m), versions |-> {}], Published',
              seen[c] \cup ActiveReleases \cup ActiveReleases')
    BY DEF Facts
  <2>7. ClientMoves(c)
    BY <2>1, <2>2, <2>3, <2>4, <2>5, <2>6, AskMoves
  <2> QED
    BY <2>4, <2>7
<1>5. CASE deactivate_writes(c)
  <2>1. call[c] \in Call
    BY <1>5, CallModule DEF deactivate_writes, Change, Serve
  <2>2. DeactivateModule(call[c].module) /\ Record(FALSE)
    BY <1>5 DEF deactivate_writes
  <2>3. PICK response : Respond(c, response)
    BY <1>5 DEF deactivate_writes
  <2> QED
    BY <2>1, <2>2, <2>3, DeactivateKeepsRows, RespondMoves DEF Call
<1>6. CASE delete_counts(c)
  <2>1. PICK m \in Modules : Ask(c, "delete", m, NoVersion, "none", NoVersion, Flags(m))
    BY <1>6 DEF delete_counts
  <2>2. Read(c, "idle") /\ Record(FALSE)
    BY <1>6 DEF delete_counts, ChangingRead
  <2>3. Flags(m) \in SUBSET Flag
    BY <1>0, FlagsType
  <2> QED
    BY <2>1, <2>2, <2>3, ReadKeeps, ReadsPlainly
<1>7. CASE delete_writes(c)
  <2>1. call[c] \in Call
    BY <1>7, CallModule DEF delete_writes, Change, Serve
  <2>2. PICK reply \in BOOLEAN :
          DeleteModule(call[c].module, reply) /\ Respond(c, NoAnswer) /\ Record(reply)
    BY <1>7 DEF delete_writes
  <2> QED
    BY <2>1, <2>2, DeleteTells, RespondMoves DEF Call
<1>8. CASE get_module_details(c)
  <2>1. PICK m \in Modules : AskAbout(c, "flags", m, Flags(m))
    BY <1>8 DEF get_module_details
  <2>2. Read(c, "idle")
    BY <1>8 DEF get_module_details, FirstRead
  <2> QED
    BY <2>1, <2>2, ReadsFlags
<1>9. CASE version_details_loads(c)
  <2>0. PICK m \in Modules, v \in Versions :
          \E k \in load_module(m, v) :
            AskAbout(c, "flags", m, {[version |-> v, code |-> k]})
    BY <1>9 DEF version_details_loads
  <2>1. PICK k \in load_module(m, v) :
          AskAbout(c, "flags", m, {[version |-> v, code |-> k]})
    BY <2>0
  <2>2. Read(c, "idle")
    BY <1>9 DEF version_details_loads, FirstRead
  <2>3. [version |-> v, code |-> k] \in Flags(m)
    BY DEF load_module, RowsAt, Flags, RowsOf
  <2> QED
    BY <2>1, <2>2, <2>3, ReadsFlags
<1>10. CASE list_reads_active(c)
  <2>1. PICK m \in Modules : Ask(c, "list", m, NoVersion, "none", ActiveVersion(m), {})
    BY <1>10 DEF list_reads_active
  <2>2. Read(c, "idle") /\ Record(FALSE)
    BY <1>10 DEF list_reads_active, FirstRead
  <2>3. ActiveVersion(m) \in Versions \cup {NoVersion}
    BY <1>0, ActiveVersionType
  <2>4. modules' = modules /\ Published' = Published
    BY <2>2, ReadKeeps
  <2>5. Facts([at |-> "list", module |-> m, version |-> NoVersion, code |-> "none",
               previous |-> ActiveVersion(m), versions |-> {}], Published',
              seen[c] \cup ActiveReleases \cup ActiveReleases')
    BY <1>0, <2>4, ActiveVersionHeld DEF Facts
  <2> QED
    BY <2>1, <2>2, <2>3, <2>4, <2>5, ReadKeeps, AskMoves
<1>11. CASE list_reads_versions(c)
  BY <1>11, ReportMoves DEF list_reads_versions, ReadMore
<1>12. CASE delete_module_version_of(c)
  <2>1. PICK m \in Modules, v \in Versions, reply \in DeleteReplies :
          /\ delete_module_version(m, v, reply)
          /\ Respond(c, NoAnswer)
          /\ Record(reply = "Ok")
    BY <1>12 DEF delete_module_version_of
  <2>2. StoreStep /\ ((reply = "Ok") \/ modules \subseteq modules')
    BY <2>1, DeleteVersionTells
  <2> QED
    BY <2>1, <2>2, RespondMoves
<1> QED
  BY <1>1, <1>2, <1>3, <1>4, <1>5, <1>6, <1>7, <1>8, <1>9, <1>10, <1>11, <1>12
  DEF ApiStep

LEMMA UiMoves ==
  ASSUME IInv, NEW c \in Clients, UiStep(c)
  PROVE  [StoreStep]_tables /\ ClientMoves(c)
<1>0. StoreInv
  BY DEF IInv
<1>1. CASE upload_module_inner(c)
  BY <1>1, UploadMoves
<1>a. ASSUME NEW m \in Modules, NEW deletes \in BOOLEAN, Record(deletes),
             deletes \/ modules \subseteq modules',
             Ask(c, "details", m, NoVersion, "none", NoVersion, {})
      PROVE  ClientMoves(c)
  <2>1. {} \in SUBSET Flag
    OBVIOUS
  <2>2. Facts([at |-> "details", module |-> m, version |-> NoVersion, code |-> "none",
               previous |-> NoVersion, versions |-> {}], Published',
              seen[c] \cup ActiveReleases \cup ActiveReleases')
    BY DEF Facts
  <2> QED
    BY <1>a, <2>1, <2>2, AskMoves
<1>2. CASE activate(c)
  <2>1. PICK m \in Modules, v \in Versions, reply \in {"Ok", "ModuleNotFound"} :
          /\ ActivateModule(m, v, reply)
          /\ IF reply = "Ok"
               THEN Ask(c, "details", m, NoVersion, "none", NoVersion, {})
               ELSE Respond(c, NoAnswer)
    BY <1>2 DEF activate
  <2>2. Record(FALSE)
    BY <1>2 DEF activate
  <2>3. StoreStep /\ modules' = modules
    BY <2>1, ActivateKeepsRows
  <2>4. CASE reply = "Ok"
    BY <1>a, <2>1, <2>2, <2>3, <2>4
  <2>5. CASE reply # "Ok"
    BY <2>1, <2>2, <2>3, <2>5, RespondMoves
  <2> QED
    BY <2>4, <2>5
<1>3. CASE deactivate(c)
  <2>1. PICK m \in Modules :
          /\ DeactivateModule(m)
          /\ Ask(c, "details", m, NoVersion, "none", NoVersion, {})
    BY <1>3 DEF deactivate
  <2>2. Record(FALSE)
    BY <1>3 DEF deactivate
  <2> QED
    BY <1>a, <2>1, <2>2, DeactivateKeepsRows
<1>4. CASE delete_module_of(c)
  <2>1. PICK m \in Modules, reply \in BOOLEAN :
          DeleteModule(m, reply) /\ Respond(c, NoAnswer) /\ Record(reply)
    BY <1>4 DEF delete_module_of
  <2> QED
    BY <2>1, DeleteTells, RespondMoves
<1>5. CASE render_versions_table(c)
  <2>1. Read(c, "details") /\ call[c] \in Call
        /\ AskAbout(c, "flags", call[c].module, Flags(call[c].module))
    BY <1>5, CallModule DEF render_versions_table, ReadMore, Read, Serve
  <2> QED
    BY <2>1, ReadsFlags DEF Call
<1>6. CASE list_commands(c)
  <2>1. PICK m \in Modules : AskAbout(c, "row", m, {})
    BY <1>6, ModulesAssumption DEF list_commands, get_all_module_names
  <2>2. UNCHANGED tables /\ modules' = modules
    BY <1>6, ReadKeeps DEF list_commands, FirstRead
  <2>3. {} \in SUBSET Flag
    OBVIOUS
  <2>4. Facts([at |-> "row", module |-> m, version |-> NoVersion, code |-> "none",
               previous |-> NoVersion, versions |-> {}], Published',
              seen[c] \cup ActiveReleases \cup ActiveReleases')
    BY DEF Facts
  <2> QED
    BY <2>1, <2>2, <2>3, <2>4, AskMoves DEF AskAbout
<1>b. ASSUME NEW from, Read(c, from), NEW m \in Modules, NEW vs \in SUBSET Flag,
             AskAbout(c, "loaded", m, {f \in vs : IsActive(m, f)}),
             withdrawn[c] \/ \A f \in vs : Rel(m, f.version, f.code) \in Published
      PROVE  [StoreStep]_tables /\ ClientMoves(c)
  <2> DEFINE flagged == {f \in vs : IsActive(m, f)}
             x == [at |-> "loaded", module |-> m, version |-> NoVersion, code |-> "none",
                   previous |-> NoVersion, versions |-> flagged]
  <2>1. UNCHANGED tables /\ modules' = modules
    BY <1>b, ReadKeeps
  <2>2. withdrawn[c] \/ \A f \in flagged : Rel(m, f.version, f.code) \in ActiveReleases
    BY <1>0, <1>b, FlaggedHeld
  <2>3. flagged \in SUBSET Flag
    BY <1>b
  <2> HIDE DEF flagged
  <2>4. withdrawn[c]
          \/ Facts(x, Published', seen[c] \cup ActiveReleases \cup ActiveReleases')
    BY <2>2 DEF Facts
  <2>5. Ask(c, "loaded", m, NoVersion, "none", NoVersion, flagged) /\ Record(FALSE)
    BY <1>b DEF AskAbout, flagged
  <2> QED
    BY <2>1, <2>3, <2>4, <2>5, AskMoves
<1>7. CASE row_active(c)
  <2>1. Read(c, "row") /\ call[c] \in Call
        /\ AskAbout(c, "loaded", call[c].module,
                    {f \in Flags(call[c].module) : IsActive(call[c].module, f)})
    BY <1>7, CallModule DEF row_active, ReadMore, Read, Serve
  <2>2. call[c].module \in Modules
    BY <2>1 DEF Call
  <2>3. /\ Flags(call[c].module) \in SUBSET Flag
        /\ \A f \in Flags(call[c].module) :
             Rel(call[c].module, f.version, f.code) \in Published
    BY <1>0, <2>2, FlagsType
  <2> QED
    BY <1>b, <2>1, <2>2, <2>3
<1>8. CASE get_command(c)
  <2>1. PICK m \in Modules : AskAbout(c, "page", m, Flags(m))
    BY <1>8, ModulesAssumption DEF get_command
  <2>2. Read(c, "idle")
    BY <1>8 DEF get_command, FirstRead
  <2> QED
    BY <2>1, <2>2, ReadsFlags
<1>9. CASE page_flags(c)
  <2>1. Read(c, "page") /\ call[c] \in Call /\ call[c].at = "page"
        /\ AskAbout(c, "loaded", call[c].module,
                    {f \in call[c].versions : IsActive(call[c].module, f)})
    BY <1>9, CallModule DEF page_flags, ReadMore, Read, Serve
  <2>2. call[c].module \in Modules /\ call[c].versions \in SUBSET Flag
    BY <2>1 DEF Call
  <2>3. withdrawn[c] \/ \A f \in call[c].versions :
                           Rel(call[c].module, f.version, f.code) \in Published
    BY <2>1 DEF IInv, CallInv, Facts
  <2> QED
    BY <1>b, <2>1, <2>2, <2>3
<1>10. CASE active_commands(c)
  BY <1>10, ReportMoves DEF active_commands, ReadMore
<1>11. CASE delete_version(c)
  <2>1. PICK m \in Modules, v \in Versions, reply \in DeleteReplies :
          /\ delete_module_version(m, v, reply)
          /\ IF reply = "CannotDeleteActiveVersion"
               THEN Respond(c, NoAnswer)
               ELSE Ask(c, "details", m, NoVersion, "none", NoVersion, {})
          /\ Record(reply = "Ok")
    BY <1>11 DEF delete_version
  <2>2. StoreStep /\ ((reply = "Ok") \/ modules \subseteq modules')
    BY <2>1, DeleteVersionTells
  <2>3. CASE reply # "CannotDeleteActiveVersion"
    BY <1>a, <2>1, <2>2, <2>3
  <2>4. CASE reply = "CannotDeleteActiveVersion"
    BY <2>1, <2>2, <2>4, RespondMoves
  <2> QED
    BY <2>2, <2>3, <2>4
<1> QED
  BY <1>1, <1>2, <1>3, <1>4, <1>5, <1>6, <1>7, <1>8, <1>9, <1>10, <1>11 DEF UiStep

LEMMA CommonMoves ==
  ASSUME IInv, NEW c \in Clients, CommonStep(c)
  PROVE  [StoreStep]_tables /\ ClientMoves(c)
<1>0. StoreInv
  BY DEF IInv
<1>1. CASE upload_activates(c)
  <2>1. call[c] \in Call /\ Record(FALSE)
    BY <1>1, CallModule DEF upload_activates, Change, Serve
  <2>2. PICK reply \in {"Ok", "ModuleNotFound"} :
          /\ ActivateModule(call[c].module, call[c].version, reply)
          /\ \E response : Respond(c, response)
    BY <1>1 DEF upload_activates
  <2>3. CASE call[c].version \in Versions
    BY <2>1, <2>2, <2>3, ActivateKeepsRows, RespondMoves DEF Call
  <2>4. CASE call[c].version \notin Versions
    <3>1. RowsAt(call[c].module, call[c].version) = {}
      BY <1>0, <2>4 DEF RowsAt, StoreInv, StoreTypeOK, Row
    <3>2. UNCHANGED tables
      BY <2>2, <3>1 DEF ActivateModule, activate_module
    <3> QED
      BY <2>1, <2>2, <3>2, RespondMoves DEF tables
  <2> QED
    BY <2>3, <2>4
<1>2. CASE details_flags(c)
  BY <1>2, ReportMoves DEF details_flags, ReadMore
<1>3. CASE list_active_modules(c)
  BY <1>3, ReportMoves DEF list_active_modules, FirstRead
<1>4. CASE set_env_var_of(c)
  <2>1. PICK m \in Modules, key \in Keys, value \in Values : set_env_var(m, key, value)
    BY <1>4 DEF set_env_var_of
  <2>2. StoreStep /\ modules' = modules
    BY <2>1 DEF StoreStep, set_env_var
  <2> QED
    BY <1>4, <2>2, RespondMoves DEF set_env_var_of
<1>5. CASE delete_env_var_of(c)
  <2>1. PICK m \in Modules, key \in Keys, reply \in BOOLEAN : delete_env_var(m, key, reply)
    BY <1>5 DEF delete_env_var_of
  <2>2. StoreStep /\ modules' = modules
    BY <2>1 DEF StoreStep, delete_env_var
  <2> QED
    BY <1>5, <2>2, RespondMoves DEF delete_env_var_of
<1> QED
  BY <1>1, <1>2, <1>3, <1>4, <1>5 DEF CommonStep

-----------------------------------------------------------------------------
(* All steps *)

LEMMA ActorKeeps ==
  ASSUME ActorStep
  PROVE  UNCHANGED <<tables, call, seen, withdrawn>> /\ answer' = NoAnswer
BY DEF ActorStep, event_activated, event_deactivated, event_deleted, module_compiled,
       on_start_loads, Own, clients

LEMMA InitInv == Init => IInv
<1> SUFFICES ASSUME Init PROVE IInv
  OBVIOUS
<1>1. StoreInv
  BY StoreInit DEF Init
<1>2. CallType
  BY DEF Init, CallType
<1>3. CallInv
  BY IdleFacts DEF Init, CallInv
<1> QED
  BY <1>1, <1>2, <1>3 DEF IInv

LEMMA NextInv ==
  ASSUME IInv, [Next]_vars
  PROVE  IInv' /\ [StoreStep]_tables
<1>1. ASSUME NEW c \in Clients, [StoreStep]_tables, ClientMoves(c)
      PROVE  IInv'
  <2>1. StoreInv'
    BY <1>1, StoreNext DEF IInv
  <2>2. CallType' /\ CallInv'
    BY <1>1, ClientKeeps
  <2> QED
    BY <2>1, <2>2 DEF IInv
<1>2. ASSUME NEW c \in ApiClients, ApiStep(c) PROVE IInv' /\ [StoreStep]_tables
  <2>1. c \in Clients
    BY DEF Clients
  <2> QED
    BY <1>1, <1>2, <2>1, ApiMoves
<1>3. ASSUME NEW c \in UiClients, UiStep(c) PROVE IInv' /\ [StoreStep]_tables
  <2>1. c \in Clients
    BY DEF Clients
  <2> QED
    BY <1>1, <1>3, <2>1, UiMoves
<1>4. ASSUME NEW c \in Clients, CommonStep(c) PROVE IInv' /\ [StoreStep]_tables
  BY <1>1, <1>4, CommonMoves
<1>5. ASSUME UNCHANGED <<tables, call, seen, withdrawn>>
      PROVE  IInv' /\ [StoreStep]_tables
  <2>1. StoreInv'
    BY <1>5, StoreNext DEF IInv
  <2>2. Published' = Published
    BY <1>5 DEF tables, Published
  <2>3. CallType' /\ CallInv'
    BY <1>5, <2>2 DEF IInv, CallType, CallInv
  <2> QED
    BY <1>5, <2>1, <2>3 DEF IInv
<1>6. CASE restart_process
  <2>1. UNCHANGED tables /\ call' = [c \in Clients |-> Idle]
    BY <1>6 DEF restart_process
  <2>2. StoreInv'
    BY <2>1, StoreNext DEF IInv
  <2>3. CallType' /\ CallInv'
    BY <2>1, IdleFacts DEF CallType, CallInv
  <2> QED
    BY <2>1, <2>2, <2>3 DEF IInv
<1>7. CASE ActorStep
  BY <1>5, <1>7, ActorKeeps
<1>8. CASE UNCHANGED vars
  BY <1>5, <1>8 DEF vars, clients
<1> QED
  BY <1>2, <1>3, <1>4, <1>6, <1>7, <1>8 DEF Next

LEMMA Invariance == Spec => []IInv
<1>1. IInv /\ [Next]_vars => IInv'
  BY NextInv
<1> QED
  BY <1>1, InitInv, PTL DEF Spec

-----------------------------------------------------------------------------
(* What the clients are told *)

LEMMA RespondTells ==
  ASSUME NEW c, NEW response, Respond(c, response), CallType, c \in Clients
  PROVE  answer' = response /\ call'[c] = Idle
BY DEF Respond, CallType

\* An upload is answered by its second message alone, a report by four steps.
LEMMA Answers ==
  ASSUME NEW c \in Clients, ApiStep(c) \/ UiStep(c) \/ CommonStep(c)
  PROVE  \/ answer'.op \in {"none", "activate", "deactivate"}
         \/ upload_activates(c)
         \/ details_flags(c) \/ list_reads_versions(c)
         \/ list_active_modules(c) \/ active_commands(c)
<1>1. NoAnswer.op = "none"
  BY DEF NoAnswer
<1>2. CASE upload_module(c) \/ upload_module_inner(c)
  <2>1. answer' = NoAnswer
    BY <1>2 DEF upload_module, upload_module_inner, SaveThen, Ask, Respond
  <2> QED
    BY <1>1, <2>1
<1>3. CASE activate_writes(c)
  <2>1. PICK reply : Respond(c, IF reply = "Ok"
            THEN [op |-> "activate", module |-> call[c].module,
                  previous |-> call[c].previous]
            ELSE NoAnswer)
    BY <1>3 DEF activate_writes
  <2> QED
    BY <1>1, <2>1 DEF Respond
<1>4. CASE deactivate_writes(c)
  BY <1>4 DEF deactivate_writes, Respond
<1>5. CASE activate_reads(c) \/ deactivate_reads(c) \/ delete_counts(c)
           \/ get_module_details(c) \/ version_details_loads(c) \/ list_reads_active(c)
  <2>1. answer' = NoAnswer
    BY <1>5 DEF activate_reads, deactivate_reads, delete_counts, get_module_details,
                version_details_loads, list_reads_active, AskAbout, Ask
  <2> QED
    BY <1>1, <2>1
<1>6. CASE activate(c) \/ deactivate(c) \/ render_versions_table(c) \/ list_commands(c)
           \/ row_active(c) \/ get_command(c) \/ page_flags(c)
  <2>1. answer' = NoAnswer
    BY <1>6 DEF activate, deactivate, render_versions_table, list_commands, row_active,
                get_command, page_flags, AskAbout, Ask, Respond
  <2> QED
    BY <1>1, <2>1
<1>7. CASE delete_writes(c) \/ delete_module_of(c) \/ delete_module_version_of(c)
           \/ delete_version(c) \/ set_env_var_of(c) \/ delete_env_var_of(c)
  <2>1. answer' = NoAnswer
    BY <1>7 DEF delete_writes, delete_module_of, delete_module_version_of,
                delete_version, set_env_var_of, delete_env_var_of, Ask, Respond
  <2> QED
    BY <1>1, <2>1
<1> QED
  BY <1>2, <1>3, <1>4, <1>5, <1>6, <1>7 DEF ApiStep, UiStep, CommonStep

\* The activation of what was uploaded.
LEMMA UploadStep ==
  ASSUME IInv, NEW c \in Clients, upload_activates(c), answer'.op = "upload"
  PROVE  /\ call[c] # Idle /\ call'[c] = Idle
         /\ \/ withdrawn[c]
            \/ [module |-> answer'.module, version |-> answer'.version,
                code |-> answer'.code] \in ActiveReleases'
<1> DEFINE m == call[c].module
           v == call[c].version
           k == call[c].code
<1>1. call[c].at = "upload" /\ call[c] # Idle /\ call[c] \in Call
  BY CallModule DEF upload_activates, Change, Serve, Idle
<1>2. PICK reply \in {"Ok", "ModuleNotFound"} :
        /\ ActivateModule(m, v, reply)
        /\ Respond(c, IF reply = "Ok"
             THEN [op |-> "upload", module |-> m, version |-> v, code |-> k]
             ELSE NoAnswer)
  BY DEF upload_activates
<1>3. /\ call'[c] = Idle
      /\ answer' = IF reply = "Ok"
                     THEN [op |-> "upload", module |-> m, version |-> v, code |-> k]
                     ELSE NoAnswer
  BY <1>2, RespondTells DEF IInv
<1>4. reply = "Ok"
  BY <1>3 DEF NoAnswer
<1>5. answer' = [op |-> "upload", module |-> m, version |-> v, code |-> k]
  BY <1>3, <1>4
<1>6. ASSUME ~withdrawn[c] PROVE Rel(m, v, k) \in ActiveReleases'
  <2>1. Rel(m, v, k) \in Published
    BY <1>1, <1>6 DEF IInv, CallInv, Facts
  <2>2. PICK r \in RowsAt(m, v) :
          /\ active_modules' = {a \in active_modules : a.module # m}
                                 \cup {[module |-> m, id |-> r.id]}
          /\ modules' = modules
    BY <1>2, <1>4 DEF ActivateModule, activate_module
  <2>3. r \in modules /\ r.module = m /\ r.version = v
    BY <2>2 DEF RowsAt
  <2>4. Rel(m, v, r.code) \in Published
    BY <2>3 DEF Published, Rel
  <2>5. r.code = k
    BY <2>1, <2>4, OneCode DEF IInv
  <2>6. m \in Modules /\ v \in Versions /\ k \in Codes
    BY <2>3, <2>5 DEF IInv, StoreInv, StoreTypeOK, Row
  <2>7. [module |-> m, id |-> r.id] \in active_modules' /\ r \in modules'
    BY <2>2, <2>3
  <2>8. \E a \in active_modules', s \in modules' :
          a.id = s.id /\ a.module = m /\ s.version = v /\ s.code = k
    BY <2>3, <2>5, <2>7
  <2> HIDE DEF m, v, k
  <2> QED
    BY <2>6, <2>8 DEF ActiveReleases, get_all_active_modules, Rel
<1> HIDE DEF m, v, k
<1> QED
  BY <1>1, <1>3, <1>5, <1>6 DEF Rel

\* Of the four reports.
LEMMA ReportStep ==
  ASSUME IInv, NEW c \in Clients,
         \/ details_flags(c) \/ list_reads_versions(c)
         \/ list_active_modules(c) \/ active_commands(c)
  PROVE  /\ answer'.op = "details" /\ call'[c] = Idle
         /\ \/ withdrawn[c]
            \/ \A f \in answer'.flagged :
                 [module |-> answer'.module, version |-> f.version, code |-> f.code]
                   \in seen[c] \cup ActiveReleases
<1>0. StoreInv
  BY DEF IInv
<1>1. ASSUME NEW m, NEW flagged, Report(c, m, flagged),
             withdrawn[c] \/ \A f \in flagged :
               Rel(m, f.version, f.code) \in seen[c] \cup ActiveReleases
      PROVE  /\ answer'.op = "details" /\ call'[c] = Idle
             /\ \/ withdrawn[c]
                \/ \A f \in answer'.flagged :
                     [module |-> answer'.module, version |-> f.version, code |-> f.code]
                       \in seen[c] \cup ActiveReleases
  <2>1. /\ answer' = [op |-> "details", module |-> m, flagged |-> flagged]
        /\ call'[c] = Idle
    BY <1>1, RespondTells DEF Report, IInv
  <2> QED
    BY <1>1, <2>1 DEF Rel
<1>2. CASE details_flags(c)
  <2> DEFINE m == call[c].module
  <2>1. /\ call[c] \in Call /\ call[c].at = "flags"
        /\ Report(c, m, {f \in call[c].versions : IsActive(m, f)})
    BY <1>2, CallModule DEF details_flags, ReadMore, Read, Serve
  <2>2. m \in Modules
    BY <2>1 DEF Call
  <2>3. withdrawn[c] \/ \A f \in call[c].versions : Rel(m, f.version, f.code) \in Published
    BY <2>1 DEF IInv, CallInv, Facts
  <2> HIDE DEF m
  <2>4. withdrawn[c] \/ \A f \in {g \in call[c].versions : IsActive(m, g)} :
                           Rel(m, f.version, f.code) \in ActiveReleases
    BY <1>0, <2>2, <2>3, FlaggedHeld
  <2> QED
    BY <1>1, <2>1, <2>4
<1>3. CASE list_reads_versions(c)
  <2> DEFINE m == call[c].module
             previous == call[c].previous
  <2>1. /\ call[c] \in Call /\ call[c].at = "list"
        /\ Report(c, m, {f \in Flags(m) : f.version = previous})
    BY <1>3, CallModule DEF list_reads_versions, ReadMore, Read, Serve
  <2>2. m \in Modules
    BY <2>1 DEF Call
  <2>3. \A f \in Flags(m) : f.version \in Versions
                             /\ Rel(m, f.version, f.code) \in Published
    BY <1>0, <2>2, FlagsType DEF Flag
  <2>4. withdrawn[c] \/ previous = NoVersion
          \/ \E k \in Codes : Rel(m, previous, k) \in Published \cap seen[c]
    BY <2>1 DEF IInv, CallInv, Facts
  <2> HIDE DEF m, previous
  <2>5. withdrawn[c] \/ \A f \in {g \in Flags(m) : g.version = previous} :
                           Rel(m, f.version, f.code) \in seen[c]
    <3>1. ASSUME ~withdrawn[c], NEW f \in Flags(m), f.version = previous
          PROVE  Rel(m, f.version, f.code) \in seen[c]
      <4>1. previous # NoVersion
        BY <2>3, <3>1, ModulesAssumption
      <4>2. PICK k \in Codes : Rel(m, previous, k) \in Published \cap seen[c]
        BY <2>4, <3>1, <4>1
      <4>3. k = f.code
        BY <1>0, <2>3, <3>1, <4>2, OneCode
      <4> QED
        BY <3>1, <4>2, <4>3
    <3> QED
      BY <3>1
  <2> QED
    BY <1>1, <2>1, <2>5
<1>4. CASE list_active_modules(c)
  <2>1. PICK m \in Modules : Report(c, m, {f \in Flags(m) : IsActive(m, f)})
    BY <1>4 DEF list_active_modules
  <2>2. \A f \in {g \in Flags(m) : IsActive(m, g)} :
          Rel(m, f.version, f.code) \in ActiveReleases
    BY <1>0, FlagsType, FlaggedHeld
  <2> QED
    BY <1>1, <2>1, <2>2
<1>5. CASE active_commands(c)
  <2>1. call[c].at = "loaded" /\ Report(c, call[c].module, call[c].versions)
    BY <1>5 DEF active_commands, ReadMore, Read, Serve
  <2>2. withdrawn[c] \/ \A f \in call[c].versions :
                           Rel(call[c].module, f.version, f.code) \in seen[c]
    BY <2>1 DEF IInv, CallInv, Facts
  <2> QED
    BY <1>1, <2>1, <2>2
<1> QED
  BY <1>2, <1>3, <1>4, <1>5

\* A step that answers a client.
LEMMA AnswerOp ==
  ASSUME [Next]_vars, answer'.op \in {"upload", "details"}
  PROVE  \/ UNCHANGED vars
         \/ \E c \in Clients : ApiStep(c) \/ UiStep(c) \/ CommonStep(c)
<1>1. CASE ActorStep
  BY <1>1, ActorKeeps DEF NoAnswer
<1>2. CASE restart_process
  BY <1>2 DEF restart_process, NoAnswer
<1> QED
  BY <1>1, <1>2 DEF Next, Clients

-----------------------------------------------------------------------------
(* The theorems *)

\* No two rows of the store are of one version and no module has two active
\* versions, however many clients change modules at once.
THEOREM RowsAreUnique == Spec => []UniqueRows
BY Invariance, PTL DEF IInv, StoreInv

\* No module's active row ever points to nothing or to another module's version,
\* although ids of deleted rows are given to new ones.
THEOREM ActiveRowsOwned == Spec => []ActiveRowOwned
BY Invariance, PTL DEF IInv, StoreInv

\* The store under the API's and the UI's handlers behaves as the catalogue.
THEOREM ImplementsCatalog == Spec => CatalogSpec
<1>1. IInv /\ [Next]_vars => [Promised!Next]_<<Published, ActiveChoices>>
  BY NextInv, StoreRefines DEF IInv
<1>2. Init => Promised!Init
  BY StoreInitRefines DEF Init
<1> QED
  BY <1>1, <1>2, Invariance, PTL DEF Spec, CatalogSpec, Promised!Spec, Promised!catalog

\* An upload that is answered as activated has activated the bytes it sent, unless
\* a version was deleted meanwhile.
THEOREM UploadsActivate == Spec => UploadActivated
<1>1. IInv /\ [Next]_vars =>
        [answer'.op = "upload" =>
           \E c \in Clients :
             /\ call[c] # Idle /\ call'[c] = Idle
             /\ \/ withdrawn[c]
                \/ [module |-> answer'.module, version |-> answer'.version,
                    code |-> answer'.code] \in ActiveReleases']_vars
  <2> SUFFICES ASSUME IInv, [Next]_vars, ~(UNCHANGED vars), answer'.op = "upload"
               PROVE  \E c \in Clients :
                        /\ call[c] # Idle /\ call'[c] = Idle
                        /\ \/ withdrawn[c]
                           \/ [module |-> answer'.module, version |-> answer'.version,
                               code |-> answer'.code] \in ActiveReleases'
    OBVIOUS
  <2>1. PICK c \in Clients : ApiStep(c) \/ UiStep(c) \/ CommonStep(c)
    BY AnswerOp
  <2>2. upload_activates(c)
    BY <2>1, Answers, ReportStep
  <2> QED
    BY <2>2, UploadStep
<1> QED
  BY <1>1, Invariance, PTL DEF Spec, UploadActivated

\* A report flags as active only what was active at a moment of its request, unless
\* a version was deleted meanwhile.
THEOREM ReportsWereTrue == Spec => FlaggedWasActive
<1>1. IInv /\ [Next]_vars =>
        [answer'.op = "details" =>
           \E c \in Clients :
             /\ call'[c] = Idle
             /\ \/ withdrawn[c]
                \/ \A f \in answer'.flagged :
                     [module |-> answer'.module, version |-> f.version, code |-> f.code]
                       \in seen[c] \cup ActiveReleases]_vars
  <2> SUFFICES ASSUME IInv, [Next]_vars, ~(UNCHANGED vars), answer'.op = "details"
               PROVE  \E c \in Clients :
                        /\ call'[c] = Idle
                        /\ \/ withdrawn[c]
                           \/ \A f \in answer'.flagged :
                                [module |-> answer'.module, version |-> f.version,
                                 code |-> f.code] \in seen[c] \cup ActiveReleases
    OBVIOUS
  <2>1. PICK c \in Clients : ApiStep(c) \/ UiStep(c) \/ CommonStep(c)
    BY AnswerOp
  <2>2. CASE upload_activates(c)
    <3>1. PICK reply : Respond(c, IF reply = "Ok"
              THEN [op |-> "upload", module |-> call[c].module,
                    version |-> call[c].version, code |-> call[c].code]
              ELSE NoAnswer)
      BY <2>2 DEF upload_activates
    <3>2. answer'.op \in {"upload", "none"}
      BY <3>1 DEF Respond, NoAnswer
    <3> QED
      BY <3>2
  <2>3. CASE ~upload_activates(c)
    BY <2>1, <2>3, Answers, ReportStep
  <2> QED
    BY <2>2, <2>3
<1> QED
  BY <1>1, Invariance, PTL DEF Spec, FlaggedWasActive

-----------------------------------------------------------------------------
(* What the steps do to the active releases.  Under the keys of the tables    *)
(* they are the published ones whose version is active.                       *)

LEMMA ReleaseFacts ==
  ASSUME StoreInv
  PROVE  /\ ActiveReleases \subseteq Release \cap Published
         /\ \A x, y \in ActiveReleases : x.module = y.module => x = y
         /\ get_all_active_modules(CommandModules)
              = {x \in ActiveReleases : x.module \in CommandModules}
<1>1. ASSUME NEW x \in ActiveReleases
      PROVE  /\ x \in Release
             /\ \E a \in active_modules, r \in modules :
                  a.id = r.id /\ a.module = x.module /\ r.version = x.version
                    /\ r.code = x.code
  BY DEF ActiveReleases, get_all_active_modules, Release
<1>2. ASSUME NEW x \in ActiveReleases PROVE x \in Published
  <2>1. PICK a \in active_modules, r \in modules :
          a.id = r.id /\ a.module = x.module /\ r.version = x.version /\ r.code = x.code
    BY <1>1
  <2>2. r.module = x.module
    BY <2>1, JoinOwned
  <2>3. x = [module |-> r.module, version |-> r.version, code |-> r.code]
    BY <1>1, <2>1, <2>2 DEF Release
  <2> QED
    BY <2>3 DEF Published
<1>3. ASSUME NEW x \in ActiveReleases, NEW y \in ActiveReleases, x.module = y.module
      PROVE  x = y
  <2>1. PICK a \in active_modules, r \in modules :
          a.id = r.id /\ a.module = x.module /\ r.version = x.version /\ r.code = x.code
    BY <1>1
  <2>2. PICK b \in active_modules, s \in modules :
          b.id = s.id /\ b.module = y.module /\ s.version = y.version /\ s.code = y.code
    BY <1>1
  <2>3. a = b
    BY <1>3, <2>1, <2>2 DEF StoreInv, UniqueRows
  <2>4. r = s
    BY <2>1, <2>2, <2>3 DEF StoreInv, UniqueRows
  <2> QED
    BY <1>1, <1>3, <2>1, <2>2, <2>4 DEF Release
<1>4. get_all_active_modules(CommandModules)
        = {x \in ActiveReleases : x.module \in CommandModules}
  BY ModulesAssumption DEF ActiveReleases, get_all_active_modules
<1> QED
  BY <1>1, <1>2, <1>3, <1>4

LEMMA JoinedNow ==
  ASSUME StoreInv, NEW x \in Release
  PROVE  x \in ActiveReleases <=>
           x \in Published /\ [module |-> x.module, version |-> x.version] \in ActiveChoices
<1>1. ASSUME x \in ActiveReleases
      PROVE  [module |-> x.module, version |-> x.version] \in ActiveChoices
  BY <1>1 DEF ActiveReleases, get_all_active_modules, ActiveChoices, Release
<1>2. ASSUME x \in Published,
             [module |-> x.module, version |-> x.version] \in ActiveChoices
      PROVE  x \in ActiveReleases
  <2>1. PICK a \in active_modules, r \in modules :
          a.id = r.id /\ a.module = x.module /\ r.version = x.version
    BY <1>2 DEF ActiveChoices
  <2>2. r.module = x.module
    BY <2>1, JoinOwned
  <2>3. PICK s \in modules : x = [module |-> s.module, version |-> s.version,
                                  code |-> s.code]
    BY <1>2 DEF Published
  <2>4. r = s
    BY <2>1, <2>2, <2>3 DEF StoreInv, UniqueRows
  <2> QED
    BY <2>1, <2>3, <2>4 DEF ActiveReleases, get_all_active_modules, Release
<1> QED
  BY <1>1, <1>2, ReleaseFacts

\* The same after a step.
LEMMA JoinedNext ==
  ASSUME StoreInv', NEW x \in Release
  PROVE  x \in ActiveReleases' <=>
           x \in Published' /\ [module |-> x.module, version |-> x.version] \in ActiveChoices'
<1>1. ASSUME NEW a \in active_modules', NEW r \in modules', a.id = r.id
      PROVE  r.module = a.module
  <2>1. PICK s \in modules' : s.id = a.id /\ s.module = a.module
    BY DEF StoreInv, ActiveRowOwned
  <2> QED
    BY <1>1, <2>1 DEF StoreInv, UniqueRows
<1>2. ASSUME x \in ActiveReleases'
      PROVE  /\ x \in Published'
             /\ [module |-> x.module, version |-> x.version] \in ActiveChoices'
  <2>1. PICK a \in active_modules', r \in modules' :
          a.id = r.id /\ a.module = x.module /\ r.version = x.version /\ r.code = x.code
    BY <1>2 DEF ActiveReleases, get_all_active_modules
  <2>2. x = [module |-> r.module, version |-> r.version, code |-> r.code]
    BY <1>1, <2>1 DEF Release
  <2>3. x \in Published'
    BY <2>2 DEF Published
  <2> QED
    BY <2>1, <2>3 DEF ActiveChoices, Release
<1>3. ASSUME x \in Published',
             [module |-> x.module, version |-> x.version] \in ActiveChoices'
      PROVE  x \in ActiveReleases'
  <2>1. PICK a \in active_modules', r \in modules' :
          a.id = r.id /\ a.module = x.module /\ r.version = x.version
    BY <1>3 DEF ActiveChoices
  <2>2. PICK s \in modules' : x = [module |-> s.module, version |-> s.version,
                                   code |-> s.code]
    BY <1>3 DEF Published
  <2>3. r = s
    BY <1>1, <2>1, <2>2 DEF StoreInv, UniqueRows
  <2> QED
    BY <2>1, <2>2, <2>3 DEF ActiveReleases, get_all_active_modules, Release
<1> QED
  BY <1>2, <1>3

\* The three things a step may do to them.
Keeps == ActiveReleases' = ActiveReleases
Activates(r) ==
  /\ r \in Release \cap Published
  /\ ActiveReleases' = {x \in ActiveReleases : x.module # r.module} \cup {r}
Drops(m) == ActiveReleases' = {x \in ActiveReleases : x.module # m}

LEMMA PublishKeeps ==
  ASSUME StoreInv, StoreInv', NEW m \in Modules, NEW v \in Versions, NEW c \in Codes,
         Promised!Publish(m, v, c)
  PROVE  Keeps
<1>1. \A x \in ActiveReleases : x \in Release \cap Published
  BY ReleaseFacts
<1>2. ActiveReleases' \subseteq Release
  BY DEF ActiveReleases, get_all_active_modules, Release
<1>3. ASSUME NEW x \in Release PROVE x \in ActiveReleases' <=> x \in ActiveReleases
  <2>1. CASE x.module = m /\ x.version = v
    <3>1. [module |-> x.module, version |-> x.version] \notin ActiveChoices
      <4>1. SUFFICES ASSUME [module |-> m, version |-> v] \in ActiveChoices PROVE FALSE
        BY <2>1
      <4>2. PICK a \in active_modules, r \in modules :
              a.id = r.id /\ a.module = m /\ r.version = v
        BY <4>1 DEF ActiveChoices
      <4>3. r.module = m
        BY <4>2, JoinOwned
      <4>4. [module |-> r.module, version |-> r.version, code |-> r.code] \in Published
        BY DEF Published
      <4> QED
        BY <4>2, <4>3, <4>4 DEF Promised!Publish, Promised!IsPublished
    <3>2. ActiveChoices' = ActiveChoices
      BY DEF Promised!Publish
    <3>3. x \notin ActiveReleases /\ x \notin ActiveReleases'
      BY <3>1, <3>2, JoinedNow, JoinedNext
    <3> QED
      BY <3>3
  <2>2. CASE ~(x.module = m /\ x.version = v)
    <3>1. ActiveChoices' = ActiveChoices /\ (x \in Published' <=> x \in Published)
      BY <2>2 DEF Promised!Publish
    <3> QED
      BY <3>1, JoinedNow, JoinedNext
  <2> QED
    BY <2>1, <2>2
<1> QED
  BY <1>1, <1>2, <1>3 DEF Keeps

LEMMA ActivateActivates ==
  ASSUME StoreInv, StoreInv', NEW m \in Modules, NEW v \in Versions, NEW k \in Codes,
         Rel(m, v, k) \in Published, Promised!Activate(m, v)
  PROVE  Activates(Rel(m, v, k))
<1> DEFINE new == Rel(m, v, k)
<1>1. new \in Release /\ new.module = m /\ new.version = v
  BY DEF Rel, Release
<1>2. ActiveReleases' \subseteq Release /\ ActiveReleases \subseteq Release
  BY DEF ActiveReleases, get_all_active_modules, Release
<1>3. /\ Published' = Published
      /\ ActiveChoices' = {a \in ActiveChoices : a.module # m}
                            \cup {[module |-> m, version |-> v]}
  BY DEF Promised!Activate
<1>4. ASSUME NEW x \in Release
      PROVE  x \in ActiveReleases' <=> x \in {y \in ActiveReleases : y.module # m} \cup {new}
  <2> DEFINE choice == [module |-> x.module, version |-> x.version]
  <2>1. x \in ActiveReleases <=> x \in Published /\ choice \in ActiveChoices
    BY JoinedNow
  <2>2. x \in ActiveReleases' <=> x \in Published /\ choice \in ActiveChoices'
    BY <1>3, JoinedNext
  <2>3. CASE x.module # m
    <3>1. choice \in ActiveChoices' <=> choice \in ActiveChoices
      BY <1>3, <2>3
    <3> QED
      BY <1>1, <2>1, <2>2, <2>3, <3>1
  <2>4. CASE x.module = m /\ x.version # v
    <3>1. choice \notin ActiveChoices'
      BY <1>3, <2>4
    <3> QED
      BY <1>1, <2>2, <2>4, <3>1
  <2>5. CASE x.module = m /\ x.version = v
    <3>1. choice \in ActiveChoices'
      BY <1>3, <2>5
    <3>2. x = Rel(m, v, x.code)
      BY <2>5 DEF Rel, Release
    <3>3. x \in Published <=> x = new
      BY <3>2, OneCode
    <3> QED
      BY <2>2, <2>5, <3>1, <3>3
  <2> QED
    BY <2>3, <2>4, <2>5
<1>5. new \in Published
  OBVIOUS
<1> HIDE DEF new
<1>6. Activates(new)
  BY <1>1, <1>2, <1>4, <1>5 DEF Activates
<1> QED
  BY <1>6 DEF new

LEMMA DeactivateDrops ==
  ASSUME StoreInv, StoreInv', NEW m \in Modules,
         Promised!Deactivate(m) \/ Promised!Remove(m)
  PROVE  Drops(m)
<1>1. ActiveReleases' \subseteq Release /\ ActiveReleases \subseteq Release
  BY DEF ActiveReleases, get_all_active_modules, Release
<1>2. ASSUME NEW x \in Release
      PROVE  x \in ActiveReleases' <=> x \in ActiveReleases /\ x.module # m
  <2> DEFINE choice == [module |-> x.module, version |-> x.version]
  <2>1. choice \in ActiveChoices' <=> choice \in ActiveChoices /\ x.module # m
    BY DEF Promised!Deactivate, Promised!Remove
  <2>2. x.module # m => (x \in Published' <=> x \in Published)
    BY DEF Promised!Deactivate, Promised!Remove
  <2> QED
    BY <2>1, <2>2, JoinedNow, JoinedNext
<1> QED
  BY <1>1, <1>2 DEF Drops

LEMMA WithdrawKeeps ==
  ASSUME StoreInv, StoreInv', NEW m \in Modules, NEW v \in Versions,
         Promised!Withdraw(m, v)
  PROVE  Keeps
<1>1. ActiveReleases' \subseteq Release /\ ActiveReleases \subseteq Release
  BY DEF ActiveReleases, get_all_active_modules, Release
<1>2. ASSUME NEW x \in Release PROVE x \in ActiveReleases' <=> x \in ActiveReleases
  <2> DEFINE choice == [module |-> x.module, version |-> x.version]
  <2>1. ActiveChoices' = ActiveChoices
        /\ [module |-> m, version |-> v] \notin ActiveChoices
        /\ Published' = {r \in Published : ~(r.module = m /\ r.version = v)}
    BY DEF Promised!Withdraw, Promised!IsActive
  <2>2. choice \in ActiveChoices => ~(x.module = m /\ x.version = v)
    BY <2>1
  <2>3. choice \in ActiveChoices => (x \in Published' <=> x \in Published)
    BY <2>1, <2>2
  <2> QED
    BY <2>1, <2>3, JoinedNow, JoinedNext
<1> QED
  BY <1>1, <1>2 DEF Keeps

LEMMA RowsKeep ==
  ASSUME modules' = modules, active_modules' = active_modules
  PROVE  Keeps
BY DEF Keeps, ActiveReleases, get_all_active_modules

\* What a client's step does to the active releases it announces to the actor.
Announces ==
  \/ \E r \in Release :
       Activates(r) /\ Publish([type |-> "Activated", release |-> r])
  \/ \E m \in Modules, type \in {"Deactivated", "Deleted"} :
       Drops(m) /\ Publish([type |-> type, module |-> m])

ClientEffect ==
  /\ UNCHANGED <<compiling, components, starting>>
  /\ \/ Keeps /\ UNCHANGED mailbox
     \/ Announces /\ (Careful => Quiet)

LEMMA ActivateEffect ==
  ASSUME StoreInv, StoreInv', NEW m \in Modules, NEW v,
         NEW reply \in {"Ok", "ModuleNotFound"}, ActivateModule(m, v, reply)
  PROVE  (Keeps /\ UNCHANGED mailbox) \/ Announces
<1>1. CASE reply # "Ok"
  BY <1>1, RowsKeep DEF ActivateModule, activate_module, tables
<1>2. CASE reply = "Ok"
  <2>1. PICK r \in RowsAt(m, v) :
          /\ active_modules' = {a \in active_modules : a.module # m}
                                 \cup {[module |-> m, id |-> r.id]}
          /\ modules' = modules
    BY <1>2 DEF ActivateModule, activate_module
  <2>2. PICK s \in RowsAt(m, v) :
          Publish([type |-> "Activated", release |->
                   [module |-> m, version |-> v, code |-> s.code]])
    BY <1>2 DEF ActivateModule
  <2>3. s \in modules /\ s.module = m /\ s.version = v
    BY DEF RowsAt
  <2>4. v \in Versions /\ s.code \in Codes
    BY <2>3 DEF StoreInv, StoreTypeOK, Row
  <2>5. Promised!Activate(m, v)
    BY <2>1, <2>4, ActivateRefines
  <2>6. Rel(m, v, s.code) \in Published
    BY <2>3 DEF Published, Rel
  <2>7. Activates(Rel(m, v, s.code))
    BY <2>4, <2>5, <2>6, ActivateActivates
  <2>8. Publish([type |-> "Activated", release |-> Rel(m, v, s.code)])
    BY <2>2 DEF Rel
  <2>9. Rel(m, v, s.code) \in Release
    BY <2>7 DEF Activates
  <2> QED
    BY <2>7, <2>8, <2>9 DEF Announces
<1> QED
  BY <1>1, <1>2

LEMMA DeactivateEffect ==
  ASSUME StoreInv, StoreInv', NEW m \in Modules, DeactivateModule(m)
  PROVE  (Keeps /\ UNCHANGED mailbox) \/ Announces
<1>1. PICK reply \in BOOLEAN :
        /\ deactivate_module(m, reply)
        /\ IF reply THEN Publish([type |-> "Deactivated", module |-> m])
                    ELSE UNCHANGED mailbox
  BY DEF DeactivateModule
<1>2. CASE reply
  <2>1. Drops(m)
    BY <1>1, DeactivateRefines, DeactivateDrops DEF deactivate_module
  <2> QED
    BY <1>1, <1>2, <2>1 DEF Announces
<1>3. CASE ~reply
  <2>1. active_modules' = active_modules /\ modules' = modules
    BY <1>1, <1>3 DEF deactivate_module
  <2> QED
    BY <1>1, <1>3, <2>1, RowsKeep
<1> QED
  BY <1>2, <1>3

LEMMA DeleteEffect ==
  ASSUME StoreInv, StoreInv', NEW m \in Modules, NEW reply \in BOOLEAN,
         DeleteModule(m, reply)
  PROVE  (Keeps /\ UNCHANGED mailbox) \/ Announces
<1>1. delete_module(m, reply)
  BY DEF DeleteModule
<1>2. CASE reply
  <2>1. Drops(m)
    BY <1>1, DeleteModuleRefines, DeactivateDrops DEF delete_module
  <2>2. Publish([type |-> "Deleted", module |-> m])
    BY <1>2 DEF DeleteModule
  <2> QED
    BY <2>1, <2>2 DEF Announces
<1>3. CASE ~reply
  <2>1. modules' = modules /\ \A r \in modules : r.module # m
    BY <1>1, <1>3 DEF delete_module, RowsOf
  <2>2. \A a \in active_modules : a.module # m
    BY <2>1 DEF StoreInv, ActiveRowOwned
  <2>3. active_modules' = active_modules
    BY <1>1, <2>2 DEF delete_module
  <2>4. UNCHANGED mailbox
    BY <1>3 DEF DeleteModule
  <2> QED
    BY <2>1, <2>3, <2>4, RowsKeep
<1> QED
  BY <1>2, <1>3

LEMMA DeleteVersionEffect ==
  ASSUME StoreInv, StoreInv', NEW m \in Modules, NEW v \in Versions, NEW reply,
         delete_module_version(m, v, reply)
  PROVE  Keeps
<1>1. CASE modules' = modules
  BY <1>1, RowsKeep DEF delete_module_version, tables
<1>2. CASE modules' # modules
  <2>1. Promised!Withdraw(m, v)
    BY <1>2, DeleteVersionRefines DEF delete_module_version, tables
  <2> QED
    BY <2>1, WithdrawKeeps
<1> QED
  BY <1>1, <1>2

LEMMA SaveEffect ==
  ASSUME StoreInv, StoreInv', NEW m \in Modules, NEW v \in Versions, NEW env \in Settings,
         NEW k \in Codes, NEW reply, save_module(m, v, env, k, reply)
  PROVE  Keeps
<1>1. active_modules' = active_modules
  BY DEF save_module, tables
<1>2. CASE modules' = modules
  BY <1>1, <1>2, RowsKeep
<1>3. CASE modules' # modules
  <2>1. Promised!Publish(m, v, k)
    BY <1>3, SaveRefines
  <2> QED
    BY <2>1, PublishKeeps
<1> QED
  BY <1>2, <1>3

\* Which leaves the clients' handlers.
LEMMA ReadEffect ==
  ASSUME NEW c, NEW at, Read(c, at)
  PROVE  ClientEffect
BY RowsKeep DEF Read, tables, actor, ClientEffect

LEMMA SaveThenEffect ==
  ASSUME StoreInv, StoreInv', NEW c, NEW accepted, NEW m \in Modules, NEW v \in Versions,
         NEW env \in Settings, NEW k \in Codes, NEW act,
         SaveThen(c, accepted, m, v, env, k, act)
  PROVE  ClientEffect
BY SaveEffect DEF SaveThen, Change, ClientEffect

LEMMA ApiEffect ==
  ASSUME IInv, IInv', NEW c \in Clients, ApiStep(c)
  PROVE  ClientEffect
<1>0. StoreInv /\ StoreInv'
  BY DEF IInv
<1>1. CASE upload_module(c)
  BY <1>0, <1>1, SaveThenEffect DEF upload_module
<1>2. CASE activate_writes(c)
  <2>1. Change(c, "activate") /\ call[c].module \in Modules
    BY <1>2, CallModule DEF activate_writes, Change, Serve, Call
  <2>2. PICK reply \in {"Ok", "ModuleNotFound"} :
          ActivateModule(call[c].module, call[c].version, reply)
    BY <1>2 DEF activate_writes
  <2> QED
    BY <1>0, <2>1, <2>2, ActivateEffect DEF Change, ClientEffect
<1>3. CASE deactivate_writes(c)
  <2>1. Change(c, "deactivate") /\ call[c].module \in Modules
        /\ DeactivateModule(call[c].module)
    BY <1>3, CallModule DEF deactivate_writes, Change, Serve, Call
  <2> QED
    BY <1>0, <2>1, DeactivateEffect DEF Change, ClientEffect
<1>4. CASE delete_writes(c)
  <2>1. Change(c, "delete") /\ call[c].module \in Modules
    BY <1>4, CallModule DEF delete_writes, Change, Serve, Call
  <2>2. PICK reply \in BOOLEAN : DeleteModule(call[c].module, reply)
    BY <1>4 DEF delete_writes
  <2> QED
    BY <1>0, <2>1, <2>2, DeleteEffect DEF Change, ClientEffect
<1>5. CASE delete_module_version_of(c)
  <2>1. Change(c, "idle") /\ UNCHANGED mailbox
    BY <1>5 DEF delete_module_version_of
  <2>2. PICK m \in Modules, v \in Versions, reply \in DeleteReplies :
          delete_module_version(m, v, reply)
    BY <1>5 DEF delete_module_version_of
  <2> QED
    BY <1>0, <2>1, <2>2, DeleteVersionEffect DEF Change, ClientEffect
<1>6. CASE \/ activate_reads(c) \/ deactivate_reads(c) \/ delete_counts(c)
           \/ get_module_details(c) \/ version_details_loads(c) \/ list_reads_active(c)
           \/ list_reads_versions(c)
  <2>1. \E at : Read(c, at)
    BY <1>6 DEF activate_reads, deactivate_reads, delete_counts, get_module_details,
                version_details_loads, list_reads_active, list_reads_versions,
                ChangingRead, FirstRead, ReadMore
  <2> QED
    BY <2>1, ReadEffect
<1> QED
  BY <1>1, <1>2, <1>3, <1>4, <1>5, <1>6 DEF ApiStep

LEMMA UiEffect ==
  ASSUME IInv, IInv', NEW c \in Clients, UiStep(c)
  PROVE  ClientEffect
<1>0. StoreInv /\ StoreInv'
  BY DEF IInv
<1>1. CASE upload_module_inner(c)
  <2>1. {} \in Settings
    BY DEF Settings
  <2> QED
    BY <1>0, <1>1, <2>1, SaveThenEffect DEF upload_module_inner
<1>2. CASE activate(c)
  <2>1. PICK m \in Modules, v \in Versions, reply \in {"Ok", "ModuleNotFound"} :
          ActivateModule(m, v, reply)
    BY <1>2 DEF activate
  <2>2. Change(c, "idle")
    BY <1>2 DEF activate
  <2> QED
    BY <1>0, <2>1, <2>2, ActivateEffect DEF Change, ClientEffect
<1>3. CASE deactivate(c)
  <2>1. Change(c, "idle") /\ \E m \in Modules : DeactivateModule(m)
    BY <1>3 DEF deactivate
  <2> QED
    BY <1>0, <2>1, DeactivateEffect DEF Change, ClientEffect
<1>4. CASE delete_module_of(c)
  <2>1. Change(c, "idle") /\ \E m \in Modules, reply \in BOOLEAN : DeleteModule(m, reply)
    BY <1>4 DEF delete_module_of
  <2> QED
    BY <1>0, <2>1, DeleteEffect DEF Change, ClientEffect
<1>5. CASE delete_version(c)
  <2>1. Change(c, "idle") /\ UNCHANGED mailbox
    BY <1>5 DEF delete_version
  <2>2. PICK m \in Modules, v \in Versions, reply \in DeleteReplies :
          delete_module_version(m, v, reply)
    BY <1>5 DEF delete_version
  <2> QED
    BY <1>0, <2>1, <2>2, DeleteVersionEffect DEF Change, ClientEffect
<1>6. CASE \/ render_versions_table(c) \/ list_commands(c) \/ row_active(c)
           \/ get_command(c) \/ page_flags(c) \/ active_commands(c)
  <2>1. \E at : Read(c, at)
    BY <1>6 DEF render_versions_table, list_commands, row_active, get_command,
                page_flags, active_commands, FirstRead, ReadMore
  <2> QED
    BY <2>1, ReadEffect
<1> QED
  BY <1>1, <1>2, <1>3, <1>4, <1>5, <1>6 DEF UiStep

LEMMA CommonEffect ==
  ASSUME IInv, IInv', NEW c \in Clients, CommonStep(c)
  PROVE  ClientEffect
<1>0. StoreInv /\ StoreInv'
  BY DEF IInv
<1>1. CASE upload_activates(c)
  <2>1. Change(c, "upload") /\ call[c].module \in Modules
    BY <1>1, CallModule DEF upload_activates, Change, Serve, Call
  <2>2. PICK reply \in {"Ok", "ModuleNotFound"} :
          ActivateModule(call[c].module, call[c].version, reply)
    BY <1>1 DEF upload_activates
  <2> QED
    BY <1>0, <2>1, <2>2, ActivateEffect DEF Change, ClientEffect
<1>2. CASE details_flags(c) \/ list_active_modules(c)
  <2>1. \E at : Read(c, at)
    BY <1>2 DEF details_flags, list_active_modules, FirstRead, ReadMore
  <2> QED
    BY <2>1, ReadEffect
<1>3. CASE set_env_var_of(c) \/ delete_env_var_of(c)
  <2>1. Change(c, "idle") /\ UNCHANGED <<mailbox, modules, active_modules>>
    BY <1>3 DEF set_env_var_of, delete_env_var_of, set_env_var, delete_env_var
  <2> QED
    BY <2>1, RowsKeep DEF Change, ClientEffect
<1> QED
  BY <1>1, <1>2, <1>3 DEF CommonStep

-----------------------------------------------------------------------------
(* What is loaded, when clients are careful                                   *)

LEMMA LoadFrame ==
  ASSUME LoadInv, Keeps, UNCHANGED actor
  PROVE  LoadInv'
<1>1. /\ mailbox' = mailbox /\ compiling' = compiling
      /\ components' = components /\ starting' = starting
  BY DEF actor
<1>2. \A m : Settled(m)' = Settled(m) /\ UnderWay(m)' = UnderWay(m)
  BY <1>1 DEF Keeps, Settled, ActiveOf, loaded, UnderWay, Concerned
<1>3. \A event : EventTrue(event)' = EventTrue(event)
  BY <1>1 DEF Keeps, EventTrue, ActiveOf, loaded
<1>4. OneAtATime'
  BY <1>1, <1>3 DEF LoadInv, OneAtATime
<1> QED
  BY <1>1, <1>2, <1>4 DEF LoadInv, Keeps

\* When nothing is on its way, every command is settled.
LEMMA QuietSettled ==
  ASSUME LoadInv, Quiet
  PROVE  \A m \in CommandModules : Settled(m)
<1>1. \A m : ~UnderWay(m)
  BY DEF Quiet, UnderWay
<1> QED
  BY <1>1 DEF LoadInv

\* A command's active release stays and what is loaded of it, too.
LEMMA SettledStays ==
  ASSUME NEW m, Settled(m), ActiveOf(m)' = ActiveOf(m), loaded(m)' = loaded(m)
  PROVE  Settled(m)'
<1>1. CASE ActiveOf(m) = {}
  BY <1>1 DEF Settled
<1>2. CASE ActiveOf(m) # {}
  <2>1. SUFFICES ASSUME NEW r \in ActiveOf(m), r.code \notin Broken
                 PROVE  \E x \in components' :
                          /\ loaded(m)' = {x} /\ x.version = r.version
                          /\ Broken = {} => x.code = r.code
    BY <1>2 DEF Settled
  <2>2. PICK x \in components : /\ loaded(m) = {x} /\ x.version = r.version
                                /\ Broken = {} => x.code = r.code
    BY <1>2, <2>1 DEF Settled
  <2>3. x \in loaded(m)'
    BY <2>2
  <2>4. x \in components'
    BY <2>3 DEF loaded
  <2> QED
    BY <2>2, <2>4
<1> QED
  BY <1>1, <1>2

\* The one event that a change puts into an empty mailbox.
LEMMA EventSent ==
  ASSUME LoadInv, Quiet, UNCHANGED <<compiling, components, starting>>,
         NEW event \in ModuleEvent, Publish(event), EventTrue(event)',
         \A n \in CommandModules : n # Concerned(event) => ActiveOf(n)' = ActiveOf(n)
  PROVE  LoadInv'
<1>1. mailbox' = <<event>>
  BY DEF Publish, Quiet
<1>2. /\ starting' = {} /\ \A x \in Release : compiling'[x] = 0
      /\ compiling' \in [Release -> 0 .. 1] /\ components' = components
  BY DEF Quiet, LoadInv, OneAtATime
<1>3. OneAtATime'
  BY <1>1, <1>2 DEF OneAtATime
<1>4. ASSUME NEW m \in CommandModules PROVE Settled(m)' \/ UnderWay(m)'
  <2>1. CASE m = Concerned(event)
    BY <1>1, <2>1 DEF UnderWay, Concerned
  <2>2. CASE m # Concerned(event)
    <3>1. Settled(m)
      BY QuietSettled
    <3>2. loaded(m)' = loaded(m)
      BY <1>2 DEF loaded
    <3> QED
      BY <2>2, <3>1, <3>2, SettledStays
  <2> QED
    BY <2>1, <2>2
<1>5. /\ starting' \subseteq Release
      /\ \A x \in Release : ~(x \in starting' \/ compiling'[x] > 0)
  BY <1>2
<1>6. \A x, y \in components' : x.module \in CommandModules /\ (x.module = y.module => x = y)
  BY <1>2 DEF LoadInv
<1> QED
  BY <1>3, <1>4, <1>5, <1>6 DEF LoadInv

LEMMA ClientLoads ==
  ASSUME StoreInv, StoreInv', LoadInv, Careful, ClientEffect
  PROVE  LoadInv'
<1>1. CASE Keeps /\ UNCHANGED mailbox
  BY <1>1, LoadFrame DEF ClientEffect, actor
<1>2. CASE Quiet /\ \E r \in Release :
             Activates(r) /\ Publish([type |-> "Activated", release |-> r])
  <2>1. PICK r \in Release :
          Activates(r) /\ Publish([type |-> "Activated", release |-> r])
    BY <1>2
  <2> DEFINE event == [type |-> "Activated", release |-> r]
  <2>2. /\ event \in ModuleEvent /\ event.type = "Activated" /\ event.release = r
        /\ Concerned(event) = r.module
    BY DEF ModuleEvent, Concerned
  <2>3. r \in ActiveReleases' /\ r \in Published
        /\ ActiveReleases' = {x \in ActiveReleases : x.module # r.module} \cup {r}
    BY <2>1 DEF Activates
  <2>4. ASSUME Broken = {}, NEW x \in loaded(r.module)', x.version = r.version
        PROVE  x.code = r.code
    <3>1. x \in components /\ x.module = r.module /\ loaded(r.module)' = loaded(r.module)
      BY <2>4 DEF loaded, ClientEffect
    <3>2. Settled(r.module)
      BY <1>2, <3>1, QuietSettled DEF LoadInv
    <3>3. PICK s \in ActiveOf(r.module) : TRUE
      BY <3>1, <3>2, <2>4 DEF Settled
    <3>4. PICK y \in components :
            loaded(r.module) = {y} /\ y.version = s.version /\ y.code = s.code
      BY <2>4, <3>2, <3>3 DEF Settled
    <3>5. x = y
      BY <2>4, <3>1, <3>4
    <3>6. s \in Published /\ s \in Release /\ s.module = r.module
      BY <3>3, ReleaseFacts DEF ActiveOf
    <3>7. s = Rel(r.module, r.version, s.code) /\ r = Rel(r.module, r.version, r.code)
      BY <2>4, <3>4, <3>5, <3>6 DEF Rel, Release
    <3>8. s.code = r.code
      BY <2>3, <3>6, <3>7, OneCode
    <3> QED
      BY <3>4, <3>5, <3>8
  <2>5. \A n : n # r.module => ActiveOf(n)' = ActiveOf(n)
    BY <2>3 DEF ActiveOf
  <2> HIDE DEF event
  <2>6. EventTrue(event)'
    BY <2>2, <2>3, <2>4 DEF EventTrue
  <2>7. Publish(event)
    BY <2>1 DEF event
  <2> QED
    BY <1>2, <2>2, <2>5, <2>6, <2>7, EventSent DEF ClientEffect
<1>3. CASE Quiet /\ \E m \in Modules, type \in {"Deactivated", "Deleted"} :
             Drops(m) /\ Publish([type |-> type, module |-> m])
  <2>1. PICK m \in Modules, type \in {"Deactivated", "Deleted"} :
          Drops(m) /\ Publish([type |-> type, module |-> m])
    BY <1>3
  <2> DEFINE event == [type |-> type, module |-> m]
  <2>2. /\ event \in ModuleEvent /\ event.type # "Activated" /\ event.module = m
        /\ Concerned(event) = m
    BY DEF ModuleEvent, Concerned
  <2>3. ActiveOf(m)' = {} /\ \A n : n # m => ActiveOf(n)' = ActiveOf(n)
    BY <2>1 DEF Drops, ActiveOf
  <2> HIDE DEF event
  <2>4. EventTrue(event)'
    BY <2>2, <2>3 DEF EventTrue
  <2>5. Publish(event)
    BY <2>1 DEF event
  <2> QED
    BY <1>3, <2>2, <2>3, <2>4, <2>5, EventSent DEF ClientEffect
<1> QED
  BY <1>1, <1>2, <1>3 DEF ClientEffect, Announces

\* What an event finds when the actor comes to it.
LEMMA EventFound ==
  ASSUME LoadInv, mailbox # <<>>
  PROVE  /\ Head(mailbox) \in ModuleEvent /\ Tail(mailbox) = <<>>
         /\ EventTrue(Head(mailbox))
         /\ starting = {} /\ \A x \in Release : compiling[x] = 0
         /\ \A m \in CommandModules : m # Concerned(Head(mailbox)) => Settled(m)
<1>1. PICK event \in ModuleEvent :
        /\ mailbox = <<event>> /\ EventTrue(event)
        /\ starting = {} /\ \A x \in Release : compiling[x] = 0
  BY DEF LoadInv, OneAtATime
<1>2. Head(mailbox) = event /\ Tail(mailbox) = <<>>
  BY <1>1
<1>3. \A m : m # Concerned(event) => ~UnderWay(m)
  BY <1>1, <1>2 DEF UnderWay
<1> QED
  BY <1>1, <1>2, <1>3 DEF LoadInv

LEMMA ActivatedLoads ==
  ASSUME StoreInv, LoadInv, event_activated
  PROVE  LoadInv'
<1>0. PICK new : new = Head(mailbox).release
  OBVIOUS
<1>1. /\ mailbox # <<>> /\ Head(mailbox).type = "Activated"
      /\ mailbox' = Tail(mailbox) /\ UNCHANGED <<components, starting>> /\ UNCHANGED tables
      /\ IF new.module \in CommandModules
            /\ \A x \in loaded(new.module) : x.version # new.version
           THEN compiling' = [compiling EXCEPT ![new] = @ + 1]
           ELSE UNCHANGED compiling
  BY <1>0 DEF event_activated, NextEvent, Own
<1>2. /\ mailbox' = <<>> /\ EventTrue(Head(mailbox))
      /\ starting = {} /\ \A x \in Release : compiling[x] = 0
      /\ \A m \in CommandModules : m # new.module => Settled(m)
  BY <1>0, <1>1, EventFound DEF Concerned
<1>3. /\ new \in ActiveReleases /\ new \in Release
      /\ Broken = {} => \A x \in loaded(new.module) : x.version = new.version
                                                        => x.code = new.code
      /\ \A x \in ActiveOf(new.module) : x = new
  BY <1>0, <1>1, <1>2, ReleaseFacts DEF EventTrue, ActiveOf
<1>4. ActiveReleases' = ActiveReleases /\ \A m : ActiveOf(m)' = ActiveOf(m)
  BY <1>1, RowsKeep DEF tables, Keeps, ActiveOf
<1>5. \A m : loaded(m)' = loaded(m)
  BY <1>1 DEF loaded
<1>6. \A m \in CommandModules : m # new.module => Settled(m)'
  BY <1>2, <1>4, <1>5, SettledStays
<1>7. \A x, y \in components' : x.module \in CommandModules /\ (x.module = y.module => x = y)
  BY <1>1 DEF LoadInv
<1>8. compiling \in [Release -> 0 .. 1]
  BY DEF LoadInv, OneAtATime
<1>9. CASE /\ new.module \in CommandModules
           /\ \A x \in loaded(new.module) : x.version # new.version
  <2>1. compiling' = [compiling EXCEPT ![new] = @ + 1]
    BY <1>1, <1>9
  <2>2. \A x \in Release : compiling'[x] = IF x = new THEN 1 ELSE 0
    BY <1>2, <1>3, <1>8, <2>1
  <2>3. compiling' \in [Release -> 0 .. 1]
    BY <1>2, <1>3, <1>8, <2>1
  <2>4. OneAtATime'
    BY <1>1, <1>2, <2>2, <2>3 DEF OneAtATime
  <2>5. UnderWay(new.module)'
    BY <1>3, <2>2 DEF UnderWay
  <2>6. \A x \in Release : x \in starting' \/ compiling'[x] > 0
          => x \in ActiveReleases' /\ x.module \in CommandModules
    BY <1>1, <1>2, <1>3, <1>4, <1>9, <2>2
  <2> QED
    BY <1>1, <1>2, <1>6, <1>7, <2>4, <2>5, <2>6 DEF LoadInv
<1>10. CASE ~(/\ new.module \in CommandModules
              /\ \A x \in loaded(new.module) : x.version # new.version)
  <2>1. compiling' = compiling
    BY <1>1, <1>10
  <2>2. OneAtATime'
    BY <1>1, <1>2, <1>8, <2>1 DEF OneAtATime
  <2>3. ASSUME new.module \in CommandModules PROVE Settled(new.module)'
    <3>1. PICK x \in loaded(new.module) : x.version = new.version
      BY <1>10, <2>3
    <3>2. x \in components /\ loaded(new.module) = {x}
      BY <3>1 DEF loaded, LoadInv
    <3>3. Settled(new.module)
      BY <1>3, <3>1, <3>2 DEF Settled, ActiveOf
    <3> QED
      BY <1>4, <1>5, <3>3, SettledStays
  <2>4. \A x \in Release : ~(x \in starting' \/ compiling'[x] > 0)
    BY <1>1, <1>2, <2>1
  <2> QED
    BY <1>1, <1>2, <1>6, <1>7, <2>2, <2>3, <2>4 DEF LoadInv
<1> QED
  BY <1>9, <1>10

LEMMA RemovedLoads ==
  ASSUME StoreInv, LoadInv, event_deactivated \/ event_deleted
  PROVE  LoadInv'
<1>0. PICK m : m = Head(mailbox).module
  OBVIOUS
<1>1. /\ mailbox # <<>> /\ Head(mailbox).type # "Activated"
      /\ mailbox' = Tail(mailbox) /\ UNCHANGED <<compiling, starting>> /\ UNCHANGED tables
      /\ components' = components \ loaded(m)
  BY <1>0 DEF event_deactivated, event_deleted, NextEvent, Own
<1>2. /\ mailbox' = <<>> /\ EventTrue(Head(mailbox))
      /\ starting = {} /\ \A x \in Release : compiling[x] = 0
      /\ \A n \in CommandModules : n # m => Settled(n)
  BY <1>0, <1>1, EventFound DEF Concerned
<1>3. ActiveOf(m) = {}
  BY <1>0, <1>1, <1>2 DEF EventTrue
<1>4. ActiveReleases' = ActiveReleases /\ \A n : ActiveOf(n)' = ActiveOf(n)
  BY <1>1, RowsKeep DEF tables, Keeps, ActiveOf
<1>5. loaded(m)' = {} /\ \A n : n # m => loaded(n)' = loaded(n)
  BY <1>1 DEF loaded
<1>6. Settled(m)'
  BY <1>3, <1>4, <1>5 DEF Settled
<1>7. \A n \in CommandModules : Settled(n)'
  BY <1>2, <1>4, <1>5, <1>6, SettledStays
<1>8. \A x, y \in components' : x.module \in CommandModules /\ (x.module = y.module => x = y)
  BY <1>1 DEF LoadInv
<1>9. OneAtATime'
  BY <1>1, <1>2 DEF LoadInv, OneAtATime
<1>10. starting' \subseteq Release /\ \A x \in Release : ~(x \in starting' \/ compiling'[x] > 0)
  BY <1>1, <1>2
<1> QED
  BY <1>7, <1>8, <1>9, <1>10 DEF LoadInv

\* A release that is loaded while it is active settles its module.
LEMMA LoadSettles ==
  ASSUME StoreInv, LoadInv, UNCHANGED tables, NEW x \in ActiveReleases, Load(x),
         x.module \in CommandModules
  PROVE  /\ Settled(x.module)'
         /\ \A m : m # x.module => loaded(m)' = loaded(m)
         /\ \A y, z \in components' :
              y.module \in CommandModules /\ (y.module = z.module => y = z)
<1>1. ActiveOf(x.module)' = {x}
  <2>1. ActiveOf(x.module) = {x}
    BY ReleaseFacts DEF ActiveOf
  <2> QED
    BY <2>1, RowsKeep DEF tables, Keeps, ActiveOf
<1>2. CASE x.code \in Broken
  <2>1. components' = components
    BY <1>2 DEF Load
  <2>2. Settled(x.module)'
    BY <1>1, <1>2 DEF Settled
  <2> QED
    BY <2>1, <2>2 DEF LoadInv, loaded
<1>3. CASE x.code \notin Broken
  <2>1. components' = (components \ loaded(x.module)) \cup {x}
    BY <1>3 DEF Load
  <2>2. loaded(x.module)' = {x} /\ \A m : m # x.module => loaded(m)' = loaded(m)
    BY <2>1 DEF loaded
  <2>3. Settled(x.module)'
    BY <1>1, <2>1, <2>2 DEF Settled
  <2>4. \A y, z \in components' :
          y.module \in CommandModules /\ (y.module = z.module => y = z)
    BY <2>1 DEF LoadInv, loaded
  <2> QED
    BY <2>2, <2>3, <2>4
<1> QED
  BY <1>2, <1>3

LEMMA CompiledLoads ==
  ASSUME StoreInv, LoadInv, NEW x \in Release, module_compiled(x)
  PROVE  LoadInv'
<1>1. /\ compiling[x] > 0 /\ compiling' = [compiling EXCEPT ![x] = @ - 1]
      /\ Load(x) /\ UNCHANGED tables /\ UNCHANGED <<mailbox, starting>>
  BY DEF module_compiled, Own
<1>2. compiling \in [Release -> 0 .. 1]
      /\ \A y \in Release : compiling[y] > 0 => y = x
  BY <1>1 DEF LoadInv, OneAtATime
<1>3. starting = {} /\ mailbox = <<>>
  BY <1>1, <1>2 DEF LoadInv, OneAtATime
<1>4. x \in ActiveReleases /\ x.module \in CommandModules
  BY <1>1 DEF LoadInv
<1>5. /\ Settled(x.module)'
      /\ \A m : m # x.module => loaded(m)' = loaded(m)
      /\ \A y, z \in components' :
           y.module \in CommandModules /\ (y.module = z.module => y = z)
  BY <1>1, <1>4, LoadSettles
<1>6. compiling' \in [Release -> 0 .. 1] /\ \A y \in Release : compiling'[y] = 0
  BY <1>1, <1>2
<1>7. \A m : ActiveOf(m)' = ActiveOf(m)
  BY <1>1, RowsKeep DEF tables, Keeps, ActiveOf
<1>8. ASSUME NEW m \in CommandModules, m # x.module PROVE Settled(m)'
  <2>1. ~UnderWay(m)
    BY <1>2, <1>3, <1>8 DEF UnderWay
  <2>2. Settled(m)
    BY <2>1 DEF LoadInv
  <2> QED
    BY <1>5, <1>7, <1>8, <2>2, SettledStays
<1>9. OneAtATime'
  BY <1>1, <1>3, <1>6 DEF OneAtATime
<1>10. starting' \subseteq Release /\ \A y \in Release : ~(y \in starting' \/ compiling'[y] > 0)
  BY <1>1, <1>3, <1>6
<1> QED
  BY <1>5, <1>8, <1>9, <1>10 DEF LoadInv

LEMMA StartLoads ==
  ASSUME StoreInv, LoadInv, NEW x \in Release, on_start_loads(x)
  PROVE  LoadInv'
<1>1. /\ x \in starting /\ starting' = starting \ {x}
      /\ Load(x) /\ UNCHANGED tables /\ UNCHANGED <<mailbox, compiling>>
  BY DEF on_start_loads, Own
<1>2. mailbox = <<>> /\ \A y \in Release : compiling[y] = 0
  BY <1>1 DEF LoadInv, OneAtATime
<1>3. x \in ActiveReleases /\ x.module \in CommandModules
  BY <1>1 DEF LoadInv
<1>4. /\ Settled(x.module)'
      /\ \A m : m # x.module => loaded(m)' = loaded(m)
      /\ \A y, z \in components' :
           y.module \in CommandModules /\ (y.module = z.module => y = z)
  BY <1>1, <1>3, LoadSettles
<1>5. ActiveReleases' = ActiveReleases /\ \A m : ActiveOf(m)' = ActiveOf(m)
  BY <1>1, RowsKeep DEF tables, Keeps, ActiveOf
<1>6. ASSUME NEW m \in CommandModules, m # x.module PROVE Settled(m)' \/ UnderWay(m)'
  <2>1. CASE UnderWay(m)
    <3>1. PICK y \in starting : y.module = m
      BY <1>2, <2>1 DEF UnderWay
    <3>2. y \in starting'
      BY <1>1, <1>6, <3>1
    <3> QED
      BY <3>1, <3>2 DEF UnderWay
  <2>2. CASE ~UnderWay(m)
    BY <1>4, <1>5, <1>6, <2>2, SettledStays DEF LoadInv
  <2> QED
    BY <2>1, <2>2
<1>7. OneAtATime'
  BY <1>1, <1>2 DEF LoadInv, OneAtATime
<1>8. /\ starting' \subseteq Release
      /\ \A y \in Release : y \in starting' \/ compiling'[y] > 0
           => y \in ActiveReleases' /\ y.module \in CommandModules
  BY <1>1, <1>5 DEF LoadInv
<1> QED
  BY <1>4, <1>6, <1>7, <1>8 DEF LoadInv

LEMMA RestartLoads ==
  ASSUME StoreInv, LoadInv, restart_process
  PROVE  LoadInv'
<1>1. /\ mailbox' = <<>> /\ compiling' = [x \in Release |-> 0] /\ components' = {}
      /\ UNCHANGED tables
      /\ starting' = {x \in ActiveReleases : x.module \in CommandModules}
  BY ReleaseFacts DEF restart_process
<1>2. ActiveReleases' = ActiveReleases /\ ActiveReleases \subseteq Release
      /\ \A m : ActiveOf(m)' = ActiveOf(m)
  BY <1>1, RowsKeep, ReleaseFacts DEF tables, Keeps, ActiveOf
<1>3. ASSUME NEW m \in CommandModules PROVE Settled(m)' \/ UnderWay(m)'
  <2>1. CASE ActiveOf(m) = {}
    BY <1>1, <1>2, <2>1 DEF Settled, loaded
  <2>2. CASE ActiveOf(m) # {}
    BY <1>1, <1>3, <2>2 DEF ActiveOf, UnderWay
  <2> QED
    BY <2>1, <2>2
<1>4. OneAtATime'
  BY <1>1 DEF OneAtATime
<1>5. /\ starting' \subseteq Release
      /\ \A x \in Release : x \in starting' \/ compiling'[x] > 0
           => x \in ActiveReleases' /\ x.module \in CommandModules
      /\ \A x, y \in components' : x.module \in CommandModules /\ (x.module = y.module => x = y)
  BY <1>1, <1>2
<1> QED
  BY <1>3, <1>4, <1>5 DEF LoadInv

LEMMA LoadStart == Init => LoadInv
<1> SUFFICES ASSUME Init PROVE LoadInv
  OBVIOUS
<1>1. /\ mailbox = <<>> /\ compiling = [x \in Release |-> 0] /\ components = {}
      /\ starting = {} /\ ActiveReleases = {}
  BY DEF Init, init, ActiveReleases, get_all_active_modules
<1>2. OneAtATime
  BY <1>1 DEF OneAtATime
<1>3. \A m : Settled(m)
  BY <1>1 DEF Settled, ActiveOf, loaded
<1> QED
  BY <1>1, <1>2, <1>3 DEF LoadInv

LEMMA LoadNext ==
  ASSUME IInv, IInv', LoadInv, Careful, [Next]_vars
  PROVE  LoadInv'
<1>0. StoreInv /\ StoreInv'
  BY DEF IInv
<1>1. ASSUME NEW c \in Clients, ApiStep(c) \/ UiStep(c) \/ CommonStep(c) PROVE LoadInv'
  <2>1. ClientEffect
    BY <1>1, ApiEffect, UiEffect, CommonEffect
  <2> QED
    BY <1>0, <2>1, ClientLoads
<1>2. CASE ActorStep
  BY <1>0, <1>2, ActivatedLoads, RemovedLoads, CompiledLoads, StartLoads DEF ActorStep
<1>3. CASE restart_process
  BY <1>0, <1>3, RestartLoads
<1>4. CASE UNCHANGED vars
  <2>1. UNCHANGED <<tables, actor>>
    BY <1>4 DEF vars
  <2> QED
    BY <2>1, RowsKeep, LoadFrame DEF tables
<1> QED
  BY <1>1, <1>2, <1>3, <1>4 DEF Next, Clients

\* When clients wait for one change to have its effect before they make the next,
\* what is loaded is what is active as soon as nothing is on its way, whatever
\* handlers, compilations and restarts of the process come in between.
THEOREM LoadedFollowsActive ==
  ASSUME Careful
  PROVE  Spec => []LoadedIsActive
<1>1. IInv /\ LoadInv /\ [Next]_vars => IInv' /\ LoadInv'
  BY NextInv, LoadNext
<1>2. Init => IInv /\ LoadInv
  BY InitInv, LoadStart
<1>3. LoadInv => LoadedIsActive
  BY QuietSettled DEF LoadedIsActive
<1> QED
  BY <1>1, <1>2, <1>3, PTL DEF Spec

-----------------------------------------------------------------------------
(* The shape of the state *)

\* What an upload is to activate is a version and its content.
Shape(x) == x.at = "upload" => x.version \in Versions /\ x.code \in Codes

Tells(c) ==
  /\ \E x : call' = [call EXCEPT ![c] = x] /\ Shape(x)
  /\ answer' \in Answer \cup {NoAnswer}

CommandRelease == [module : CommandModules, version : Versions, code : Codes]

ActorType ==
  /\ mailbox \in Seq(ModuleEvent)
  /\ compiling \in [Release -> Nat]
  /\ \A x \in Release : compiling[x] > 0 => x.module \in CommandModules
  /\ components \subseteq [module : CommandModules, version : Versions,
                           code : Codes \ Broken]
  /\ starting \subseteq CommandRelease

ClientType ==
  /\ \A c \in Clients : Shape(call[c])
  /\ answer \in Answer \cup {NoAnswer}
  /\ seen \in [Clients -> SUBSET Release]
  /\ withdrawn \in [Clients -> BOOLEAN]

LEMMA AskTells ==
  ASSUME NEW c, NEW at, NEW m, NEW v, NEW k, NEW previous, NEW versions,
         Ask(c, at, m, v, k, previous, versions),
         at # "upload" \/ (v \in Versions /\ k \in Codes)
  PROVE  Tells(c)
<1> DEFINE x == [at |-> at, module |-> m, version |-> v, code |-> k,
                 previous |-> previous, versions |-> versions]
<1>1. Shape(x)
  BY DEF Shape
<1> QED
  BY <1>1 DEF Ask, Tells

LEMMA RespondTellsType ==
  ASSUME NEW c, NEW response \in Answer \cup {NoAnswer}, Respond(c, response)
  PROVE  Tells(c)
<1>1. Shape(Idle)
  BY DEF Shape, Idle
<1> QED
  BY <1>1 DEF Respond, Tells

LEMMA ReportTells ==
  ASSUME NEW c, NEW m \in Modules, NEW flagged \in SUBSET Flag, Report(c, m, flagged)
  PROVE  Tells(c)
<1>1. [op |-> "details", module |-> m, flagged |-> flagged] \in Answer
  BY DEF Answer
<1> QED
  BY <1>1, RespondTellsType DEF Report

LEMMA ClientTells ==
  ASSUME IInv, ClientType, NEW c \in Clients, ApiStep(c) \/ UiStep(c) \/ CommonStep(c)
  PROVE  Tells(c)
<1>1. CASE upload_module(c) \/ upload_module_inner(c)
  <2>1. ASSUME NEW accepted, NEW m, NEW v \in Versions, NEW env, NEW k \in Codes, NEW act,
               SaveThen(c, accepted, m, v, env, k, act)
        PROVE  Tells(c)
    <3>1. Ask(c, "upload", m, v, k, NoVersion, {}) \/ Respond(c, NoAnswer)
      BY <2>1 DEF SaveThen
    <3> QED
      BY <3>1, AskTells, RespondTellsType
  <2>2. CASE upload_module(c)
    BY <2>1, <2>2 DEF upload_module
  <2>3. CASE upload_module_inner(c)
    BY <2>1, <2>3 DEF upload_module_inner
  <2> QED
    BY <1>1, <2>2, <2>3
<1>2. CASE upload_activates(c)
  <2>1. PICK reply : Respond(c, IF reply = "Ok"
            THEN [op |-> "upload", module |-> call[c].module,
                  version |-> call[c].version, code |-> call[c].code]
            ELSE NoAnswer)
    BY <1>2 DEF upload_activates
  <2>2. call[c].at = "upload" /\ call[c] \in Call
    BY <1>2, CallModule DEF upload_activates, Change, Serve
  <2>3. [op |-> "upload", module |-> call[c].module,
         version |-> call[c].version, code |-> call[c].code] \in Answer
    BY <2>2 DEF Answer, Call, ClientType, Shape
  <2> QED
    BY <2>1, <2>3, RespondTellsType
<1>3. CASE activate_writes(c)
  <2>1. PICK reply : Respond(c, IF reply = "Ok"
            THEN [op |-> "activate", module |-> call[c].module,
                  previous |-> call[c].previous]
            ELSE NoAnswer)
    BY <1>3 DEF activate_writes
  <2>2. call[c] \in Call
    BY <1>3, CallModule DEF activate_writes, Change, Serve
  <2>3. [op |-> "activate", module |-> call[c].module,
         previous |-> call[c].previous] \in Answer
    BY <2>2 DEF Answer, Call
  <2> QED
    BY <2>1, <2>3, RespondTellsType
<1>4. CASE deactivate_writes(c)
  <2>1. call[c] \in Call
    BY <1>4, CallModule DEF deactivate_writes, Change, Serve
  <2>2. [op |-> "deactivate", module |-> call[c].module,
         previous |-> call[c].previous] \in Answer
    BY <2>1 DEF Answer, Call
  <2> QED
    BY <1>4, <2>2, RespondTellsType DEF deactivate_writes
<1>5. CASE activate_reads(c) \/ deactivate_reads(c) \/ delete_counts(c)
           \/ get_module_details(c) \/ version_details_loads(c) \/ list_reads_active(c)
           \/ render_versions_table(c) \/ list_commands(c) \/ row_active(c)
           \/ get_command(c) \/ page_flags(c)
  <2>1. \E at, m, v, k, previous, versions :
          at # "upload" /\ Ask(c, at, m, v, k, previous, versions)
    BY <1>5 DEF activate_reads, deactivate_reads, delete_counts, get_module_details,
                version_details_loads, list_reads_active, render_versions_table,
                list_commands, row_active, get_command, page_flags, AskAbout
  <2> QED
    BY <2>1, AskTells
<1>6. CASE activate(c) \/ deactivate(c) \/ delete_version(c)
  <2>1. (\E m : Ask(c, "details", m, NoVersion, "none", NoVersion, {}))
        \/ Respond(c, NoAnswer)
    BY <1>6 DEF activate, deactivate, delete_version
  <2> QED
    BY <2>1, AskTells, RespondTellsType
<1>7. CASE delete_writes(c) \/ delete_module_of(c) \/ delete_module_version_of(c)
           \/ set_env_var_of(c) \/ delete_env_var_of(c)
  <2>1. Respond(c, NoAnswer)
    BY <1>7 DEF delete_writes, delete_module_of, delete_module_version_of,
                set_env_var_of, delete_env_var_of
  <2> QED
    BY <2>1, RespondTellsType
<1>8. CASE details_flags(c)
  <2>1. call[c] \in Call
    BY <1>8, CallModule DEF details_flags, ReadMore, Read, Serve
  <2>2. {f \in call[c].versions : IsActive(call[c].module, f)} \in SUBSET Flag
        /\ call[c].module \in Modules
    BY <2>1 DEF Call
  <2> QED
    BY <1>8, <2>2, ReportTells DEF details_flags
<1>9. CASE list_reads_versions(c)
  <2>1. call[c] \in Call
    BY <1>9, CallModule DEF list_reads_versions, ReadMore, Read, Serve
  <2>2. call[c].module \in Modules
    BY <2>1 DEF Call
  <2>3. {f \in Flags(call[c].module) : f.version = call[c].previous} \in SUBSET Flag
    BY <2>2, FlagsType DEF IInv
  <2> QED
    BY <1>9, <2>2, <2>3, ReportTells DEF list_reads_versions
<1>10. CASE list_active_modules(c)
  <2>1. PICK m \in Modules : Report(c, m, {f \in Flags(m) : IsActive(m, f)})
    BY <1>10 DEF list_active_modules
  <2>2. {f \in Flags(m) : IsActive(m, f)} \in SUBSET Flag
    BY FlagsType DEF IInv
  <2> QED
    BY <2>1, <2>2, ReportTells
<1>11. CASE active_commands(c)
  <2>1. call[c] \in Call
    BY <1>11, CallModule DEF active_commands, ReadMore, Read, Serve
  <2>2. call[c].module \in Modules /\ call[c].versions \in SUBSET Flag
    BY <2>1 DEF Call
  <2> QED
    BY <1>11, <2>2, ReportTells DEF active_commands
<1> QED
  BY <1>1, <1>2, <1>3, <1>4, <1>5, <1>6, <1>7, <1>8, <1>9, <1>10, <1>11
     DEF ApiStep, UiStep, CommonStep

LEMMA ClientTypeKept ==
  ASSUME IInv, IInv', ClientType, NEW c \in Clients, Tells(c), ClientMoves(c)
  PROVE  ClientType'
<1>1. PICK x : call' = [call EXCEPT ![c] = x] /\ Shape(x)
  BY DEF Tells
<1>2. \A d \in Clients : Shape(call'[d])
  BY <1>1 DEF ClientType, IInv, CallType
<1>3. PICK deletes \in BOOLEAN : Record(deletes)
  BY DEF ClientMoves
<1>4. ActiveReleases \subseteq Release /\ ActiveReleases' \subseteq Release
  BY DEF ActiveReleases, get_all_active_modules, Release
<1>5. seen' \in [Clients -> SUBSET Release]
  BY <1>3, <1>4 DEF Record, ClientType
<1>6. withdrawn' \in [Clients -> BOOLEAN]
  BY <1>3 DEF Record, ClientType
<1> QED
  BY <1>2, <1>5, <1>6 DEF ClientType, Tells

LEMMA ActorTypeKept ==
  ASSUME ActorType, ClientEffect
  PROVE  ActorType'
<1>1. mailbox' \in Seq(ModuleEvent)
  <2>1. CASE UNCHANGED mailbox
    BY <2>1 DEF ActorType
  <2>2. ASSUME NEW event \in ModuleEvent, Publish(event) PROVE mailbox' \in Seq(ModuleEvent)
    BY <2>2, AppendProperties DEF Publish, ActorType
  <2>3. \A r \in Release : [type |-> "Activated", release |-> r] \in ModuleEvent
    BY DEF ModuleEvent
  <2>4. \A m \in Modules, type \in {"Deactivated", "Deleted"} :
          [type |-> type, module |-> m] \in ModuleEvent
    BY DEF ModuleEvent
  <2> QED
    BY <2>1, <2>2, <2>3, <2>4 DEF ClientEffect, Announces
<1> QED
  BY <1>1 DEF ActorType, ClientEffect

LEMMA LoadType ==
  ASSUME ActorType, NEW x \in CommandRelease, Load(x)
  PROVE  components' \subseteq [module : CommandModules, version : Versions,
                                code : Codes \ Broken]
<1>1. x.code \notin Broken => x \in [module : CommandModules, version : Versions,
                                     code : Codes \ Broken]
  BY DEF CommandRelease
<1> QED
  BY <1>1 DEF ActorType, Load, loaded

LEMMA ActorTypeStep ==
  ASSUME ActorType, ActorStep
  PROVE  ActorType'
<1>1. ASSUME NEW type, NextEvent(type)
      PROVE  mailbox' \in Seq(ModuleEvent) /\ Head(mailbox) \in ModuleEvent
             /\ Head(mailbox).type = type
  BY <1>1, HeadTailProperties DEF NextEvent, ActorType
<1>2. CASE event_activated
  <2> DEFINE new == Head(mailbox).release
  <2>1. mailbox' \in Seq(ModuleEvent) /\ Head(mailbox) \in ModuleEvent
        /\ Head(mailbox).type = "Activated"
    BY <1>1, <1>2 DEF event_activated
  <2>2. new \in Release
    BY <2>1 DEF ModuleEvent
  <2>3. /\ compiling' \in [Release -> Nat]
        /\ \A x \in Release : compiling'[x] > 0 => x.module \in CommandModules
    BY <1>2, <2>2 DEF event_activated, ActorType
  <2> QED
    BY <1>2, <2>1, <2>3 DEF event_activated, ActorType
<1>3. CASE event_deactivated
  <2>1. mailbox' \in Seq(ModuleEvent)
    BY <1>1, <1>3 DEF event_deactivated
  <2> QED
    BY <1>3, <2>1 DEF event_deactivated, ActorType
<1>4. CASE event_deleted
  <2>1. mailbox' \in Seq(ModuleEvent)
    BY <1>1, <1>4 DEF event_deleted
  <2> QED
    BY <1>4, <2>1 DEF event_deleted, ActorType
<1>5. ASSUME NEW x \in Release, module_compiled(x) PROVE ActorType'
  <2>1. x \in CommandRelease /\ compiling[x] \in Nat
    BY <1>5 DEF module_compiled, ActorType, Release, CommandRelease
  <2>2. Load(x) /\ compiling' = [compiling EXCEPT ![x] = @ - 1] /\ compiling[x] > 0
    BY <1>5 DEF module_compiled
  <2>3. /\ compiling' \in [Release -> Nat]
        /\ \A y \in Release : compiling'[y] > 0 => y.module \in CommandModules
    BY <2>1, <2>2 DEF ActorType
  <2> QED
    BY <1>5, <2>1, <2>2, <2>3, LoadType DEF module_compiled, ActorType
<1>6. ASSUME NEW x \in Release, on_start_loads(x) PROVE ActorType'
  <2>1. x \in CommandRelease /\ Load(x) /\ starting' \subseteq starting
    BY <1>6 DEF on_start_loads, ActorType
  <2> QED
    BY <1>6, <2>1, LoadType DEF on_start_loads, ActorType
<1> QED
  BY <1>2, <1>3, <1>4, <1>5, <1>6 DEF ActorStep

LEMMA StartsTyped ==
  ASSUME Init \/ restart_process, IInv
  PROVE  (Init => ActorType /\ ClientType) /\ (restart_process => ActorType' /\ ClientType')
<1>1. <<>> \in Seq(ModuleEvent)
  BY EmptySeq
<1>2. Shape(Idle)
  BY DEF Shape, Idle
<1>3. ASSUME Init PROVE ActorType /\ ClientType
  BY <1>1, <1>2, <1>3 DEF Init, ActorType, ClientType
<1>4. ASSUME restart_process PROVE ActorType' /\ ClientType'
  <2>1. get_all_active_modules(CommandModules) \subseteq CommandRelease
    BY DEF get_all_active_modules, CommandRelease
  <2>2. ActorType'
    BY <1>1, <1>4, <2>1 DEF restart_process, ActorType
  <2>3. ClientType'
    BY <1>2, <1>4 DEF restart_process, ClientType
  <2> QED
    BY <2>2, <2>3
<1> QED
  BY <1>3, <1>4

LEMMA TypesKept ==
  ASSUME IInv, IInv', ActorType, ClientType, [Next]_vars
  PROVE  ActorType' /\ ClientType'
<1>1. ASSUME NEW c \in Clients, ApiStep(c) \/ UiStep(c) \/ CommonStep(c),
             ClientMoves(c), ClientEffect
      PROVE  ActorType' /\ ClientType'
  BY <1>1, ClientTells, ClientTypeKept, ActorTypeKept
<1>2. ASSUME NEW c \in ApiClients, ApiStep(c) PROVE ActorType' /\ ClientType'
  <2>1. c \in Clients
    BY DEF Clients
  <2> QED
    BY <1>1, <1>2, <2>1, ApiMoves, ApiEffect
<1>3. ASSUME NEW c \in UiClients, UiStep(c) PROVE ActorType' /\ ClientType'
  <2>1. c \in Clients
    BY DEF Clients
  <2> QED
    BY <1>1, <1>3, <2>1, UiMoves, UiEffect
<1>4. ASSUME NEW c \in Clients, CommonStep(c) PROVE ActorType' /\ ClientType'
  BY <1>1, <1>4, CommonMoves, CommonEffect
<1>5. CASE ActorStep
  BY <1>5, ActorTypeStep, ActorKeeps DEF ClientType
<1>6. CASE restart_process
  BY <1>6, StartsTyped
<1>7. CASE UNCHANGED vars
  BY <1>7 DEF vars, clients, actor, ActorType, ClientType
<1> QED
  BY <1>2, <1>3, <1>4, <1>5, <1>6, <1>7 DEF Next

\* The state of the store, its clients and the command actor has its shape:
\* in particular only commands that work are ever loaded.
THEOREM TypeCorrect == Spec => []TypeOK
<1>1. Init => IInv /\ ActorType /\ ClientType
  BY InitInv, StartsTyped
<1>2. IInv /\ ActorType /\ ClientType /\ [Next]_vars => IInv' /\ ActorType' /\ ClientType'
  BY NextInv, TypesKept
<1>3. IInv /\ ActorType /\ ClientType => TypeOK
  BY ModulesAssumption DEF IInv, StoreInv, CallType, ActorType, ClientType, TypeOK,
     CommandRelease, Release
<1> QED
  BY <1>1, <1>2, <1>3, PTL DEF Spec

=============================================================================
