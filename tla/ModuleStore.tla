----------------------------- MODULE ModuleStore -----------------------------
(***************************************************************************)
(* The module store: the tables of SqliteModuleStore                       *)
(* (crates/runtime/src/module_store/sqlite.rs) behind the messages of      *)
(* ModuleStoreActor (actor.rs in the same directory), which handles one    *)
(* message at a time.  An operation takes its reply as its last parameter: *)
(* the operation is enabled for the replies it may give.                   *)
(*                                                                         *)
(* Row ids are those of SQLite: an INTEGER PRIMARY KEY without             *)
(* AUTOINCREMENT takes one more than the largest id in the table, so an id *)
(* comes back when the newest rows have been deleted.  The crypto keys of  *)
(* the same database are modelled in CommandTx.                            *)
(***************************************************************************)
EXTENDS Integers, FiniteSets

CONSTANTS
  Modules,      \* pairs of a module type and a name
  CommandModules, \* the modules of type Command
  InvalidNames, \* the modules whose name is_valid_module_name refuses
  Versions,
  NoVersion,    \* Option::None for a version
  Codes,        \* contents of a WASM file
  Keys, Values  \* of environment variables

ASSUME ModulesAssumption ==
  /\ CommandModules \subseteq Modules
  /\ InvalidNames \subseteq Modules
  /\ NoVersion \notin Versions

VARIABLES
  modules,         \* rows of table modules
  active_modules,  \* rows of table active_modules
  module_env_vars  \* rows of table module_env_vars

tables == <<modules, active_modules, module_env_vars>>

Row     == [id : Nat, module : Modules, version : Versions, code : Codes]
Active  == [module : Modules, id : Nat]
EnvVar  == [module : Modules, key : Keys, value : Values]
Settings == SUBSET [key : Keys, value : Values]

\* CREATE TABLE IF NOT EXISTS: a new database is empty, one of before is kept.
init ==
  /\ modules = {}
  /\ active_modules = {}
  /\ module_env_vars = {}

-----------------------------------------------------------------------------
(* Reads *)

is_valid_module_name(m) == m \notin InvalidNames

RowsOf(m)     == {r \in modules : r.module = m}
RowsAt(m, v)  == {r \in modules : r.module = m /\ r.version = v}

load_module(m, v) == {r.code : r \in RowsAt(m, v)}

\* The join of active_modules with modules on the id, for one module.
get_active_module(m) ==
  {r \in modules : \E a \in active_modules : a.module = m /\ a.id = r.id}

\* The same join for all of a type: the module is the one of the active row.
get_all_active_modules(type) ==
  {x \in [module : type, version : Versions, code : Codes] :
     \E a \in active_modules, r \in modules :
       a.id = r.id /\ a.module = x.module /\ r.version = x.version /\ r.code = x.code}

get_all_module_names(type) == {m \in type : RowsOf(m) # {}}

-----------------------------------------------------------------------------
(* Modules *)

\* INSERT OR REPLACE of one variable, in rows that have at most one of a key.
Replace(vars, m, key, value) ==
  {e \in vars : ~(e.module = m /\ e.key = key)}
    \cup {[module |-> m, key |-> key, value |-> value]}

WithEnv(m, env) ==
  {e \in module_env_vars : ~(e.module = m /\ \E x \in env : x.key = e.key)}
    \cup {[module |-> m, key |-> x.key, value |-> x.value] : x \in env}

\* The rowid SQLite gives the next row.
NextIds ==
  {i \in {1} \cup {r.id + 1 : r \in modules} : \A r \in modules : r.id < i}

\* Mutant: without UNIQUE(module_type, name, version).
save_without_unique(m, v, env, c, reply) ==
  /\ reply = "Ok"
  /\ is_valid_module_name(m)
  /\ c \notin load_module(m, v)
  /\ \E i \in NextIds :
       modules' = modules \cup {[id |-> i, module |-> m, version |-> v, code |-> c]}
  /\ module_env_vars' = WithEnv(m, env)
  /\ UNCHANGED active_modules

\* The variables are written in the same transaction, which is rolled back when
\* the version exists, whatever its code.
save_module(m, v, env, c, reply) ==
  \/ /\ reply = "InvalidName"
     /\ ~is_valid_module_name(m)
     /\ UNCHANGED tables
  \/ /\ reply = "ModuleExistsWithSameHash"
     /\ is_valid_module_name(m)
     /\ c \in load_module(m, v)
     /\ UNCHANGED tables
  \/ /\ reply = "ModuleAlreadyExists"
     /\ is_valid_module_name(m)
     /\ load_module(m, v) # {}
     /\ c \notin load_module(m, v)
     /\ UNCHANGED tables
  \/ /\ reply = "Ok"
     /\ is_valid_module_name(m)
     /\ RowsAt(m, v) = {}
     /\ \E i \in NextIds :
          modules' = modules \cup {[id |-> i, module |-> m, version |-> v, code |-> c]}
     /\ module_env_vars' = WithEnv(m, env)
     /\ UNCHANGED active_modules

activate_module(m, v, reply) ==
  \/ /\ reply = "ModuleNotFound"
     /\ RowsAt(m, v) = {}
     /\ UNCHANGED tables
  \/ /\ reply = "Ok"
     /\ \E r \in RowsAt(m, v) :
          active_modules' = {a \in active_modules : a.module # m}
                              \cup {[module |-> m, id |-> r.id]}
     /\ UNCHANGED <<modules, module_env_vars>>

\* The reply tells whether there was an active version, and so whether an event
\* is published.
deactivate_module(m, reply) ==
  /\ reply = (\E a \in active_modules : a.module = m)
  /\ active_modules' = {a \in active_modules : a.module # m}
  /\ UNCHANGED <<modules, module_env_vars>>

\* Mutant: a version is deleted even when it is active.
delete_version_unchecked(m, v, reply) ==
  /\ reply = IF RowsAt(m, v) = {} THEN "NotDeleted" ELSE "Ok"
  /\ modules' = modules \ RowsAt(m, v)
  /\ UNCHANGED <<active_modules, module_env_vars>>

\* A version is looked for among the active ones by its row id alone.
delete_module_version(m, v, reply) ==
  \/ /\ reply = "NotDeleted"
     /\ RowsAt(m, v) = {}
     /\ UNCHANGED tables
  \/ /\ reply = "CannotDeleteActiveVersion"
     /\ \E r \in RowsAt(m, v), a \in active_modules : a.id = r.id
     /\ UNCHANGED tables
  \/ /\ reply = "Ok"
     /\ RowsAt(m, v) # {}
     /\ \A r \in RowsAt(m, v), a \in active_modules : a.id # r.id
     /\ modules' = modules \ RowsAt(m, v)
     /\ UNCHANGED <<active_modules, module_env_vars>>

\* Mutant: the row of the active version is left behind.
delete_module_leaves_active(m, reply) ==
  /\ reply = (RowsOf(m) # {})
  /\ modules' = modules \ RowsOf(m)
  /\ module_env_vars' = {e \in module_env_vars : e.module # m}
  /\ UNCHANGED active_modules

delete_module(m, reply) ==
  /\ reply = (RowsOf(m) # {})
  /\ active_modules' = {a \in active_modules : a.module # m}
  /\ module_env_vars' = {e \in module_env_vars : e.module # m}
  /\ modules' = modules \ RowsOf(m)

-----------------------------------------------------------------------------
(* Environment variables *)

set_env_var(m, key, value) ==
  /\ module_env_vars' = Replace(module_env_vars, m, key, value)
  /\ UNCHANGED <<modules, active_modules>>

delete_env_var(m, key, reply) ==
  /\ reply = (\E e \in module_env_vars : e.module = m /\ e.key = key)
  /\ module_env_vars' = {e \in module_env_vars : ~(e.module = m /\ e.key = key)}
  /\ UNCHANGED <<modules, active_modules>>

-----------------------------------------------------------------------------
SaveReplies ==
  {"Ok", "InvalidName", "ModuleExistsWithSameHash", "ModuleAlreadyExists"}
DeleteReplies == {"Ok", "NotDeleted", "CannotDeleteActiveVersion"}

StoreStep ==
  \/ \E m \in Modules, v \in Versions :
       \/ \E env \in Settings, c \in Codes, r \in SaveReplies :
            save_module(m, v, env, c, r)
       \/ \E r \in {"Ok", "ModuleNotFound"} : activate_module(m, v, r)
       \/ \E r \in DeleteReplies : delete_module_version(m, v, r)
  \/ \E m \in Modules :
       \/ \E r \in BOOLEAN : deactivate_module(m, r) \/ delete_module(m, r)
       \/ \E key \in Keys :
            \/ \E value \in Values : set_env_var(m, key, value)
            \/ \E r \in BOOLEAN : delete_env_var(m, key, r)

StoreSpec == init /\ [][StoreStep]_tables

-----------------------------------------------------------------------------
(* Properties *)

\* The shape of the tables and their keys: PRIMARY KEY and UNIQUE of init.
StoreTypeOK ==
  /\ modules \subseteq Row
  /\ active_modules \subseteq Active
  /\ module_env_vars \subseteq EnvVar

UniqueRows ==
  /\ \A r, s \in modules : r.id = s.id => r = s
  /\ \A r, s \in modules : r.module = s.module /\ r.version = s.version => r = s
  /\ \A a, b \in active_modules : a.module = b.module => a = b

\* The row an active_modules row points to is there and is a version of the same
\* module, although ids are reused: no operation leaves a dangling reference.
ActiveRowOwned ==
  \A a \in active_modules : \E r \in modules : r.id = a.id /\ r.module = a.module

\* The store seen by its clients.
Published ==
  {[module |-> r.module, version |-> r.version, code |-> r.code] : r \in modules}
ActiveChoices ==
  {x \in [module : Modules, version : Versions] :
     \E a \in active_modules, r \in modules :
       a.id = r.id /\ a.module = x.module /\ r.version = x.version}

Promised == INSTANCE Catalog WITH published <- Published, active <- ActiveChoices

\* The tables implement the catalogue: a version's code never changes while it is
\* published, an active version is a published version of that module, and it
\* cannot be deleted, with row ids reused and joined across tables.
CatalogSpec == Promised!Spec
=============================================================================
