----------------------------- MODULE Deployment -----------------------------
(***************************************************************************)
(* Module deployment: clients of the HTTP API and of the web UI            *)
(* (crates/api/src/routes/modules/, crates/ui/src/routes/), the module     *)
(* store they ask, and the actor that keeps the commands loaded            *)
(* (CommandActor, crates/runtime/src/command/actor.rs).                    *)
(*                                                                         *)
(* The store handles one message at a time, but a handler of the API asks  *)
(* it several times and other clients come in between.  The store tells    *)
(* the pubsub what changed; the command actor compiles what was activated  *)
(* in tasks of their own and loads what they return.                       *)
(***************************************************************************)
EXTENDS ModuleStore, Sequences

CONSTANTS
  ApiClients, UiClients,
  Broken,       \* codes that do not compile, or fail to instantiate
  Careful,      \* do clients wait for one change before they make the next?
  MaxRequests,  \* bound: requests that change modules
  MaxReads,     \* bound: requests that read
  MaxRestarts   \* bound: restarts of the process

Clients == ApiClients \cup UiClients

ASSUME DeploymentAssumption ==
  /\ Broken \subseteq Codes /\ Careful \in BOOLEAN
  /\ MaxRequests \in Nat /\ MaxReads \in Nat /\ MaxRestarts \in Nat

VARIABLES
  call,        \* what each client's request has come to
  answer,      \* the response given in the last step, if any
  seen,        \* history: what was active during each request
  withdrawn,   \* history: was a version deleted during the request?
  mailbox,     \* module events on their way to the command actor
  compiling,   \* compilation tasks
  components,  \* the command actor's map of loaded modules
  starting,    \* what on_start has still to load
  requests, reads, restarts

clients == <<call, seen, withdrawn, requests, reads>>
actor   == <<mailbox, compiling, components, starting>>
vars == <<tables, clients, answer, actor, restarts>>

Types   == {CommandModules, Modules \ CommandModules}
Release == [module : Modules, version : Versions, code : Codes]
Flag    == [version : Versions, code : Codes]

ModuleEvent ==
  [type : {"Activated"}, release : Release]
    \cup [type : {"Deactivated", "Deleted"}, module : Modules]

\* at: what the handler asks the store next; previous and versions: what it read.
Call ==
  [at : {"upload", "activate", "deactivate", "delete", "details", "flags", "list",
         "page", "row", "loaded"},
   module : Modules, version : Versions \cup {NoVersion}, code : Codes \cup {"none"},
   previous : Versions \cup {NoVersion}, versions : SUBSET Flag]
Idle == [at |-> "idle"]

Answer ==
  [op : {"upload"}, module : Modules, version : Versions, code : Codes]
    \cup [op : {"activate", "deactivate"}, module : Modules,
          previous : Versions \cup {NoVersion}]
    \cup [op : {"details"}, module : Modules, flagged : SUBSET Flag]
NoAnswer == [op |-> "none"]

-----------------------------------------------------------------------------
(* What the store's messages amount to *)

ActiveVersion(m) ==
  IF get_active_module(m) = {} THEN NoVersion
  ELSE (CHOOSE r \in get_active_module(m) : TRUE).version

ActiveReleases == get_all_active_modules(Modules)
Flags(m) == {[version |-> r.version, code |-> r.code] : r \in RowsOf(m)}

\* Nothing is on its way to the command actor.
Quiet ==
  /\ mailbox = <<>>
  /\ \A r \in Release : compiling[r] = 0
  /\ starting = {}

Publish(event) == mailbox' = Append(mailbox, event)

ActivateModule(m, v, reply) ==
  /\ activate_module(m, v, reply)
  /\ IF reply = "Ok"
       THEN \E r \in RowsAt(m, v) :
              Publish([type |-> "Activated", release |->
                       [module |-> m, version |-> v, code |-> r.code]])
       ELSE UNCHANGED mailbox

DeactivateModule(m) ==
  \E reply \in BOOLEAN :
    /\ deactivate_module(m, reply)
    /\ IF reply THEN Publish([type |-> "Deactivated", module |-> m])
                ELSE UNCHANGED mailbox

DeleteModule(m, reply) ==
  /\ delete_module(m, reply)
  /\ IF reply THEN Publish([type |-> "Deleted", module |-> m])
              ELSE UNCHANGED mailbox

-----------------------------------------------------------------------------
Init ==
  /\ init
  /\ call = [c \in Clients |-> Idle]
  /\ answer = NoAnswer
  /\ seen = [c \in Clients |-> {}]
  /\ withdrawn = [c \in Clients |-> FALSE]
  /\ mailbox = <<>>
  /\ compiling = [r \in Release |-> 0]
  /\ components = {}
  /\ starting = {}
  /\ requests = 0 /\ reads = 0 /\ restarts = 0

\* A client is served: the API starts when the runtime has, and a careful client
\* changes nothing while an earlier change is on its way.
Serve(c, at) ==
  /\ call[c].at = at
  /\ starting = {}

Change(c, at) ==
  /\ Serve(c, at)
  /\ Careful => Quiet
  /\ IF at = "idle" THEN requests < MaxRequests /\ requests' = requests + 1
                    ELSE UNCHANGED requests
  /\ UNCHANGED <<compiling, components, starting, reads, restarts>>

Read(c, at) ==
  /\ Serve(c, at)
  /\ UNCHANGED <<tables, actor, restarts>>

ChangingRead(c) ==
  /\ Read(c, "idle")
  /\ requests < MaxRequests
  /\ requests' = requests + 1
  /\ UNCHANGED reads

FirstRead(c) ==
  /\ Read(c, "idle")
  /\ reads < MaxReads
  /\ reads' = reads + 1
  /\ UNCHANGED requests

\* The history of the requests under way.
Record(deletes) ==
  /\ seen' = [c \in Clients |-> IF call'[c] = Idle THEN {}
                                ELSE seen[c] \cup ActiveReleases \cup ActiveReleases']
  /\ withdrawn' = [c \in Clients |->
       call'[c] # Idle /\ (withdrawn[c] \/ (deletes /\ call[c] # Idle))]

Ask(c, at, m, v, k, previous, versions) ==
  /\ call' = [call EXCEPT ![c] =
       [at |-> at, module |-> m, version |-> v, code |-> k,
        previous |-> previous, versions |-> versions]]
  /\ answer' = NoAnswer

Respond(c, response) ==
  /\ call' = [call EXCEPT ![c] = Idle]
  /\ answer' = response

-----------------------------------------------------------------------------
(* Uploads *)

\* The part the two upload handlers share: which replies of the store count as
\* success, and the activation that may follow.
SaveThen(c, accepted, m, v, env, k, activate) ==
  /\ Change(c, "idle")
  /\ \E reply \in SaveReplies :
       /\ save_module(m, v, env, k, reply)
       /\ IF reply \in accepted /\ activate
            THEN Ask(c, "upload", m, v, k, NoVersion, {})
            ELSE Respond(c, NoAnswer)
  /\ UNCHANGED mailbox
  /\ Record(FALSE)

\* Mutant: any existing version counts as uploaded.
upload_accepts_other_code(c) ==
  \E m \in Modules, v \in Versions, env \in Settings, k \in Codes, act \in BOOLEAN :
    SaveThen(c, {"Ok", "ModuleExistsWithSameHash", "ModuleAlreadyExists"},
             m, v, env, k, act)

\* The API: a version that exists with the same content is a success.
upload_module(c) ==
  \E m \in Modules, v \in Versions, env \in Settings, k \in Codes, act \in BOOLEAN :
    SaveThen(c, {"Ok", "ModuleExistsWithSameHash"}, m, v, env, k, act)

\* The UI: it is an error, and nothing is activated.
upload_module_inner(c) ==
  \E m \in Modules, v \in Versions, k \in Codes, act \in BOOLEAN :
    SaveThen(c, {"Ok"}, m, v, {}, k, act)

upload_activates(c) ==
  /\ Change(c, "upload")
  /\ \E reply \in {"Ok", "ModuleNotFound"} :
       /\ ActivateModule(call[c].module, call[c].version, reply)
       /\ Respond(c, IF reply = "Ok"
            THEN [op |-> "upload", module |-> call[c].module,
                  version |-> call[c].version, code |-> call[c].code]
            ELSE NoAnswer)
  /\ Record(FALSE)

-----------------------------------------------------------------------------
(* Activation and deactivation.  The API reads the active version first,   *)
(* to report it; the UI reads the versions afterwards, to show them.       *)

activate_reads(c) ==
  /\ ChangingRead(c)
  /\ \E m \in Modules, v \in Versions :
       Ask(c, "activate", m, v, "none", ActiveVersion(m), {})
  /\ Record(FALSE)

activate_writes(c) ==
  /\ Change(c, "activate")
  /\ \E reply \in {"Ok", "ModuleNotFound"} :
       /\ ActivateModule(call[c].module, call[c].version, reply)
       /\ Respond(c, IF reply = "Ok"
            THEN [op |-> "activate", module |-> call[c].module,
                  previous |-> call[c].previous]
            ELSE NoAnswer)
  /\ Record(FALSE)

deactivate_reads(c) ==
  /\ ChangingRead(c)
  /\ \E m \in Modules :
       Ask(c, "deactivate", m, NoVersion, "none", ActiveVersion(m), {})
  /\ Record(FALSE)

deactivate_writes(c) ==
  /\ Change(c, "deactivate")
  /\ DeactivateModule(call[c].module)
  /\ Respond(c, [op |-> "deactivate", module |-> call[c].module,
                 previous |-> call[c].previous])
  /\ Record(FALSE)

activate(c) ==
  /\ Change(c, "idle")
  /\ \E m \in Modules, v \in Versions, reply \in {"Ok", "ModuleNotFound"} :
       /\ ActivateModule(m, v, reply)
       /\ IF reply = "Ok" THEN Ask(c, "details", m, NoVersion, "none", NoVersion, {})
                          ELSE Respond(c, NoAnswer)
  /\ Record(FALSE)

deactivate(c) ==
  /\ Change(c, "idle")
  /\ \E m \in Modules :
       /\ DeactivateModule(m)
       /\ Ask(c, "details", m, NoVersion, "none", NoVersion, {})
  /\ Record(FALSE)

-----------------------------------------------------------------------------
(* Deletion *)

\* A version that has rows and is deleted makes earlier answers about it stale.
\* The API is done then ...
delete_module_version_of(c) ==
  /\ Change(c, "idle")
  /\ \E m \in Modules, v \in Versions, reply \in DeleteReplies :
       /\ delete_module_version(m, v, reply)
       /\ Respond(c, NoAnswer)
       /\ Record(reply = "Ok")
  /\ UNCHANGED mailbox

\* ... and the UI shows the versions that are left, also when there was none to delete.
delete_version(c) ==
  /\ Change(c, "idle")
  /\ \E m \in Modules, v \in Versions, reply \in DeleteReplies :
       /\ delete_module_version(m, v, reply)
       /\ IF reply = "CannotDeleteActiveVersion"
            THEN Respond(c, NoAnswer)
            ELSE Ask(c, "details", m, NoVersion, "none", NoVersion, {})
       /\ Record(reply = "Ok")
  /\ UNCHANGED mailbox

\* The number of versions is read first and reported as what was deleted.
delete_counts(c) ==
  /\ ChangingRead(c)
  /\ \E m \in Modules : Ask(c, "delete", m, NoVersion, "none", NoVersion, Flags(m))
  /\ Record(FALSE)

delete_writes(c) ==
  /\ Change(c, "delete")
  /\ \E reply \in BOOLEAN :
       /\ DeleteModule(call[c].module, reply)
       /\ Respond(c, NoAnswer)
       /\ Record(reply)

\* The UI does not count.
delete_module_of(c) ==
  /\ Change(c, "idle")
  /\ \E m \in Modules, reply \in BOOLEAN :
       /\ DeleteModule(m, reply)
       /\ Respond(c, NoAnswer)
       /\ Record(reply)

-----------------------------------------------------------------------------
(* Reports *)

ReadMore(c, at) ==
  /\ Read(c, at)
  /\ UNCHANGED <<requests, reads>>

AskAbout(c, at, m, versions) ==
  /\ Ask(c, at, m, NoVersion, "none", NoVersion, versions)
  /\ Record(FALSE)

Report(c, m, flagged) ==
  /\ Respond(c, [op |-> "details", module |-> m, flagged |-> flagged])
  /\ Record(FALSE)

IsActive(m, f) == f.version = ActiveVersion(m)

\* A module's versions are read, and then which of them is active: by the API ...
get_module_details(c) ==
  /\ FirstRead(c)
  /\ \E m \in Modules : AskAbout(c, "flags", m, Flags(m))

\* ... and for the table the UI shows after a change.
render_versions_table(c) ==
  /\ ReadMore(c, "details")
  /\ AskAbout(c, "flags", call[c].module, Flags(call[c].module))

\* One version's code, then whether it is active (get_version_details).
version_details_loads(c) ==
  /\ FirstRead(c)
  /\ \E m \in Modules, v \in Versions :
       \E k \in load_module(m, v) :
         AskAbout(c, "flags", m, {[version |-> v, code |-> k]})

\* Mutant: every version of an active module is flagged.
details_flags_all(c) ==
  /\ ReadMore(c, "flags")
  /\ Report(c, call[c].module,
            {f \in call[c].versions : get_active_module(call[c].module) # {}})

details_flags(c) ==
  /\ ReadMore(c, "flags")
  /\ Report(c, call[c].module, {f \in call[c].versions : IsActive(call[c].module, f)})

\* All active modules, then the names, then the versions of each (list_modules),
\* for one of the names.
list_reads_active(c) ==
  /\ FirstRead(c)
  /\ \E m \in Modules :
       Ask(c, "list", m, NoVersion, "none", ActiveVersion(m), {})
  /\ Record(FALSE)

list_reads_versions(c) ==
  /\ ReadMore(c, "list")
  /\ Report(c, call[c].module,
            {f \in Flags(call[c].module) : f.version = call[c].previous})

\* The active modules alone, in one message; here those of one name.
list_active_modules(c) ==
  /\ FirstRead(c)
  /\ \E m \in Modules : Report(c, m, {f \in Flags(m) : IsActive(m, f)})

\* The page of the commands in the store, of which a row is followed: the names,
\* then the active modules, then what the command actor has loaded.
list_commands(c) ==
  /\ FirstRead(c)
  /\ \E m \in get_all_module_names(CommandModules) : AskAbout(c, "row", m, {})

row_active(c) ==
  /\ ReadMore(c, "row")
  /\ AskAbout(c, "loaded", call[c].module,
              {f \in Flags(call[c].module) : IsActive(call[c].module, f)})

\* The page of one command: its versions, the active one, then what is loaded.
get_command(c) ==
  /\ FirstRead(c)
  /\ \E m \in CommandModules : AskAbout(c, "page", m, Flags(m))

page_flags(c) ==
  /\ ReadMore(c, "page")
  /\ AskAbout(c, "loaded", call[c].module,
              {f \in call[c].versions : IsActive(call[c].module, f)})

active_commands(c) ==
  /\ ReadMore(c, "loaded")
  /\ Report(c, call[c].module, call[c].versions)

\* The environment a module is given when it is started.  The UI reads it again
\* to show it; what it shows is not followed here.
set_env_var_of(c) ==
  /\ Change(c, "idle")
  /\ \E m \in Modules, key \in Keys, value \in Values : set_env_var(m, key, value)
  /\ Respond(c, NoAnswer)
  /\ UNCHANGED mailbox
  /\ Record(FALSE)

delete_env_var_of(c) ==
  /\ Change(c, "idle")
  /\ \E m \in Modules, key \in Keys, reply \in BOOLEAN : delete_env_var(m, key, reply)
  /\ Respond(c, NoAnswer)
  /\ UNCHANGED mailbox
  /\ Record(FALSE)

-----------------------------------------------------------------------------
(* The command actor *)

NextEvent(type) ==
  /\ starting = {}
  /\ mailbox # <<>>
  /\ Head(mailbox).type = type
  /\ mailbox' = Tail(mailbox)

Own == /\ answer' = NoAnswer
       /\ UNCHANGED <<tables, clients>>

loaded(m) == {x \in components : x.module = m}

\* Activated: nothing to do when that version is loaded, whatever its code was,
\* else compile it in a task.
event_activated ==
  LET new == Head(mailbox).release
  IN /\ NextEvent("Activated")
     /\ IF new.module \in CommandModules
           /\ \A x \in loaded(new.module) : x.version # new.version
          THEN compiling' = [compiling EXCEPT ![new] = @ + 1]
          ELSE UNCHANGED compiling
     /\ Own
     /\ UNCHANGED <<components, starting, restarts>>

\* Mutant: a deactivated command stays loaded.
event_deactivated_keeps ==
  /\ NextEvent("Deactivated")
  /\ Own
  /\ UNCHANGED <<compiling, components, starting, restarts>>

event_deactivated ==
  /\ NextEvent("Deactivated")
  /\ components' = components \ loaded(Head(mailbox).module)
  /\ Own
  /\ UNCHANGED <<compiling, starting, restarts>>

\* Mutant: the event is kept until the module is loaded.
event_deleted_waits ==
  /\ NextEvent("Deleted")
  /\ loaded(Head(mailbox).module) # {}
  /\ components' = components \ loaded(Head(mailbox).module)
  /\ Own
  /\ UNCHANGED <<compiling, starting, restarts>>

event_deleted ==
  /\ NextEvent("Deleted")
  /\ components' = components \ loaded(Head(mailbox).module)
  /\ Own
  /\ UNCHANGED <<compiling, starting, restarts>>

\* load_module: the version of before stays when the new one does not link or
\* instantiate.
Load(x) ==
  components' = IF x.code \in Broken THEN components
                ELSE (components \ loaded(x.module)) \cup {x}

\* A compilation ends; ModuleCompiled is loaded whatever was activated since.
\* The tasks of two activations end in any order.
module_compiled(x) ==
  /\ starting = {}
  /\ compiling[x] > 0
  /\ compiling' = [compiling EXCEPT ![x] = @ - 1]
  /\ Load(x)
  /\ Own
  /\ UNCHANGED <<mailbox, starting, restarts>>

\* The process dies and comes back.  The tables are on disk; requests, events and
\* tasks are gone.  on_start reads the active commands.
restart_process ==
  /\ restarts < MaxRestarts
  /\ restarts' = restarts + 1
  /\ call' = [c \in Clients |-> Idle]
  /\ answer' = NoAnswer
  /\ seen' = [c \in Clients |-> {}]
  /\ withdrawn' = [c \in Clients |-> FALSE]
  /\ mailbox' = <<>>
  /\ compiling' = [x \in Release |-> 0]
  /\ components' = {}
  /\ starting' = get_all_active_modules(CommandModules)
  /\ UNCHANGED <<tables, requests, reads>>

\* The compilations on_start awaits end in any order.
on_start_loads(x) ==
  /\ x \in starting
  /\ starting' = starting \ {x}
  /\ Load(x)
  /\ Own
  /\ UNCHANGED <<mailbox, compiling, restarts>>

-----------------------------------------------------------------------------
ApiStep(c) ==
  \/ upload_module(c)
  \/ activate_reads(c)
  \/ activate_writes(c)
  \/ deactivate_reads(c)
  \/ deactivate_writes(c)
  \/ delete_module_version_of(c)
  \/ delete_counts(c)
  \/ delete_writes(c)
  \/ get_module_details(c)
  \/ version_details_loads(c)
  \/ list_reads_active(c)
  \/ list_reads_versions(c)

UiStep(c) ==
  \/ upload_module_inner(c)
  \/ activate(c)
  \/ deactivate(c)
  \/ delete_version(c)
  \/ delete_module_of(c)
  \/ render_versions_table(c)
  \/ list_commands(c)
  \/ row_active(c)
  \/ get_command(c)
  \/ page_flags(c)
  \/ active_commands(c)

\* What both offer, with handlers that do the same.
CommonStep(c) ==
  \/ upload_activates(c)
  \/ details_flags(c)
  \/ list_active_modules(c)
  \/ set_env_var_of(c)
  \/ delete_env_var_of(c)

ActorStep ==
  \/ event_activated
  \/ event_deactivated
  \/ event_deleted
  \/ \E x \in Release : module_compiled(x) \/ on_start_loads(x)

Next ==
  \/ \E c \in ApiClients : ApiStep(c)
  \/ \E c \in UiClients : UiStep(c)
  \/ \E c \in Clients : CommonStep(c)
  \/ ActorStep
  \/ restart_process

Spec == Init /\ [][Next]_vars

\* The actor works through its mailbox and compilations end.
FairSpec == Spec /\ WF_vars(ActorStep)

-----------------------------------------------------------------------------
(* Properties *)

\* The shape of the state.
TypeOK ==
  /\ StoreTypeOK
  /\ call \in [Clients -> Call \cup {Idle}]
  /\ answer \in Answer \cup {NoAnswer}
  /\ seen \in [Clients -> SUBSET Release]
  /\ withdrawn \in [Clients -> BOOLEAN]
  /\ mailbox \in Seq(ModuleEvent)
  /\ compiling \in [Release -> Nat]
  /\ components \subseteq [module : CommandModules, version : Versions,
                           code : Codes \ Broken]
  /\ starting \subseteq Release

\* An upload that is answered as activated has activated the bytes it sent, with
\* other clients in between its two messages: a version has one content until it
\* is deleted (upload_module, save_module).
UploadActivated ==
  [][answer'.op = "upload" =>
       \E c \in Clients :
         /\ call[c] # Idle /\ call'[c] = Idle
         /\ \/ withdrawn[c]
            \/ [module |-> answer'.module, version |-> answer'.version,
                code |-> answer'.code] \in ActiveReleases']_vars

\* What a report flags as active, version and content together, was active at
\* some moment of the request, though the store was read in several messages; a
\* deletion in between is the exception.
FlaggedWasActive ==
  [][answer'.op = "details" =>
       \E c \in Clients :
         /\ call'[c] = Idle
         /\ \/ withdrawn[c]
            \/ \A f \in answer'.flagged :
                 [module |-> answer'.module, version |-> f.version, code |-> f.code]
                   \in seen[c] \cup ActiveReleases]_vars

\* A deactivation reports the version it deactivated.
DeactivatedReported ==
  [][answer'.op = "deactivate" => answer'.previous = ActiveVersion(answer'.module)]_vars

ActiveOf(m) == {r \in ActiveReleases : r.module = m}

Settled(m) ==
  IF ActiveOf(m) = {} THEN loaded(m) = {}
  ELSE \A r \in ActiveOf(m) :
    \/ r.code \in Broken
    \/ \E x \in components : /\ loaded(m) = {x} /\ x.version = r.version
                             /\ Broken = {} => x.code = r.code

\* When nothing is on its way, the loaded command is the active version of the
\* module, unless that one does not work: no activation, deactivation or restart is
\* lost between store, pubsub and compilation tasks.  It has that version's code, too,
\* when all codes work: a version that is kept because its successor does not work may
\* be deleted and uploaded again with another code, and its activation skipped.
LoadedIsActive == Quiet => \A m \in CommandModules : Settled(m)

\* What makes LoadedIsActive inductive when clients are careful: at most one change is
\* on its way, it is the last one that was made, and the modules it does not concern
\* are settled.
Concerned(event) == IF event.type = "Activated" THEN event.release.module ELSE event.module

EventTrue(event) ==
  IF event.type = "Activated"
    THEN /\ event.release \in ActiveReleases
         /\ Broken = {} => \A x \in loaded(event.release.module) :
              x.version = event.release.version => x.code = event.release.code
    ELSE ActiveOf(event.module) = {}

UnderWay(m) ==
  \/ \E x \in starting : x.module = m
  \/ \E x \in Release : compiling[x] > 0 /\ x.module = m
  \/ mailbox # <<>> /\ Concerned(Head(mailbox)) = m

OneAtATime ==
  /\ compiling \in [Release -> 0 .. 1]
  /\ \A x, y \in Release : compiling[x] > 0 /\ compiling[y] > 0 => x = y
  /\ starting # {} => \A x \in Release : compiling[x] = 0
  /\ \/ mailbox = <<>>
     \/ \E event \in ModuleEvent :
          /\ mailbox = <<event>> /\ EventTrue(event)
          /\ starting = {} /\ \A x \in Release : compiling[x] = 0

LoadInv ==
  /\ OneAtATime
  /\ \A m \in CommandModules : Settled(m) \/ UnderWay(m)
  /\ starting \subseteq Release
  /\ \A x \in Release : x \in starting \/ compiling[x] > 0
       => x \in ActiveReleases /\ x.module \in CommandModules
  /\ \A x \in components : x.module \in CommandModules
  /\ \A x, y \in components : x.module = y.module => x = y

\* Finally, once clients and restarts cease, what is loaded follows the store.
Settles == <>[]Quiet
=============================================================================
