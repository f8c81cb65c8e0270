-------------------------------- MODULE Deploy --------------------------------
(***************************************************************************)
(* umari deploy (crates/cli/src/commands/workspace.rs): the modules of a   *)
(* workspace are built, the Rust ones by one cargo, the JavaScript ones by *)
(* a pool of threads, and what was built is uploaded by another pool.  An  *)
(* upload that is refused because the version exists with other code gets  *)
(* the next patch version and is built again, while the other threads go   *)
(* on reading and rebuilding the same files.                               *)
(***************************************************************************)
EXTENDS Naturals, FiniteSets

CONSTANTS
  Rust, Js,        \* the modules of the workspace
  Sources, Broken, \* what the source of a module can be; some does not compile
  Renamed,         \* sources whose library is not named after the package
  Jobs,            \* the upload threads
  Selections,      \* the sets of modules a deploy may be restricted to
  VersionInBytes,  \* whether a built file depends on the version in its manifest
  MaxVersion,      \* bound: versions of a module
  MaxEdits,        \* bound: edits of the sources
  MaxDeploys,      \* bound: deploys
  MaxFaults        \* bound: faults of the machine or the network

Modules == Rust \cup Js

ASSUME ModulesAssumption ==
  /\ IsFiniteSet(Rust) /\ IsFiniteSet(Js) /\ Rust \cap Js = {}
  /\ Selections \subseteq (SUBSET Modules) \ {{}}
  /\ Broken \cup Renamed \subseteq Sources /\ Sources # Broken \cup Renamed
  /\ VersionInBytes \in BOOLEAN

ASSUME BoundsAssumption ==
  MaxVersion \in Nat \ {0} /\ MaxEdits \in Nat /\ MaxDeploys \in Nat /\ MaxFaults \in Nat

Version == 1..MaxVersion

VARIABLES
  source,    \* the sources on disk
  manifest,  \* the version in each manifest
  wasm,      \* the built files
  published, \* the server's versions, with their code
  active,    \* the server's active version of each module
  phase,     \* of the command
  modules,   \* what it found: the version of each selected module
  flags,     \* no_activate and bump_patch
  js_queue,  \* JavaScript modules to build
  cargo,     \* whether cargo is still to run
  succeeded, \* what has been built
  queue,     \* modules to upload
  worker,    \* the upload threads
  stats,     \* how many ended in each way
  status,    \* the row of each module on the screen
  settled,   \* what the last deploy brought up to date, if nothing was edited since
  faulted,   \* what failed in this deploy for a fault, and not for its source
  edits, deploys, faults

disk    == <<source, manifest, wasm>>
server  == <<published, active>>
command == <<phase, modules, flags>>
build   == <<js_queue, cargo, succeeded>>
counts  == <<edits, deploys, faults, faulted>>

vars == <<disk, server, command, build, queue, worker, stats, status, settled, counts>>

None == [kind |-> "none"]
Idle == [at |-> "idle"]
Successes == {"deployed", "bumped", "unchanged"}
Kinds     == Successes \cup {"failed"}
NoStats == [kind \in Kinds |-> 0]

selected   == DOMAIN modules
rust_names == selected \cap Rust

-----------------------------------------------------------------------------
(* Building *)

\* What cargo or npm makes of a module, given the versions they read and, for Rust,
\* the packages built together: their features are unified.
Binary(m, versions, names) ==
  [kind |-> "wasm", src |-> source[m],
   version |-> IF VersionInBytes THEN versions[m] ELSE 0,
   with |-> IF m \in Rust THEN names ELSE {}]

Compiles(m) == source[m] \notin Broken

\* cargo names the artifact after the library, and so the file.
Makes(m) == Compiles(m) /\ (m \in Rust => source[m] \notin Renamed)

\* Something the developer's files do not explain: a program that cannot be started, a
\* file that cannot be read or written, a connection that breaks.
Fault(M) ==
  /\ faults < MaxFaults
  /\ faults' = faults + 1
  /\ faulted' = faulted \cup M
  /\ UNCHANGED <<edits, deploys>>

Count(s, kind) == [s EXCEPT ![kind] = @ + 1]

discover_modules(paths, no_activate, bump_patch) ==
  /\ phase = "idle" /\ deploys < MaxDeploys
  /\ deploys' = deploys + 1
  /\ phase' = "building"
  /\ modules' = [m \in paths |-> manifest[m]]
  /\ flags' = [no_activate |-> no_activate, bump_patch |-> bump_patch]
  /\ js_queue' = paths \cap Js
  /\ cargo' = (paths \cap Rust # {})
  /\ succeeded' = {}
  /\ stats' = NoStats
  /\ status' = [m \in paths |-> "building"]
  /\ faulted' = {}
  /\ UNCHANGED <<disk, server, queue, worker, settled, edits, faults>>

\* One cargo builds all; what it has not made by its end has failed.  It makes all it can,
\* unless one does not compile.
run_rust_build ==
  /\ phase = "building" /\ cargo
  /\ \E built \in SUBSET {m \in rust_names : Makes(m)} :
       /\ \/ built = {m \in rust_names : Makes(m)}
          \/ \E m \in rust_names : ~Compiles(m)
       /\ wasm' = [m \in Modules |->
            IF m \in built THEN Binary(m, manifest, rust_names) ELSE wasm[m]]
       /\ succeeded' = succeeded \cup built
       /\ stats' = [stats EXCEPT !["failed"] = @ + Cardinality(rust_names \ built)]
       /\ status' = [m \in selected |->
            IF m \in rust_names \ built THEN "failed" ELSE status[m]]
  /\ cargo' = FALSE
  /\ UNCHANGED <<source, manifest, server, command, js_queue, queue, worker, settled, counts>>

\* cargo cannot be started: all its modules have failed.
spawn_fails ==
  /\ phase = "building" /\ cargo
  /\ stats' = [stats EXCEPT !["failed"] = @ + Cardinality(rust_names)]
  /\ status' = [m \in selected |-> IF m \in rust_names THEN "failed" ELSE status[m]]
  /\ cargo' = FALSE
  /\ Fault(rust_names)
  /\ UNCHANGED <<disk, server, command, js_queue, succeeded, queue, worker, settled>>

\* npm fails on what does not compile, or cannot be started.
build_one_js(m) ==
  /\ phase = "building" /\ m \in js_queue
  /\ js_queue' = js_queue \ {m}
  /\ \/ /\ Makes(m)
        /\ wasm' = [wasm EXCEPT ![m] = Binary(m, manifest, {})]
        /\ succeeded' = succeeded \cup {m}
        /\ UNCHANGED <<stats, status, counts>>
     \/ /\ \/ ~Makes(m) /\ UNCHANGED counts
           \/ Fault({m})
        /\ stats' = Count(stats, "failed")
        /\ status' = [status EXCEPT ![m] = "failed"]
        /\ UNCHANGED <<wasm, succeeded>>
  /\ UNCHANGED <<source, manifest, server, command, cargo, queue, worker, settled>>

\* Mutant: everything is uploaded, with whatever an earlier build left.
run_build_phase_all ==
  /\ phase = "building" /\ ~cargo /\ js_queue = {}
  /\ phase' = "uploading"
  /\ queue' = selected
  /\ UNCHANGED <<disk, server, modules, flags, build, worker, stats, status, settled, counts>>

\* What was built goes to the upload phase.
run_build_phase ==
  /\ phase = "building" /\ ~cargo /\ js_queue = {}
  /\ phase' = "uploading"
  /\ queue' = {m \in selected : m \in succeeded}
  /\ UNCHANGED <<disk, server, modules, flags, build, worker, stats, status, settled, counts>>

-----------------------------------------------------------------------------
(* Uploading *)

\* A worker takes a module; no order is promised.
run_upload_phase(w, m) ==
  /\ phase = "uploading" /\ worker[w] = Idle /\ m \in queue
  /\ queue' = queue \ {m}
  /\ worker' = [worker EXCEPT ![w] =
       [at |-> "reading", module |-> m, version |-> modules[m]]]
  /\ UNCHANGED <<disk, server, command, build, stats, status, settled, counts>>

\* A worker is done with its module.
Finish(w, kind) ==
  /\ stats' = Count(stats, kind)
  /\ status' = [status EXCEPT ![worker[w].module] = kind]
  /\ worker' = [worker EXCEPT ![w] = Idle]

\* upload_wasm: the file is read as it is now.
upload_wasm(w) ==
  /\ worker[w].at = "reading"
  /\ worker' = [worker EXCEPT ![w] =
       [at |-> "sending", module |-> @.module, version |-> @.version,
        bytes |-> wasm[worker[w].module]]]
  /\ UNCHANGED <<disk, server, command, build, queue, stats, status, settled, counts>>

\* The file is not there, or cannot be read.
read_fails(w) ==
  /\ worker[w].at = "reading"
  /\ Fault({worker[w].module})
  /\ Finish(w, "failed")
  /\ UNCHANGED <<disk, server, command, build, queue, settled>>

\* The server saves a new version; one that exists it compares.
SaveModule(w) ==
  LET m == worker[w].module
      v == worker[w].version
  IN /\ worker[w].at = "sending"
     /\ \/ /\ published[m][v] = None
           /\ published' = [published EXCEPT ![m][v] = worker[w].bytes]
           /\ worker' = [worker EXCEPT ![w].at = "created"]
        \/ /\ published[m][v] = worker[w].bytes
           /\ worker' = [worker EXCEPT ![w].at = "idempotent"]
           /\ UNCHANGED published
        \/ /\ published[m][v] \notin {None, worker[w].bytes}
           /\ worker' = [worker EXCEPT ![w].at = "conflict"]
           /\ UNCHANGED published
     /\ UNCHANGED <<disk, active, command, build, queue, stats, status, settled, counts>>

\* It activates it unless told not to, and answers.
ActivateAndAnswer(w) ==
  LET m == worker[w].module
      v == worker[w].version
  IN /\ worker[w].at \in {"created", "idempotent"}
     /\ active' = IF flags.no_activate THEN active ELSE [active EXCEPT ![m] = v]
     /\ Finish(w, IF v # modules[m] THEN "bumped"
                  ELSE IF worker[w].at = "created" THEN "deployed" ELSE "unchanged")
     /\ UNCHANGED <<disk, published, command, build, queue, settled, counts>>

\* The connection breaks: the module has failed, whatever the server did.
connection_error(w) ==
  /\ worker[w].at \in {"sending", "created", "idempotent", "conflict"}
  /\ Fault({worker[w].module})
  /\ Finish(w, "failed")
  /\ UNCHANGED <<disk, server, command, build, queue, settled>>

\* The version exists with other code, and is not to be bumped, or was already.
upload_one_fails(w) ==
  /\ worker[w].at = "conflict"
  /\ ~flags.bump_patch \/ worker[w].version # modules[worker[w].module]
  /\ Finish(w, "failed")
  /\ UNCHANGED <<disk, server, command, build, queue, settled, counts>>

\* Mutant: the built file is sent again under the new version.
bump_without_rebuild(w) ==
  LET m == worker[w].module
      v == worker[w].version + 1
  IN /\ worker[w].at = "conflict"
     /\ flags.bump_patch /\ worker[w].version = modules[m]
     /\ v \in Version
     /\ manifest' = [manifest EXCEPT ![m] = v]
     /\ worker' = [worker EXCEPT ![w] = [at |-> "reading", module |-> m, version |-> v]]
     /\ UNCHANGED <<source, wasm, server, command, build, queue, stats, status,
                    settled, counts>>

\* The next patch version goes into the manifest.
bump_patch_version(w) ==
  LET m == worker[w].module
      v == worker[w].version + 1
  IN /\ worker[w].at = "conflict"
     /\ flags.bump_patch /\ worker[w].version = modules[m]
     /\ v \in Version
     /\ manifest' = [manifest EXCEPT ![m] = v]
     /\ worker' = [worker EXCEPT ![w] = [at |-> "bumped", module |-> m, version |-> v]]
     /\ UNCHANGED <<source, wasm, server, command, build, queue, stats, status,
                    settled, counts>>

\* The version is not one that can be bumped, or the manifest cannot be rewritten.
bump_fails(w) ==
  /\ worker[w].at = "conflict"
  /\ flags.bump_patch /\ worker[w].version = modules[worker[w].module]
  /\ Fault({worker[w].module})
  /\ Finish(w, "failed")
  /\ UNCHANGED <<disk, server, command, build, queue, settled>>

\* Mutant: only the bumped module is built.
build_one_rust(w) ==
  /\ worker[w].at = "bumped"
  /\ worker' = [worker EXCEPT ![w] =
       [at |-> "rebuilding", module |-> @.module, version |-> @.version,
        versions |-> manifest, names |-> {worker[w].module}]]
  /\ UNCHANGED <<disk, server, command, build, queue, stats, status, settled, counts>>

\* cargo reads all manifests and then waits for its turn to build; the packages are
\* those of the first build.
rebuild_starts(w) ==
  /\ worker[w].at = "bumped"
  /\ worker' = [worker EXCEPT ![w] =
       [at |-> "rebuilding", module |-> @.module, version |-> @.version,
        versions |-> manifest,
        names |-> IF @.module \in Rust THEN rust_names ELSE {@.module}]]
  /\ UNCHANGED <<disk, server, command, build, queue, stats, status, settled, counts>>

\* All the packages are built again; or one of them does not compile, or the build cannot
\* be started.
rebuild_module(w) ==
  LET names == worker[w].names
  IN /\ worker[w].at = "rebuilding"
     /\ \/ /\ \A m \in names : Compiles(m)
           /\ wasm' = [m \in Modules |->
                IF m \in names /\ Makes(m) THEN Binary(m, worker[w].versions, names)
                ELSE wasm[m]]
           /\ worker' = [worker EXCEPT ![w] =
                [at |-> "reading", module |-> @.module, version |-> @.version]]
           /\ UNCHANGED <<stats, status, counts>>
        \/ /\ \/ (\E m \in names : ~Compiles(m)) /\ UNCHANGED counts
              \/ Fault({worker[w].module})
           /\ Finish(w, "failed")
           /\ UNCHANGED wasm
     /\ UNCHANGED <<source, manifest, server, command, build, queue, settled>>

\* Mutant: what failed to build is left out of the summary.
print_summary_uploads ==
  /\ phase = "uploading" /\ queue = {} /\ \A w \in Jobs : worker[w] = Idle
  /\ phase' = "done"
  /\ stats' = [stats EXCEPT !["failed"] = Cardinality({m \in succeeded : status[m] = "failed"})]
  /\ settled' = {}
  /\ UNCHANGED <<disk, server, modules, flags, build, queue, worker, status, counts>>

\* The summary is of both phases.
print_summary ==
  /\ phase = "uploading" /\ queue = {} /\ \A w \in Jobs : worker[w] = Idle
  /\ phase' = "done"
  /\ UNCHANGED <<disk, server, modules, flags, build, queue, worker, stats, status,
                 settled, counts>>

-----------------------------------------------------------------------------
(* The developer *)

exit ==
  /\ phase = "done"
  /\ phase' = "idle"
  /\ settled' = IF stats["failed"] = 0 THEN selected ELSE {}
  /\ UNCHANGED <<disk, server, modules, flags, build, queue, worker, stats, status, counts>>

\* The developer edits some modules.
edit(names, s) ==
  /\ phase = "idle" /\ edits < MaxEdits
  /\ names # {} /\ \A m \in names : s # source[m]
  /\ edits' = edits + 1
  /\ source' = [m \in Modules |-> IF m \in names THEN s ELSE source[m]]
  /\ settled' = {}
  /\ UNCHANGED <<manifest, wasm, server, command, build, queue, worker, stats, status,
                 deploys, faults, faulted>>

-----------------------------------------------------------------------------
Init ==
  /\ \E s \in Sources \ (Broken \cup Renamed) : source = [m \in Modules |-> s]
  /\ manifest = [m \in Modules |-> 1]
  /\ wasm = [m \in Modules |-> None]
  /\ published = [m \in Modules |-> [v \in Version |-> None]]
  /\ active = [m \in Modules |-> 0]
  /\ phase = "idle"
  /\ modules = [m \in {} |-> 0]
  /\ flags = [no_activate |-> FALSE, bump_patch |-> FALSE]
  /\ js_queue = {} /\ cargo = FALSE /\ succeeded = {}
  /\ queue = {}
  /\ worker = [w \in Jobs |-> Idle]
  /\ stats = NoStats /\ status = [m \in {} |-> "none"]
  /\ settled = {}
  /\ edits = 0 /\ deploys = 0 /\ faults = 0 /\ faulted = {}

Next ==
  \/ \E paths \in Selections, no_activate, bump_patch \in BOOLEAN :
       discover_modules(paths, no_activate, bump_patch)
  \/ run_rust_build \/ spawn_fails \/ run_build_phase \/ print_summary \/ exit
  \/ \E names \in SUBSET Modules, s \in Sources : edit(names, s)
  \/ \E m \in Modules : build_one_js(m)
  \/ \E w \in Jobs :
       \/ \E m \in Modules : run_upload_phase(w, m)
       \/ upload_wasm(w) \/ read_fails(w) \/ SaveModule(w) \/ ActivateAndAnswer(w)
       \/ connection_error(w) \/ upload_one_fails(w)
       \/ bump_patch_version(w) \/ bump_fails(w) \/ rebuild_starts(w) \/ rebuild_module(w)

Spec == Init /\ [][Next]_vars

-----------------------------------------------------------------------------
(* Properties *)

\* Every module found is counted once in the summary, in the column its row shows,
\* whichever phase and thread it ended in; the exit code follows from the counts.
CountedOnce ==
  phase = "done" =>
    \A kind \in Kinds : stats[kind] = Cardinality({m \in selected : status[m] = kind})

\* A module whose row shows success is published, under the version its manifest has
\* now, as built from the sources as they are, and is active if that was asked for.
\* Neither a file left by an earlier build nor one that another thread is rebuilding
\* is uploaded in its place.
SuccessIsPublished ==
  phase = "done" =>
    \A m \in selected : status[m] # "failed" =>
      /\ published[m][manifest[m]] # None
      /\ published[m][manifest[m]].src = source[m]
      /\ ~flags.no_activate => active[m] = manifest[m]

\* Deploying again what a deploy has just brought up to date publishes nothing and
\* bumps nothing: the rebuilds after a bump leave what the next build will make.  A
\* module can only fail for a fault of its own, never for one of another's.
RedeployUnchanged ==
  phase = "done" /\ settled = selected =>
    \A m \in selected :
      status[m] = "unchanged" \/ (status[m] = "failed" /\ m \in faulted)

\* The shape of the state.
Wasm ==
  [kind : {"wasm"}, src : Sources, version : Version \cup {0}, with : SUBSET Modules]

WorkerState ==
  {Idle}
    \cup [at : {"reading", "bumped"}, module : Modules, version : Version]
    \cup [at : {"sending", "created", "idempotent", "conflict"},
          module : Modules, version : Version, bytes : Wasm \cup {None}]
    \cup [at : {"rebuilding"}, module : Modules, version : Version,
          versions : [Modules -> Version], names : SUBSET Modules]

TypeOK ==
  /\ source \in [Modules -> Sources]
  /\ manifest \in [Modules -> Version]
  /\ wasm \in [Modules -> Wasm \cup {None}]
  /\ published \in [Modules -> [Version -> Wasm \cup {None}]]
  /\ active \in [Modules -> Version \cup {0}]
  /\ phase \in {"idle", "building", "uploading", "done"}
  /\ selected \subseteq Modules /\ modules \in [selected -> Version]
  /\ flags \in [no_activate : BOOLEAN, bump_patch : BOOLEAN]
  /\ js_queue \cup succeeded \cup queue \subseteq selected
  /\ cargo \in BOOLEAN
  /\ worker \in [Jobs -> WorkerState]
  /\ stats \in [Kinds -> Nat]
  /\ status \in [selected -> Kinds \cup {"building"}]
  /\ settled \subseteq Modules
  /\ edits \in Nat /\ deploys \in Nat /\ faults \in Nat /\ faulted \subseteq Modules

\* What makes the three inductive: a module that is not finished is in one place; what
\* is built is built from the sources with the packages of this deploy; and a worker
\* that has not been refused has the version of the manifest.
Busy(w) == worker[w] # Idle

Pending(m) ==
  \/ m \in js_queue \/ (cargo /\ m \in Rust)
  \/ (phase = "building" /\ m \in succeeded)
  \/ m \in queue \/ \E w \in Jobs : Busy(w) /\ worker[w].module = m

OnePlace ==
  /\ js_queue \subseteq Js
  /\ js_queue \cap succeeded = {} /\ (cargo => succeeded \cap Rust = {})
  /\ queue \subseteq succeeded
  /\ phase # "idle" => selected # {}
  /\ phase # "building" => js_queue = {} /\ ~cargo
  /\ phase # "uploading" => queue = {} /\ \A w \in Jobs : ~Busy(w)
  /\ \A w \in Jobs : Busy(w) => worker[w].module \in succeeded \ queue
  /\ \A v, w \in Jobs :
       Busy(v) /\ Busy(w) /\ worker[v].module = worker[w].module => v = w
  /\ \A m \in selected : status[m] = "building" <=> Pending(m)
  /\ \A m \in selected : status[m] \in Successes => m \in succeeded

Counted ==
  \A kind \in Kinds : stats[kind] = Cardinality({m \in selected : status[m] = kind})

Built(m) ==
  [kind : {"wasm"}, src : {source[m]}, with : {IF m \in Rust THEN rust_names ELSE {}},
   version : IF VersionInBytes THEN Version ELSE {0}]

BuiltRight == phase # "idle" => \A m \in succeeded : Makes(m) /\ wasm[m] \in Built(m)

Carries(w) ==
  /\ worker[w].version = manifest[worker[w].module]
  /\ worker[w].at \in {"sending", "created", "idempotent", "conflict"} =>
       worker[w].bytes \in Built(worker[w].module)
  /\ worker[w].at \in {"created", "idempotent"} =>
       published[worker[w].module][worker[w].version] = worker[w].bytes
  /\ worker[w].at = "rebuilding" =>
       worker[w].names = IF worker[w].module \in Rust THEN rust_names ELSE {worker[w].module}

Row(m) ==
  /\ status[m] = "building" => \/ modules[m] = manifest[m]
                               \/ \E w \in Jobs : Busy(w) /\ worker[w].module = m
  /\ status[m] \in Successes =>
       /\ published[m][manifest[m]] \in Built(m)
       /\ ~flags.no_activate => active[m] = manifest[m]

FromSource ==
  /\ BuiltRight
  /\ \A w \in Jobs : Busy(w) => Carries(w)
  /\ phase # "idle" => \A m \in selected : Row(m)

\* What a module that is up to date has on the server, and how far a deploy of such
\* modules can come.
Current(m) == Makes(m) /\ published[m][manifest[m]] \in Built(m)

Unchanged ==
  /\ \A m \in selected :
       /\ modules[m] = manifest[m]
       /\ \/ status[m] \in {"building", "unchanged"}
          \/ status[m] = "failed" /\ m \in faulted
  /\ \A w \in Jobs : worker[w].at \in {"idle", "reading", "sending", "idempotent"}

Again ==
  /\ phase = "idle" => settled = {} \/ settled = selected
  /\ settled = selected /\ selected # {} => \A m \in selected : Current(m)
  /\ settled = selected /\ phase # "idle" => Unchanged

IInv == TypeOK /\ OnePlace /\ Counted /\ FromSource
=============================================================================
