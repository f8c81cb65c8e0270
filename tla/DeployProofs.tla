----------------------------- MODULE DeployProofs -----------------------------
(* What a deploy shows and leaves on the server, for every workspace, number *)
(* of upload threads, edits, deploys and faults.                             *)
EXTENDS Deploy, FiniteSetTheorems, TLAPS

-----------------------------------------------------------------------------
(* Types *)

LEMMA VersionOne == 1 \in Version /\ 0 \notin Version
BY BoundsAssumption DEF Version

\* A worker's record, by where it is.
LEMMA WorkerIs ==
  ASSUME TypeOK, NEW w \in Jobs, Busy(w)
  PROVE  /\ worker[w].module \in Modules /\ worker[w].version \in Version
         /\ worker[w].at \in {"reading", "bumped", "sending", "created", "idempotent",
                              "conflict", "rebuilding"}
         /\ worker[w].at \in {"sending", "created", "idempotent", "conflict"} =>
              /\ worker[w].bytes \in Wasm \cup {None}
              /\ worker[w] \in [at : {"sending", "created", "idempotent", "conflict"},
                                module : Modules, version : Version, bytes : Wasm \cup {None}]
         /\ worker[w].at = "rebuilding" =>
              worker[w].versions \in [Modules -> Version] /\ worker[w].names \subseteq Modules
<1>1. worker[w] \in WorkerState /\ worker[w] # Idle
  BY DEF TypeOK, Busy
<1> QED
  BY <1>1 DEF WorkerState

LEMMA BusyIs ==
  ASSUME TypeOK, NEW w \in Jobs PROVE Busy(w) <=> worker[w].at # "idle"
<1>1. worker[w] \in WorkerState
  BY DEF TypeOK
<1> QED
  BY <1>1 DEF WorkerState, Busy, Idle

LEMMA InitType == Init => TypeOK
<1> SUFFICES ASSUME Init PROVE TypeOK
  OBVIOUS
<1>1. /\ source \in [Modules -> Sources] /\ manifest \in [Modules -> Version]
      /\ wasm \in [Modules -> Wasm \cup {None}]
      /\ published \in [Modules -> [Version -> Wasm \cup {None}]]
      /\ active \in [Modules -> Version \cup {0}]
  BY VersionOne DEF Init
<1>2. selected = {} /\ modules \in [selected -> Version]
      /\ status \in [selected -> Kinds \cup {"building"}]
  BY DEF Init, selected
<1>3. worker \in [Jobs -> WorkerState] /\ stats \in [Kinds -> Nat]
  BY DEF Init, WorkerState, NoStats
<1>4. /\ flags \in [no_activate : BOOLEAN, bump_patch : BOOLEAN]
      /\ phase = "idle" /\ cargo = FALSE /\ settled = {}
      /\ edits = 0 /\ deploys = 0 /\ faults = 0 /\ faulted = {}
      /\ js_queue = {} /\ succeeded = {} /\ queue = {}
  BY FALSE \in BOOLEAN DEF Init
<1> QED
  BY <1>1, <1>2, <1>3, <1>4 DEF TypeOK

LEMMA BinaryType ==
  ASSUME TypeOK, NEW m \in Modules, NEW versions \in [Modules -> Version],
         NEW names \in SUBSET Modules
  PROVE  Binary(m, versions, names) \in Wasm
<1>1. source[m] \in Sources /\ versions[m] \in Version
  BY DEF TypeOK
<1> DEFINE version == IF VersionInBytes THEN versions[m] ELSE 0
           with == IF m \in Rust THEN names ELSE {}
<1>2. version \in Version \cup {0} /\ with \in SUBSET Modules
  BY <1>1
<1> HIDE DEF version, with
<1>3. [kind |-> "wasm", src |-> source[m], version |-> version, with |-> with] \in Wasm
  BY <1>1, <1>2 DEF Wasm
<1> QED
  BY <1>3 DEF Binary, version, with

LEMMA CountType ==
  ASSUME TypeOK, NEW kind \in Kinds PROVE Count(stats, kind) \in [Kinds -> Nat]
<1>1. stats \in [Kinds -> Nat] /\ stats[kind] + 1 \in Nat
  BY DEF TypeOK
<1> QED
  BY <1>1 DEF Count

LEMMA WorkerType ==
  ASSUME TypeOK, NEW w \in Jobs, NEW x \in WorkerState
  PROVE  [worker EXCEPT ![w] = x] \in [Jobs -> WorkerState]
BY DEF TypeOK

\* A worker that is done with its module.
LEMMA FinishType ==
  ASSUME TypeOK, NEW w \in Jobs, Busy(w), NEW kind \in Kinds, Finish(w, kind)
  PROVE  /\ stats' \in [Kinds -> Nat] /\ worker' \in [Jobs -> WorkerState]
         /\ status' \in [selected -> Kinds \cup {"building"}]
<1>1. Idle \in WorkerState
  BY DEF WorkerState
<1>2. stats' \in [Kinds -> Nat] /\ worker' \in [Jobs -> WorkerState]
  BY <1>1, CountType, WorkerType DEF Finish
<1>3. status' \in [selected -> Kinds \cup {"building"}]
  <2>1. status \in [selected -> Kinds \cup {"building"}]
    BY DEF TypeOK
  <2> QED
    BY <2>1 DEF Finish
<1> QED
  BY <1>2, <1>3

\* Counting faults.
LEMMA CountsType ==
  ASSUME TypeOK, UNCHANGED counts \/ \E M \in SUBSET Modules : Fault(M)
  PROVE  edits' \in Nat /\ deploys' \in Nat /\ faults' \in Nat /\ faulted' \subseteq Modules
BY DEF TypeOK, counts, Fault

\* What one cargo leaves, if it was started at all.
RustBuilt(made) ==
  /\ phase = "building" /\ cargo /\ cargo' = FALSE
  /\ \A m \in made : Makes(m)
  /\ wasm' = [m \in Modules |->
       IF m \in made THEN Binary(m, manifest, rust_names) ELSE wasm[m]]
  /\ succeeded' = succeeded \cup made
  /\ stats' = [stats EXCEPT !["failed"] = @ + Cardinality(rust_names \ made)]
  /\ status' = [m \in selected |->
       IF m \in rust_names \ made THEN "failed" ELSE status[m]]
  /\ \/ UNCHANGED counts /\ ((\A m \in rust_names : Makes(m)) => made = rust_names)
     \/ Fault(rust_names) /\ made = {}
  /\ UNCHANGED <<source, manifest, server, command, js_queue, queue, worker, settled>>

LEMMA RustBuildIs ==
  ASSUME TypeOK, run_rust_build \/ spawn_fails
  PROVE  \E made \in SUBSET rust_names : RustBuilt(made)
<1>1. CASE run_rust_build
  <2>1. PICK made \in SUBSET {m \in rust_names : Makes(m)} :
          /\ \/ made = {m \in rust_names : Makes(m)}
             \/ \E m \in rust_names : ~Compiles(m)
          /\ wasm' = [m \in Modules |->
               IF m \in made THEN Binary(m, manifest, rust_names) ELSE wasm[m]]
          /\ succeeded' = succeeded \cup made
          /\ stats' = [stats EXCEPT !["failed"] = @ + Cardinality(rust_names \ made)]
          /\ status' = [m \in selected |->
               IF m \in rust_names \ made THEN "failed" ELSE status[m]]
    BY <1>1 DEF run_rust_build
  <2>2. (\A m \in rust_names : Makes(m)) => made = rust_names
    BY <2>1 DEF Makes
  <2>3. made \in SUBSET rust_names /\ \A m \in made : Makes(m)
    BY <2>1
  <2> QED
    BY <1>1, <2>1, <2>2, <2>3 DEF run_rust_build, RustBuilt
<1>2. CASE spawn_fails
  <2>1. wasm' = [m \in Modules |->
                  IF m \in {} THEN Binary(m, manifest, rust_names) ELSE wasm[m]]
    BY <1>2 DEF spawn_fails, disk, TypeOK
  <2>2. succeeded' = succeeded \cup {} /\ rust_names \ {} = rust_names
    BY <1>2 DEF spawn_fails
  <2>3. RustBuilt({})
    BY <1>2, <2>1, <2>2 DEF spawn_fails, RustBuilt, disk
  <2> QED
    BY <2>3
<1> QED
  BY <1>1, <1>2

\* What building changes: the files, what has been built, and the screen.
LEMMA BuildType ==
  ASSUME TypeOK, run_rust_build \/ spawn_fails \/ (\E m \in Modules : build_one_js(m))
  PROVE  TypeOK'
<1>1. CASE run_rust_build \/ spawn_fails
  <2>1. PICK built \in SUBSET rust_names : RustBuilt(built)
    BY <1>1, RustBuildIs
  <2>0. succeeded' \subseteq selected /\ UNCHANGED <<js_queue, queue>>
    BY <2>1 DEF RustBuilt, rust_names, TypeOK
  <2>2. rust_names \subseteq Modules /\ rust_names \subseteq selected /\ IsFiniteSet(rust_names)
    <3>1. IsFiniteSet(Rust)
      BY ModulesAssumption
    <3>2. rust_names \subseteq Rust
      BY DEF rust_names
    <3> QED
      BY <3>1, <3>2, FS_Subset DEF rust_names, TypeOK
  <2>3. wasm' \in [Modules -> Wasm \cup {None}]
    <3>1. ASSUME NEW m \in Modules PROVE wasm'[m] \in Wasm \cup {None}
      BY <2>1, <2>2, BinaryType DEF TypeOK, RustBuilt
    <3> QED
      BY <2>1, <3>1 DEF RustBuilt
  <2>4. stats' \in [Kinds -> Nat]
    <3>1. Cardinality(rust_names \ built) \in Nat
      BY <2>2, FS_Subset, FS_CardinalityType
    <3>2. stats \in [Kinds -> Nat] /\ "failed" \in Kinds
      BY DEF TypeOK, Kinds
    <3> QED
      BY <2>1, <3>1, <3>2 DEF RustBuilt
  <2>5. status' \in [selected -> Kinds \cup {"building"}]
    BY <2>1 DEF TypeOK, Kinds, RustBuilt
  <2>6. /\ cargo' = FALSE
        /\ UNCHANGED <<source, manifest, server, command, worker, settled>>
    BY <2>1 DEF RustBuilt
  <2>7. edits' \in Nat /\ deploys' \in Nat /\ faults' \in Nat /\ faulted' \subseteq Modules
    BY <2>1, <2>2, CountsType DEF RustBuilt
  <2> QED
    BY <2>0, <2>3, <2>4, <2>5, <2>6, <2>7 DEF TypeOK, selected, server, command
<1>2. ASSUME NEW m \in Modules, build_one_js(m) PROVE TypeOK'
  <2>1. /\ UNCHANGED <<source, manifest, server, command, cargo, worker, settled>>
        /\ js_queue' \cup succeeded' \cup queue' \subseteq selected
    BY <1>2 DEF build_one_js, TypeOK
  <2>4. edits' \in Nat /\ deploys' \in Nat /\ faults' \in Nat /\ faulted' \subseteq Modules
    BY <1>2, CountsType DEF build_one_js
  <2>2. CASE /\ wasm' = [wasm EXCEPT ![m] = Binary(m, manifest, {})]
             /\ UNCHANGED <<stats, status>>
    <3>1. Binary(m, manifest, {}) \in Wasm
      BY BinaryType DEF TypeOK
    <3>2. wasm' \in [Modules -> Wasm \cup {None}]
      BY <2>2, <3>1 DEF TypeOK
    <3> QED
      BY <2>1, <2>2, <2>4, <3>2 DEF TypeOK, selected, server, command
  <2>3. CASE /\ stats' = Count(stats, "failed")
             /\ status' = [status EXCEPT ![m] = "failed"]
             /\ UNCHANGED wasm
    <3>1. stats' \in [Kinds -> Nat] /\ "failed" \in Kinds
      BY <2>3, CountType DEF Kinds
    <3>2. status' \in [selected -> Kinds \cup {"building"}]
      BY <2>3, <3>1 DEF TypeOK
    <3> QED
      BY <2>1, <2>3, <2>4, <3>1, <3>2 DEF TypeOK, selected, server, command
  <2> QED
    BY <1>2, <2>2, <2>3 DEF build_one_js
<1> QED
  BY <1>1, <1>2

LEMMA CommandType ==
  ASSUME TypeOK, OnePlace,
         \/ \E paths \in Selections, no_activate, bump_patch \in BOOLEAN :
              discover_modules(paths, no_activate, bump_patch)
         \/ run_build_phase \/ print_summary \/ exit
         \/ \E names \in SUBSET Modules, x \in Sources : edit(names, x)
  PROVE  TypeOK'
<1>1. ASSUME NEW paths \in Selections, NEW no_activate \in BOOLEAN, NEW bump_patch \in BOOLEAN,
             discover_modules(paths, no_activate, bump_patch)
      PROVE  TypeOK'
  <2>1. paths \subseteq Modules
    BY ModulesAssumption
  <2>2. /\ modules' = [m \in paths |-> manifest[m]] /\ selected' = paths
        /\ status' = [m \in paths |-> "building"]
        /\ flags' = [no_activate |-> no_activate, bump_patch |-> bump_patch]
        /\ stats' = NoStats /\ phase' = "building" /\ deploys' = deploys + 1
        /\ cargo' \in BOOLEAN /\ js_queue' \cup succeeded' \subseteq paths
        /\ faulted' = {} /\ UNCHANGED <<disk, server, queue, worker, settled, edits, faults>>
        /\ queue = {}
    BY <1>1 DEF discover_modules, selected, OnePlace
  <2>3. /\ modules' \in [selected' -> Version]
        /\ status' \in [selected' -> Kinds \cup {"building"}]
    BY <2>1, <2>2 DEF TypeOK
  <2>4. stats' \in [Kinds -> Nat] /\ flags' \in [no_activate : BOOLEAN, bump_patch : BOOLEAN]
    BY <2>2 DEF NoStats
  <2> QED
    BY <2>1, <2>2, <2>3, <2>4 DEF TypeOK, disk, server
<1>2. CASE run_build_phase \/ print_summary
  BY <1>2 DEF run_build_phase, print_summary, TypeOK, selected, disk, server, build, counts
<1>3. CASE exit
  BY <1>3 DEF exit, TypeOK, selected, disk, server, build, counts
<1>4. ASSUME NEW names \in SUBSET Modules, NEW x \in Sources, edit(names, x) PROVE TypeOK'
  <2>1. source' \in [Modules -> Sources]
    BY <1>4 DEF edit, TypeOK
  <2> QED
    BY <1>4, <2>1 DEF edit, TypeOK, selected, server, command, build
<1> QED
  BY <1>1, <1>2, <1>3, <1>4

\* The ways in which an upload fails before there is anything to rebuild.
UploadFails(w) == read_fails(w) \/ connection_error(w) \/ upload_one_fails(w) \/ bump_fails(w)

LEMMA UploadFailsIs ==
  ASSUME TypeOK, NEW w \in Jobs, UploadFails(w)
  PROVE  /\ Busy(w) /\ Finish(w, "failed")
         /\ UNCHANGED <<disk, server, command, build, queue, settled>>
         /\ \/ UNCHANGED counts /\ worker[w].at = "conflict"
            \/ Fault({worker[w].module})
BY BusyIs DEF UploadFails, read_fails, connection_error, upload_one_fails, bump_fails

LEMMA UploadType ==
  ASSUME TypeOK, NEW w \in Jobs,
         \/ \E m \in Modules : run_upload_phase(w, m)
         \/ upload_wasm(w) \/ SaveModule(w) \/ ActivateAndAnswer(w)
         \/ UploadFails(w)
         \/ bump_patch_version(w) \/ rebuild_starts(w) \/ rebuild_module(w)
  PROVE  TypeOK'
<1>0. Kinds = {"deployed", "bumped", "unchanged", "failed"}
  BY DEF Kinds, Successes
<1>1. ASSUME NEW m \in Modules, run_upload_phase(w, m) PROVE TypeOK'
  <2>0. m \in selected /\ modules[m] \in Version
    BY <1>1 DEF run_upload_phase, TypeOK
  <2>1. [at |-> "reading", module |-> m, version |-> modules[m]] \in WorkerState
    BY <1>1, <2>0 DEF WorkerState
  <2>2. worker' \in [Jobs -> WorkerState]
    BY <1>1, <2>1, WorkerType DEF run_upload_phase
  <2>3. UNCHANGED <<disk, server, command, build, stats, status, settled, counts>>
    BY <1>1 DEF run_upload_phase
  <2>4. queue' = queue \ {m}
    BY <1>1 DEF run_upload_phase
  <2>5. js_queue' \cup succeeded' \cup queue' \subseteq selected
    BY <2>3, <2>4 DEF TypeOK, build
  <2> QED
    BY <2>2, <2>3, <2>5 DEF TypeOK, selected, disk, server, command, build, counts
<1>2. CASE upload_wasm(w)
  <2>1. Busy(w) /\ worker[w].module \in Modules /\ worker[w].version \in Version
    BY <1>2, BusyIs, WorkerIs DEF upload_wasm
  <2>2. [at |-> "sending", module |-> worker[w].module, version |-> worker[w].version,
         bytes |-> wasm[worker[w].module]] \in WorkerState
    BY <2>1 DEF TypeOK, WorkerState
  <2>3. worker' \in [Jobs -> WorkerState]
    BY <1>2, <2>2, WorkerType DEF upload_wasm, TypeOK
  <2> QED
    BY <1>2, <2>3 DEF upload_wasm, TypeOK, selected, disk, server, command, build, counts
<1>3. CASE SaveModule(w)
  <2>1. /\ worker[w].module \in Modules /\ worker[w].version \in Version
        /\ worker[w].bytes \in Wasm \cup {None}
        /\ worker[w] \in [at : {"sending", "created", "idempotent", "conflict"},
                          module : Modules, version : Version, bytes : Wasm \cup {None}]
    BY <1>3, BusyIs, WorkerIs DEF SaveModule
  <2>2. PICK at \in {"created", "idempotent", "conflict"} :
          worker' = [worker EXCEPT ![w].at = at]
    BY <1>3 DEF SaveModule
  <2>3. [worker[w] EXCEPT !.at = at] \in WorkerState
    BY <2>1 DEF WorkerState
  <2>4. worker' \in [Jobs -> WorkerState]
    BY <2>2, <2>3 DEF TypeOK
  <2>5. published' \in [Modules -> [Version -> Wasm \cup {None}]]
    <3>1. \/ published' = published
          \/ published' = [published EXCEPT ![worker[w].module][worker[w].version]
                                      = worker[w].bytes]
      BY <1>3 DEF SaveModule
    <3>2. published \in [Modules -> [Version -> Wasm \cup {None}]]
      BY DEF TypeOK
    <3> QED
      BY <2>1, <3>1, <3>2
  <2> QED
    BY <1>3, <2>4, <2>5 DEF SaveModule, TypeOK, selected, disk, command, build, counts
<1>4. CASE ActivateAndAnswer(w)
  <2>1. Busy(w) /\ worker[w].module \in Modules /\ worker[w].version \in Version
    BY <1>4, BusyIs, WorkerIs DEF ActivateAndAnswer
  <2>2. active' \in [Modules -> Version \cup {0}]
    BY <1>4, <2>1 DEF ActivateAndAnswer, TypeOK
  <2>3. \E kind \in Kinds : Finish(w, kind)
    BY <1>0, <1>4 DEF ActivateAndAnswer
  <2>4. /\ stats' \in [Kinds -> Nat] /\ worker' \in [Jobs -> WorkerState]
        /\ status' \in [selected -> Kinds \cup {"building"}]
    BY <2>1, <2>3, FinishType
  <2> QED
    BY <1>4, <2>2, <2>4 DEF ActivateAndAnswer, TypeOK, selected, disk, command, build, counts
<1>5. CASE UploadFails(w)
  <2>1. /\ Busy(w) /\ Finish(w, "failed") /\ "failed" \in Kinds
        /\ UNCHANGED <<disk, server, command, build, queue, settled>>
    BY <1>0, <1>5, UploadFailsIs
  <2>2. /\ stats' \in [Kinds -> Nat] /\ worker' \in [Jobs -> WorkerState]
        /\ status' \in [selected -> Kinds \cup {"building"}]
    BY <2>1, FinishType
  <2>3. edits' \in Nat /\ deploys' \in Nat /\ faults' \in Nat /\ faulted' \subseteq Modules
    <3>1. {worker[w].module} \in SUBSET Modules
      BY <2>1, WorkerIs
    <3>2. UNCHANGED counts \/ Fault({worker[w].module})
      BY <1>5, UploadFailsIs
    <3> QED
      BY <3>1, <3>2, CountsType
  <2> QED
    BY <2>1, <2>2, <2>3 DEF TypeOK, selected, disk, server, command, build
<1>6. CASE bump_patch_version(w)
  <2>1. /\ worker[w].module \in Modules
        /\ worker[w].version + 1 \in Version
    BY <1>6, BusyIs, WorkerIs DEF bump_patch_version
  <2>2. [at |-> "bumped", module |-> worker[w].module, version |-> worker[w].version + 1]
          \in WorkerState
    BY <2>1 DEF WorkerState
  <2>3. worker' \in [Jobs -> WorkerState]
    BY <1>6, <2>2, WorkerType DEF bump_patch_version
  <2>4. manifest' \in [Modules -> Version]
    BY <1>6, <2>1 DEF bump_patch_version, TypeOK
  <2> QED
    BY <1>6, <2>3, <2>4 DEF bump_patch_version, TypeOK, selected, server, command, build, counts
<1>7. CASE rebuild_starts(w)
  <2>1. worker[w].module \in Modules /\ worker[w].version \in Version
    BY <1>7, BusyIs, WorkerIs DEF rebuild_starts
  <2> DEFINE names == IF worker[w].module \in Rust THEN rust_names ELSE {worker[w].module}
  <2>2. names \subseteq Modules /\ manifest \in [Modules -> Version]
    BY <2>1 DEF rust_names, TypeOK
  <2>3. worker' = [worker EXCEPT ![w] =
          [at |-> "rebuilding", module |-> worker[w].module, version |-> worker[w].version,
           versions |-> manifest, names |-> names]]
    BY <1>7 DEF rebuild_starts, TypeOK
  <2> HIDE DEF names
  <2>4. [at |-> "rebuilding", module |-> worker[w].module, version |-> worker[w].version,
         versions |-> manifest, names |-> names] \in WorkerState
    BY <2>1, <2>2 DEF WorkerState
  <2>5. worker' \in [Jobs -> WorkerState]
    BY <2>3, <2>4, WorkerType
  <2> QED
    BY <1>7, <2>5 DEF rebuild_starts, TypeOK, selected, disk, server, command, build, counts
<1>8. CASE rebuild_module(w)
  <2>1. /\ Busy(w) /\ worker[w].module \in Modules /\ worker[w].version \in Version
        /\ worker[w].versions \in [Modules -> Version] /\ worker[w].names \subseteq Modules
    BY <1>8, BusyIs, WorkerIs DEF rebuild_module
  <2>2. UNCHANGED <<source, manifest, server, command, build, queue, settled>>
    BY <1>8 DEF rebuild_module
  <2>5. edits' \in Nat /\ deploys' \in Nat /\ faults' \in Nat /\ faulted' \subseteq Modules
    BY <1>8, <2>1, CountsType DEF rebuild_module
  <2>3. CASE /\ wasm' = [m \in Modules |-> IF m \in worker[w].names /\ Makes(m)
                                         THEN Binary(m, worker[w].versions, worker[w].names)
                                         ELSE wasm[m]]
             /\ worker' = [worker EXCEPT ![w] =
                  [at |-> "reading", module |-> worker[w].module, version |-> worker[w].version]]
             /\ UNCHANGED <<stats, status>>
    <3>1. ASSUME NEW m \in Modules PROVE wasm'[m] \in Wasm \cup {None}
      BY <2>1, <2>3, BinaryType DEF TypeOK
    <3>2. wasm' \in [Modules -> Wasm \cup {None}]
      BY <2>3, <3>1
    <3>3. [at |-> "reading", module |-> worker[w].module, version |-> worker[w].version]
            \in WorkerState
      BY <2>1 DEF WorkerState
    <3>4. worker' \in [Jobs -> WorkerState]
      BY <2>3, <3>3, WorkerType
    <3> QED
      BY <2>2, <2>3, <2>5, <3>2, <3>4 DEF TypeOK, selected, server, command, build
  <2>4. CASE Finish(w, "failed") /\ UNCHANGED wasm
    <3>1. /\ stats' \in [Kinds -> Nat] /\ worker' \in [Jobs -> WorkerState]
          /\ status' \in [selected -> Kinds \cup {"building"}]
      BY <1>0, <2>1, <2>4, FinishType
    <3> QED
      BY <2>2, <2>4, <2>5, <3>1 DEF TypeOK, selected, server, command, build
  <2> QED
    BY <1>8, <2>3, <2>4 DEF rebuild_module, TypeOK
<1> QED
  BY <1>1, <1>2, <1>3, <1>4, <1>5, <1>6, <1>7, <1>8


-----------------------------------------------------------------------------
(* A module that is not finished is in one place *)

LEMMA KindsAre ==
  /\ Kinds = {"deployed", "bumped", "unchanged", "failed"} /\ "building" \notin Kinds
  /\ Successes = {"deployed", "bumped", "unchanged"} /\ "failed" \notin Successes
BY DEF Kinds, Successes

\* A busy worker has its module alone.
LEMMA BusyAlone ==
  ASSUME TypeOK, OnePlace, NEW w \in Jobs, Busy(w)
  PROVE  /\ phase = "uploading" /\ ~cargo /\ js_queue = {}
         /\ worker[w].module \in selected /\ worker[w].module \in succeeded
         /\ worker[w].module \in Modules /\ worker[w].module \notin queue
         /\ status[worker[w].module] = "building"
         /\ \A v \in Jobs : Busy(v) /\ worker[v].module = worker[w].module => v = w
<1>1. phase = "uploading" /\ ~cargo /\ js_queue = {}
  BY DEF OnePlace
<1>2. worker[w].module \in succeeded \ queue
  BY DEF OnePlace
<1>3. worker[w].module \in selected /\ worker[w].module \in Modules
  BY <1>2 DEF TypeOK
<1>4. Pending(worker[w].module)
  BY DEF Pending
<1>5. status[worker[w].module] = "building"
  BY <1>3, <1>4 DEF OnePlace
<1>6. \A v \in Jobs : Busy(v) /\ worker[v].module = worker[w].module => v = w
  BY DEF OnePlace
<1> QED
  BY <1>1, <1>2, <1>3, <1>5, <1>6

\* Workers that go on with what they have leave every module where it is.
LEMMA MovePlace ==
  ASSUME TypeOK, OnePlace,
         UNCHANGED <<phase, modules, js_queue, cargo, succeeded, queue, status>>,
         \A v \in Jobs : /\ Busy(v)' <=> Busy(v)
                         /\ Busy(v) => worker'[v].module = worker[v].module
  PROVE  OnePlace'
<1>1. selected' = selected
  BY DEF selected
<1>2. \A m : Pending(m)' <=> Pending(m)
  BY DEF Pending
<1>3. \A m \in selected : status'[m] = "building" <=> Pending(m)'
  BY <1>2 DEF OnePlace
<1>4. /\ js_queue' \subseteq Js
      /\ js_queue' \cap succeeded' = {} /\ (cargo' => succeeded' \cap Rust = {})
      /\ queue' \subseteq succeeded'
      /\ phase' # "idle" => selected' # {}
      /\ phase' # "building" => js_queue' = {} /\ ~cargo'
      /\ phase' # "uploading" => queue' = {} /\ \A w \in Jobs : ~Busy(w)'
      /\ \A m \in selected' : status'[m] \in Successes => m \in succeeded'
  BY <1>1 DEF OnePlace
<1>5. \A w \in Jobs : Busy(w)' => worker'[w].module \in succeeded' \ queue'
  BY DEF OnePlace
<1>6. \A v, w \in Jobs :
        Busy(v)' /\ Busy(w)' /\ worker'[v].module = worker'[w].module => v = w
  BY DEF OnePlace
<1> QED
  BY <1>1, <1>3, <1>4, <1>5, <1>6 DEF OnePlace

\* The same when one worker's record changes and it keeps its module.
LEMMA CarryPlace ==
  ASSUME TypeOK, OnePlace, NEW w \in Jobs, Busy(w),
         UNCHANGED <<phase, modules, js_queue, cargo, succeeded, queue, status>>,
         NEW x, x # Idle, x.module = worker[w].module,
         worker' = [worker EXCEPT ![w] = x]
  PROVE  OnePlace'
<1>1. worker \in [Jobs -> WorkerState]
  BY DEF TypeOK
<1>2. ASSUME NEW v \in Jobs
      PROVE  /\ Busy(v)' <=> Busy(v)
             /\ Busy(v) => worker'[v].module = worker[v].module
  BY <1>1 DEF Busy
<1> QED
  BY <1>2, MovePlace

\* A worker that is done has its module finished.
LEMMA FinishPlace ==
  ASSUME TypeOK, OnePlace, NEW w \in Jobs, Busy(w), NEW kind \in Kinds, Finish(w, kind),
         UNCHANGED <<phase, modules, js_queue, cargo, succeeded, queue>>
  PROVE  OnePlace'
<1> DEFINE n == worker[w].module
<1>1. /\ phase = "uploading" /\ ~cargo /\ js_queue = {} /\ n \in selected
      /\ n \in succeeded /\ n \notin queue
      /\ \A v \in Jobs : Busy(v) /\ worker[v].module = n => v = w
  BY BusyAlone
<1>2. selected' = selected
  BY DEF selected
<1>3. worker \in [Jobs -> WorkerState] /\ status \in [selected -> Kinds \cup {"building"}]
  BY DEF TypeOK
<1>4. ~Busy(w)'
  BY <1>3 DEF Finish, Busy
<1>5. \A v \in Jobs : v # w => worker'[v] = worker[v] /\ (Busy(v)' <=> Busy(v))
  BY <1>3 DEF Finish, Busy
<1>6. status'[n] = kind /\ \A m \in selected : m # n => status'[m] = status[m]
  BY <1>1, <1>3 DEF Finish
<1>7. ASSUME NEW m \in selected PROVE status'[m] = "building" <=> Pending(m)'
  <2>1. CASE m = n
    <3>1. status'[m] # "building"
      BY <2>1, <1>6, KindsAre
    <3>2. ~Pending(m)'
      BY <2>1, <1>1, <1>4, <1>5 DEF Pending
    <3> QED
      BY <3>1, <3>2
  <2>2. CASE m # n
    <3>1. Pending(m)' <=> Pending(m)
      BY <2>2, <1>4, <1>5 DEF Pending
    <3> QED
      BY <2>2, <3>1, <1>6 DEF OnePlace
  <2> QED
    BY <2>1, <2>2
<1>8. \A m \in selected' : status'[m] \in Successes => m \in succeeded'
  BY <1>1, <1>2, <1>6 DEF OnePlace
<1>9. /\ \A v \in Jobs : Busy(v)' => worker'[v].module \in succeeded' \ queue'
      /\ \A u, v \in Jobs :
           Busy(u)' /\ Busy(v)' /\ worker'[u].module = worker'[v].module => u = v
  BY <1>4, <1>5 DEF OnePlace
<1>10. /\ js_queue' \subseteq Js
       /\ js_queue' \cap succeeded' = {} /\ (cargo' => succeeded' \cap Rust = {})
       /\ queue' \subseteq succeeded'
       /\ phase' # "idle" => selected' # {}
       /\ phase' # "building" => js_queue' = {} /\ ~cargo'
       /\ phase' = "uploading"
  BY <1>1, <1>2 DEF OnePlace
<1> HIDE DEF n
<1> QED
  BY <1>2, <1>7, <1>8, <1>9, <1>10 DEF OnePlace

LEMMA BuildPlace ==
  ASSUME TypeOK, OnePlace, run_rust_build \/ spawn_fails \/ (\E m \in Modules : build_one_js(m))
  PROVE  OnePlace'
<1>0. /\ phase = "building" /\ phase' = phase /\ modules' = modules /\ selected' = selected
      /\ queue' = queue /\ worker' = worker
  BY DEF run_rust_build, spawn_fails, build_one_js, command, selected
<1>1. /\ queue = {} /\ selected # {} /\ (\A w \in Jobs : ~Busy(w) /\ ~Busy(w)')
      /\ js_queue \subseteq Js /\ js_queue \cap succeeded = {}
      /\ (cargo => succeeded \cap Rust = {})
  BY <1>0 DEF OnePlace, Busy
<1>2. status \in [selected -> Kinds \cup {"building"}] /\ selected \subseteq Modules
  BY DEF TypeOK
<1>3. \A m \in selected : /\ status[m] = "building" <=>
                               m \in js_queue \/ (cargo /\ m \in Rust) \/ m \in succeeded
                          /\ status[m] \in Successes => m \in succeeded
  BY <1>0, <1>1 DEF OnePlace, Pending
<1>4. Rust \cap Js = {}
  BY ModulesAssumption
<1>5. CASE run_rust_build \/ spawn_fails
  <2>1. PICK built \in SUBSET rust_names :
          /\ succeeded' = succeeded \cup built
          /\ status' = [m \in selected |->
               IF m \in rust_names \ built THEN "failed" ELSE status[m]]
    BY <1>5, RustBuildIs DEF RustBuilt
  <2>2. cargo /\ cargo' = FALSE /\ js_queue' = js_queue
    BY <1>5 DEF run_rust_build, spawn_fails
  <2>3. rust_names = selected \cap Rust
    BY DEF rust_names
  <2>4. ASSUME NEW m \in selected
        PROVE  status'[m] = "building" <=> m \in js_queue' \/ m \in succeeded'
    <3>1. CASE m \in Rust
      <4>1. status[m] = "building" /\ m \notin js_queue /\ m \notin succeeded
        BY <3>1, <2>2, <1>1, <1>3, <1>4
      <4> QED
        BY <3>1, <4>1, <2>1, <2>2, <2>3
    <3>2. CASE m \notin Rust
      BY <3>2, <1>3, <2>1, <2>2, <2>3
    <3> QED
      BY <3>1, <3>2
  <2>5. \A m \in selected : status'[m] = "building" <=> Pending(m)'
    BY <1>0, <1>1, <2>2, <2>4 DEF Pending
  <2>6. \A m \in selected : status'[m] \in Successes => m \in succeeded'
    BY <1>3, <2>1, KindsAre
  <2>7. js_queue' \cap succeeded' = {}
    BY <1>1, <1>4, <2>1, <2>2, <2>3
  <2>8. queue' \subseteq succeeded'
    BY <1>0, <1>1
  <2> QED
    BY <1>0, <1>1, <2>2, <2>5, <2>6, <2>7, <2>8 DEF OnePlace
<1>6. ASSUME NEW n \in Modules, build_one_js(n) PROVE OnePlace'
  <2>1. n \in js_queue /\ js_queue' = js_queue \ {n} /\ cargo' = cargo
    BY <1>6 DEF build_one_js
  <2>2. n \in selected /\ n \notin Rust /\ n \notin succeeded
    BY <2>1, <1>1, <1>4 DEF TypeOK
  <2>3. \/ succeeded' = succeeded \cup {n} /\ status' = status
        \/ succeeded' = succeeded /\ status' = [status EXCEPT ![n] = "failed"]
    BY <1>6 DEF build_one_js
  <2>4. ASSUME NEW m \in selected
        PROVE  status'[m] = "building" <=>
                 m \in js_queue' \/ (cargo' /\ m \in Rust) \/ m \in succeeded'
    <3>1. CASE m = n
      BY <3>1, <1>2, <1>3, <2>1, <2>2, <2>3
    <3>2. CASE m # n
      BY <3>2, <1>2, <1>3, <2>1, <2>2, <2>3
    <3> QED
      BY <3>1, <3>2
  <2>5. \A m \in selected : status'[m] = "building" <=> Pending(m)'
    BY <1>0, <1>1, <2>4 DEF Pending
  <2>6. \A m \in selected : status'[m] \in Successes => m \in succeeded'
    BY <1>2, <1>3, <2>2, <2>3, KindsAre
  <2>7. /\ js_queue' \cap succeeded' = {} /\ (cargo' => succeeded' \cap Rust = {})
        /\ js_queue' \subseteq Js /\ queue' \subseteq succeeded'
    BY <1>0, <1>1, <2>1, <2>2, <2>3
  <2> QED
    BY <1>0, <1>1, <2>5, <2>6, <2>7 DEF OnePlace
<1> QED
  BY <1>5, <1>6

LEMMA CommandPlace ==
  ASSUME TypeOK, OnePlace,
         \/ \E paths \in Selections, no_activate, bump_patch \in BOOLEAN :
              discover_modules(paths, no_activate, bump_patch)
         \/ run_build_phase \/ print_summary \/ exit
         \/ \E names \in SUBSET Modules, x \in Sources : edit(names, x)
  PROVE  OnePlace'
<1>0. worker' = worker /\ \A w \in Jobs : Busy(w)' <=> Busy(w)
  BY DEF discover_modules, run_build_phase, print_summary, exit, edit, Busy
<1>1. ASSUME NEW paths \in Selections, NEW no_activate \in BOOLEAN, NEW bump_patch \in BOOLEAN,
             discover_modules(paths, no_activate, bump_patch)
      PROVE  OnePlace'
  <2>1. paths \subseteq Modules /\ paths # {} /\ Modules = Rust \cup Js
    BY ModulesAssumption DEF Modules
  <2>2. /\ selected' = paths /\ status' = [m \in paths |-> "building"]
        /\ phase = "idle" /\ phase' = "building"
        /\ cargo' = (paths \cap Rust # {}) /\ js_queue' = paths \cap Js /\ succeeded' = {}
        /\ queue' = queue
    BY <1>1 DEF discover_modules, selected
  <2>3. queue' = {} /\ \A w \in Jobs : ~Busy(w)'
    BY <1>0, <2>2 DEF OnePlace
  <2>4. \A m \in paths : Pending(m)'
    BY <2>1, <2>2 DEF Pending
  <2>5. \A m \in paths : status'[m] = "building" /\ status'[m] \notin Successes
    BY <2>2, KindsAre
  <2> QED
    BY <2>1, <2>2, <2>3, <2>4, <2>5 DEF OnePlace
<1>2. CASE run_build_phase
  <2>1. /\ phase = "building" /\ phase' = "uploading" /\ ~cargo /\ js_queue = {}
        /\ queue' = {m \in selected : m \in succeeded} /\ selected' = selected
        /\ UNCHANGED <<js_queue, cargo, succeeded, status>>
    BY <1>2 DEF run_build_phase, build, selected
  <2>2. queue' = succeeded
    BY <2>1 DEF TypeOK
  <2>3. \A w \in Jobs : ~Busy(w)'
    BY <1>0, <2>1 DEF OnePlace
  <2>4. \A m : Pending(m)' <=> Pending(m)
    BY <1>0, <2>1, <2>2, <2>3 DEF Pending, OnePlace
  <2>5. \A m \in selected' : status'[m] = "building" <=> Pending(m)'
    BY <2>1, <2>4 DEF OnePlace
  <2> QED
    BY <2>1, <2>2, <2>3, <2>5 DEF OnePlace
<1>3. CASE print_summary
  <2>1. /\ phase = "uploading" /\ phase' = "done" /\ queue = {} /\ selected' = selected
        /\ UNCHANGED <<js_queue, cargo, succeeded, status, queue>>
        /\ \A w \in Jobs : ~Busy(w)
    BY <1>3 DEF print_summary, build, selected, Busy
  <2>2. \A m : Pending(m)' <=> Pending(m)
    BY <1>0, <2>1 DEF Pending
  <2>3. \A m \in selected' : status'[m] = "building" <=> Pending(m)'
    BY <2>1, <2>2 DEF OnePlace
  <2> QED
    BY <1>0, <2>1, <2>3 DEF OnePlace
<1>4. CASE exit
  <2>1. /\ phase = "done" /\ phase' = "idle" /\ selected' = selected
        /\ UNCHANGED <<js_queue, cargo, succeeded, status, queue>>
    BY <1>4 DEF exit, build, selected
  <2>2. \A m : Pending(m)' <=> Pending(m)
    BY <1>0, <2>1 DEF Pending
  <2>3. \A m \in selected' : status'[m] = "building" <=> Pending(m)'
    BY <2>1, <2>2 DEF OnePlace
  <2> QED
    BY <1>0, <2>1, <2>3 DEF OnePlace
<1>5. ASSUME NEW names \in SUBSET Modules, NEW x \in Sources, edit(names, x) PROVE OnePlace'
  <2>1. UNCHANGED <<phase, modules, js_queue, cargo, succeeded, queue, status>>
    BY <1>5 DEF edit, command, build
  <2> QED
    BY <1>0, <2>1, MovePlace
<1> QED
  BY <1>1, <1>2, <1>3, <1>4, <1>5

\* What a step of an upload thread does to its module: it starts on it, goes on with
\* it or is done with it.
Starts(w) == \E m \in Modules : run_upload_phase(w, m)

Continues(w) ==
  \/ upload_wasm(w) \/ SaveModule(w) \/ bump_patch_version(w) \/ rebuild_starts(w)
  \/ rebuild_module(w) /\ worker'[w] # Idle

Ends(w) ==
  \/ ActivateAndAnswer(w) \/ UploadFails(w)
  \/ rebuild_module(w) /\ worker'[w] = Idle

\* A rebuild in one formula: all is built and the upload goes on, or the module has failed.
Rebuilt(w) ==
  /\ \A m \in worker[w].names : Compiles(m)
  /\ wasm' = [m \in Modules |-> IF m \in worker[w].names /\ Makes(m)
                               THEN Binary(m, worker[w].versions, worker[w].names)
                               ELSE wasm[m]]
  /\ worker' = [worker EXCEPT ![w] =
       [at |-> "reading", module |-> worker[w].module, version |-> worker[w].version]]
  /\ UNCHANGED <<stats, status, counts>>

LEMMA RebuildIs ==
  ASSUME TypeOK, NEW w \in Jobs, rebuild_module(w)
  PROVE  /\ worker'[w] # Idle => Rebuilt(w)
         /\ worker'[w] = Idle => Finish(w, "failed") /\ UNCHANGED wasm
<1>1. worker \in [Jobs -> WorkerState]
  BY DEF TypeOK
<1>2. CASE Rebuilt(w)
  <2>1. worker'[w].at = "reading" /\ Idle.at = "idle"
    BY <1>1, <1>2 DEF Rebuilt, Idle
  <2> QED
    BY <1>2, <2>1
<1>3. CASE Finish(w, "failed") /\ UNCHANGED wasm
  BY <1>1, <1>3 DEF Finish
<1> QED
  BY <1>2, <1>3 DEF rebuild_module, Rebuilt, TypeOK

\* A record of a worker that is at work.
Working(x, m) == x # Idle /\ x.module = m

LEMMA ContinuesIs ==
  ASSUME TypeOK, NEW w \in Jobs, Continues(w)
  PROVE  /\ Busy(w) /\ UNCHANGED <<phase, modules, flags, js_queue, cargo, succeeded, queue,
                                   source, active, stats, status, settled, counts>>
         /\ \E x : Working(x, worker[w].module) /\ worker' = [worker EXCEPT ![w] = x]
<1>1. CASE upload_wasm(w)
  <2> DEFINE x == [at |-> "sending", module |-> worker[w].module,
                   version |-> worker[w].version, bytes |-> wasm[worker[w].module]]
  <2>1. worker' = [worker EXCEPT ![w] = x]
    BY <1>1 DEF upload_wasm, TypeOK
  <2>2. Working(x, worker[w].module)
    BY DEF Working, Idle
  <2>3. Busy(w)
    BY <1>1, BusyIs DEF upload_wasm
  <2> HIDE DEF x
  <2> QED
    BY <1>1, <2>1, <2>2, <2>3 DEF upload_wasm, disk, server, command, build
<1>2. CASE SaveModule(w)
  <2>1. PICK at \in {"created", "idempotent", "conflict"} :
          worker' = [worker EXCEPT ![w].at = at]
    BY <1>2 DEF SaveModule
  <2>2. /\ Busy(w)
        /\ worker[w] \in [at : {"sending", "created", "idempotent", "conflict"},
                          module : Modules, version : Version, bytes : Wasm \cup {None}]
    BY <1>2, BusyIs, WorkerIs DEF SaveModule
  <2>3. Working([worker[w] EXCEPT !.at = at], worker[w].module)
    BY <2>2 DEF Working, Idle
  <2>4. worker' = [worker EXCEPT ![w] = [worker[w] EXCEPT !.at = at]]
    BY <2>1 DEF TypeOK
  <2> QED
    BY <1>2, <2>2, <2>3, <2>4 DEF SaveModule, disk, command, build
<1>3. CASE bump_patch_version(w)
  <2> DEFINE x == [at |-> "bumped", module |-> worker[w].module,
                   version |-> worker[w].version + 1]
  <2>1. worker' = [worker EXCEPT ![w] = x] /\ Busy(w)
    BY <1>3, BusyIs DEF bump_patch_version
  <2>2. Working(x, worker[w].module)
    BY DEF Working, Idle
  <2> HIDE DEF x
  <2> QED
    BY <1>3, <2>1, <2>2 DEF bump_patch_version, server, command, build
<1>4. CASE rebuild_starts(w)
  <2> DEFINE names == IF worker[w].module \in Rust THEN rust_names ELSE {worker[w].module}
             x == [at |-> "rebuilding", module |-> worker[w].module,
                   version |-> worker[w].version, versions |-> manifest, names |-> names]
  <2>1. worker' = [worker EXCEPT ![w] = x] /\ Busy(w)
    BY <1>4, BusyIs DEF rebuild_starts, TypeOK
  <2>2. Working(x, worker[w].module)
    BY DEF Working, Idle
  <2> HIDE DEF x
  <2> QED
    BY <1>4, <2>1, <2>2 DEF rebuild_starts, disk, server, command, build
<1>5. CASE rebuild_module(w) /\ worker'[w] # Idle
  <2> DEFINE x == [at |-> "reading", module |-> worker[w].module,
                   version |-> worker[w].version]
  <2>1. worker' = [worker EXCEPT ![w] = x] /\ UNCHANGED <<stats, status, counts>>
    BY <1>5, RebuildIs DEF Rebuilt
  <2>2. Busy(w)
    BY <1>5, BusyIs DEF rebuild_module
  <2>3. Working(x, worker[w].module)
    BY DEF Working, Idle
  <2> HIDE DEF x
  <2> QED
    BY <1>5, <2>1, <2>2, <2>3 DEF rebuild_module, server, command, build
<1> QED
  BY <1>1, <1>2, <1>3, <1>4, <1>5 DEF Continues

LEMMA EndsIs ==
  ASSUME TypeOK, NEW w \in Jobs, Ends(w)
  PROVE  /\ Busy(w) /\ UNCHANGED <<phase, modules, flags, js_queue, cargo, succeeded, queue,
                                   source, wasm, manifest, published, settled>>
         /\ \E kind \in Kinds : Finish(w, kind)
<1>1. Busy(w)
  BY BusyIs, UploadFailsIs DEF Ends, ActivateAndAnswer, rebuild_module
<1>2. \E kind \in Kinds : Finish(w, kind)
  BY KindsAre, RebuildIs, UploadFailsIs DEF Ends, ActivateAndAnswer
<1>3. CASE rebuild_module(w) /\ worker'[w] = Idle
  BY <1>1, <1>2, <1>3, RebuildIs DEF rebuild_module, server, command, build
<1>4. CASE ActivateAndAnswer(w)
  BY <1>1, <1>2, <1>4 DEF ActivateAndAnswer, disk, server, command, build
<1>5. CASE UploadFails(w)
  BY <1>1, <1>2, <1>5, UploadFailsIs DEF disk, server, command, build
<1> QED
  BY <1>3, <1>4, <1>5 DEF Ends

LEMMA UploadPlace ==
  ASSUME TypeOK, OnePlace, NEW w \in Jobs, Starts(w) \/ Continues(w) \/ Ends(w)
  PROVE  OnePlace'
<1>1. ASSUME NEW n \in Modules, run_upload_phase(w, n) PROVE OnePlace'
  <2>1. /\ phase = "uploading" /\ ~Busy(w) /\ n \in queue /\ queue' = queue \ {n}
        /\ worker' = [worker EXCEPT ![w] =
             [at |-> "reading", module |-> n, version |-> modules[n]]]
        /\ UNCHANGED <<phase, modules, js_queue, cargo, succeeded, status>>
    BY <1>1 DEF run_upload_phase, command, build, Busy
  <2>2. selected' = selected /\ worker \in [Jobs -> WorkerState]
    BY <2>1 DEF selected, TypeOK
  <2>3. /\ Busy(w)' /\ worker'[w].module = n
        /\ \A v \in Jobs : v # w => worker'[v] = worker[v] /\ (Busy(v)' <=> Busy(v))
    BY <2>1, <2>2 DEF Busy, Idle
  <2>4. n \in succeeded /\ n \in selected /\ \A v \in Jobs : Busy(v) => worker[v].module # n
    BY <2>1 DEF OnePlace, TypeOK
  <2>5. \A m : Pending(m)' <=> Pending(m)
    BY <2>1, <2>3, <2>4 DEF Pending
  <2>6. \A m \in selected' : status'[m] = "building" <=> Pending(m)'
    BY <2>1, <2>2, <2>5 DEF OnePlace
  <2>7. \A v \in Jobs : Busy(v)' => worker'[v].module \in succeeded' \ queue'
    BY <2>1, <2>3, <2>4 DEF OnePlace
  <2>8. \A u, v \in Jobs :
          Busy(u)' /\ Busy(v)' /\ worker'[u].module = worker'[v].module => u = v
    BY <2>3, <2>4 DEF OnePlace
  <2>9. /\ js_queue' \subseteq Js
        /\ js_queue' \cap succeeded' = {} /\ (cargo' => succeeded' \cap Rust = {})
        /\ queue' \subseteq succeeded'
        /\ phase' # "idle" => selected' # {}
        /\ phase' # "building" => js_queue' = {} /\ ~cargo'
        /\ phase' = "uploading"
        /\ \A m \in selected' : status'[m] \in Successes => m \in succeeded'
    BY <2>1, <2>2 DEF OnePlace
  <2> QED
    BY <2>6, <2>7, <2>8, <2>9 DEF OnePlace
<1>2. CASE Continues(w)
  <2>1. PICK x : Working(x, worker[w].module) /\ worker' = [worker EXCEPT ![w] = x]
    BY <1>2, ContinuesIs
  <2>2. Busy(w) /\ UNCHANGED <<phase, modules, js_queue, cargo, succeeded, queue, status>>
    BY <1>2, ContinuesIs
  <2>3. x # Idle /\ x.module = worker[w].module
    BY <2>1 DEF Working
  <2> QED
    BY <2>1, <2>2, <2>3, CarryPlace
<1>3. CASE Ends(w)
  <2>1. PICK kind \in Kinds : Finish(w, kind)
    BY <1>3, EndsIs
  <2>2. Busy(w) /\ UNCHANGED <<phase, modules, js_queue, cargo, succeeded, queue>>
    BY <1>3, EndsIs
  <2> QED
    BY <2>1, <2>2, FinishPlace
<1> QED
  BY <1>1, <1>2, <1>3 DEF Starts

LEMMA UploadCases ==
  ASSUME TypeOK, NEW w \in Jobs,
         \/ \E m \in Modules : run_upload_phase(w, m)
         \/ upload_wasm(w) \/ SaveModule(w) \/ ActivateAndAnswer(w)
         \/ UploadFails(w)
         \/ bump_patch_version(w) \/ rebuild_starts(w) \/ rebuild_module(w)
  PROVE  Starts(w) \/ Continues(w) \/ Ends(w)
BY DEF Starts, Continues, Ends

-----------------------------------------------------------------------------
(* Every module is counted once *)

LEMMA SelectedFinite ==
  ASSUME TypeOK
  PROVE  /\ IsFiniteSet(selected)
         /\ \A S \in SUBSET selected : IsFiniteSet(S) /\ Cardinality(S) \in Nat
<1>1. IsFiniteSet(Modules)
  BY ModulesAssumption, FS_Union DEF Modules
<1>2. IsFiniteSet(selected)
  BY <1>1, FS_Subset DEF TypeOK
<1> QED
  BY <1>2, FS_Subset, FS_CardinalityType

\* The modules whose rows show the kind.
Shows(kind) == {m \in selected : status[m] = kind}

LEMMA CountedIs ==
  Counted <=> \A kind \in Kinds : stats[kind] = Cardinality(Shows(kind))
BY DEF Counted, Shows

\* A module that was being built and ends is counted where its row shows it.
LEMMA CountMore ==
  ASSUME TypeOK, Counted, NEW n \in selected, status[n] = "building", NEW kind \in Kinds,
         status' = [status EXCEPT ![n] = kind], stats' = Count(stats, kind),
         modules' = modules
  PROVE  Counted'
<1>1. /\ selected' = selected /\ status \in [selected -> Kinds \cup {"building"}]
      /\ stats \in [Kinds -> Nat]
  BY DEF TypeOK, selected
<1>2. ASSUME NEW k \in Kinds PROVE stats'[k] = Cardinality(Shows(k)')
  <2>1. Shows(k)' = {m \in selected : status'[m] = k}
    BY <1>1 DEF Shows
  <2>2. CASE k = kind
    <3>1. Shows(k)' = Shows(k) \cup {n}
      BY <1>1, <2>1, <2>2 DEF Shows
    <3>2. n \notin Shows(k)
      BY KindsAre DEF Shows
    <3>3. IsFiniteSet(Shows(k))
      BY SelectedFinite DEF Shows
    <3>4. Cardinality(Shows(k)') = Cardinality(Shows(k)) + 1
      BY <3>1, <3>2, <3>3, FS_AddElement
    <3>5. stats'[k] = stats[k] + 1
      BY <1>1, <2>2 DEF Count
    <3> QED
      BY <3>4, <3>5, CountedIs
  <2>3. CASE k # kind
    <3>1. Shows(k)' = Shows(k)
      BY <1>1, <2>1, <2>3, KindsAre DEF Shows
    <3>2. stats'[k] = stats[k]
      BY <1>1, <2>3 DEF Count
    <3> QED
      BY <3>1, <3>2, CountedIs
  <2> QED
    BY <2>2, <2>3
<1>3. \A k \in Kinds : stats'[k] = Cardinality({m \in selected' : status'[m] = k})
  BY <1>2 DEF Shows
<1> QED
  BY <1>3 DEF Counted

LEMMA CountKept ==
  ASSUME Counted, UNCHANGED <<modules, status, stats>> PROVE Counted'
BY DEF Counted, selected

\* Cargo failing counts all it had not finished.
LEMMA RustCounted ==
  ASSUME TypeOK, OnePlace, Counted, run_rust_build \/ spawn_fails PROVE Counted'
<1>1. PICK built \in SUBSET rust_names :
        /\ stats' = [stats EXCEPT !["failed"] = @ + Cardinality(rust_names \ built)]
        /\ status' = [m \in selected |->
             IF m \in rust_names \ built THEN "failed" ELSE status[m]]
  BY RustBuildIs DEF RustBuilt
<1>2. /\ selected' = selected /\ stats \in [Kinds -> Nat] /\ cargo
  BY DEF run_rust_build, spawn_fails, command, selected, TypeOK
<1> DEFINE F == rust_names \ built
<1>3. F \subseteq selected /\ \A m \in F : status[m] = "building"
  BY <1>2 DEF OnePlace, Pending, rust_names
<1>4. ASSUME NEW k \in Kinds PROVE stats'[k] = Cardinality(Shows(k)')
  <2>1. Shows(k)' = {m \in selected : (IF m \in F THEN "failed" ELSE status[m]) = k}
    BY <1>1, <1>2 DEF Shows
  <2>2. F \cap Shows(k) = {}
    BY <1>3, KindsAre DEF Shows
  <2>3. CASE k = "failed"
    <3>1. Shows(k)' = Shows(k) \cup F
      BY <1>3, <2>1, <2>3 DEF Shows
    <3>2. IsFiniteSet(Shows(k)) /\ IsFiniteSet(F)
      BY <1>3, SelectedFinite DEF Shows
    <3>3. /\ Cardinality(Shows(k)) \in Nat /\ Cardinality(F) \in Nat
          /\ Cardinality(F \cap Shows(k)) = 0
      BY <2>2, <3>2, FS_CardinalityType, FS_EmptySet
    <3>4. Cardinality(Shows(k) \cup F) = Cardinality(Shows(k)) + Cardinality(F)
      <4>1. Shows(k) \cap F = {}
        BY <2>2
      <4>2. Cardinality(Shows(k) \cup F) = Cardinality(Shows(k)) + Cardinality(F)
                                         - Cardinality(Shows(k) \cap F)
        BY <3>2, FS_Union
      <4>3. Cardinality(Shows(k) \cap F) = 0
        BY <4>1, FS_EmptySet
      <4> QED
        BY <3>3, <4>2, <4>3
    <3>5. stats'[k] = stats[k] + Cardinality(F)
      BY <1>1, <1>2, <2>3
    <3> QED
      BY <3>1, <3>4, <3>5, CountedIs
  <2>4. CASE k # "failed"
    <3>1. Shows(k)' = Shows(k)
      BY <2>1, <2>2, <2>4 DEF Shows
    <3>2. stats'[k] = stats[k]
      BY <1>1, <1>2, <2>4
    <3> QED
      BY <3>1, <3>2, CountedIs
  <2> QED
    BY <2>3, <2>4
<1> HIDE DEF F
<1>5. \A k \in Kinds : stats'[k] = Cardinality({m \in selected' : status'[m] = k})
  BY <1>4 DEF Shows
<1> QED
  BY <1>5 DEF Counted

LEMMA CommandCounted ==
  ASSUME TypeOK, OnePlace, Counted,
         \/ \E paths \in Selections, no_activate, bump_patch \in BOOLEAN :
              discover_modules(paths, no_activate, bump_patch)
         \/ run_build_phase \/ print_summary \/ exit
         \/ \E m \in Modules : build_one_js(m)
         \/ \E names \in SUBSET Modules, x \in Sources : edit(names, x)
  PROVE  Counted'
<1>1. ASSUME NEW paths \in Selections, NEW no_activate \in BOOLEAN, NEW bump_patch \in BOOLEAN,
             discover_modules(paths, no_activate, bump_patch)
      PROVE  Counted'
  <2>1. /\ selected' = paths /\ status' = [m \in paths |-> "building"] /\ stats' = NoStats
    BY <1>1 DEF discover_modules, selected
  <2>2. ASSUME NEW k \in Kinds PROVE stats'[k] = Cardinality({m \in selected' : status'[m] = k})
    <3>1. {m \in selected' : status'[m] = k} = {}
      BY <2>1, KindsAre
    <3>2. stats'[k] = 0
      BY <2>1 DEF NoStats
    <3> QED
      BY <3>1, <3>2, FS_EmptySet
  <2> QED
    BY <2>2 DEF Counted
<1>2. CASE run_build_phase \/ print_summary \/ exit
  BY <1>2, CountKept DEF run_build_phase, print_summary, exit
<1>3. ASSUME NEW names \in SUBSET Modules, NEW x \in Sources, edit(names, x) PROVE Counted'
  BY <1>3, CountKept DEF edit, command
<1>4. ASSUME NEW n \in Modules, build_one_js(n) PROVE Counted'
  <2>1. n \in js_queue /\ n \in selected
    BY <1>4 DEF build_one_js, TypeOK
  <2>2. status[n] = "building" /\ modules' = modules /\ "failed" \in Kinds
    BY <1>4, <2>1, KindsAre DEF OnePlace, Pending, build_one_js, command
  <2>3. \/ UNCHANGED <<stats, status>>
        \/ stats' = Count(stats, "failed") /\ status' = [status EXCEPT ![n] = "failed"]
    BY <1>4 DEF build_one_js
  <2> QED
    BY <2>1, <2>2, <2>3, CountKept, CountMore
<1> QED
  BY <1>1, <1>2, <1>3, <1>4

LEMMA UploadCounted ==
  ASSUME TypeOK, OnePlace, Counted, NEW w \in Jobs, Starts(w) \/ Continues(w) \/ Ends(w)
  PROVE  Counted'
<1>1. CASE Starts(w)
  BY <1>1, CountKept DEF Starts, run_upload_phase, command
<1>2. CASE Continues(w)
  <2>1. UNCHANGED <<modules, status, stats>>
    BY <1>2, ContinuesIs
  <2> QED
    BY <2>1, CountKept
<1>3. CASE Ends(w)
  <2>1. PICK kind \in Kinds : Finish(w, kind)
    BY <1>3, EndsIs
  <2>2. Busy(w) /\ modules' = modules
    BY <1>3, EndsIs
  <2>3. worker[w].module \in selected /\ status[worker[w].module] = "building"
    BY <2>2, BusyAlone
  <2>4. /\ status' = [status EXCEPT ![worker[w].module] = kind]
        /\ stats' = Count(stats, kind)
    BY <2>1 DEF Finish
  <2> QED
    BY <2>2, <2>3, <2>4, CountMore
<1> QED
  BY <1>1, <1>2, <1>3

-----------------------------------------------------------------------------
(* What is built and sent is made from the sources *)

\* What cargo or npm makes of a module that belongs to this deploy.
LEMMA BinaryBuilt ==
  ASSUME TypeOK, NEW m \in Modules, NEW versions \in [Modules -> Version], NEW names,
         m \in Rust => names = rust_names
  PROVE  Binary(m, versions, names) \in Built(m) /\ Binary(m, versions, names) # None
<1> DEFINE version == IF VersionInBytes THEN versions[m] ELSE 0
           with == IF m \in Rust THEN names ELSE {}
<1>1. version \in (IF VersionInBytes THEN Version ELSE {0})
  OBVIOUS
<1>2. with = IF m \in Rust THEN rust_names ELSE {}
  OBVIOUS
<1> HIDE DEF version, with
<1>3. [kind |-> "wasm", src |-> source[m], version |-> version, with |-> with] \in Built(m)
  BY <1>1, <1>2 DEF Built
<1>4. [kind |-> "wasm", src |-> source[m], version |-> version, with |-> with] # None
  BY DEF None
<1> QED
  BY <1>3, <1>4 DEF Binary, version, with

LEMMA BuiltIsFile ==
  ASSUME NEW m, NEW x \in Built(m) PROVE x # None /\ x.src = source[m]
BY DEF Built, None

LEMMA BuiltKept ==
  ASSUME UNCHANGED <<source, modules>>, NEW m
  PROVE  Built(m)' = Built(m) /\ Makes(m)' = Makes(m) /\ rust_names' = rust_names
BY DEF Built, Makes, Compiles, rust_names, selected

LEMMA BuildFromSource ==
  ASSUME TypeOK, OnePlace, FromSource,
         run_rust_build \/ spawn_fails \/ (\E m \in Modules : build_one_js(m))
  PROVE  FromSource'
<1>0. /\ phase = "building" /\ phase' = phase /\ modules' = modules /\ selected' = selected
      /\ UNCHANGED <<source, manifest, flags, published, active, worker>>
  BY DEF run_rust_build, spawn_fails, build_one_js, disk, command, server, selected
<1>1. \A w \in Jobs : ~Busy(w) /\ ~Busy(w)'
  BY <1>0 DEF OnePlace, Busy
<1>2. ASSUME NEW m \in selected, status'[m] \in {status[m], "failed"} PROVE Row(m)'
  <2>1. Row(m)
    BY <1>0 DEF FromSource
  <2>2. status'[m] = "building" => modules'[m] = manifest'[m]
    BY <1>0, <1>1, <1>2, <2>1, KindsAre DEF Row
  <2>3. status'[m] \in Successes =>
          /\ published'[m][manifest'[m]] \in Built(m)'
          /\ ~flags'.no_activate => active'[m] = manifest'[m]
    BY <1>0, <1>2, <2>1, KindsAre, BuiltKept DEF Row
  <2> QED
    BY <2>2, <2>3 DEF Row
<1>3. CASE run_rust_build \/ spawn_fails
  <2>1. PICK built \in SUBSET rust_names :
          /\ \A m \in built : Makes(m)
          /\ succeeded' = succeeded \cup built
          /\ wasm' = [m \in Modules |->
               IF m \in built THEN Binary(m, manifest, rust_names) ELSE wasm[m]]
          /\ status' = [m \in selected |->
               IF m \in rust_names \ built THEN "failed" ELSE status[m]]
    BY <1>3, RustBuildIs DEF RustBuilt
  <2>2. \A m \in selected : Row(m)'
    BY <1>2, <2>1
  <2>3. ASSUME NEW m \in succeeded' PROVE Makes(m)' /\ wasm'[m] \in Built(m)'
    <3>1. m \in Modules
      BY <2>1 DEF TypeOK, rust_names
    <3>2. CASE m \in built
      <4>1. Makes(m) /\ wasm'[m] = Binary(m, manifest, rust_names)
        BY <2>1, <3>1, <3>2
      <4>2. Binary(m, manifest, rust_names) \in Built(m)
        BY <3>1, BinaryBuilt DEF TypeOK
      <4> QED
        BY <1>0, <4>1, <4>2, BuiltKept
    <3>3. CASE m \notin built
      <4>1. m \in succeeded /\ wasm'[m] = wasm[m]
        BY <2>1, <3>1, <3>3
      <4>2. Makes(m) /\ wasm[m] \in Built(m)
        BY <1>0, <4>1 DEF FromSource, BuiltRight
      <4> QED
        BY <1>0, <4>1, <4>2, BuiltKept
    <3> QED
      BY <3>2, <3>3
  <2> QED
    BY <1>0, <1>1, <2>2, <2>3 DEF FromSource, BuiltRight
<1>4. ASSUME NEW n \in Modules, build_one_js(n) PROVE FromSource'
  <2>1. \/ /\ Makes(n) /\ succeeded' = succeeded \cup {n} /\ status' = status
           /\ wasm' = [wasm EXCEPT ![n] = Binary(n, manifest, {})]
        \/ succeeded' = succeeded /\ wasm' = wasm /\ status' = [status EXCEPT ![n] = "failed"]
    BY <1>4 DEF build_one_js
  <2>2. \A m \in selected : status'[m] \in {status[m], "failed"}
    BY <2>1 DEF TypeOK
  <2>3. \A m \in selected : Row(m)'
    BY <1>2, <2>2
  <2>4. n \notin Rust
    BY <1>4, ModulesAssumption DEF build_one_js, OnePlace
  <2>5. Binary(n, manifest, {}) \in Built(n)
    BY <2>4, BinaryBuilt DEF TypeOK
  <2>6. ASSUME NEW m \in succeeded' PROVE Makes(m)' /\ wasm'[m] \in Built(m)'
    <3>1. CASE m \in succeeded /\ wasm'[m] = wasm[m]
      <4>1. Makes(m) /\ wasm[m] \in Built(m)
        BY <1>0, <3>1 DEF FromSource, BuiltRight
      <4> QED
        BY <1>0, <3>1, <4>1, BuiltKept
    <3>2. CASE m = n /\ Makes(n) /\ wasm'[n] = Binary(n, manifest, {})
      BY <1>0, <2>5, <3>2, BuiltKept
    <3> QED
      BY <2>1, <3>1, <3>2 DEF TypeOK
  <2> QED
    BY <1>0, <1>1, <2>3, <2>6 DEF FromSource, BuiltRight
<1> QED
  BY <1>3, <1>4

LEMMA CommandFromSource ==
  ASSUME TypeOK, OnePlace, FromSource,
         \/ \E paths \in Selections, no_activate, bump_patch \in BOOLEAN :
              discover_modules(paths, no_activate, bump_patch)
         \/ run_build_phase \/ print_summary \/ exit
         \/ \E names \in SUBSET Modules, x \in Sources : edit(names, x)
  PROVE  FromSource'
<1>1. ASSUME NEW paths \in Selections, NEW no_activate \in BOOLEAN, NEW bump_patch \in BOOLEAN,
             discover_modules(paths, no_activate, bump_patch)
      PROVE  FromSource'
  <2>1. /\ phase = "idle" /\ selected' = paths /\ modules' = [m \in paths |-> manifest[m]]
        /\ manifest' = manifest /\ worker' = worker /\ succeeded' = {}
        /\ status' = [m \in paths |-> "building"]
    BY <1>1 DEF discover_modules, selected, disk
  <2>2. \A w \in Jobs : ~Busy(w)'
    BY <2>1 DEF OnePlace, Busy
  <2>3. \A m \in paths : Row(m)'
    BY <2>1, KindsAre DEF Row
  <2> QED
    BY <2>1, <2>2, <2>3 DEF FromSource, BuiltRight
<1>2. CASE run_build_phase \/ print_summary
  <2>1. /\ phase \in {"building", "uploading"} /\ selected' = selected
        /\ UNCHANGED <<disk, server, modules, flags, succeeded, worker, status>>
    BY <1>2 DEF run_build_phase, print_summary, build, selected
  <2>2. /\ BuiltRight /\ (\A w \in Jobs : Busy(w) => Carries(w))
        /\ \A m \in selected : Row(m)
    BY <2>1 DEF FromSource
  <2>3. BuiltRight'
    BY <2>1, <2>2, BuiltKept DEF BuiltRight, disk
  <2>4. \A w \in Jobs : Busy(w)' => Carries(w)'
    BY <2>1, <2>2, BuiltKept DEF Carries, Busy, disk, server
  <2>5. \A m \in selected : Row(m)'
    BY <2>1, <2>2, BuiltKept DEF Row, Busy, disk, server
  <2> QED
    BY <2>1, <2>3, <2>4, <2>5 DEF FromSource
<1>3. CASE exit \/ \E names \in SUBSET Modules, x \in Sources : edit(names, x)
  <2>1. phase # "uploading" /\ phase' = "idle" /\ worker' = worker
    BY <1>3 DEF exit, edit, command
  <2>2. \A w \in Jobs : ~Busy(w)'
    BY <2>1 DEF OnePlace, Busy
  <2> QED
    BY <2>1, <2>2 DEF FromSource, BuiltRight
<1> QED
  BY <1>1, <1>2, <1>3

\* A step of a busy worker touches nothing of the modules that are not its own but,
\* when it builds again, their files.
LEMMA OwnModule ==
  ASSUME TypeOK, OnePlace, FromSource, NEW w \in Jobs, Busy(w), NEW n, n = worker[w].module,
         UNCHANGED <<phase, modules, flags, source, succeeded>>, BuiltRight',
         \A v \in Jobs : v # w => worker'[v] = worker[v],
         \A m \in Modules : m # n =>
           /\ manifest'[m] = manifest[m] /\ published'[m] = published[m]
           /\ active'[m] = active[m] /\ (m \in selected => status'[m] = status[m]),
         Busy(w)' => worker'[w].module = n /\ Carries(w)',
         status'[n] = "building" => Busy(w)',
         status'[n] \in Successes =>
           /\ published'[n][manifest'[n]] \in Built(n)
           /\ ~flags.no_activate => active'[n] = manifest'[n]
  PROVE  FromSource'
<1>1. /\ phase = "uploading" /\ selected' = selected /\ selected \subseteq Modules
      /\ \A v \in Jobs : Busy(v) /\ worker[v].module = n => v = w
  BY BusyAlone DEF selected, TypeOK
<1>2. ASSUME NEW v \in Jobs, Busy(v)' PROVE Carries(v)'
  <2>1. CASE v = w
    BY <1>2, <2>1
  <2>2. CASE v # w
    <3>1. Busy(v) /\ worker'[v] = worker[v]
      BY <1>2, <2>2 DEF Busy
    <3>2. worker[v].module # n /\ worker[v].module \in Modules /\ Carries(v)
      BY <1>1, <2>2, <3>1, BusyAlone DEF FromSource
    <3>3. /\ manifest'[worker[v].module] = manifest[worker[v].module]
          /\ published'[worker[v].module] = published[worker[v].module]
      BY <3>2
    <3> QED
      BY <3>1, <3>2, <3>3, BuiltKept DEF Carries
  <2> QED
    BY <2>1, <2>2
<1>3. ASSUME NEW m \in selected PROVE Row(m)'
  <2>1. CASE m = n
    BY <2>1, BuiltKept DEF Row
  <2>2. CASE m # n
    <3>1. Row(m) /\ m \in Modules
      BY <1>1 DEF FromSource
    <3>2. /\ manifest'[m] = manifest[m] /\ published'[m] = published[m]
          /\ active'[m] = active[m] /\ status'[m] = status[m]
      BY <2>2, <3>1
    <3>3. ASSUME NEW v \in Jobs, Busy(v), worker[v].module = m
          PROVE  Busy(v)' /\ worker'[v].module = m
      BY <2>2, <3>3 DEF Busy
    <3>4. status'[m] = "building" =>
            \/ modules'[m] = manifest'[m]
            \/ \E v \in Jobs : Busy(v)' /\ worker'[v].module = m
      BY <3>1, <3>2, <3>3 DEF Row
    <3>5. status'[m] \in Successes =>
            /\ published'[m][manifest'[m]] \in Built(m)'
            /\ ~flags'.no_activate => active'[m] = manifest'[m]
      BY <3>1, <3>2, BuiltKept DEF Row
    <3> QED
      BY <3>4, <3>5 DEF Row
  <2> QED
    BY <2>1, <2>2
<1> QED
  BY <1>1, <1>2, <1>3 DEF FromSource

LEMMA BuiltRightKept ==
  ASSUME BuiltRight, UNCHANGED <<phase, modules, source, succeeded, wasm>>
  PROVE  BuiltRight'
BY BuiltKept DEF BuiltRight

\* A module that is taken from the queue has the version it was found with.
LEMMA StartFromSource ==
  ASSUME TypeOK, OnePlace, FromSource, NEW w \in Jobs, NEW n \in Modules,
         run_upload_phase(w, n)
  PROVE  FromSource'
<1>1. /\ phase = "uploading" /\ ~Busy(w) /\ n \in queue /\ n \in selected
      /\ worker' = [worker EXCEPT ![w] =
           [at |-> "reading", module |-> n, version |-> modules[n]]]
      /\ UNCHANGED <<disk, server, phase, modules, flags, succeeded, status>>
  BY DEF run_upload_phase, command, build, Busy, TypeOK
<1>2. selected' = selected /\ worker \in [Jobs -> WorkerState]
  BY <1>1 DEF selected, TypeOK
<1>3. /\ worker'[w] = [at |-> "reading", module |-> n, version |-> modules[n]]
      /\ \A v \in Jobs : v # w => worker'[v] = worker[v]
  BY <1>1, <1>2
<1>4. /\ BuiltRight /\ (\A v \in Jobs : Busy(v) => Carries(v))
      /\ \A m \in selected : Row(m)
  BY <1>1 DEF FromSource
<1>5. modules[n] = manifest[n]
  <2>1. \A v \in Jobs : Busy(v) => worker[v].module # n
    BY <1>1 DEF OnePlace
  <2>2. status[n] = "building"
    BY <1>1 DEF OnePlace, Pending
  <2> QED
    BY <1>1, <1>4, <2>1, <2>2 DEF Row
<1>6. BuiltRight'
  BY <1>1, <1>4, BuiltRightKept DEF disk
<1>7. ASSUME NEW v \in Jobs, Busy(v)' PROVE Carries(v)'
  <2>1. CASE v = w
    BY <1>1, <1>3, <1>5, <2>1 DEF Carries, disk
  <2>2. CASE v # w
    <3>1. worker'[v] = worker[v] /\ Carries(v)
      BY <1>3, <1>4, <1>7, <2>2 DEF Busy
    <3> QED
      BY <1>1, <3>1, BuiltKept DEF Carries, disk, server
  <2> QED
    BY <2>1, <2>2
<1>8. ASSUME NEW m \in selected PROVE Row(m)'
  <2>1. Row(m)
    BY <1>4
  <2>2. \A v \in Jobs : Busy(v) => Busy(v)' /\ worker'[v].module = worker[v].module
    BY <1>1, <1>3 DEF Busy
  <2>3. status'[m] = "building" =>
          \/ modules'[m] = manifest'[m]
          \/ \E v \in Jobs : Busy(v)' /\ worker'[v].module = m
    BY <1>1, <2>1, <2>2 DEF Row, disk
  <2>4. status'[m] \in Successes =>
          /\ published'[m][manifest'[m]] \in Built(m)'
          /\ ~flags'.no_activate => active'[m] = manifest'[m]
    BY <1>1, <2>1, BuiltKept DEF Row, disk, server
  <2> QED
    BY <2>3, <2>4 DEF Row
<1> QED
  BY <1>1, <1>2, <1>6, <1>7, <1>8 DEF FromSource

\* A step that goes on with a module, and leaves the others and their rows alone.
LEMMA GoesOn ==
  ASSUME TypeOK, OnePlace, FromSource, NEW w \in Jobs, Continues(w), BuiltRight',
         \A m \in Modules : m # worker[w].module =>
           manifest'[m] = manifest[m] /\ published'[m] = published[m],
         Carries(w)'
  PROVE  FromSource'
<1> DEFINE n == worker[w].module
<1>1. PICK x : Working(x, n) /\ worker' = [worker EXCEPT ![w] = x]
  BY ContinuesIs
<1>2. Busy(w) /\ UNCHANGED <<phase, modules, flags, source, succeeded, active, status>>
  BY ContinuesIs
<1>3. worker \in [Jobs -> WorkerState]
  BY DEF TypeOK
<1>4. /\ worker'[w] = x /\ Busy(w)' /\ worker'[w].module = n
      /\ \A v \in Jobs : v # w => worker'[v] = worker[v]
  BY <1>1, <1>3 DEF Busy, Working
<1>5. status'[n] = "building"
  BY <1>2, BusyAlone
<1>6. status'[n] \notin Successes
  BY <1>5, KindsAre
<1>7. \A m \in Modules : m # n =>
        /\ manifest'[m] = manifest[m] /\ published'[m] = published[m]
        /\ active'[m] = active[m] /\ (m \in selected => status'[m] = status[m])
  BY <1>2
<1> HIDE DEF n
<1>8. n = worker[w].module
  BY DEF n
<1> QED
  BY <1>2, <1>4, <1>5, <1>6, <1>7, <1>8, OwnModule

LEMMA ContinueFromSource ==
  ASSUME TypeOK, OnePlace, FromSource, NEW w \in Jobs, Continues(w)
  PROVE  FromSource'
<1> DEFINE n == worker[w].module
<1>0. /\ Busy(w) /\ UNCHANGED <<phase, modules, flags, source, succeeded, active, status>>
      /\ phase = "uploading" /\ n \in succeeded /\ n \in Modules /\ n \in selected
      /\ status[n] = "building"
      /\ Carries(w) /\ BuiltRight
  BY ContinuesIs, BusyAlone DEF FromSource
<1>1. worker \in [Jobs -> WorkerState] /\ worker[w].version \in Version
  BY <1>0, WorkerIs DEF TypeOK
<1>2. CASE upload_wasm(w)
  <2>1. /\ worker'[w] = [at |-> "sending", module |-> n, version |-> worker[w].version,
                         bytes |-> wasm[n]]
        /\ UNCHANGED <<disk, server>>
    BY <1>1, <1>2 DEF upload_wasm
  <2>2. wasm[n] \in Built(n)
    BY <1>0 DEF BuiltRight
  <2>3. Carries(w)'
    BY <1>0, <2>1, <2>2, BuiltKept DEF Carries, disk
  <2>4. BuiltRight'
    BY <1>0, <2>1, BuiltRightKept DEF disk
  <2> QED
    BY <2>1, <2>3, <2>4, GoesOn DEF disk, server
<1>3. CASE SaveModule(w)
  <2>1. /\ worker[w].at = "sending" /\ UNCHANGED disk
        /\ \/ published' = [published EXCEPT ![n][worker[w].version] = worker[w].bytes]
           \/ published' = published
    BY <1>3 DEF SaveModule
  <2>2. published \in [Modules -> [Version -> Wasm \cup {None}]]
    BY DEF TypeOK
  <2>3. \A m \in Modules : m # n => published'[m] = published[m]
    BY <2>1, <2>2
  <2>4. PICK at \in {"created", "idempotent", "conflict"} :
          /\ worker' = [worker EXCEPT ![w].at = at]
          /\ at \in {"created", "idempotent"} =>
               published'[n][worker[w].version] = worker[w].bytes
    <3>1. CASE /\ published' = [published EXCEPT ![n][worker[w].version] = worker[w].bytes]
               /\ worker' = [worker EXCEPT ![w].at = "created"]
      <4>1. published'[n][worker[w].version] = worker[w].bytes
        BY <1>0, <1>1, <2>2, <3>1
      <4> QED
        BY <3>1, <4>1
    <3>2. CASE /\ published[n][worker[w].version] = worker[w].bytes
               /\ worker' = [worker EXCEPT ![w].at = "idempotent"]
               /\ UNCHANGED published
      BY <3>2
    <3>3. CASE worker' = [worker EXCEPT ![w].at = "conflict"]
      BY <3>3
    <3> QED
      BY <1>3, <3>1, <3>2, <3>3 DEF SaveModule
  <2>5. worker[w] \in [at : {"sending", "created", "idempotent", "conflict"},
                       module : Modules, version : Version, bytes : Wasm \cup {None}]
    BY <1>0, <2>1, WorkerIs
  <2>6. /\ worker'[w].at = at /\ worker'[w].module = n
        /\ worker'[w].version = worker[w].version /\ worker'[w].bytes = worker[w].bytes
    BY <1>1, <2>4, <2>5
  <2>7. worker[w].bytes \in Built(n) /\ worker[w].version = manifest[n]
    BY <1>0, <2>1 DEF Carries
  <2>8. Carries(w)'
    BY <1>0, <2>1, <2>4, <2>6, <2>7, BuiltKept DEF Carries, disk
  <2>9. BuiltRight'
    BY <1>0, <2>1, BuiltRightKept DEF disk
  <2> QED
    BY <2>1, <2>3, <2>8, <2>9, GoesOn DEF disk
<1>4. CASE bump_patch_version(w)
  <2>1. /\ manifest' = [manifest EXCEPT ![n] = worker[w].version + 1]
        /\ worker'[w] = [at |-> "bumped", module |-> n, version |-> worker[w].version + 1]
        /\ UNCHANGED <<wasm, server>>
    BY <1>1, <1>4 DEF bump_patch_version
  <2>2. manifest \in [Modules -> Version]
    BY DEF TypeOK
  <2>3. Carries(w)'
    BY <1>0, <2>1, <2>2 DEF Carries
  <2>4. BuiltRight'
    BY <1>0, <2>1, BuiltRightKept
  <2>5. \A m \in Modules : m # n => manifest'[m] = manifest[m]
    BY <2>1, <2>2
  <2> QED
    BY <2>1, <2>3, <2>4, <2>5, GoesOn DEF server
<1>5. CASE rebuild_starts(w)
  <2> DEFINE names == IF n \in Rust THEN rust_names ELSE {n}
  <2>1. /\ worker'[w] = [at |-> "rebuilding", module |-> n, version |-> worker[w].version,
                         versions |-> manifest, names |-> names]
        /\ UNCHANGED <<disk, server>>
    BY <1>1, <1>5 DEF rebuild_starts
  <2>2. worker[w].version = manifest[n]
    BY <1>0 DEF Carries
  <2>3. rust_names' = rust_names
    BY <1>0 DEF rust_names, selected
  <2>4. /\ worker'[w].at = "rebuilding" /\ worker'[w].module = n
        /\ worker'[w].version = manifest'[n] /\ worker'[w].names = names
    BY <2>1, <2>2 DEF disk
  <2>5. Carries(w)'
    BY <2>3, <2>4 DEF Carries
  <2>6. BuiltRight'
    BY <1>0, <2>1, BuiltRightKept DEF disk
  <2> QED
    BY <2>1, <2>5, <2>6, GoesOn DEF disk, server
<1>6. CASE rebuild_module(w) /\ worker'[w] # Idle
  <2>1. /\ Rebuilt(w) /\ worker[w].at = "rebuilding" /\ UNCHANGED <<manifest, server>>
    BY <1>6, RebuildIs DEF rebuild_module
  <2>2. /\ worker'[w] = [at |-> "reading", module |-> n, version |-> worker[w].version]
        /\ worker[w].version = manifest[n]
    BY <1>0, <1>1, <2>1 DEF Rebuilt, Carries
  <2>3. Carries(w)'
    BY <2>1, <2>2 DEF Carries
  <2> DEFINE names == worker[w].names
  <2>4. /\ names = IF n \in Rust THEN rust_names ELSE {n}
        /\ worker[w].versions \in [Modules -> Version]
    BY <1>0, <2>1, WorkerIs DEF Carries
  <2>5. ASSUME NEW m \in succeeded' PROVE Makes(m)' /\ wasm'[m] \in Built(m)'
    <3>1. m \in succeeded /\ m \in Modules
      BY <1>0, <2>5 DEF TypeOK
    <3>2. CASE m \in names
      <4>1. m \in Rust => names = rust_names
        BY <2>4, <3>2
      <4>2. Binary(m, worker[w].versions, names) \in Built(m)
        BY <2>4, <3>1, <4>1, BinaryBuilt
      <4>3. Makes(m) /\ wasm'[m] = Binary(m, worker[w].versions, names)
        BY <1>0, <2>1, <3>1, <3>2 DEF Rebuilt, BuiltRight
      <4> QED
        BY <1>0, <4>2, <4>3, BuiltKept
    <3>3. CASE m \notin names
      <4>1. wasm'[m] = wasm[m]
        BY <2>1, <3>1, <3>3 DEF Rebuilt
      <4>2. Makes(m) /\ wasm[m] \in Built(m)
        BY <1>0, <3>1 DEF BuiltRight
      <4> QED
        BY <1>0, <4>1, <4>2, BuiltKept
    <3> QED
      BY <3>2, <3>3
  <2>6. BuiltRight'
    BY <1>0, <2>5 DEF BuiltRight
  <2> QED
    BY <2>1, <2>3, <2>6, GoesOn DEF server
<1> QED
  BY <1>2, <1>3, <1>4, <1>5, <1>6 DEF Continues

LEMMA EndFromSource ==
  ASSUME TypeOK, OnePlace, FromSource, NEW w \in Jobs, Ends(w)
  PROVE  FromSource'
<1> DEFINE n == worker[w].module
<1>0. /\ Busy(w) /\ UNCHANGED <<phase, modules, flags, source, wasm, manifest, published,
                                succeeded>>
      /\ phase = "uploading" /\ n \in Modules /\ n \in selected
      /\ Carries(w) /\ BuiltRight
  BY EndsIs, BusyAlone DEF FromSource
<1>1. PICK kind \in Kinds : Finish(w, kind)
  BY EndsIs
<1>2. /\ worker \in [Jobs -> WorkerState] /\ status \in [selected -> Kinds \cup {"building"}]
      /\ active \in [Modules -> Version \cup {0}]
  BY DEF TypeOK
<1>3. /\ worker'[w] = Idle /\ ~Busy(w)' /\ status'[n] = kind
      /\ \A v \in Jobs : v # w => worker'[v] = worker[v]
      /\ \A m \in selected : m # n => status'[m] = status[m]
  BY <1>0, <1>1, <1>2 DEF Finish, Busy
<1>4. BuiltRight'
  BY <1>0, BuiltRightKept
<1>5. /\ \A m \in Modules : m # n => active'[m] = active[m]
      /\ kind \in Successes =>
           /\ published[n][manifest[n]] \in Built(n)
           /\ ~flags.no_activate => active'[n] = manifest[n]
  <2>1. CASE ActivateAndAnswer(w)
    <3>1. /\ worker[w].at \in {"created", "idempotent"}
          /\ active' = IF flags.no_activate THEN active
                       ELSE [active EXCEPT ![n] = worker[w].version]
      BY <2>1 DEF ActivateAndAnswer
    <3>2. /\ worker[w].version = manifest[n] /\ worker[w].bytes \in Built(n)
          /\ published[n][worker[w].version] = worker[w].bytes
      BY <1>0, <3>1 DEF Carries
    <3>3. flags.no_activate \in BOOLEAN
      BY DEF TypeOK
    <3>4. \A m \in Modules : m # n => active'[m] = active[m]
      BY <1>2, <3>1
    <3>5. ~flags.no_activate => active'[n] = manifest[n]
      BY <1>0, <1>2, <3>1, <3>2
    <3> QED
      BY <3>2, <3>4, <3>5
  <2>2. CASE UploadFails(w) \/ (rebuild_module(w) /\ worker'[w] = Idle)
    <3>1. Finish(w, "failed") /\ active' = active
      BY <2>2, RebuildIs, UploadFailsIs DEF rebuild_module, server
    <3>2. status'[n] = "failed"
      BY <1>0, <1>2, <3>1 DEF Finish
    <3>3. kind = "failed"
      BY <1>3, <3>2
    <3> QED
      BY <3>1, <3>3, KindsAre
  <2> QED
    BY <2>1, <2>2 DEF Ends
<1>6. kind # "building"
  BY KindsAre
<1>7. n = worker[w].module
  OBVIOUS
<1>8. \A m \in Modules : m # n =>
        /\ manifest'[m] = manifest[m] /\ published'[m] = published[m]
        /\ active'[m] = active[m] /\ (m \in selected => status'[m] = status[m])
  BY <1>0, <1>3, <1>5
<1>9. status'[n] \in Successes =>
        /\ published'[n][manifest'[n]] \in Built(n)
        /\ ~flags.no_activate => active'[n] = manifest'[n]
  BY <1>0, <1>3, <1>5
<1>10. UNCHANGED <<phase, modules, flags, source, succeeded>>
  BY <1>0
<1> HIDE DEF n
<1> QED
  BY <1>0, <1>3, <1>4, <1>6, <1>7, <1>8, <1>9, <1>10, OwnModule

-----------------------------------------------------------------------------
(* A deploy again, where what is built does not depend on the version *)

LEMMA CurrentKept ==
  ASSUME UNCHANGED <<source, modules, manifest, published>>
  PROVE  selected' = selected /\ \A m : Current(m)' = Current(m)
BY BuiltKept DEF Current, selected

\* A step outside of the idle phase, after which a deploy of modules that were up to
\* date still finds them so.
LEMMA AgainKept ==
  ASSUME Again, phase # "idle", phase' # "idle", UNCHANGED <<source, modules, settled>>,
         settled = selected /\ selected # {} /\ Unchanged /\ (\A m \in selected : Current(m))
           => Unchanged' /\ \A m \in selected : Current(m)',
         selected # {}
  PROVE  Again'
<1>1. selected' = selected
  BY DEF selected
<1> QED
  BY <1>1 DEF Again

LEMMA OneBuild ==
  ASSUME ~VersionInBytes, NEW m, NEW x \in Built(m), NEW y \in Built(m)
  PROVE  x = y
BY DEF Built

LEMMA CommandAgain ==
  ASSUME TypeOK, OnePlace, Counted, FromSource, Again,
         \/ \E paths \in Selections, no_activate, bump_patch \in BOOLEAN :
              discover_modules(paths, no_activate, bump_patch)
         \/ run_build_phase \/ print_summary \/ exit
         \/ \E names \in SUBSET Modules, x \in Sources : edit(names, x)
  PROVE  Again'
<1>1. ASSUME NEW paths \in Selections, NEW no_activate \in BOOLEAN, NEW bump_patch \in BOOLEAN,
             discover_modules(paths, no_activate, bump_patch)
      PROVE  Again'
  <2>1. /\ phase = "idle" /\ phase' = "building" /\ selected' = paths
        /\ modules' = [m \in paths |-> manifest[m]] /\ worker' = worker
        /\ status' = [m \in paths |-> "building"] /\ settled' = settled
        /\ UNCHANGED <<source, manifest, published>>
    BY <1>1 DEF discover_modules, selected, disk, server
  <2>2. paths # {}
    BY ModulesAssumption
  <2>3. ASSUME settled' = selected' PROVE Unchanged' /\ \A m \in selected' : Current(m)'
    <3>1. selected = paths /\ \A m \in selected : Current(m)
      BY <2>1, <2>2, <2>3 DEF Again
    <3>2. rust_names' = rust_names
      BY <2>1, <3>1 DEF rust_names
    <3>3. \A m \in selected' : Current(m)'
      BY <2>1, <3>1, <3>2 DEF Current, Makes, Compiles, Built
    <3>4. \A w \in Jobs : worker'[w].at = "idle"
      BY <2>1 DEF OnePlace, Busy, Idle
    <3>5. Unchanged'
      BY <2>1, <3>4 DEF Unchanged
    <3> QED
      BY <3>3, <3>5
  <2> QED
    BY <2>1, <2>3 DEF Again
<1>2. CASE run_build_phase \/ print_summary
  <2>1. /\ phase # "idle" /\ phase' # "idle"
        /\ UNCHANGED <<disk, server, modules, settled, worker, status, faulted>>
    BY <1>2 DEF run_build_phase, print_summary, counts
  <2>2. selected # {} /\ selected' = selected
    BY <2>1 DEF OnePlace, selected
  <2>3. Unchanged => Unchanged'
    BY <2>1, <2>2 DEF Unchanged, disk
  <2>4. \A m : Current(m)' = Current(m)
    BY <2>1, CurrentKept DEF disk, server
  <2> QED
    BY <2>1, <2>2, <2>3, <2>4, AgainKept DEF disk
<1>3. CASE exit
  <2>1. /\ phase = "done" /\ phase' = "idle" /\ selected' = selected
        /\ settled' = IF stats["failed"] = 0 THEN selected ELSE {}
        /\ UNCHANGED <<source, modules, manifest, published>>
    BY <1>3 DEF exit, disk, server, selected
  <2>2. ASSUME stats["failed"] = 0, NEW m \in selected PROVE Current(m)
    <3>1. status[m] # "building"
      BY <2>1 DEF OnePlace, Pending
    <3>2. status[m] # "failed"
      <4>1. Cardinality(Shows("failed")) = 0
        BY <2>2, CountedIs, KindsAre
      <4>2. IsFiniteSet(Shows("failed"))
        BY SelectedFinite DEF Shows
      <4>3. Shows("failed") = {}
        BY <4>1, <4>2, FS_EmptySet
      <4> QED
        BY <4>3 DEF Shows
    <3>3. status[m] \in Successes
      BY <3>1, <3>2, KindsAre DEF TypeOK
    <3>4. m \in succeeded
      BY <3>3 DEF OnePlace
    <3>5. Makes(m) /\ published[m][manifest[m]] \in Built(m)
      BY <2>1, <3>3, <3>4 DEF FromSource, BuiltRight, Row
    <3> QED
      BY <3>5 DEF Current
  <2>3. settled' = selected' /\ selected' # {} => \A m \in selected' : Current(m)'
    BY <2>1, <2>2, CurrentKept
  <2> QED
    BY <2>1, <2>3 DEF Again
<1>4. ASSUME NEW names \in SUBSET Modules, NEW x \in Sources, edit(names, x) PROVE Again'
  BY <1>4 DEF Again, edit, command, selected
<1> QED
  BY <1>1, <1>2, <1>3, <1>4

LEMMA BuildAgain ==
  ASSUME TypeOK, OnePlace, Again,
         run_rust_build \/ spawn_fails \/ (\E m \in Modules : build_one_js(m))
  PROVE  Again'
<1>0. /\ phase = "building" /\ phase' = phase /\ selected' = selected
      /\ UNCHANGED <<source, manifest, modules, published, worker, settled>>
  BY DEF run_rust_build, spawn_fails, build_one_js, disk, command, server, selected
<1>1. selected # {} /\ status \in [selected -> Kinds \cup {"building"}]
  BY <1>0 DEF OnePlace, TypeOK
<1>2. ASSUME Unchanged, \A m \in selected : Current(m) PROVE Unchanged'
  <2>1. \A m \in selected : Makes(m)
    BY <1>2 DEF Current
  <2>2. /\ faulted \subseteq faulted'
        /\ \A m \in selected : status'[m] = status[m] \/ (status'[m] = "failed" /\ m \in faulted')
    <3>1. CASE run_rust_build \/ spawn_fails
      <4>1. PICK built \in SUBSET rust_names : RustBuilt(built)
        BY <3>1, RustBuildIs
      <4>2. \A m \in rust_names : Makes(m)
        BY <2>1 DEF rust_names
      <4>3. CASE UNCHANGED counts /\ built = rust_names
        BY <4>1, <4>3 DEF RustBuilt, counts
      <4>4. CASE Fault(rust_names) /\ built = {}
        BY <4>1, <4>4 DEF RustBuilt, Fault
      <4> QED
        BY <4>1, <4>2, <4>3, <4>4 DEF RustBuilt
    <3>2. ASSUME NEW n \in Modules, build_one_js(n)
          PROVE  /\ faulted \subseteq faulted'
                 /\ \A m \in selected :
                      status'[m] = status[m] \/ (status'[m] = "failed" /\ m \in faulted')
      <4>1. n \in selected /\ Makes(n)
        BY <2>1, <3>2 DEF build_one_js, TypeOK
      <4>2. \/ UNCHANGED <<status, counts>>
            \/ Fault({n}) /\ status' = [status EXCEPT ![n] = "failed"]
        BY <3>2, <4>1 DEF build_one_js
      <4> QED
        BY <1>1, <4>1, <4>2 DEF Fault, counts
    <3> QED
      BY <3>1, <3>2
  <2> QED
    BY <1>0, <1>2, <2>2 DEF Unchanged
<1>3. \A m : Current(m)' = Current(m)
  BY <1>0, CurrentKept
<1> QED
  BY <1>0, <1>1, <1>2, <1>3, AgainKept

LEMMA UploadAgain ==
  ASSUME ~VersionInBytes, TypeOK, OnePlace, FromSource, Again, NEW w \in Jobs,
         Starts(w) \/ Continues(w) \/ Ends(w)
  PROVE  Again'
<1> DEFINE n == worker[w].module
<1>0. /\ phase = "uploading" /\ phase' = phase /\ selected' = selected /\ selected # {}
      /\ UNCHANGED <<source, modules, settled>>
  <2>1. CASE Starts(w)
    BY <2>1 DEF Starts, run_upload_phase, disk, command, selected, OnePlace
  <2>2. CASE Continues(w) \/ Ends(w)
    <3>1. Busy(w) /\ UNCHANGED <<phase, source, modules, settled>>
      BY <2>2, ContinuesIs, EndsIs
    <3> QED
      BY <3>1, BusyAlone DEF OnePlace, selected
  <2> QED
    BY <2>1, <2>2
<1> SUFFICES ASSUME settled = selected, Unchanged, \A m \in selected : Current(m)
             PROVE  Unchanged' /\ \A m \in selected : Current(m)'
  BY <1>0, AgainKept
<1>1. worker \in [Jobs -> WorkerState] /\ status \in [selected -> Kinds \cup {"building"}]
  BY DEF TypeOK
<1>2. CASE Starts(w)
  <2>1. /\ UNCHANGED <<disk, server, command, stats, status, counts>>
        /\ \E m : worker' = [worker EXCEPT ![w] =
                    [at |-> "reading", module |-> m, version |-> modules[m]]]
    BY <1>2 DEF Starts, run_upload_phase
  <2>2. \A v \in Jobs : worker'[v].at \in {worker[v].at, "reading"}
    BY <1>1, <2>1
  <2>3. Unchanged'
    BY <1>0, <2>1, <2>2 DEF Unchanged, disk, counts
  <2>4. \A m : Current(m)' = Current(m)
    BY <1>0, <2>1, CurrentKept DEF disk, server
  <2> QED
    BY <2>3, <2>4
<1>3. CASE upload_wasm(w)
  <2>1. /\ UNCHANGED <<disk, server, stats, status, counts>>
        /\ worker' = [worker EXCEPT ![w] =
             [at |-> "sending", module |-> worker[w].module, version |-> worker[w].version,
              bytes |-> wasm[n]]]
    BY <1>1, <1>3 DEF upload_wasm
  <2>2. \A v \in Jobs : worker'[v].at \in {worker[v].at, "sending"}
    BY <1>1, <2>1
  <2>3. Unchanged'
    BY <1>0, <2>1, <2>2 DEF Unchanged, disk, counts
  <2>4. \A m : Current(m)' = Current(m)
    BY <1>0, <2>1, CurrentKept DEF disk, server
  <2> QED
    BY <2>3, <2>4
<1>4. CASE SaveModule(w)
  <2>1. worker[w].at = "sending" /\ Busy(w)
    BY <1>4, BusyIs DEF SaveModule
  <2>2. /\ worker[w].version = manifest[n] /\ worker[w].bytes \in Built(n) /\ n \in selected
    BY <2>1, BusyAlone DEF FromSource, Carries
  <2>3. published[n][manifest[n]] \in Built(n)
    BY <2>2 DEF Current
  <2>4. published[n][manifest[n]] = worker[w].bytes
    BY <2>2, <2>3, OneBuild
  <2>5. published[n][worker[w].version] = worker[w].bytes /\ worker[w].bytes # None
    BY <2>2, <2>4, BuiltIsFile
  <2>6. /\ worker' = [worker EXCEPT ![w].at = "idempotent"] /\ published' = published
        /\ UNCHANGED <<disk, stats, status, counts>>
    BY <1>4, <2>5 DEF SaveModule
  <2>7. worker[w] \in [at : {"sending", "created", "idempotent", "conflict"},
                       module : Modules, version : Version, bytes : Wasm \cup {None}]
    BY <2>1, WorkerIs
  <2>8. \A v \in Jobs : worker'[v].at \in {worker[v].at, "idempotent"}
    BY <1>1, <2>6, <2>7
  <2>9. Unchanged'
    BY <1>0, <2>6, <2>8 DEF Unchanged, disk, counts
  <2>10. \A m : Current(m)' = Current(m)
    BY <1>0, <2>6, CurrentKept DEF disk
  <2> QED
    BY <2>9, <2>10
<1>5. CASE ActivateAndAnswer(w)
  <2>1. worker[w].at \in {"created", "idempotent"} /\ Busy(w)
    BY <1>5, BusyIs DEF ActivateAndAnswer
  <2>2. worker[w].at = "idempotent"
    BY <2>1 DEF Unchanged
  <2>3. n \in selected /\ worker[w].version = manifest[n]
    BY <2>1, BusyAlone DEF FromSource, Carries
  <2>4. worker[w].version = modules[n]
    BY <2>3 DEF Unchanged
  <2>5. /\ Finish(w, "unchanged") /\ UNCHANGED <<disk, published, counts>>
    BY <1>5, <2>2, <2>4 DEF ActivateAndAnswer
  <2>6. /\ stats' = Count(stats, "unchanged") /\ worker' = [worker EXCEPT ![w] = Idle]
        /\ status' = [status EXCEPT ![n] = "unchanged"]
    BY <2>5 DEF Finish
  <2>8. \A v \in Jobs : worker'[v].at \in {worker[v].at, "idle"}
    BY <1>1, <2>6 DEF Idle
  <2>9. Unchanged'
    BY <1>0, <1>1, <2>5, <2>6, <2>8 DEF Unchanged, disk, counts
  <2>10. \A m : Current(m)' = Current(m)
    BY <1>0, <2>5, CurrentKept DEF disk
  <2> QED
    BY <2>9, <2>10
<1>6. CASE UploadFails(w)
  <2>1. Busy(w) /\ n \in selected /\ worker[w].at # "conflict"
    BY <1>6, UploadFailsIs, BusyAlone DEF Unchanged
  <2>2. Fault({n}) /\ Finish(w, "failed") /\ UNCHANGED <<disk, server>>
    BY <1>6, <2>1, UploadFailsIs
  <2>3. /\ status' = [status EXCEPT ![n] = "failed"] /\ worker' = [worker EXCEPT ![w] = Idle]
        /\ faulted' = faulted \cup {n}
    BY <2>2 DEF Finish, Fault
  <2>4. \A v \in Jobs : worker'[v].at \in {worker[v].at, "idle"}
    BY <1>1, <2>3 DEF Idle
  <2>5. \A m \in selected :
          status'[m] = status[m] \/ (status'[m] = "failed" /\ m \in faulted')
    BY <1>1, <2>1, <2>3
  <2> HIDE DEF n
  <2>6. Unchanged'
    BY <1>0, <2>2, <2>3, <2>4, <2>5 DEF Unchanged, disk
  <2>7. \A m : Current(m)' = Current(m)
    BY <1>0, <2>2, CurrentKept DEF disk, server
  <2> QED
    BY <2>6, <2>7
<1>7. CASE bump_patch_version(w) \/ rebuild_starts(w) \/ rebuild_module(w)
  <2>1. worker[w].at \in {"conflict", "bumped", "rebuilding"}
    BY <1>7 DEF bump_patch_version, rebuild_starts, rebuild_module
  <2> QED
    BY <2>1 DEF Unchanged
<1> QED
  BY <1>2, <1>3, <1>4, <1>5, <1>6, <1>7 DEF Continues, Ends

-----------------------------------------------------------------------------
(* The invariants *)

LEMMA InitInv == Init => IInv /\ Again
<1> SUFFICES ASSUME Init PROVE IInv /\ Again
  OBVIOUS
<1>1. TypeOK
  BY InitType
<1>2. /\ selected = {} /\ settled = {} /\ phase = "idle" /\ js_queue = {} /\ ~cargo
      /\ succeeded = {} /\ queue = {} /\ stats = NoStats
      /\ \A w \in Jobs : worker[w] = Idle /\ ~Busy(w)
  BY DEF Init, selected, Busy
<1>3. OnePlace
  BY <1>2 DEF OnePlace
<1>4. Counted
  <2>1. ASSUME NEW k \in Kinds PROVE stats[k] = Cardinality({m \in selected : status[m] = k})
    <3>1. {m \in selected : status[m] = k} = {} /\ stats[k] = 0
      BY <1>2 DEF NoStats
    <3> QED
      BY <3>1, FS_EmptySet
  <2> QED
    BY <2>1 DEF Counted
<1>5. FromSource
  BY <1>2 DEF FromSource, BuiltRight
<1>6. Again
  BY <1>2 DEF Again
<1> QED
  BY <1>1, <1>3, <1>4, <1>5, <1>6 DEF IInv

LEMMA NextInv ==
  ASSUME IInv, Next PROVE IInv' /\ (~VersionInBytes /\ Again => Again')
<1>0. TypeOK /\ OnePlace /\ Counted /\ FromSource
  BY DEF IInv
<1>1. CASE \/ \E paths \in Selections, no_activate, bump_patch \in BOOLEAN :
                discover_modules(paths, no_activate, bump_patch)
           \/ run_build_phase \/ print_summary \/ exit
           \/ \E names \in SUBSET Modules, x \in Sources : edit(names, x)
  <2>1. TypeOK' /\ OnePlace' /\ FromSource'
    BY <1>0, <1>1, CommandType, CommandPlace, CommandFromSource
  <2>2. Counted'
    BY <1>0, <1>1, CommandCounted
  <2>3. Again => Again'
    BY <1>0, <1>1, CommandAgain
  <2> QED
    BY <2>1, <2>2, <2>3 DEF IInv
<1>2. CASE run_rust_build \/ spawn_fails \/ (\E m \in Modules : build_one_js(m))
  <2>1. TypeOK' /\ OnePlace' /\ FromSource'
    BY <1>0, <1>2, BuildType, BuildPlace, BuildFromSource
  <2>2. Counted'
    BY <1>0, <1>2, RustCounted, CommandCounted
  <2>3. Again => Again'
    BY <1>0, <1>2, BuildAgain
  <2> QED
    BY <2>1, <2>2, <2>3 DEF IInv
<1>3. ASSUME NEW w \in Jobs,
             \/ \E m \in Modules : run_upload_phase(w, m)
             \/ upload_wasm(w) \/ SaveModule(w) \/ ActivateAndAnswer(w)
             \/ UploadFails(w)
             \/ bump_patch_version(w) \/ rebuild_starts(w) \/ rebuild_module(w)
      PROVE  IInv' /\ (~VersionInBytes /\ Again => Again')
  <2>1. Starts(w) \/ Continues(w) \/ Ends(w)
    BY <1>0, <1>3, UploadCases
  <2>2. TypeOK'
    BY <1>0, <1>3, UploadType
  <2>3. OnePlace' /\ Counted'
    BY <1>0, <2>1, UploadPlace, UploadCounted
  <2>4. FromSource'
    <3>1. CASE Starts(w)
      BY <1>0, <3>1, StartFromSource DEF Starts
    <3>2. CASE Continues(w)
      BY <1>0, <3>2, ContinueFromSource
    <3>3. CASE Ends(w)
      BY <1>0, <3>3, EndFromSource
    <3> QED
      BY <2>1, <3>1, <3>2, <3>3
  <2>5. ~VersionInBytes /\ Again => Again'
    BY <1>0, <2>1, UploadAgain
  <2> QED
    BY <2>2, <2>3, <2>4, <2>5 DEF IInv
<1> QED
  BY <1>1, <1>2, <1>3 DEF Next, UploadFails

LEMMA StutterInv ==
  ASSUME IInv, UNCHANGED vars PROVE IInv' /\ (Again => Again')
<1>1. /\ UNCHANGED <<source, manifest, wasm, published, active, phase, modules, flags>>
      /\ UNCHANGED <<js_queue, cargo, succeeded, queue, worker, stats, status, settled>>
      /\ UNCHANGED <<edits, deploys, faults, faulted>>
  BY DEF vars, disk, server, command, build, counts
<1>2. /\ selected' = selected /\ rust_names' = rust_names
      /\ \A w : (Busy(w)' <=> Busy(w)) /\ (Carries(w)' <=> Carries(w))
      /\ \A m : /\ Pending(m)' <=> Pending(m)
                /\ Row(m)' <=> Row(m)
                /\ Current(m)' <=> Current(m)
  BY <1>1 DEF selected, rust_names, Busy, Carries, Pending, Row, Current, Built, Makes, Compiles
<1>3. TypeOK'
  BY <1>1, <1>2 DEF IInv, TypeOK
<1>4. OnePlace'
  BY <1>1, <1>2 DEF IInv, OnePlace
<1>5. Counted'
  BY <1>1, CountKept DEF IInv
<1>6. FromSource'
  BY <1>1, <1>2, BuiltRightKept DEF IInv, FromSource
<1>7. Again => Again'
  BY <1>1, <1>2 DEF Again, Unchanged
<1> QED
  BY <1>3, <1>4, <1>5, <1>6, <1>7 DEF IInv

LEMMA Invariance == Spec => []IInv
<1>1. Init => IInv
  BY InitInv
<1>2. IInv /\ [Next]_vars => IInv'
  BY NextInv, StutterInv
<1> QED
  BY <1>1, <1>2, PTL DEF Spec

\* The state keeps its shape, and what is to be built or uploaded was selected.
THEOREM TypeCorrect == Spec => []TypeOK
<1>1. IInv => TypeOK
  BY DEF IInv
<1> QED
  BY <1>1, Invariance, PTL

\* The summary of umari deploy, and with it the exit code, counts every module once
\* and as its row shows, for every workspace and number of upload threads: a module
\* that is not finished is in exactly one place, whichever phase and thread has it.
THEOREM EachCountedOnce == Spec => []CountedOnce
<1>1. IInv => CountedOnce
  BY DEF IInv, Counted, CountedOnce
<1> QED
  BY <1>1, Invariance, PTL

\* What the screen calls a success is on the server under the manifest's version and
\* made from the sources, whatever the other threads rebuild meanwhile: all rebuilds
\* make the same thing of the same sources, up to the version.
THEOREM SuccessesPublished == Spec => []SuccessIsPublished
<1>1. ASSUME IInv PROVE SuccessIsPublished
  <2> SUFFICES ASSUME phase = "done", NEW m \in selected, status[m] # "failed"
               PROVE  /\ published[m][manifest[m]] # None
                      /\ published[m][manifest[m]].src = source[m]
                      /\ ~flags.no_activate => active[m] = manifest[m]
    BY DEF SuccessIsPublished
  <2>1. TypeOK /\ OnePlace /\ FromSource
    BY <1>1 DEF IInv
  <2>2. ~Pending(m)
    BY <2>1 DEF OnePlace, Pending
  <2>3. status[m] \in Successes
    BY <2>1, <2>2, KindsAre DEF OnePlace, TypeOK
  <2>4. published[m][manifest[m]] \in Built(m) /\ (~flags.no_activate => active[m] = manifest[m])
    BY <2>1, <2>3 DEF FromSource, Row
  <2> QED
    BY <2>4, BuiltIsFile
<1> QED
  BY <1>1, Invariance, PTL

\* Where a built file does not depend on the version in its manifest, deploying again
\* what a deploy has just brought up to date publishes and bumps nothing: each module is
\* found unchanged, or fails for a fault of its own.
THEOREM RedeployDoesNothing == ASSUME ~VersionInBytes PROVE Spec => []RedeployUnchanged
<1>1. Init => IInv /\ Again
  BY InitInv
<1>2. IInv /\ Again /\ [Next]_vars => IInv' /\ Again'
  BY NextInv, StutterInv
<1>3. ASSUME IInv, Again PROVE RedeployUnchanged
  <2> SUFFICES ASSUME phase = "done", settled = selected
               PROVE  \A m \in selected :
                        status[m] = "unchanged" \/ (status[m] = "failed" /\ m \in faulted)
    BY DEF RedeployUnchanged
  <2>1. Unchanged
    BY <1>3 DEF Again
  <2>2. \A m \in selected : status[m] # "building"
    BY <1>3 DEF IInv, OnePlace, Pending
  <2> QED
    BY <2>1, <2>2 DEF Unchanged
<1> QED
  BY <1>1, <1>2, <1>3, PTL DEF Spec

=============================================================================
