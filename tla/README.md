# A TLA+ model of Umari

Umari is an event-sourcing runtime. *Commands*, *projectors* and *effects* are WebAssembly modules that a host
process compiles, runs and supervises around one append-only event store (the external library tephra). Commands
append events, projectors fold events into a SQLite database of their own, effects act on the outside world.

This directory models the parts of the system where something can go wrong between two steps: the dispatch of events
to effects, the transactions of projectors and of commands, the supervision of modules, the store of modules under its
clients, the folds of the SDKs, live projections of the web UI, the deployment of a workspace by the CLI, and the
actors of the runtime with their mailboxes and restarts. Paths below are relative to `src/`; `actor.rs` is
`crates/runtime/src/module/actor.rs`, `supervisor.rs` its neighbour.

- [Inventory](#inventory)
- [Modules](#modules)
- [Runs](#runs)
- [Fairness](#fairness)
- [Proofs](#proofs)
- [Findings](#findings)
- [Disagreements to reproduce](#disagreements-to-reproduce)
- [What is not modelled](#what-is-not-modelled)
- [Plan](#plan)

## Inventory

| component | state | operations | talks to | hard part | correct means |
|---|---|---|---|---|---|
| Effect dispatcher and workers (`actor.rs`, `worker.rs`) | subscription cursor, batch, `in_flight`, `highest_completed`, `last_position`; per worker a mailbox and the current event; `module_meta` in SQLite | start, next batch, dispatch or skip, ack, failure ack, handle, fail | event store (subscription), workers (mailboxes), SQLite, module store (key lookups) | acks out of order, failures in the middle, two incarnations on one file | the stored watermark never passes an unhandled event and never moves back; order within a partition key; everything is finally handled |
| Projector (`actor.rs`, `module_store/mod.rs`) | the same actor without workers; an open SQLite transaction | start, next batch, handle or skip, update position, commit | event store, SQLite, module store | two writers on one WAL file, death inside a transaction, power failure, a replaced file | every event once and in order in every database |
| Command transactions (`wit/command.rs`, `umari/src/command.rs`) | query, head, events read, keys obtained, emitted events | open, read a batch, check idempotency, commit, drop | event store (snapshot, conditional append), module store (keys) | concurrent executions, retries, keys deleted during a read or a commit | serialisable; one effect per idempotency key |
| Command actor (`command/actor.rs`) | loaded modules by name, compile tasks, mailbox | start, load, swap, unload, execute | module store (events), compile cache | compile tasks end in any order; a restart with a full mailbox | once things settle, what is loaded is what is active |
| Module supervisor (`supervisor.rs`) | `modules`, `pending`, `pending_deletions`, `backoff`, compile tasks, delayed messages | activated, deactivated, deleted, compiled, replay, restart, link died | module store (pubsub and asks), module actors (links), files | everything above arrives in any order | one live actor per module, of the active version; no database removed under an actor |
| Module store (`module_store/`) | SQLite tables of versions, active versions, environment variables, encryption keys | upload, activate, deactivate, delete, set variables, create and delete keys | publishes events to the supervisors and the command actor | row ids that come back, tables joined by id; its answers are stale when used | a catalogue with atomic operations: what is active exists, a version keeps its content; a deleted key stays deleted |
| HTTP API and UI handlers (`crates/api/src/routes`, `crates/ui/src/routes`) | a request under way | upload, activate, deactivate, delete, details, list | module store, several messages each | other clients in between | an answer says what was true during the request |
| Runtime supervisor (`supervisor.rs` of the crate) | child actors, pubsub, mailboxes | start order, RestForOne, subscribe, publish | all of the above | rings of full mailboxes; a restarted part must find out what it missed | every request is answered; converges after a restart |
| Folds and queries of the SDKs (`umari/src/command.rs`, `folds.rs`, `fold_query.rs`, `packages/js`) | bindings and state of the folds of one pass | build the query, match an event, apply, fail | command transactions | many folds share one query and one pass; three definitions of "matches" (query, filter, variant) | each fold gets exactly its events; the query is no wider than the folds |
| Live projections (`ui/src/projection.rs`) | reader, task and script threads, two bounded channels, a deadline | read, decode, fold, time out | event store, module store | each of the three may stop at any moment | a success is of the whole history; all three end |
| CLI deployment (`cli/src/commands/workspace.rs`) | queues, threads, counters; files on disk | build, upload, bump, rebuild | compilers, HTTP API | threads rebuild files other threads upload; lost answers | the summary is true; a second deploy changes nothing |
| Compile cache, module output | files; ring buffer | load/store; push/read | tasks of the other parts | concurrent access, limits | no torn read |
| Metrics, routing, UI pages, other CLI commands, macros, WIT glue, shared types | none or presentation | | | | |

How they interact: the HTTP API asks the module store to change versions; the store publishes a module event; the
command actor and the two module supervisors (one for projectors, one for effects) compile the version in a task and
load it. A module actor subscribes to the event store from the position in its own SQLite file. A command reads a
snapshot of the event store, decides in the guest, and appends on a condition; effects may execute commands in turn.
Encryption keys live in the module store, one live key per scope, and every read of an encrypted event looks its key
up again.

## Modules

| module | what it is |
|---|---|
| `EffectActor` | dispatcher incarnations and their workers; events, keys and files as environment |
| `EffectActorProofs` | theorems about it |
| `Projector` | projector incarnations over WAL-mode databases with power failure |
| `ReadModel` | abstract: a projector advances rows and position together, batch by batch |
| `ProjectorProofs` | theorems about `Projector` |
| `CommandTx` | concurrent executions: snapshot, lookups, decision, keys, conditional append |
| `SerialCommands` | abstract: commands take effect one at a time |
| `ModuleSupervisor` | one module name: operators, store, supervisor, actors, files |
| `Lifecycle` | abstract: one instance of a module at a time, on its database, and the change that is due |
| `ModuleSupervisorProofs` | theorems about `ModuleSupervisor`, the refinement of `Lifecycle` among them, for careful operators |
| `Catalog` | abstract: which code is published as which version, and which version is active |
| `ModuleStore` | the SQL tables of the store and its operations |
| `Deployment` | clients of the API and the UI, the store, and the command actor that follows it (extends `ModuleStore`) |
| `DeploymentProofs` | theorems about `ModuleStore` and `Deployment`, the refinement of `Catalog` among them |
| `FoldPass` | bindings, queries and folds: one pass of a command or a fold query over the log |
| `CommandProofs` | theorems about `CommandTx`, the refinement of `SerialCommands` among them, and about `FoldPass` |
| `LiveProjection` | reader, task and script of a live projection |
| `LiveProjectionProofs` | theorems about it |
| `Deploy` | `umari deploy`: builds, upload threads, version bumps, the server's answers |
| `DeployProofs` | theorems about it |
| `Runtime` | pubsub, store, command actor and supervisors: mailboxes, asks, timeouts, RestForOne restarts |
| `RuntimeProofs` | theorems about it |
| `MC...` | small instances for TLC |

Names of variables, fields and operators are the source's where TLA+ allows. An action is a stretch of code between
two points where another thread, task or actor can come between. Definitions commented `Mutant:` are deliberate bugs,
never part of `Next`; they are there to show that each property can fail.

**EffectActor.** `module[a]` is a `ModuleActor` with its `WorkerPool`, `worker[a][w]` a `ModuleWorkerActor`: its
mailbox and the event it works on. `db_position[f]` and `db_major[f]` are `module_meta` of the f-th file the module's
path has named. `next_batch` is `next`: the subscription's cursor moves past the whole batch, and past events that do
not match, before the first of them is dispatched. `dispatch` and `skip_shredded` are the loop body of
`process_batch`, one event each, since workers run meanwhile; both call `handle_ack` where the code does. Acks wait in
the mailbox until the batch is done, because the actor handles one message at a time. `die` is every other end of the
dispatcher. Its workers may run on for a while (their mailboxes are drained until the link stops them), and what they
commit is in `handled`. Positions are 1, 2, ..., an event is a flag (does it match), a partition key and a key id.
`exposed` is a history variable: the events of a file that were taken for shredded without being so, because the store
did not answer (`StoreTimeouts`), or that stood in a batch behind one that was passed over with nothing in flight.

**Projector.** The database is what is committed (`db`) and what has reached the disk (`synced`); a transaction is
the actor's `buffer` (rows), `batch` (still to apply), `locked` (it has the writer lock), `updated`. A deferred
transaction takes the lock at its first write and fails when another has it for longer than `busy_timeout` or the
snapshot is old. `checkpoint` makes a file durable, `power_loss` returns every file to what is durable and ends all
actors. `replace_database` is the removal of the file on a new major version or a replay.

**CommandTx.** `tx[e]` is the transaction of one execution. `transaction_new` takes events and head in one snapshot,
as the event store does; an empty query has no head. `next_batch` decrypts one event per step, which is where a key
deletion can fall. The guest's decision is either `emit` of what its request says or `emit_nothing`; validation,
payloads and metadata are left out, because nothing in the host depends on them. `create_crypto_key` is one ask to
the module store per scope. `retry` is the caller's, as `docs/src/runtime-deep-dive.md:73` asks of it. The log's
records carry two history fields, `first` and `seen`, for the refinement.

**ModuleSupervisor.** `active` is the store's row; `events` is the pubsub with the supervisor's mailbox; `compiling`
the compile tasks; `timers` the delayed `RestartModule` messages; `pending`, `pending_deletions`, `backoff` and
`modules` the maps of the struct, for one name. Actors are numbered in the order they are spawned. `reset` is the one
handler that awaits in the middle (`mode = "resetting"`). A file is a number: removing the database is moving on to
the next one. `Careful` says whether operators wait for one change to take effect before they make the next.
How long a delay is does not matter in the model (a timer may fire at any time). `Lifecycle` has neither
actors nor messages: `Due`, `Running` and `Ended` map one to the other.

**ModuleStore, Catalog.** A table is a set of rows; an operation of `SqliteModuleStore` is an action with its reply as
the last parameter, enabled for the replies the code may give. Row ids are SQLite's: `INTEGER PRIMARY KEY` without
`AUTOINCREMENT` gives an id again once the newest rows are gone, and `active_modules` refers to versions by id, so that
the cascade of a deletion matters. `Catalog` has neither rows nor ids; `Promised` maps the tables to it.

**Deployment.** `call[c]` is a request: which handler, what it asks the store next, what it has read so far. A handler is
one action per message it sends to the store, other clients coming in between. `seen` and `withdrawn` are history
variables that let a property speak of what was true during a request. `mailbox` is the way from the store to the command
actor, `compiling` its tasks, `components` its map, `starting` what `on_start` still has to load. `Careful` says whether
clients wait for earlier changes of a module to take effect before they change it again, reads always overlap.

**FoldPass.** `emit_event` puts events with domain ids in the log (`history`); a reader (`mode`: a Rust command, a JavaScript command or a
fold query) builds its folds with their bindings, may trap while it does, and reads the events its `Query` selects one
at a time. `matches_fold_query`, `from_event` and `apply` are the three places where an event is looked at. An event's
payload is its type, its domain ids and its fate (plain, shredded, or not what the reader's type expects). The macro's
`from_event` looks for fixed values in the event's data and not among its tags (`derive_event_set.rs:115`): `TEXT_FIELDS`
are the domain ids that a type's data holds under their own name as a string, and `TextOf` is what can be read there of
an event's tags. A domain id that is a number, or that is renamed, has a tag and no such text.

**LiveProjection.** One action per iteration of each party's loop: `reader`, `task` and `worker` are where each stands,
`raw` and `channel` the two bounded channels. Dropping an end of a channel is leaving the states in which it is held
(`TaskReceives`, `WorkerReceives`, ...). `deadline` is the clock, `timeout` the request's timer, `hang_up` the client.
Everything the script does may loop (`select` too), every thread may panic or fail to start, and encoding may fail; each
has its own answer.

**Deploy.** `source`, `manifest` and `wasm` are files, `published` and `active` the server as its API answers; a built
file is the source it was made of, with its version in it when `VersionInBytes`. `worker[j]` is an upload thread,
`queue` what is still to upload. Between two deploys sources may be edited, even so that they do not compile (`Broken`)
or that the library is not named after its package (`Renamed`), which cargo builds without error under a name the
command does not look for. A `Fault` is what the files do not explain: a program that cannot be started, a file that is
missing or cannot be read or written, a version that cannot be bumped, a connection that breaks.

**Runtime.** `store`, `pubsub` and `child[s]` are actors with a mailbox of `Capacity` messages, the store's included;
what an actor waits for is its phase, and everyone who asks the store waits first for room and then for the answer. Each
subscriber has one module and each activation is of a new version, so a version says how old it is. Each version is
compiled by a task of its own, and these end in any order (`compilation_ends`). `panic(x)` restarts `x` and everything
started after it; an actor's mailbox outlives its restart, as it does in the actor library, and pending asks of a dead
actor are dropped (`Abandon`). A timeout bounds the wait for an answer and not the wait for room: the code sets
`reply_timeout` only. `adrift` marks subscribers for which the exceptions of `InSync` apply: a compilation that overtook
an older one, or a start with older activations still on their way.

## Runs

Twelve runs; each passing property has a mutant of the code that TLC finds to violate it under the same configuration.

| run | expects | distinct states | shows |
|---|---|---|---|
| `effect_dispatchers` | pass | 1.5 million | watermark and order with two overlapping dispatchers, two files and two keys on one worker |
| `effect_encrypted` | pass | 747 thousand | what may be lost and how far the watermark may fall, back-pressure, liveness, with key deletion and a store that does not answer |
| `effect_shredded_batch` | violation | | the finding below |
| `command_tx` | pass | 172 thousand | serialisability, idempotency, reads across key deletion, liveness |
| `projector_overlap` | pass | 464 thousand | exactly once and refinement with two incarnations, two files, power failure |
| `projector_encrypted` | pass | 89 thousand | liveness with key deletion |
| `supervisor` | pass | 907 thousand | one live actor, nothing forgotten, convergence; refines `Lifecycle` |
| `deployment` | pass | 154 thousand | the tables refine the catalogue; answers are true; the loaded command follows the store |
| `folds` | pass | 2.2 million | five folds in three kinds of readers take no event that is not theirs, and the regular ones all of theirs |
| `live_projection` | pass | 16 thousand | successes are whole, errors true, everything ends |
| `deploy_cli` | pass | 1.9 million | the summary is true, a second deploy changes nothing, whatever fails |
| `runtime` | pass | 621 thousand | subscribers in sync after restarts and only on newer versions; every request answered unless a ring of full mailboxes closes |

`CHECK_DEADLOCK FALSE` everywhere: the log, the failures, the requests and the operators' changes are bounded, and once
they are used up everything has been handled and the system rests.

**Bounds and why they are enough.**

- `effect_dispatchers`: two positions, one batch of up to two. A watermark error needs an older event in flight and a
  newer one done; a guarded update needs two dispatchers; `InFlightLimit = 1` is the threshold of 100 scaled so that it
  is met. Two partition keys (`k1`, `k2`) that hash to one worker are the collision case. Two majors and two files give one
  replacement. One failure and one death. The proofs below lift all of these for plain-text events.
- `effect_encrypted`: four positions in batches of up to two, over one worker with one queue, so that the limit is
  exceeded by a whole batch and passed again, and so that a batch has an event behind a passed-over one; one key, one
  failure, one death, lookups that time out. Acks out of order need two workers and are left to `effect_dispatchers`.
- `command_tx`: three executions, so that one can lose to a second while a third reads; one key deletion; commands
  with and without keys, with and without a query, emitting one and two events, over an encrypted and a plain kind.
  Requests satisfy `KeysInScope`; what happens otherwise can be reproduced, see below.
- `projector_overlap`, `projector_encrypted`: two positions are a batch of two or two batches of one; three starts
  give an overlap and a successor; two files one replacement. The proofs lift these for all but liveness.
- `supervisor`: four operator actions are a full cycle (activate, change, undo, change); two failures give a restart
  after a restart; one restart of the process. `MaxActors` and `MaxFiles` are large enough never to be what stops a
  behaviour. Two versions with different majors.

- `deployment`: one command, two versions, a content that works and one that does not; one client of the API and one of
  the UI, three changes, one read, one restart. Three changes are enough to upload, delete and upload again, which is
  what brings an id back, and for a second client between the two messages of an upload. That the tables keep several
  modules apart is left to the proofs, which have no bounds.
- `folds`: logs of two events are enough for order, for a counter, for a toggle and for one event in two folds; two folds
  are enough for one to widen the query or fail beside the other. Two fields, of which one event has both and the other
  one that its data holds as a number. The five folds are of all four kinds, with fixed values, two variants of one type, and a
  fixed value the data does not show; a fold may be bound to ids that are not its command's.
- `live_projection`: batches of two, channels of one batch (256 events and a few batches in the code): the histories
  are longer than everything the channels and threads can hold, with a partial last batch, and one has every fate of
  an event.
- `deploy_cli`: two Rust modules are built by one cargo, so that a bump of one rebuilds the other; two threads race; two
  versions allow one bump of each module, and a bump that is not possible is a failure; three deploys are a deploy, a
  deploy after an edit and a third one that must change nothing; one edit, of any of the modules; one fault, of any
  kind and at any moment.
- `runtime`: the ring is store, pubsub and one supervisor; the command actor is a second subscriber that asks the
  store nothing while it handles events. Mailboxes of one message are full at once. The budget of five pays for five
  changes, or a death and three, or two deaths and one; with a death and three changes the ring closes. A version that
  is overtaken by two compilations needs no more than three.

The passing supervisor run has careful operators, because hasty ones break `OneLiveActor` and with it `NoOrphan`,
`KeepsDatabase`, `SettledVersion` and `LifeSpec`; the same is true of `LoadedIsActive` in `deployment`. See
[below](#disagreements-to-reproduce).

What each property says is written above its definition. In short:

- `AtLeastOnce`: all readable plain-text events up to the stored watermark are handled. `LostOnlyIfExposed`: with encryption, all
  but those in `exposed`. `WatermarkMonotone`: no step moves it back. `FallsOnlyToExposed`: with encryption, it falls only
  to just below an exposed event. `KeyedOrder`: within an incarnation, an event is taken up only when earlier ones of its
  key have been answered for. `InFlightBounded`: limit plus one batch. `EventuallyHandled`: every event is handled,
  shredded or exposed.
- `ExactlyOnce`: a database's rows are exactly the readable events up to its position, in order; `ReadModelSpec`:
  `Projector` refines `ReadModel`; `CatchesUp`: a projector that keeps running gets to every event.
- `SerialSpec`: `CommandTx` refines `SerialCommands`; `OncePerKey`; `FoldsPrefixOfKey`: a read that spans a key's
  deletion folds a prefix of that key's events; `EventuallyAnswered`: callers that retry do not starve.
- `OneLiveActor`, `NoOrphan`, `KeepsDatabase`, `SettledVersion`, `Converges` for the supervisor. `LifeSpec`:
  `ModuleSupervisor` refines `Lifecycle`: a change takes effect once, between two instances, and a database is lost only to a
  replay, a deletion or a new major version.
- `CatalogSpec`: the store refines `Catalog`, reused ids or not; `UniqueRows`, `ActiveRowOwned`: the keys of its tables
  and the reference between them. `UploadActivated`, `FlaggedWasActive`: an answer is true of a moment of its request.
  `LoadedIsActive`, `Settles`: once things are quiet, which they become, the loaded command is the active version.
- `FoldMeaning`: no fold ever takes an event that none of its entries admits, whatever shares its query and pass, and its state
  is what its kind makes of those it took; a `Regular` fold takes all of its events, each in the variant that admits it.
  `FailsOnOwnEvent`; `QueryIsTight`: a command conflicts with no append that none of its folds would have seen.
- `OkIsWhole`: what is shown as a success was folded from the whole history; `TrueAnswer`: the store is blamed
  only if it failed, the deadline only if it has passed; `Terminates`.
- `CountedOnce`, `SuccessIsPublished`, `RedeployUnchanged` for a deployment by the CLI.
- `InSync`: once quiet, every subscriber not marked `adrift` runs what is active; `NeverOlder`: one that goes on running
  only goes to newer versions. `Answered`: whoever waits for the store, for room or for its answer, stops waiting unless
  `Ring` holds: the pubsub waits for a subscriber that waits for room in the pubsub's mailbox or in the full mailbox of
  the store, which waits for the pubsub.

Every module of a run has a type invariant, `TypeOK` (`PassTypeOK` in `FoldPass`), which is [proved](#proofs); only
`command_tx` also checks it, and it may be added to the other configurations.

## Fairness

- Actors and tasks are scheduled by tokio, so an action of an actor that stays possible is taken: weak fairness on
  `Dispatch(a)`, `process_event`, the projector's `Run(a)`, a command's `Run(e)`, `Supervise`, `start`, `stop`.
- A guest call returns: weak fairness on the outcome of a handler, whichever it is. A guest that never returns stops
  its worker in the code as well.
- An effect that died is restarted for as long as it is active (`supervisor.rs:223`): weak fairness on `on_start` in
  `EffectActor`. `ModuleSupervisor` checks that the supervisor really does so (`Converges`).
- Nothing restarts a projector (`RETRY_ON_FAILURE` is false for it), so `CatchesUp` allows for one that stopped.
- `Deployment`: the command actor works through its mailbox and compilations end (`WF` on `ActorStep`). Clients may
  stop in the middle of a request.
- `LiveProjection`: each thread and the task are scheduled, the clock advances, a timer that is due fires. No fairness
  makes the script return: it may loop until the interrupt handler, which is a step of its thread, stops it.
- `Runtime`: store, pubsub, every subscriber, compilations, a client that waits for room and the start of the server
  are scheduled. A timeout is a step of the actor that waits: it is there as long as the answer is not, and so is taken
  when nothing comes. Actors need not die.
- `Deploy` has safety properties only.
- Callers retry a conflict. No fairness on the environment: appends, key deletions, operators, failures, deaths.

## Proofs

TLAPS checks the proofs of eight modules, about 16300 obligations. All theorems hold for every value of the constants that
satisfies their assumptions: any number of actors, workers, keys, executions, events, files, modules, clients, folds, threads.
Every safety property that a passing run checks is the statement of a theorem.

| theorem | statement | from |
|---|---|---|
| `EffectActorProofs!TypeCorrect` | `Spec => []TypeOK` | the assumptions on the constants |
| `EffectActorProofs!PlainAtLeastOnce` | `Spec => []AtLeastOnce` | and `KeyIds = {}` |
| `EffectActorProofs!PlainWatermarkMonotone` | `Spec => WatermarkMonotone` | and the same |
| `EffectActorProofs!BackPressure` | `Spec => []InFlightBounded` | the assumptions on the constants |
| `EffectActorProofs!KeyedOrderKept` | `Spec => []KeyedOrder` | the assumptions on the constants |
| `EffectActorProofs!OnlyExposedLost` | `Spec => []LostOnlyIfExposed` | the assumptions on the constants |
| `EffectActorProofs!WatermarkFallsToExposed` | `Spec => FallsOnlyToExposed` | the assumptions on the constants |
| `CommandProofs!TypeCorrect` | `Spec => []TypeOK` | the assumptions on the constants |
| `CommandProofs!ImplementsSerial` | `Spec => SerialSpec` | the assumptions on the constants |
| `CommandProofs!OnceOnly` | `Spec => []OncePerKey` | and `KeysInScope` |
| `CommandProofs!PrefixFolded` | `Spec => []FoldsPrefixOfKey` | the assumptions on the constants |
| `ProjectorProofs!TypeCorrect` | `Spec => []TypeOK` | the assumptions on the constants |
| `ProjectorProofs!ProjectorExactlyOnce` | `Spec => []ExactlyOnce` | the assumptions on the constants |
| `ProjectorProofs!ImplementsReadModel` | `Spec => ReadModelSpec` | the assumptions on the constants |
| `DeploymentProofs!TypeCorrect` | `Spec => []TypeOK` | the assumptions on the constants |
| `DeploymentProofs!StoreImplementsCatalog` | `StoreSpec => CatalogSpec` | the assumptions on the constants |
| `DeploymentProofs!RowsAreUnique` | `Spec => []UniqueRows` | the assumptions on the constants |
| `DeploymentProofs!ActiveRowsOwned` | `Spec => []ActiveRowOwned` | the assumptions on the constants |
| `DeploymentProofs!ImplementsCatalog` | `Spec => CatalogSpec` | the assumptions on the constants |
| `DeploymentProofs!UploadsActivate` | `Spec => UploadActivated` | the assumptions on the constants |
| `DeploymentProofs!ReportsWereTrue` | `Spec => FlaggedWasActive` | the assumptions on the constants |
| `DeploymentProofs!LoadedFollowsActive` | `Spec => []LoadedIsActive` | and `Careful` |
| `ModuleSupervisorProofs!TypeCorrect` | `Spec => []TypeOK` | the assumptions on the constants |
| `ModuleSupervisorProofs!AtMostOneActor` | `Spec => []OneLiveActor` | and `Careful` |
| `ModuleSupervisorProofs!NoActorForgotten` | `Spec => []NoOrphan` | and `Careful` |
| `ModuleSupervisorProofs!DatabaseKept` | `Spec => []KeepsDatabase` | and `Careful` |
| `ModuleSupervisorProofs!SettledRight` | `Spec => []SettledVersion` | and `Careful` |
| `ModuleSupervisorProofs!ImplementsLifecycle` | `Spec => LifeSpec` | and `Careful` |
| `LiveProjectionProofs!TypeCorrect` | `Spec => []TypeOK` | the assumptions on the constants |
| `LiveProjectionProofs!SuccessIsWhole` | `Spec => []OkIsWhole` | the assumptions on the constants |
| `LiveProjectionProofs!AnswersAreTrue` | `Spec => []TrueAnswer` | the assumptions on the constants |
| `DeployProofs!TypeCorrect` | `Spec => []TypeOK` | the assumptions on the constants |
| `DeployProofs!EachCountedOnce` | `Spec => []CountedOnce` | the assumptions on the constants |
| `DeployProofs!SuccessesPublished` | `Spec => []SuccessIsPublished` | the assumptions on the constants |
| `DeployProofs!RedeployDoesNothing` | `Spec => []RedeployUnchanged` | and `~VersionInBytes` |
| `CommandProofs!PassTypeCorrect` | `PassSpec => []PassTypeOK` | the assumptions on the constants |
| `CommandProofs!FailuresAreOwn` | `PassSpec => []FailsOnOwnEvent` | the assumptions on the constants |
| `CommandProofs!QueriesAreTight` | `PassSpec => []QueryIsTight` | the assumptions on the constants |
| `CommandProofs!FoldsMean` | `PassSpec => []FoldMeaning` | the assumptions on the constants |
| `RuntimeProofs!TypeCorrect` | `Spec => []TypeOK` | the assumptions on the constants |
| `RuntimeProofs!StaysInSync` | `Spec => []InSync` | the assumptions on the constants |
| `RuntimeProofs!GoesForward` | `Spec => NeverOlder` | the assumptions on the constants |

**Effect.** `LostOnlyIfExposed` alone is not inductive: the watermark a dispatcher computes is right only if what it has
been given is accounted for. `IInv` adds for each live dispatcher (`DispatcherInv`) that every matching event up to its
cursor is handled, in flight, in its batch or exposed; that what is in flight lies between its `last_position` and its
cursor, before the batch, or is exposed; that a positive ack in its mailbox is of a handled event; and that its workers
know only events its cursor has passed. Then the minimum of `in_flight`, less one, is safe, and so is the cursor when
`in_flight` is empty, because acks are only taken between batches. The exception is an event that is passed over, which
is acknowledged inside a batch: what stands behind it becomes exposed, and nothing else does. The guarded `UPDATE`
succeeds only if the stored value is `last_position`, and the new one is below it only if the oldest event in flight is
exposed: that is `FallsOnlyToExposed`. Where nothing is encrypted (`KeyIds = {}`), `PlainInv` says that nothing is ever
exposed, and the two become `AtLeastOnce` and `WatermarkMonotone`. `BoundInv` is the back-pressure: a batch is taken only
while `in_flight` is within the limit, and is never larger than `MaxBatch`. `KeyedOrder` needs no hypothesis: `OrderInv`
says that a worker's mailbox is in log order, after the event it works on and before the dispatcher's batch, that it
holds only events of keys that hash to it (`InOrder`), and that each event in flight is at its worker or answered for
(`Ordered`).

**Commands.** `TxInv`: a running transaction holds exactly the events its query selected below its head, and none of
them has its key once it commits. With the append condition nothing relevant has arrived since, so the append is an
`Execute` of `SerialCommands` at that moment; all other steps leave the log alone. `OnceOnly` is proved from that. For
`FoldsPrefixOfKey`, `ReadInv` says that a transaction takes its events in order and that what it left out has a key that is
gone; a key that is gone does not come back, even if its scope gets another.

**Projector.** `IInv`: every file, as committed and as durable, is `Faithful`; an open transaction `Extends` from the
position its actor last saw to its cursor; an actor that is not running has no transaction; a file has one writer,
and one that has moved the position in its transaction saw the committed value (`Exclusive`). A commit then appends
exactly the events between the two positions, and a power failure returns to a faithful state. For the refinement,
`RInv` adds that what is durable is an `Earlier` commit of the same file: a prefix of its rows that ends where its
position says. Then a commit is `Advance`, a power failure `Rewind`, and every other step appends, deletes a key, or
leaves the model's state alone.

**Deployment.** `StoreInv` (types, unique ids, and `ActiveRowOwned`: the row an active row points to exists and is of its
module) is inductive for the store alone, because an id can come back only when its row is gone, and the deletion of a
row takes the active row with it. That makes every operation one of `Catalog`'s, or none. For the clients, `IInv` adds
`CallInv`: unless a version was withdrawn meanwhile, a request under way knows only true `Facts`: what it is about to
activate is published with the content it uploaded, what it has read is published, what it has flagged was active.

For `LoadedIsActive`, every client's step is one of three things for the active releases: it keeps them, activates one, or
drops those of a module, and says so to the actor in the last two (`ClientEffect`, from the lemmas of the refinement). With
careful clients one thing is on its way at a time, an event, a compilation or a start (`OneAtATime`), it is about the last
change that was made (`EventTrue`), and every command it is not about is `Settled`; that is `LoadInv`. In working it out, the
property had to be weakened from content to version: see [below](#disagreements-to-reproduce).

**Supervisor.** For careful operators a change is in one place at a time (`OneChange`: event, reset, compilation, pending
start) and carries the active version, an actor on its way out is the only one there is and nothing else is under way until
it is gone (`OneEnding`), and actors are numbered in the order of their birth (`Numbered`), so that the next one to be
spawned was never in a map. `OneLiveActor` follows from `NoOrphan` and `OneEnding`, `SettledVersion` from `RightVersion`. For the refinement the
invariant needs two things more: files that are not in use yet are empty (`SpareFiles`), and a restart is due only for a
version that has failed (`TimersInv`). `Due` then says which change has not taken effect, wherever it is, and every step is one
of `Lifecycle`'s or none (`LifeStep`); what has ended stays ended (`StepGrows`) is read off `Lifecycle` itself.

**Live projection.** `Pipeline`: while nobody has given up, there are five cuts in the history up to where the reader
stands, such that the script's state, its current batch, the channel to it, what the task holds, the channel of raw batches
and the reader's batch cover the pieces between them, each event once and in order. `Stages` says what each party has
finished when another goes on without it, `Outcomes` what the script's thread can have left behind; an outcome "ok" can
then only be the fold of everything.

**Deploy.** `OnePlace`: a selected module is shown as building exactly while it is in one place (to be built, built but not
queued, in the channel, with one thread), which makes the counts of `Counted` add up. `FromSource`: what was built is of the
sources, what a thread carries is of the manifest's version, and a success is on the server. `Again` adds, for a deploy of
modules that are up to date, that none is bumped and that one fails only for a fault of its own, kept in
`faulted`; it needs `~VersionInBytes`.

**Folds.** `PassInv` says which bindings the folds of each kind of reader have. The lemmas follow an event through the
code: an entry's tags are a subset of the event's tags if the fold's filter and `from_event` take the event
(`MatchHasVariant`, `Takes`), and `Means` is kept by each event, whether the fold takes it or not: that is the first half
of `FoldMeaning` for every fold. The second half needs `Regular`: then an entry admits an event exactly if the filter
matches it (`AdmitsIsMatch`), what it matches the query selects (`TakenIsSelected`), and the variant decoded is that of
the entry that matched (`OneEntry`).

**Runtime.** An activation of a subscriber's module goes through seven stages: with the store, sent to the pubsub, in its
hand, told to the subscriber, being compiled, compiled, running. `InLine` says that along these stages, and inside each queue,
versions only grow, and that none is above the active one; of a subscriber that is adrift it says nothing about the last
two (`Made`, `Done`), where compilations overtake each other. `Follows`: unless it is adrift, a subscriber that has started
(`Informed`) runs what is active or has it on its way, and what it runs or is about to (`Pending`) is not above what is on
its way; while it is still starting, what counts is what the pubsub takes after its subscription (`HeardIn`), and it has
nothing loaded (`Fresh`). A death empties hands but no mailbox. That this loses nothing a running subscriber needs is due
to the restarts: whoever was started after a dead pubsub or store starts anew with it (the lemma `RestForOne`), subscribes
again (`Member`), and reads what is active after that. `WaitsIn` keeps a request in the store's mailbox together with the
phase of who asked, so that an answer reaches only someone who waits for it. With nothing on its way, `Follows` is `InSync`.
`NeverOlder` needs one thing more (`Newer`): a version waiting for its variables is not below what is loaded.

**Only model-checked.** Liveness (`EventuallyHandled`, `CatchesUp`, `EventuallyAnswered`, `Converges`, `Settles`,
`Terminates`, `Answered`): temporal proofs under fairness and `ENABLED` are out of this prover's reach. Also out of reach:
induction over data (what a recursive definition computes for every input) and modules with `RECURSIVE` operators; none is
used here.

## Findings

**A shredded event lets the watermark pass the rest of its batch** (`actor.rs:417`, run `effect_shredded_batch`).
`process_batch` acknowledges an event that decrypts to null at once. With nothing in flight the watermark becomes the
subscription's cursor, which is past events of the same batch not yet dispatched. A death then loses them.
`docs/src/architecture.md:67` says the watermark prevents data loss.

## Disagreements to reproduce

Each of these is a property of the modules, or a value of a constant, that no passing run uses, because TLC then finds a
violation. They are places where the code does not promise what one could expect of it, or what a document says.

| change to a configuration | TLC then violates | because |
|---|---|---|
| `EffectDispatchers.cfg`: invariant `StrictKeyedOrder` | it | a restarted worker goes on with its mailbox, so a later event of a key is handled before the failed one is retried (`worker.rs:192`; `docs/src/runtime-deep-dive.md:117` promises strict order) |
| `EffectEncrypted.cfg`, also with `MaxBatch = 1`: invariant `NoEventLost` | it | a key lookup that times out is read as a missing key (`actor.rs:596`), and what is behind a shredded event of a batch is passed; `LostOnlyIfExposed` says that nothing else is lost |
| `CommandTx.cfg`: `Requests <- MCOutOfScope` | `OncePerKey` | a command that folds nothing, or emits what it does not fold, appends twice with one key (`wit/command.rs:234`; `docs/src/commands.md:185` restricts the check to the fold scope, `docs/src/idempotency.md:47` does not) |
| `CommandTx.cfg`: property `NewEventsReadable` | it | a key is deleted between the moment it is obtained and the append (`wit/command.rs:388`) |
| `Supervisor.cfg`: `Careful = FALSE` | `OneLiveActor`, `LifeSpec` | two replays in a row leave two live actors (`supervisor.rs:330`) |
| `Supervisor.cfg`: invariant `RunsActiveVersion` | it | a delayed restart brings an old version back (`supervisor.rs:444`) |
| `Deployment.cfg`: `Careful = FALSE` | `LoadedIsActive` | compilations end in any order, and an activation of the loaded version is skipped by its number though its content is new (`command/actor.rs:221`, `:398`) |
| `Deployment.cfg`: `Codes = {A, B, C}`, `MaxRequests = 4`, and `LoadedIsActive` without `Broken = {} =>` | `LoadedIsActive` | a version whose successor does not work stays loaded, is deleted, uploaded again with other content and activated: skipped, as that version is loaded (`command/actor.rs:397`), also for careful clients |
| `Deployment.cfg`: property `DeactivatedReported` | it | the version reported as deactivated was read before the deactivation (`api/src/routes/modules/activate.rs:258`) |
| `FoldPass.cfg`: `FoldMeaning` without the first conjunct of `Regular` | `FoldMeaning` | a fold is filtered by the first entry of an event's type (`umari/src/folds.rs:824`), though event sets may have several variants of one type (the fold `TwoVariants`) |
| the same without the second | `FoldMeaning` | a fixed value is looked for in the event's data, as a string under the domain id's name, and not among the tags (`crates/macros/src/derive_event_set.rs:115`): an event with the fixed tag is dropped where the id is a number or renamed (`OneAccount`; `docs/src/events.md:386` promises a match by tag) |
| the same without the third | `FoldMeaning` | a JavaScript command reads with its own bindings, its folds filter by theirs (`packages/js/src/runtime/command-exports.ts:93`) |
| `Runtime.cfg`: `InSync` without `\ adrift` | `InSync` | each version is compiled by a task of its own, so that an older one may be loaded last (`module/supervisor.rs:596`, `command/actor.rs:412`); and a subscriber that restarts with older events in its mailbox loads the older version after the newer (`command/actor.rs:398` skips a version that is loaded) |
| `Runtime.cfg`: `Answered` without `\/ Ring` | `Answered` | after a death, store, pubsub and a starting or asking supervisor may each wait for room in the next one's mailbox, and no timeout bounds that wait (`crates/runtime/src/supervisor.rs:75`) |
| `Deploy.cfg`: `VersionInBytes = TRUE` | `RedeployUnchanged` | with two threads a rebuild after a bump changes files another thread has uploaded; it holds with one thread (`cli/src/commands/workspace.rs:766`) |

Smaller ones, noticed while reading: a duplicate is answered with the head's position, not the duplicate's
(`umari/src/command.rs:131`, `docs/src/idempotency.md:43`); projectors and effects skip an event whose key is gone, where
`docs/src/encryption.md:78` says they receive null data; the first delay after a failure is two seconds, not one
(`supervisor.rs:244` compares two absent positions as equal; `docs/src/runtime-deep-dive.md:188`); an `EventToggle` of two
events with different domain ids follows the ids of the first (`umari/src/folds.rs:619`, documented as a requirement and
not checked); a subscription that times out is only logged (`command/actor.rs:77`, `supervisor.rs:109`), after which the
subscriber may miss every later change; an upload of a
version that exists is answered as a success although the environment variables sent with it are rolled back
(`module_store/sqlite.rs:114`); a crash between the deletion of a module and of its files leaves a database that a later
module of its name opens (`module_store/actor.rs:236`).

## What is not modelled

- The event store itself: an append-only log with atomic snapshots and conditional appends is assumed. So is the actor
  library: mailboxes are bounded and kept across restarts, asks have timeouts, links tell of deaths.
- Guests' own logic, payloads, metadata, validation, formatting, logging, metrics.
- In `ModuleSupervisor`: a version that does not compile (the old one stays, the store says otherwise; `Deployment` has it
  for commands), and the size of delays.
- Compile cache: a file written in place and read without a lock. What a reader of a partial file gets is decided by the
  library that deserialises it, and a model would only assume its answer.
- Module output: a ring buffer under one mutex that is only shown to users.
- Routing, authentication, status codes, health and metrics of the API; pages of the UI; the other commands of the CLI,
  which send one request each; options and the order of shutdown of the server.
- Macros (but for what the code they generate does, in `FoldPass`), WIT conversions, shared types; exports of projectors
  and effects in the JavaScript SDK.

## Plan

The components with behaviour of their own are modelled. What is left, in this order:

1. An abstract specification of the back-pressure and the order of effects, and a refinement of it.
2. Key deletion through effects against command reads, projectors and effects at once, as a composition of the three
   modules that now each have deletions of their own.
3. A failing compilation in `ModuleSupervisor`, and several modules under one supervisor.
4. `ExactlyOnce` and `FoldMeaning` together: a projector written with the SDK's folds.
