------------------------------- MODULE Runtime -------------------------------
(***************************************************************************)
(* The runtime's actors and the messages between them (RuntimeSupervisor,  *)
(* crates/runtime/src/supervisor.rs): the pubsub, the module store, the    *)
(* command actor and the supervisors of projectors and effects, started in *)
(* this order and restarted with whatever was started after them.          *)
(*                                                                         *)
(* The store waits for room in the pubsub's mailbox, the pubsub waits for  *)
(* room in each subscriber's, and a supervisor waits for the store: first  *)
(* for room in its mailbox, for as long as it takes, then for its answer,  *)
(* at most until the ask times out.  Each subscriber has one module and    *)
(* each activation is of a new version, which compiles; the rest of what   *)
(* can happen to a module is in Deployment and ModuleSupervisor.           *)
(***************************************************************************)
EXTENDS Integers, Sequences, FiniteSets, Functions

CONSTANTS
  Supervisors,  \* the supervisors' names in start order, e.g. <<"projector", "effect">>
  Clients,
  Capacity,     \* room in the mailbox of an actor
  Budget        \* bound: an activation costs one of it, the death of an actor two

StartOrder  == <<"pubsub", "store", "command">> \o Supervisors
Subscribers == {"command"} \cup Range(Supervisors)
Versions    == Nat   \* 0: none
None        == [type |-> "none"]
Nobody      == "nobody"

ASSUME RuntimeAssumption ==
  /\ Capacity \in Nat \ {0} /\ Budget \in Nat
  /\ Supervisors \in Seq({"projector", "effect"})
  /\ Clients \cap {"pubsub", "store", "command", "projector", "effect", Nobody} = {}

VARIABLES
  active,     \* the store's table: the active version of each subscriber's module
  store,      \* its mailbox and the event it is publishing
  pubsub,     \* its mailbox, its subscribers, the event it is passing on and to whom still
  child,      \* the subscribers
  compiling,  \* versions being compiled for each subscriber, each by a task of its own
  call,       \* what each client waits for: room in the store's mailbox, or its answer
  up,         \* has the process started (is it serving requests)?
  adrift,     \* history: subscribers that started with older activations still on
              \* their way, or for which a version was compiled before an older one
  changes, panics  \* how many activations and deaths there were

vars == <<active, store, pubsub, child, compiling, call, up, adrift, changes, panics>>

\* Nobody waits for the answer any more: handling it has no effect.
Abandoned == [type |-> "abandoned", from |-> Nobody]

Event   == [type : {"Activated"}, of : Subscribers, version : Versions]
Request == [type : {"activate"}, from : Clients, of : Subscribers]
             \cup [type : {"read", "env"}, from : Subscribers] \cup {Abandoned}
Notice  == Event \cup [type : {"Subscribe"}, from : Subscribers]
Message == Event \cup [type : {"Compiled"}, version : Versions]

\* A subscriber starts: it waits for room in the pubsub's mailbox, for its answer, for
\* room in the store's and for its answer, and compiles.  next is the version it will
\* load once it is compiled and, in a supervisor, its variables were asked for.
Child ==
  [phase : {"starting", "subscribing", "subscribed", "reading", "compiling",
            "asking", "waiting", "ready"},
   mailbox : Seq(Message), loaded : Versions, next : Versions]

Room(actor) == Len(actor.mailbox) < Capacity
With(actor, message) == [actor EXCEPT !.mailbox = Append(@, message)]
Handled(actor) == [actor EXCEPT !.mailbox = Tail(@)]

\* What these asked for stays in the store's mailbox.
Abandon(ss) ==
  [i \in DOMAIN store.mailbox |->
     IF store.mailbox[i].from \in ss THEN Abandoned ELSE store.mailbox[i]]

\* The activations on their way to s.
OnTheWay(s) ==
  LET Of(seq) == {m \in Range(seq) : m.type = "Activated" /\ m.of = s}
      passing == IF pubsub.event # None /\ s \in pubsub.remaining
                   THEN <<pubsub.event>> ELSE <<>>
  IN {m.version : m \in Of(pubsub.mailbox) \cup Of(passing) \cup Of(child[s].mailbox)}
       \cup {m.version : m \in {n \in Range(child[s].mailbox) : n.type = "Compiled"}}
       \cup compiling[s]

Started == [phase |-> "ready", mailbox |-> <<>>, loaded |-> 0, next |-> 0]

-----------------------------------------------------------------------------
Init ==
  /\ active = [s \in Subscribers |-> 0]
  /\ store = [mailbox |-> <<>>, event |-> None, by |-> Nobody]
  /\ pubsub = [mailbox |-> <<>>, event |-> None, remaining |-> {},
               subscribers |-> Subscribers]
  /\ child = [s \in Subscribers |-> Started]
  /\ compiling = [s \in Subscribers |-> {}]
  /\ call = [c \in Clients |-> "none"]
  /\ up = TRUE
  /\ adrift = {}
  /\ changes = 0 /\ panics = 0

-----------------------------------------------------------------------------
(* Clients and the store *)

\* A handler of the API asks the store ...
client_activates(c) ==
  /\ up
  /\ call[c] = "none"
  /\ changes + 2 * panics < Budget
  /\ changes' = changes + 1
  /\ call' = [call EXCEPT ![c] = "room"]
  /\ UNCHANGED <<active, store, pubsub, child, compiling, up, adrift, panics>>

\* ... and waits, first for room in its mailbox, for as long as it takes.
client_asks(c, s) ==
  /\ call[c] = "room"
  /\ Room(store)
  /\ store' = With(store, [type |-> "activate", from |-> c, of |-> s])
  /\ call' = [call EXCEPT ![c] = "answer"]
  /\ UNCHANGED <<active, pubsub, child, compiling, up, adrift, changes, panics>>

\* The subscriber runs what it was about to load.
Loads(s) ==
  [child EXCEPT ![s].phase = "ready", ![s].loaded = child[s].next, ![s].next = 0]

StoreHandles(type) ==
  /\ store.event = None
  /\ store.mailbox # <<>>
  /\ Head(store.mailbox).type = type

\* The new version is in the table before it is published.
activate_module ==
  LET request == Head(store.mailbox)
  IN /\ StoreHandles("activate")
     /\ active' = [active EXCEPT ![request.of] = @ + 1]
     /\ store' = [Handled(store) EXCEPT
          !.event = [type |-> "Activated", of |-> request.of,
                     version |-> active[request.of] + 1],
          !.by = request.from]
     /\ UNCHANGED <<pubsub, child, compiling, call, up, adrift, changes, panics>>

\* Mutant: a task of its own publishes each event, and may overtake an earlier one.
publish_in_task ==
  /\ store.event # None
  /\ \/ pubsub' = [pubsub EXCEPT !.mailbox = <<store.event>> \o @]
     \/ pubsub' = With(pubsub, store.event)
  /\ store' = [store EXCEPT !.event = None, !.by = Nobody]
  /\ call' = [call EXCEPT ![store.by] = "none"]
  /\ UNCHANGED <<active, child, compiling, up, adrift, changes, panics>>

\* The store goes on, and answers, once the pubsub has room for the event.
publish ==
  /\ store.event # None
  /\ Room(pubsub)
  /\ pubsub' = With(pubsub, store.event)
  /\ store' = [store EXCEPT !.event = None, !.by = Nobody]
  /\ call' = [call EXCEPT ![store.by] = "none"]
  /\ UNCHANGED <<active, child, compiling, up, adrift, changes, panics>>

\* A subscriber that starts is told what is active.
get_all_active_modules ==
  LET s == Head(store.mailbox).from
      phase == IF active[s] = 0 THEN "ready" ELSE "compiling"
  IN /\ StoreHandles("read")
     /\ store' = Handled(store)
     /\ child' = [child EXCEPT ![s].phase = phase, ![s].next = active[s]]
     /\ adrift' = IF \E v \in OnTheWay(s) : v < active[s]
                    THEN adrift \cup {s} ELSE adrift \ {s}
     /\ UNCHANGED <<active, pubsub, compiling, call, up, changes, panics>>

get_env_vars ==
  LET s == Head(store.mailbox).from
  IN /\ StoreHandles("env")
     /\ store' = Handled(store)
     /\ child' = Loads(s)
     /\ UNCHANGED <<active, pubsub, compiling, call, up, adrift, changes, panics>>

answers_nobody ==
  /\ StoreHandles("abandoned")
  /\ store' = Handled(store)
  /\ UNCHANGED <<active, pubsub, child, compiling, call, up, adrift, changes, panics>>

-----------------------------------------------------------------------------
(* The pubsub, with guaranteed delivery *)

pubsub_takes ==
  LET notice == Head(pubsub.mailbox)
  IN /\ pubsub.event = None
     /\ pubsub.mailbox # <<>>
     /\ IF notice.type = "Subscribe"
          THEN /\ pubsub' = [Handled(pubsub) EXCEPT !.subscribers = @ \cup {notice.from}]
               /\ child' = IF child[notice.from].phase = "subscribing"
                             THEN [child EXCEPT ![notice.from].phase = "subscribed"]
                             ELSE child
          ELSE /\ pubsub' = [Handled(pubsub) EXCEPT
                    !.event = IF pubsub.subscribers = {} THEN None ELSE notice,
                    !.remaining = pubsub.subscribers]
               /\ UNCHANGED child
     /\ UNCHANGED <<active, store, compiling, call, up, adrift, changes, panics>>

\* It waits for room in the mailbox of each subscriber in turn.
pubsub_delivers(s) ==
  /\ pubsub.event # None
  /\ s \in pubsub.remaining
  /\ Room(child[s])
  /\ child' = [child EXCEPT ![s] = With(@, pubsub.event)]
  /\ pubsub' = [pubsub EXCEPT
       !.remaining = @ \ {s},
       !.event = IF pubsub.remaining = {s} THEN None ELSE @]
  /\ UNCHANGED <<active, store, compiling, call, up, adrift, changes, panics>>

-----------------------------------------------------------------------------
(* Subscribers *)

\* on_start subscribes ...
subscribe(s) ==
  /\ child[s].phase = "starting"
  /\ Room(pubsub)
  /\ pubsub' = With(pubsub, [type |-> "Subscribe", from |-> s])
  /\ child' = [child EXCEPT ![s].phase = "subscribing"]
  /\ UNCHANGED <<active, store, compiling, call, up, adrift, changes, panics>>

\* ... reads what is active ...
read_active(s) ==
  /\ child[s].phase = "subscribed"
  /\ Room(store)
  /\ child' = [child EXCEPT ![s].phase = "reading"]
  /\ store' = With(store, [type |-> "read", from |-> s])
  /\ UNCHANGED <<active, pubsub, compiling, call, up, adrift, changes, panics>>

\* ... and compiles it before it loads it.  The command actor needs no variables.
startup_compiled(s) ==
  /\ child[s].phase = "compiling"
  /\ child' = IF s = "command" THEN Loads(s) ELSE [child EXCEPT ![s].phase = "asking"]
  /\ UNCHANGED <<active, store, pubsub, compiling, call, up, adrift, changes, panics>>

Receives(s, type) ==
  /\ child[s].phase = "ready"
  /\ child[s].mailbox # <<>>
  /\ Head(child[s].mailbox).type = type

\* Nothing to do for another's module, or for a version that is loaded, which in a
\* supervisor means that its actor is alive too.
module_event(s) ==
  LET event == Head(child[s].mailbox)
      isLoaded == child[s].loaded = event.version
  IN /\ Receives(s, "Activated")
     /\ child' = [child EXCEPT ![s] = Handled(@)]
     /\ \/ /\ event.of # s \/ isLoaded
           /\ UNCHANGED compiling
        \/ /\ event.of = s /\ (~isLoaded \/ s # "command")
           /\ compiling' = [compiling EXCEPT ![s] = @ \cup {event.version}]
     /\ UNCHANGED <<active, store, pubsub, call, up, adrift, changes, panics>>

\* The tasks that compile end in any order.  Their messages wait for room like any other.
compilation_ends(s, version) ==
  /\ version \in compiling[s]
  /\ Room(child[s])
  /\ child' = [child EXCEPT ![s] = With(@, [type |-> "Compiled", version |-> version])]
  /\ compiling' = [compiling EXCEPT ![s] = @ \ {version}]
  /\ adrift' = IF \E v \in compiling[s] : v < version THEN adrift \cup {s} ELSE adrift
  /\ UNCHANGED <<active, store, pubsub, call, up, changes, panics>>

\* The command actor loads the module at once; a supervisor asks for its variables
\* first, in the middle of the handler: it waits for room in the store's mailbox ...
module_compiled(s) ==
  LET version == Head(child[s].mailbox).version
      next == [Handled(child[s]) EXCEPT !.phase = "asking", !.next = version]
  IN /\ Receives(s, "Compiled")
     /\ child' = [child EXCEPT ![s] =
                    IF s = "command" THEN [Handled(@) EXCEPT !.loaded = version] ELSE next]
     /\ UNCHANGED <<active, store, pubsub, compiling, call, up, adrift, changes, panics>>

\* ... and then for the answer.
ask_env_vars(s) ==
  /\ child[s].phase = "asking"
  /\ Room(store)
  /\ child' = [child EXCEPT ![s].phase = "waiting"]
  /\ store' = With(store, [type |-> "env", from |-> s])
  /\ UNCHANGED <<active, pubsub, compiling, call, up, adrift, changes, panics>>

-----------------------------------------------------------------------------
(* Timeouts bound the wait for an answer, not the wait for room.  Seconds   *)
(* pass only when someone waits for someone else.                          *)

StoreWaits  == store.event # None /\ ~Room(pubsub)
PubsubWaits == pubsub.event # None /\ \E s \in pubsub.remaining : ~Room(child[s])

\* A subscription that is not confirmed is logged, and on_start goes on.  Its message
\* stays in the pubsub's mailbox.
subscribe_times_out(s) ==
  /\ child[s].phase = "subscribing"
  /\ PubsubWaits
  /\ child' = [child EXCEPT ![s].phase = "subscribed"]
  /\ UNCHANGED <<active, store, pubsub, compiling, call, up, adrift, changes, panics>>

\* Mutant: the ask has no timeout.
env_never_times_out(s) ==
  /\ child[s].phase = "waiting"
  /\ StoreWaits
  /\ UNCHANGED vars

\* Variables that do not come are none (unwrap_or_default): the module starts
\* without them.
env_times_out(s) ==
  /\ child[s].phase = "waiting"
  /\ StoreWaits
  /\ child' = Loads(s)
  /\ store' = [store EXCEPT !.mailbox = Abandon({s})]
  /\ UNCHANGED <<active, pubsub, compiling, call, up, adrift, changes, panics>>

ReadTimesOut(s) == child[s].phase = "reading" /\ StoreWaits

\* Mutant: only the actor that died is restarted.
one_for_one(x) == {x}

\* SupervisionStrategy::RestForOne: and all that were started after it.
supervision_strategy(x) ==
  {StartOrder[j] : j \in {k \in DOMAIN StartOrder :
     \E i \in 1..k : StartOrder[i] = x}}

\* Restarted actors keep their mailboxes, whose senders hold references to them, and
\* nothing else; the client whose request the store was handling gets an error.
Restart(restarted) ==
  /\ store' =
       IF "store" \in restarted
         THEN [mailbox |-> Abandon(restarted), event |-> None, by |-> Nobody]
         ELSE [store EXCEPT !.mailbox = Abandon(restarted)]
  /\ call' = IF "store" \in restarted
               THEN [c \in Clients |-> IF store.by = c THEN "none" ELSE call[c]] ELSE call
  /\ pubsub' = IF "pubsub" \in restarted
                 THEN [pubsub EXCEPT !.event = None, !.remaining = {}, !.subscribers = {}]
                 ELSE pubsub
  /\ child' = [s \in Subscribers |->
       IF s \in restarted THEN [Started EXCEPT !.phase = "starting",
                                               !.mailbox = child[s].mailbox]
                          ELSE child[s]]

\* A subscriber that cannot read what is active does not start: on_start fails, and
\* supervision tries again ...
read_fails(s) ==
  /\ ReadTimesOut(s)
  /\ Restart(supervision_strategy(s))
  /\ UNCHANGED <<active, compiling, up, adrift, changes, panics>>

\* ... until it gives up and the runtime stops: the process exits and is started
\* again.  Only the table survives.
process_restarts(s) ==
  /\ ReadTimesOut(s)
  /\ store' = [mailbox |-> <<>>, event |-> None, by |-> Nobody]
  /\ pubsub' = [mailbox |-> <<>>, event |-> None, remaining |-> {}, subscribers |-> {}]
  /\ child' = [t \in Subscribers |-> [Started EXCEPT !.phase = "starting"]]
  /\ compiling' = [t \in Subscribers |-> {}]
  /\ call' = [c \in Clients |-> "none"]
  /\ up' = FALSE
  /\ adrift' = {}
  /\ UNCHANGED <<active, changes, panics>>

\* main waits for the runtime before it starts the API.
start_server ==
  /\ ~up
  /\ \A s \in Subscribers : child[s].phase = "ready"
  /\ up' = TRUE
  /\ UNCHANGED <<active, store, pubsub, child, compiling, call, adrift, changes, panics>>

-----------------------------------------------------------------------------
(* Deaths *)

\* Actors die of what they are doing.
Busy(x) ==
  CASE x = "pubsub" -> pubsub.event # None
    [] x = "store" -> store.event # None
    [] OTHER -> \/ child[x].phase = "ready" /\ child[x].mailbox # <<>>
                \/ child[x].phase \in {"compiling", "asking", "waiting"}

\* A panic of the command actor is only logged (on_panic).
Mortal == Range(StartOrder) \ {"command"}

panic(x) ==
  /\ up
  /\ changes + 2 * panics + 1 < Budget
  /\ Busy(x)
  /\ panics' = panics + 1
  /\ Restart(supervision_strategy(x))
  /\ UNCHANGED <<active, compiling, up, adrift, changes>>

-----------------------------------------------------------------------------
StoreStep ==
  \/ activate_module
  \/ publish
  \/ get_all_active_modules
  \/ get_env_vars
  \/ answers_nobody

PubsubStep == pubsub_takes \/ \E s \in Subscribers : pubsub_delivers(s)

SubscriberStep(s) ==
  \/ subscribe(s)
  \/ read_active(s)
  \/ startup_compiled(s)
  \/ module_event(s)
  \/ module_compiled(s)
  \/ ask_env_vars(s)
  \/ subscribe_times_out(s)
  \/ env_times_out(s)
  \/ read_fails(s)
  \/ process_restarts(s)

Next ==
  \/ \E c \in Clients : client_activates(c) \/ \E s \in Subscribers : client_asks(c, s)
  \/ StoreStep
  \/ PubsubStep
  \/ \E s \in Subscribers :
       SubscriberStep(s) \/ \E v \in compiling[s] : compilation_ends(s, v)
  \/ start_server
  \/ \E x \in Mortal : panic(x)

Spec == Init /\ [][Next]_vars

\* Actors and tasks run when they can; a timeout expires when nothing comes.
FairSpec ==
  /\ Spec
  /\ WF_vars(StoreStep)
  /\ WF_vars(PubsubStep)
  /\ \A s \in Subscribers :
       /\ WF_vars(SubscriberStep(s))
       /\ WF_vars(\E v \in compiling[s] : compilation_ends(s, v))
  /\ \A c \in Clients : WF_vars(\E s \in Subscribers : client_asks(c, s))
  /\ WF_vars(start_server)

-----------------------------------------------------------------------------
(* Properties *)

\* The shape of the state.
TypeOK ==
  /\ active \in [Subscribers -> Versions]
  /\ store \in [mailbox : Seq(Request), event : Event \cup {None},
               by : Clients \cup {Nobody}]
  /\ pubsub \in [mailbox : Seq(Notice), event : Event \cup {None},
                remaining : SUBSET Subscribers, subscribers : SUBSET Subscribers]
  /\ child \in [Subscribers -> Child]
  /\ compiling \in [Subscribers -> SUBSET Versions]
  /\ call \in [Clients -> {"none", "room", "answer"}]
  /\ up \in BOOLEAN
  /\ adrift \subseteq Subscribers

\* Nothing is on its way and nobody is starting.
Quiet ==
  /\ store.mailbox = <<>> /\ store.event = None
  /\ pubsub.mailbox = <<>> /\ pubsub.event = None
  /\ \A s \in Subscribers :
       child[s].phase = "ready" /\ child[s].mailbox = <<>> /\ compiling[s] = {}

\* Whatever dies and is restarted, at whatever moment, and whichever answers come
\* too late: once things are quiet every subscriber runs what the store says is
\* active.  There are two exceptions.  A subscriber that was restarted while older
\* activations were on their way to it loads an older version after the newer one,
\* and skips the newer one's event because that version is still loaded.  And where a
\* version was compiled before an older one, the older one is loaded last.
InSync ==
  Quiet => \A s \in Subscribers \ adrift : child[s].loaded = active[s]

Runs(c) == c.phase \in {"ready", "asking", "waiting"}

\* With the same exceptions, a subscriber goes from a version only to a newer one while
\* it runs, whatever is lost, repeated or late on the way: its events come in the order
\* of the activations, and what it was told at its start is not older than what was on
\* its way before.
NeverOlder ==
  [][\A s \in Subscribers :
       s \notin adrift /\ Runs(child[s]) /\ Runs(child'[s])
         => child[s].loaded <= child'[s].loaded]_vars

\* Everyone waits for everyone: the pubsub for room in the mailbox of a subscriber that
\* itself waits for room, in the pubsub's mailbox or in the store's while the store waits
\* for the pubsub.  Nothing but a death ends this wait.
Ring ==
  /\ pubsub.event # None
  /\ \E s \in pubsub.remaining :
       /\ ~Room(child[s])
       /\ \/ child[s].phase = "starting" /\ ~Room(pubsub)
          \/ child[s].phase \in {"subscribed", "asking"} /\ ~Room(store) /\ StoreWaits

\* There is no other deadlock and no livelock: whoever waits for the store, for room in
\* its mailbox or for its answer, stops waiting, unless such a ring closes.
Answered == \A c \in Clients : call[c] # "none" ~> (call[c] = "none" \/ Ring)
=============================================================================
