---------------------------- MODULE RuntimeProofs ----------------------------
(***************************************************************************)
(* Theorems about Runtime, for any supervisors in any order, any clients,  *)
(* mailboxes of any size, and any number of activations and deaths.        *)
(***************************************************************************)
EXTENDS Runtime, SequenceTheorems, TLAPS

-----------------------------------------------------------------------------
(* Queues of messages *)

EventsOf(s) == [type : {"Activated"}, of : {s}, version : Nat]
Results     == [type : {"Compiled"}, version : Nat]

\* The versions that messages of kind K in a queue are about, and whether they come
\* in the order of the queue.
VersionsIn(queue, K) == {queue[i].version : i \in {j \in DOMAIN queue : queue[j] \in K}}

Increasing(queue, K) ==
  \A i, j \in DOMAIN queue :
    i < j /\ queue[i] \in K /\ queue[j] \in K => queue[i].version <= queue[j].version

One(event, K) == IF event \in K THEN {event.version} ELSE {}

Below(X, Y) == \A x \in X : \A y \in Y : x <= y

\* What is appended to a queue comes last ...
LEMMA AppendVersions ==
  ASSUME NEW M, NEW q \in Seq(M), NEW e \in M, NEW K
  PROVE  /\ VersionsIn(Append(q, e), K) = VersionsIn(q, K) \cup One(e, K)
         /\ Increasing(q, K) /\ Below(VersionsIn(q, K), One(e, K))
              => Increasing(Append(q, e), K)
<1> DEFINE n == Len(q)
           a == Append(q, e)
<1>1. /\ n \in Nat /\ DOMAIN q = 1..n /\ DOMAIN a = 1..(n + 1)
      /\ a[n + 1] = e /\ \A i \in 1..n : a[i] = q[i]
  BY AppendProperties, LenProperties
<1> HIDE DEF n, a
<1>2. VersionsIn(a, K) = VersionsIn(q, K) \cup One(e, K)
  <2>1. {j \in DOMAIN a : a[j] \in K} =
          {j \in DOMAIN q : q[j] \in K} \cup IF e \in K THEN {n + 1} ELSE {}
    BY <1>1
  <2> QED
    BY <1>1, <2>1 DEF VersionsIn, One
<1>3. ASSUME Increasing(q, K), Below(VersionsIn(q, K), One(e, K)),
             NEW i \in DOMAIN a, NEW j \in DOMAIN a, i < j, a[i] \in K, a[j] \in K
      PROVE  a[i].version <= a[j].version
  <2>1. i \in 1..n /\ a[i] = q[i] /\ q[i] \in K
    BY <1>1, <1>3
  <2>2. CASE j \in 1..n
    BY <1>1, <1>3, <2>1, <2>2 DEF Increasing
  <2>3. CASE j = n + 1
    <3>1. q[i].version \in VersionsIn(q, K) /\ e.version \in One(e, K)
      BY <1>1, <1>3, <2>1, <2>3 DEF VersionsIn, One
    <3> QED
      BY <1>1, <1>3, <2>1, <2>3, <3>1 DEF Below
  <2> QED
    BY <1>1, <1>3, <2>2, <2>3
<1> QED
  BY <1>2, <1>3 DEF Increasing, a

\* ... and what is taken from it came first.
LEMMA TailVersions ==
  ASSUME NEW M, NEW q \in Seq(M), q # <<>>, NEW K
  PROVE  /\ VersionsIn(q, K) = VersionsIn(Tail(q), K) \cup One(Head(q), K)
         /\ Increasing(q, K) => /\ Increasing(Tail(q), K)
                                /\ Below(One(Head(q), K), VersionsIn(Tail(q), K))
<1> DEFINE n == Len(q)
           t == Tail(q)
<1>1. /\ n \in Nat \ {0} /\ DOMAIN q = 1..n /\ DOMAIN t = 1..(n - 1)
      /\ Head(q) = q[1] /\ \A i \in 1..(n - 1) : t[i] = q[i + 1]
  BY HeadTailProperties, LenProperties, EmptySeq
<1> HIDE DEF n, t
<1>2. VersionsIn(q, K) = VersionsIn(t, K) \cup One(q[1], K)
  <2>1. ASSUME NEW v \in VersionsIn(q, K)
        PROVE  v \in VersionsIn(t, K) \cup One(q[1], K)
    <3>1. PICK i \in DOMAIN q : q[i] \in K /\ v = q[i].version
      BY <2>1 DEF VersionsIn
    <3>2. i = 1 \/ (i - 1 \in DOMAIN t /\ t[i - 1] = q[i])
      BY <1>1
    <3> QED
      BY <3>1, <3>2 DEF VersionsIn, One
  <2>2. ASSUME NEW v \in VersionsIn(t, K)
        PROVE  v \in VersionsIn(q, K)
    <3>1. PICK i \in DOMAIN t : t[i] \in K /\ v = t[i].version
      BY <2>2 DEF VersionsIn
    <3>2. i + 1 \in DOMAIN q /\ q[i + 1] = t[i]
      BY <1>1
    <3> QED
      BY <3>1, <3>2 DEF VersionsIn
  <2>3. One(q[1], K) \subseteq VersionsIn(q, K)
    BY <1>1 DEF VersionsIn, One
  <2> QED
    BY <2>1, <2>2, <2>3
<1>3. ASSUME Increasing(q, K)
      PROVE  Increasing(t, K)
  <2>1. \A i \in DOMAIN t : i + 1 \in DOMAIN q /\ i \in Int /\ t[i] = q[i + 1]
    BY <1>1
  <2>2. \A i, j \in DOMAIN t : i < j => i + 1 < j + 1
    BY <2>1
  <2> QED
    BY <1>3, <2>1, <2>2 DEF Increasing
<1>4. ASSUME Increasing(q, K)
      PROVE  Below(One(q[1], K), VersionsIn(t, K))
  <2>1. \A i \in DOMAIN t : i + 1 \in DOMAIN q /\ 1 < i + 1 /\ t[i] = q[i + 1]
    BY <1>1
  <2> QED
    BY <1>1, <1>4, <2>1 DEF Increasing, VersionsIn, One, Below
<1> QED
  BY <1>1, <1>2, <1>3, <1>4 DEF t

-----------------------------------------------------------------------------
(* The shape of the state *)

\* Requests that are abandoned keep their places.
LEMMA Abandoning ==
  ASSUME TypeOK, NEW ss
  PROVE  /\ Abandon(ss) \in Seq(Request) /\ DOMAIN Abandon(ss) = DOMAIN store.mailbox
         /\ \A i \in DOMAIN store.mailbox :
              /\ store.mailbox[i].from \in ss => Abandon(ss)[i] = Abandoned
              /\ store.mailbox[i].from \notin ss => Abandon(ss)[i] = store.mailbox[i]
<1> DEFINE q == store.mailbox
<1>1. /\ q \in Seq(Request) /\ Len(q) \in Nat /\ DOMAIN q = 1..Len(q)
      /\ \A i \in 1..Len(q) : q[i] \in Request
  <2>1. q \in Seq(Request)
    BY DEF TypeOK
  <2> QED
    BY <2>1, LenProperties, ElementOfSeq
<1>2. Abandon(ss) = [i \in 1..Len(q) |-> IF q[i].from \in ss THEN Abandoned ELSE q[i]]
  BY <1>1 DEF Abandon
<1>3. Abandoned \in Request
  BY DEF Request
<1>4. \A i \in 1..Len(q) : (IF q[i].from \in ss THEN Abandoned ELSE q[i]) \in Request
  BY <1>1, <1>3
<1>5. Abandon(ss) \in Seq(Request)
  BY <1>1, <1>2, <1>4, IsASeq
<1> QED
  BY <1>1, <1>2, <1>5

Store  == [mailbox : Seq(Request), event : Event \cup {None}, by : Clients \cup {Nobody}]
Pubsub == [mailbox : Seq(Notice), event : Event \cup {None},
           remaining : SUBSET Subscribers, subscribers : SUBSET Subscribers]

LEMMA ToStore ==
  ASSUME NEW a \in Store, NEW r \in Request
  PROVE  /\ With(a, r) \in Store /\ With(a, r).mailbox = Append(a.mailbox, r)
         /\ With(a, r).event = a.event /\ With(a, r).by = a.by
BY AppendProperties DEF Store, With

LEMMA FromStore ==
  ASSUME NEW a \in Store, a.mailbox # <<>>
  PROVE  /\ Head(a.mailbox) \in Request
         /\ Handled(a) \in Store /\ Handled(a).mailbox = Tail(a.mailbox)
         /\ Handled(a).event = a.event /\ Handled(a).by = a.by
BY HeadTailProperties DEF Store, Handled

LEMMA ToPubsub ==
  ASSUME NEW a \in Pubsub, NEW m \in Notice
  PROVE  /\ With(a, m) \in Pubsub /\ With(a, m).mailbox = Append(a.mailbox, m)
         /\ With(a, m).event = a.event /\ With(a, m).remaining = a.remaining
         /\ With(a, m).subscribers = a.subscribers
BY AppendProperties DEF Pubsub, With

LEMMA FromPubsub ==
  ASSUME NEW a \in Pubsub, a.mailbox # <<>>
  PROVE  /\ Head(a.mailbox) \in Notice
         /\ Handled(a) \in Pubsub /\ Handled(a).mailbox = Tail(a.mailbox)
         /\ Handled(a).event = a.event /\ Handled(a).remaining = a.remaining
         /\ Handled(a).subscribers = a.subscribers
BY HeadTailProperties DEF Pubsub, Handled

LEMMA ToChild ==
  ASSUME NEW a \in Child, NEW m \in Message
  PROVE  /\ With(a, m) \in Child /\ With(a, m).mailbox = Append(a.mailbox, m)
         /\ With(a, m).phase = a.phase /\ With(a, m).loaded = a.loaded
         /\ With(a, m).next = a.next
BY AppendProperties DEF Child, With

LEMMA FromChild ==
  ASSUME NEW a \in Child, a.mailbox # <<>>
  PROVE  /\ Head(a.mailbox) \in Message
         /\ Handled(a) \in Child /\ Handled(a).mailbox = Tail(a.mailbox)
         /\ Handled(a).phase = a.phase /\ Handled(a).loaded = a.loaded
         /\ Handled(a).next = a.next
BY HeadTailProperties DEF Child, Handled

LEMMA Types ==
  ASSUME TypeOK
  PROVE  /\ store \in Store /\ pubsub \in Pubsub
         /\ \A s \in Subscribers : child[s] \in Child /\ active[s] \in Nat
         /\ \A s \in Subscribers : compiling[s] \in SUBSET Nat
BY DEF TypeOK, Store, Pubsub, Versions

LEMMA InitType == Init => TypeOK
<1> SUFFICES ASSUME Init PROVE TypeOK
  OBVIOUS
<1>1. Started \in Child
  BY EmptySeq DEF Started, Child, Versions
<1>2. <<>> \in Seq(Request) /\ <<>> \in Seq(Notice) /\ <<>> \in Seq(Versions)
  BY EmptySeq
<1> QED
  BY <1>1, <1>2 DEF Init, TypeOK, Versions

\* An update of one subscriber, field by field.
LEMMA SetChild ==
  ASSUME NEW f \in [Subscribers -> Child], NEW s \in Subscribers,
         NEW g, NEW c \in Child, g = [f EXCEPT ![s] = c]
  PROVE  /\ g \in [Subscribers -> Child] /\ g[s] = c
         /\ \A t \in Subscribers : t # s => g[t] = f[t]
OBVIOUS

LEMMA EventTypes ==
  /\ Event \subseteq Notice /\ Event \subseteq Message
  /\ None \notin Event
  /\ \A s \in Subscribers : [type |-> "Subscribe", from |-> s] \in Notice
  /\ \A s \in Subscribers : [type |-> "read", from |-> s] \in Request
                              /\ [type |-> "env", from |-> s] \in Request
BY DEF Event, Notice, Message, None, Request

\* The subscriber runs what it was about to load, and nothing else of it changes.
LEMMA Loading ==
  ASSUME TypeOK, NEW s \in Subscribers
  PROVE  /\ Loads(s) \in [Subscribers -> Child]
         /\ Loads(s)[s].phase = "ready" /\ Loads(s)[s].loaded = child[s].next
         /\ Loads(s)[s].mailbox = child[s].mailbox
         /\ \A t \in Subscribers : t # s => Loads(s)[t] = child[t]
<1> DEFINE c == [child[s] EXCEPT !.phase = "ready", !.loaded = child[s].next, !.next = 0]
<1>1. child \in [Subscribers -> Child] /\ child[s] \in Child
  BY DEF TypeOK
<1>2. /\ c \in Child /\ c.phase = "ready" /\ c.loaded = child[s].next
      /\ c.mailbox = child[s].mailbox
  BY <1>1 DEF Child, Versions
<1>3. Loads(s) = [child EXCEPT ![s] = c]
  BY <1>1 DEF Loads
<1> HIDE DEF c
<1> QED
  BY <1>1, <1>2, <1>3, SetChild

\* A step of it that only goes on to the next phase.
LEMMA SetPhase ==
  ASSUME TypeOK, NEW s \in Subscribers,
         NEW phase \in {"subscribing", "subscribed", "reading", "asking", "waiting"},
         child' = [child EXCEPT ![s].phase = phase]
  PROVE  /\ child' \in [Subscribers -> Child]
         /\ child'[s].phase = phase /\ child'[s].mailbox = child[s].mailbox
         /\ child'[s].loaded = child[s].loaded /\ child'[s].next = child[s].next
         /\ \A t \in Subscribers : t # s => child'[t] = child[t]
<1>1. child \in [Subscribers -> Child] /\ child[s] \in Child
  BY DEF TypeOK
<1>2. [child[s] EXCEPT !.phase = phase] \in Child
  BY <1>1 DEF Child
<1>3. child'[s] = [child[s] EXCEPT !.phase = phase]
  BY <1>1
<1> QED
  BY <1>1, <1>2, <1>3 DEF Child

LEMMA StoreType ==
  ASSUME TypeOK, StoreStep
  PROVE  TypeOK'
<1>t. store \in Store /\ pubsub \in Pubsub
  BY Types
<1>1. CASE activate_module
  <2> DEFINE request == Head(store.mailbox)
  <2>1. /\ store.mailbox # <<>> /\ request.type = "activate"
        /\ request \in Request /\ Handled(store) \in Store
    BY <1>1, <1>t, FromStore DEF activate_module, StoreHandles
  <2>2. request.of \in Subscribers /\ request.from \in Clients
    BY <2>1 DEF Request, Abandoned
  <2>3. active[request.of] + 1 \in Nat /\ active \in [Subscribers -> Nat]
    BY <2>2 DEF TypeOK, Versions
  <2>4. [type |-> "Activated", of |-> request.of, version |-> active[request.of] + 1]
          \in Event
    BY <2>2, <2>3 DEF Event, Versions
  <2> DEFINE event == [type |-> "Activated", of |-> request.of,
                       version |-> active[request.of] + 1]
             h == Handled(store)
             from == request.from
  <2>5. active' \in [Subscribers -> Nat]
    BY <1>1, <2>2, <2>3 DEF activate_module
  <2>6. store' = [h EXCEPT !.event = event, !.by = from]
    BY <1>1 DEF activate_module
  <2> HIDE DEF event, h, from
  <2>7. store' \in Store
    BY <2>1, <2>2, <2>4, <2>6 DEF Store, event, h, from
  <2> QED
    BY <1>1, <2>5, <2>7 DEF activate_module, TypeOK, Store, Versions
<1>2. CASE publish
  <2>1. store.event \in Event
    BY <1>2, <1>t DEF publish, Store
  <2>2. store' \in Store
    BY <1>2, <1>t DEF publish, Store
  <2>3. pubsub' \in Pubsub
    BY <1>2, <1>t, <2>1, ToPubsub, EventTypes DEF publish
  <2>4. call' \in [Clients -> {"none", "room", "answer"}]
    BY <1>2 DEF publish, TypeOK
  <2> QED
    BY <1>2, <2>2, <2>3, <2>4 DEF publish, TypeOK, Store, Pubsub
<1>3. CASE get_all_active_modules
  <2> DEFINE s == Head(store.mailbox).from
             phase == IF active[s] = 0 THEN "ready" ELSE "compiling"
  <2>1. /\ store.mailbox # <<>> /\ Head(store.mailbox).type = "read"
        /\ Head(store.mailbox) \in Request /\ Handled(store) \in Store
    BY <1>3, <1>t, FromStore DEF get_all_active_modules, StoreHandles
  <2>2. s \in Subscribers
    BY <2>1 DEF Request, Abandoned
  <2>3. active[s] \in Nat /\ child \in [Subscribers -> Child] /\ child[s] \in Child
    BY <2>2 DEF TypeOK, Versions
  <2>4. /\ store' = Handled(store)
        /\ child' = [child EXCEPT ![s].phase = phase, ![s].next = active[s]]
        /\ adrift' = adrift \cup {s} \/ adrift' = adrift \ {s}
    BY <1>3 DEF get_all_active_modules
  <2>5. phase \in {"ready", "compiling"}
    OBVIOUS
  <2> HIDE DEF s, phase
  <2>6. child' \in [Subscribers -> Child]
    <3>1. child' = [child EXCEPT ![s] =
                      [child[s] EXCEPT !.phase = phase, !.next = active[s]]]
      BY <2>2, <2>3, <2>4
    <3>2. [child[s] EXCEPT !.phase = phase, !.next = active[s]] \in Child
      BY <2>3, <2>5 DEF Child, Versions
    <3> QED
      BY <2>2, <2>3, <3>1, <3>2, SetChild
  <2>7. adrift' \subseteq Subscribers
    BY <2>2, <2>4 DEF TypeOK
  <2> QED
    BY <1>3, <2>1, <2>4, <2>6, <2>7 DEF get_all_active_modules, TypeOK, Store
<1>4. CASE get_env_vars
  <2>1. /\ store.mailbox # <<>> /\ Head(store.mailbox).type = "env"
        /\ Head(store.mailbox) \in Request /\ Handled(store) \in Store
    BY <1>4, <1>t, FromStore DEF get_env_vars, StoreHandles
  <2>2. PICK s \in Subscribers : s = Head(store.mailbox).from
    BY <2>1 DEF Request, Abandoned
  <2>3. child' \in [Subscribers -> Child]
    BY <1>4, <2>2, Loading DEF get_env_vars
  <2> QED
    BY <1>4, <2>1, <2>3 DEF get_env_vars, TypeOK, Store
<1>5. CASE answers_nobody
  <2>1. store' \in Store
    BY <1>5, <1>t, FromStore DEF answers_nobody, StoreHandles
  <2> QED
    BY <1>5, <2>1 DEF answers_nobody, TypeOK, Store
<1> QED
  BY <1>1, <1>2, <1>3, <1>4, <1>5 DEF StoreStep

LEMMA PubsubType ==
  ASSUME TypeOK, PubsubStep
  PROVE  TypeOK'
<1>t. pubsub \in Pubsub /\ child \in [Subscribers -> Child]
  BY Types DEF TypeOK
<1>1. CASE pubsub_takes
  <2> DEFINE notice == Head(pubsub.mailbox)
             h == Handled(pubsub)
             from == notice.from
  <2>1. /\ pubsub.mailbox # <<>> /\ notice \in Notice /\ h \in Pubsub
    BY <1>1, <1>t, FromPubsub DEF pubsub_takes
  <2>2. CASE notice.type = "Subscribe"
    <3>1. from \in Subscribers
      BY <2>1, <2>2 DEF Notice, Event
    <3>2. pubsub' = [h EXCEPT !.subscribers = @ \cup {from}]
      BY <1>1, <2>2 DEF pubsub_takes
    <3>3. child' = child \/ child' = [child EXCEPT ![from].phase = "subscribed"]
      BY <1>1, <2>2 DEF pubsub_takes
    <3> HIDE DEF h, from
    <3>4. pubsub' \in Pubsub
      BY <2>1, <3>1, <3>2 DEF Pubsub
    <3>5. child' \in [Subscribers -> Child]
      BY <1>t, <3>1, <3>3 DEF Child
    <3> QED
      BY <1>1, <3>4, <3>5 DEF pubsub_takes, TypeOK, Pubsub
  <2>3. CASE notice.type # "Subscribe"
    <3>1. notice \in Event
      BY <2>1, <2>3 DEF Notice, Event
    <3>2. /\ pubsub' = [h EXCEPT
                !.event = IF pubsub.subscribers = {} THEN None ELSE notice,
                !.remaining = pubsub.subscribers]
          /\ child' = child
      BY <1>1, <2>3 DEF pubsub_takes
    <3>3. pubsub.subscribers \subseteq Subscribers
      BY <1>t DEF Pubsub
    <3> HIDE DEF h, notice
    <3>4. pubsub' \in Pubsub
      BY <2>1, <3>1, <3>2, <3>3 DEF Pubsub
    <3> QED
      BY <1>1, <3>2, <3>4 DEF pubsub_takes, TypeOK, Pubsub
  <2> QED
    BY <2>2, <2>3
<1>2. CASE \E s \in Subscribers : pubsub_delivers(s)
  <2>1. PICK s \in Subscribers : pubsub_delivers(s)
    BY <1>2
  <2>2. pubsub.event \in Event /\ pubsub.event \in Message /\ child[s] \in Child
    BY <1>t, <2>1, EventTypes DEF pubsub_delivers, Pubsub
  <2>3. child' \in [Subscribers -> Child]
    <3>1. child' = [child EXCEPT ![s] = With(child[s], pubsub.event)]
      BY <1>t, <2>1 DEF pubsub_delivers
    <3> QED
      BY <1>t, <2>2, <3>1, ToChild, SetChild
  <2>4. pubsub' \in Pubsub
    BY <1>t, <2>1 DEF pubsub_delivers, Pubsub
  <2> QED
    BY <2>1, <2>3, <2>4 DEF pubsub_delivers, TypeOK, Pubsub
<1> QED
  BY <1>1, <1>2 DEF PubsubStep

\* Whatever dies, no subscriber outlives a restart of the pubsub or of the store.
LEMMA RestForOne ==
  ASSUME NEW x
  PROVE  LET restarted == supervision_strategy(x)
         IN  /\ "pubsub" \in restarted \/ "store" \in restarted
                  => Subscribers \subseteq restarted
             /\ "pubsub" \in restarted => "store" \in restarted
<1> DEFINE R == supervision_strategy(x)
           n == Len(Supervisors)
           D == DOMAIN StartOrder
<1>1. /\ Supervisors \in Seq({"projector", "effect"}) /\ n \in Nat
      /\ DOMAIN Supervisors = 1..n
      /\ \A i \in 1..n : Supervisors[i] \in {"projector", "effect"}
  BY RuntimeAssumption, LenProperties, ElementOfSeq
<1>2. /\ D = 1..(3 + n)
      /\ StartOrder[1] = "pubsub" /\ StartOrder[2] = "store" /\ StartOrder[3] = "command"
      /\ \A i \in 1..n : StartOrder[3 + i] = Supervisors[i]
  <2> DEFINE first == <<"pubsub", "store", "command">>
             S == {"pubsub", "store", "command", "projector", "effect"}
  <2>1. first \in Seq(S) /\ Len(first) = 3
    OBVIOUS
  <2>2. Supervisors \in Seq(S)
    BY <1>1, SeqMonotonic
  <2>3. first[1] = "pubsub" /\ first[2] = "store" /\ first[3] = "command"
    OBVIOUS
  <2>4. StartOrder = first \o Supervisors
    BY DEF StartOrder
  <2> HIDE DEF first, S
  <2>5. /\ StartOrder \in Seq(S) /\ Len(StartOrder) = 3 + n
        /\ \A i \in 1..(3 + n) :
             StartOrder[i] = IF i <= 3 THEN first[i] ELSE Supervisors[i - 3]
    <3>1. /\ first \o Supervisors \in Seq(S)
          /\ Len(first \o Supervisors) = Len(first) + Len(Supervisors)
          /\ \A i \in 1..(Len(first) + Len(Supervisors)) :
               (first \o Supervisors)[i] =
                 IF i <= Len(first) THEN first[i] ELSE Supervisors[i - Len(first)]
      BY <2>1, <2>2, ConcatProperties, Zenon
    <3> QED
      BY <2>1, <2>4, <3>1
  <2>6. D = 1..(3 + n)
    BY <1>1, <2>5, LenProperties
  <2>7. \A i \in 1..n : 3 + i \in 1..(3 + n) /\ ~(3 + i <= 3) /\ (3 + i) - 3 = i
    BY <1>1
  <2>8. 1 \in 1..(3 + n) /\ 2 \in 1..(3 + n) /\ 3 \in 1..(3 + n)
    BY <1>1
  <2> QED
    BY <2>3, <2>5, <2>6, <2>7, <2>8
<1> HIDE DEF D
<1>3. \A j \in D : j = 1 \/ j = 2 \/ j = 3 \/ (j - 3 \in 1..n /\ j = 3 + (j - 3))
  BY <1>1, <1>2
<1>4. \A j \in D : (StartOrder[j] = "pubsub" => j = 1) /\ (StartOrder[j] = "store" => j = 2)
  BY <1>1, <1>2, <1>3
<1>5. \A s \in Subscribers : \E j \in D : 3 <= j /\ StartOrder[j] = s
  <2> TAKE s \in Subscribers
  <2>1. s = "command" \/ \E i \in 1..n : s = Supervisors[i]
    BY <1>1 DEF Subscribers, Range
  <2>2. \A i \in 1..n : 3 + i \in D /\ 3 <= 3 + i
    BY <1>1, <1>2
  <2>3. 3 \in D
    BY <1>1, <1>2
  <2> QED
    BY <1>2, <2>1, <2>2, <2>3
<1>6. R = {StartOrder[j] : j \in {k \in D : \E i \in 1..k : StartOrder[i] = x}}
  BY DEF supervision_strategy, D
<1>7. "pubsub" \in R => StartOrder[1] = x
  <2>1. \A j \in D : j = 1 => 1..j = {1}
    OBVIOUS
  <2> QED
    BY <1>4, <1>6, <2>1
<1>8. "store" \in R => StartOrder[1] = x \/ StartOrder[2] = x
  <2>1. \A j \in D : j = 2 => 1..j = {1, 2}
    OBVIOUS
  <2> QED
    BY <1>4, <1>6, <2>1
<1>9. ASSUME StartOrder[1] = x \/ StartOrder[2] = x
      PROVE  Subscribers \subseteq R
  <2>1. \A j \in D : 3 <= j => 1 \in 1..j /\ 2 \in 1..j
    BY <1>2
  <2> QED
    BY <1>5, <1>6, <1>9, <2>1
<1>10. ASSUME StartOrder[1] = x
       PROVE  "store" \in R
  <2>1. 2 \in D /\ 1 \in 1..2
    BY <1>1, <1>2
  <2> QED
    BY <1>2, <1>6, <1>10, <2>1
<1> QED
  BY <1>7, <1>8, <1>9, <1>10

LEMMA RestartType ==
  ASSUME TypeOK, NEW R, Restart(R)
  PROVE  /\ store' \in Store /\ pubsub' \in Pubsub /\ child' \in [Subscribers -> Child]
         /\ call' \in [Clients -> {"none", "room", "answer"}]
<1>t. store \in Store /\ pubsub \in Pubsub /\ child \in [Subscribers -> Child]
  BY Types DEF TypeOK
<1>1. Abandon(R) \in Seq(Request)
  BY Abandoning
<1>2. \/ store' = [mailbox |-> Abandon(R), event |-> None, by |-> Nobody]
      \/ store' = [store EXCEPT !.mailbox = Abandon(R)]
  BY DEF Restart
<1>3. store' \in Store
  BY <1>t, <1>1, <1>2 DEF Store
<1>4. pubsub' \in Pubsub
  BY <1>t DEF Restart, Pubsub
<1>5. child' \in [Subscribers -> Child]
  <2>1. \A s \in Subscribers :
          [Started EXCEPT !.phase = "starting", !.mailbox = child[s].mailbox] \in Child
    BY <1>t DEF Started, Child, Versions
  <2>2. child' = [s \in Subscribers |->
          IF s \in R
            THEN [Started EXCEPT !.phase = "starting", !.mailbox = child[s].mailbox]
            ELSE child[s]]
    BY DEF Restart
  <2> QED
    BY <1>t, <2>1, <2>2
<1>6. call' \in [Clients -> {"none", "room", "answer"}]
  BY DEF Restart, TypeOK
<1> QED
  BY <1>3, <1>4, <1>5, <1>6

LEMMA SubscriberType ==
  ASSUME TypeOK, NEW s \in Subscribers,
         SubscriberStep(s) \/ \E v \in compiling[s] : compilation_ends(s, v)
  PROVE  TypeOK'
<1>t. /\ store \in Store /\ pubsub \in Pubsub /\ child \in [Subscribers -> Child]
      /\ child[s] \in Child /\ compiling \in [Subscribers -> SUBSET Nat]
      /\ adrift \subseteq Subscribers
  BY Types DEF TypeOK, Versions
<1>1. CASE subscribe(s)
  <2>1. pubsub' \in Pubsub
    BY <1>1, <1>t, ToPubsub, EventTypes DEF subscribe
  <2>2. child' \in [Subscribers -> Child]
    BY <1>1, SetPhase DEF subscribe
  <2> QED
    BY <1>1, <1>t, <2>1, <2>2 DEF subscribe, TypeOK, Pubsub
<1>2. CASE read_active(s)
  <2>1. store' \in Store
    BY <1>2, <1>t, ToStore, EventTypes DEF read_active
  <2>2. child' \in [Subscribers -> Child]
    BY <1>2, SetPhase DEF read_active
  <2> QED
    BY <1>2, <2>1, <2>2 DEF read_active, TypeOK, Store
<1>3. CASE module_event(s)
  <2> DEFINE event == Head(child[s].mailbox)
  <2>1. /\ event \in Message /\ event.type = "Activated" /\ Handled(child[s]) \in Child
    BY <1>3, <1>t, FromChild DEF module_event, Receives
  <2>2. event.version \in Nat
    BY <2>1 DEF Message, Event, Versions
  <2>3. child' \in [Subscribers -> Child]
    <3>1. child' = [child EXCEPT ![s] = Handled(child[s])]
      BY <1>3, <1>t DEF module_event
    <3> QED
      BY <1>t, <2>1, <3>1, SetChild
  <2>4. compiling' \in [Subscribers -> SUBSET Nat]
    <3>1. \/ compiling' = [compiling EXCEPT ![s] = @ \cup {event.version}]
          \/ compiling' = compiling
      BY <1>3 DEF module_event
    <3> HIDE DEF event
    <3> QED
      BY <1>t, <2>2, <3>1
  <2> QED
    BY <1>3, <2>3, <2>4 DEF module_event, TypeOK, Versions
<1>4. ASSUME NEW v \in compiling[s], compilation_ends(s, v)
      PROVE  TypeOK'
  <2> DEFINE m == [type |-> "Compiled", version |-> v]
  <2>1. m \in Message
    BY <1>t DEF Message, Versions
  <2>2. child' \in [Subscribers -> Child]
    <3>1. child' = [child EXCEPT ![s] = With(child[s], m)]
      BY <1>4, <1>t DEF compilation_ends
    <3> HIDE DEF m
    <3> QED
      BY <1>t, <2>1, <3>1, ToChild, SetChild
  <2>3. compiling' \in [Subscribers -> SUBSET Nat] /\ adrift' \subseteq Subscribers
    BY <1>4, <1>t DEF compilation_ends
  <2> QED
    BY <1>4, <2>2, <2>3 DEF compilation_ends, TypeOK, Versions
<1>5. CASE module_compiled(s)
  <2> DEFINE h == Handled(child[s])
             v == Head(child[s].mailbox).version
  <2>1. /\ Head(child[s].mailbox) \in Message /\ Head(child[s].mailbox).type = "Compiled"
        /\ h \in Child
    BY <1>5, <1>t, FromChild DEF module_compiled, Receives
  <2>2. v \in Nat
    BY <2>1 DEF Message, Event, Versions
  <2>3. \/ child' = [child EXCEPT ![s] = [h EXCEPT !.loaded = v]]
        \/ child' = [child EXCEPT ![s] = [h EXCEPT !.phase = "asking", !.next = v]]
    BY <1>5, <1>t DEF module_compiled
  <2> HIDE DEF h, v
  <2>4. /\ [h EXCEPT !.loaded = v] \in Child
        /\ [h EXCEPT !.phase = "asking", !.next = v] \in Child
    BY <2>1, <2>2 DEF Child, Versions
  <2>5. child' \in [Subscribers -> Child]
    BY <1>t, <2>3, <2>4, SetChild
  <2> QED
    BY <1>5, <2>5 DEF module_compiled, TypeOK
<1>6. CASE subscribe_times_out(s)
  <2>1. child' \in [Subscribers -> Child]
    BY <1>6, SetPhase DEF subscribe_times_out
  <2> QED
    BY <1>6, <2>1 DEF subscribe_times_out, TypeOK
<1>7. CASE startup_compiled(s)
  <2>1. child' \in [Subscribers -> Child]
    BY <1>7, SetPhase, Loading DEF startup_compiled
  <2> QED
    BY <1>7, <2>1 DEF startup_compiled, TypeOK
<1>8. CASE ask_env_vars(s)
  <2>1. store' \in Store
    BY <1>8, <1>t, ToStore, EventTypes DEF ask_env_vars
  <2>2. child' \in [Subscribers -> Child]
    BY <1>8, SetPhase DEF ask_env_vars
  <2> QED
    BY <1>8, <2>1, <2>2 DEF ask_env_vars, TypeOK, Store
<1>9. CASE env_times_out(s)
  <2>1. store' \in Store
    <3>1. store' = [store EXCEPT !.mailbox = Abandon({s})]
      BY <1>9 DEF env_times_out
    <3>2. Abandon({s}) \in Seq(Request)
      BY Abandoning
    <3> QED
      BY <1>t, <3>1, <3>2 DEF Store
  <2>2. child' \in [Subscribers -> Child]
    BY <1>9, Loading DEF env_times_out
  <2> QED
    BY <1>9, <2>1, <2>2 DEF env_times_out, TypeOK, Store
<1>10. CASE read_fails(s)
  <2>1. /\ store' \in Store /\ pubsub' \in Pubsub /\ child' \in [Subscribers -> Child]
        /\ call' \in [Clients -> {"none", "room", "answer"}]
    BY <1>10, RestartType DEF read_fails
  <2> QED
    BY <1>10, <2>1 DEF read_fails, TypeOK, Store, Pubsub
<1>11. CASE process_restarts(s)
  <2>1. /\ <<>> \in Seq(Request) /\ <<>> \in Seq(Notice)
        /\ [Started EXCEPT !.phase = "starting"] \in Child
    BY EmptySeq DEF Started, Child, Versions
  <2>2. child' \in [Subscribers -> Child] /\ compiling' \in [Subscribers -> SUBSET Nat]
    BY <1>11, <2>1 DEF process_restarts
  <2>3. store' \in Store /\ pubsub' \in Pubsub
    BY <1>11, <2>1 DEF process_restarts, Store, Pubsub
  <2> QED
    BY <1>11, <2>2, <2>3 DEF process_restarts, TypeOK, Store, Pubsub, Versions
<1> QED
  BY <1>1, <1>2, <1>3, <1>4, <1>5, <1>6, <1>7, <1>8, <1>9, <1>10, <1>11
  DEF SubscriberStep

LEMMA NextType == TypeOK /\ [Next]_vars => TypeOK'
<1> SUFFICES ASSUME TypeOK, [Next]_vars
             PROVE  TypeOK'
  OBVIOUS
<1>1. ASSUME NEW c \in Clients, client_activates(c)
      PROVE  TypeOK'
  BY <1>1 DEF client_activates, TypeOK
<1>2. ASSUME NEW c \in Clients, NEW s \in Subscribers, client_asks(c, s)
      PROVE  TypeOK'
  <2>1. [type |-> "activate", from |-> c, of |-> s] \in Request
    BY DEF Request
  <2>2. store' \in Store
    BY <1>2, <2>1, Types, ToStore DEF client_asks
  <2> QED
    BY <1>2, <2>2 DEF client_asks, TypeOK, Store
<1>3. CASE StoreStep
  BY <1>3, StoreType
<1>4. CASE PubsubStep
  BY <1>4, PubsubType
<1>5. ASSUME NEW s \in Subscribers,
             SubscriberStep(s) \/ \E v \in compiling[s] : compilation_ends(s, v)
      PROVE  TypeOK'
  BY <1>5, SubscriberType
<1>6. CASE start_server
  BY <1>6 DEF start_server, TypeOK
<1>7. ASSUME NEW x \in Mortal, panic(x)
      PROVE  TypeOK'
  <2>1. /\ store' \in Store /\ pubsub' \in Pubsub /\ child' \in [Subscribers -> Child]
        /\ call' \in [Clients -> {"none", "room", "answer"}]
    BY <1>7, RestartType DEF panic
  <2> QED
    BY <1>7, <2>1 DEF panic, TypeOK, Store, Pubsub
<1>8. CASE UNCHANGED vars
  BY <1>8 DEF vars, TypeOK
<1> QED
  BY <1>1, <1>2, <1>3, <1>4, <1>5, <1>6, <1>7, <1>8 DEF Next

\* The state keeps its shape.
THEOREM TypeCorrect == Spec => []TypeOK
BY InitType, NextType, PTL DEF Spec

-----------------------------------------------------------------------------
(* What is on its way to a subscriber, and in which order *)

\* From the subscriber back to the store: compiled, being compiled, in the mailbox, in
\* the pubsub's hand, in its mailbox, in the store's hand.
Finished(s)  == VersionsIn(child[s].mailbox, Results)
Told(s)      == VersionsIn(child[s].mailbox, EventsOf(s))
InHand(s)    == IF s \in pubsub.remaining THEN One(pubsub.event, EventsOf(s)) ELSE {}
Sent(s)      == VersionsIn(pubsub.mailbox, EventsOf(s))
Published(s) == One(store.event, EventsOf(s))

\* Compilations may overtake each other, which sets a subscriber adrift: only where it
\* is not do they count.
Done(s) == IF s \in adrift THEN {} ELSE Finished(s)
Made(s) == IF s \in adrift THEN {} ELSE compiling[s]

\* What is further on the way is older, and nothing is newer than what is active.
Stages(R, C, N, H, P, S, v) ==
  /\ Below(R, C \cup N \cup H \cup P \cup S \cup {v})
  /\ Below(C, N \cup H \cup P \cup S \cup {v})
  /\ Below(N, H \cup P \cup S \cup {v})
  /\ Below(H, P \cup S \cup {v})
  /\ Below(P, S \cup {v})
  /\ Below(S, {v})

StagesOf(s) == Stages(Done(s), Made(s), Told(s), InHand(s), Sent(s), Published(s), active[s])

InLine(s) ==
  /\ s \notin adrift => Increasing(child[s].mailbox, Results)
  /\ Increasing(child[s].mailbox, EventsOf(s))
  /\ Increasing(pubsub.mailbox, EventsOf(s))
  /\ StagesOf(s)
  /\ Below(Finished(s) \cup compiling[s], {active[s]})

\* Which of the events in the pubsub's mailbox will reach s: those it takes when s is
\* subscribed.
Subscription(s) == [type : {"Subscribe"}, from : {s}]

Subscribes(queue, s) == \E k \in DOMAIN queue : queue[k] \in Subscription(s)

HeardIn(queue, subscribed, s) ==
  {queue[i].version : i \in {j \in DOMAIN queue :
     /\ queue[j] \in EventsOf(s)
     /\ s \in subscribed \/ \E k \in 1..j : queue[k] \in Subscription(s)}}

Heard(s) == HeardIn(pubsub.mailbox, pubsub.subscribers, s)

Coming(s) ==
  Finished(s) \cup compiling[s] \cup Told(s) \cup InHand(s) \cup Heard(s) \cup Published(s)

\* The version a subscriber runs, or will as soon as it is compiled and has its variables.
Pending == {"compiling", "asking", "waiting"}
Current(c) == IF c.phase \in Pending THEN c.next ELSE c.loaded

\* Who was told what is active, and since then is told of every activation.
Informed(c) == c.phase \in Pending \cup {"ready"}

\* The newest of what a subscriber runs and what will reach it is active.
Leads(current, coming, v) == v \in coming \cup {current} /\ Below({current}, coming)

Follows(s) ==
  s \notin adrift /\ Informed(child[s]) => Leads(Current(child[s]), Coming(s), active[s])

\* Whoever is past its subscription is subscribed, or will be.
Member(s) ==
  child[s].phase # "starting" => s \in pubsub.subscribers \/ Subscribes(pubsub.mailbox, s)

\* Nothing is loaded before the start is over.
Fresh(s) ==
  child[s].phase \in {"starting", "subscribing", "subscribed", "reading", "compiling"}
    => child[s].loaded = 0

\* A request that is not abandoned has someone who waits for it.
Asks == {"read", "env"}

WaitsIn(queue, c) ==
  /\ \A i \in DOMAIN queue :
       /\ queue[i].type = "read" => c[queue[i].from].phase = "reading"
       /\ queue[i].type = "env" => c[queue[i].from].phase = "waiting"
  /\ \A i, j \in DOMAIN queue : queue[i] = queue[j] /\ queue[i].type \in Asks => i = j

Waits == WaitsIn(store.mailbox, child)

IInv ==
  /\ TypeOK
  /\ Waits
  /\ \A s \in Subscribers : InLine(s) /\ Member(s) /\ Fresh(s) /\ Follows(s)

LEMMA StageTypes ==
  ASSUME TypeOK, NEW s \in Subscribers
  PROVE  /\ Finished(s) \subseteq Nat /\ compiling[s] \subseteq Nat
         /\ Done(s) \subseteq Nat /\ Made(s) \subseteq Nat
         /\ Told(s) \subseteq Nat /\ InHand(s) \subseteq Nat /\ Sent(s) \subseteq Nat
         /\ Published(s) \subseteq Nat /\ active[s] \in Nat /\ Heard(s) \subseteq Nat
<1>1. compiling[s] \subseteq Nat
  BY Types
<1>2. Heard(s) \subseteq Nat
  BY DEF Heard, HeardIn, EventsOf
<1>3. /\ Finished(s) \subseteq Nat /\ Told(s) \subseteq Nat /\ InHand(s) \subseteq Nat
      /\ Sent(s) \subseteq Nat /\ Published(s) \subseteq Nat
  BY DEF Finished, Told, InHand, Sent, Published, VersionsIn, One, Results, EventsOf
<1> QED
  BY <1>1, <1>2, <1>3, Types DEF Done, Made

\* Versions move from stage to stage, oldest first.
LEMMA StagesMove ==
  ASSUME NEW R \in SUBSET Nat, NEW C \in SUBSET Nat, NEW N \in SUBSET Nat,
         NEW H \in SUBSET Nat, NEW P \in SUBSET Nat, NEW S \in SUBSET Nat, NEW v \in Nat,
         NEW X \in SUBSET Nat
  PROVE  /\ Stages(R, C \cup X, N, H, P, S, v) /\ Below(X, C)
              => Stages(R \cup X, C, N, H, P, S, v)
         /\ Stages(R, C, N \cup X, H, P, S, v) /\ Below(X, N)
              => Stages(R, C \cup X, N, H, P, S, v)
         /\ Stages(R, C, N, X, P, S, v) => Stages(R, C, N \cup X, {}, P, S, v)
         /\ Stages(R, C, N, {}, P \cup X, S, v) /\ Below(X, P)
              => Stages(R, C, N, X, P, S, v)
         /\ Stages(R, C, N, H, P, X, v) => Stages(R, C, N, H, P \cup X, {}, v)
         /\ \A w \in Nat : Stages(R, C, N, H, P, {}, v) /\ v <= w
                             => Stages(R, C, N, H, P, {w}, w)
<1>1. Stages(R, C \cup X, N, H, P, S, v) /\ Below(X, C)
        => Stages(R \cup X, C, N, H, P, S, v)
  BY DEF Stages, Below
<1>2. Stages(R, C, N \cup X, H, P, S, v) /\ Below(X, N)
        => Stages(R, C \cup X, N, H, P, S, v)
  BY DEF Stages, Below
<1>3. Stages(R, C, N, X, P, S, v) => Stages(R, C, N \cup X, {}, P, S, v)
  BY DEF Stages, Below
<1>4. Stages(R, C, N, {}, P \cup X, S, v) /\ Below(X, P)
        => Stages(R, C, N, X, P, S, v)
  BY DEF Stages, Below
<1>5. Stages(R, C, N, H, P, X, v) => Stages(R, C, N, H, P \cup X, {}, v)
  BY DEF Stages, Below
<1>6. ASSUME NEW w \in Nat, Stages(R, C, N, H, P, {}, v), v <= w
      PROVE  Stages(R, C, N, H, P, {w}, w)
  <2>1. \A x \in R \cup C \cup N \cup H \cup P : x <= v /\ x \in Nat
    BY <1>6 DEF Stages, Below
  <2>2. \A x \in R \cup C \cup N \cup H \cup P : x <= w
    BY <1>6, <2>1
  <2> QED
    BY <1>6, <2>2 DEF Stages, Below
<1> QED
  BY <1>1, <1>2, <1>3, <1>4, <1>5, <1>6

\* Versions that get lost, or do not count any more, leave the others in order.
LEMMA StagesLose ==
  ASSUME NEW R, NEW C, NEW N, NEW H, NEW P, NEW S, NEW v,
         NEW R2 \in SUBSET R, NEW C2 \in SUBSET C, NEW N2 \in SUBSET N,
         NEW H2 \in SUBSET H, NEW P2 \in SUBSET P, NEW S2 \in SUBSET S,
         Stages(R, C, N, H, P, S, v)
  PROVE  Stages(R2, C2, N2, H2, P2, S2, v)
BY DEF Stages, Below

-----------------------------------------------------------------------------
(* What a subscriber will hear of *)

LEMMA HeardAll ==
  ASSUME NEW q, NEW A, NEW s
  PROVE  /\ HeardIn(q, A, s) \subseteq VersionsIn(q, EventsOf(s))
         /\ s \in A => HeardIn(q, A, s) = VersionsIn(q, EventsOf(s))
BY DEF HeardIn, VersionsIn

\* An event that is sent will be heard by those who are, or will be, subscribed.
LEMMA AppendHeard ==
  ASSUME NEW M, NEW q \in Seq(M), NEW e \in M, NEW A, NEW s
  PROVE  /\ HeardIn(Append(q, e), A, s) =
              HeardIn(q, A, s) \cup
                IF s \in A \/ Subscribes(q, s) THEN One(e, EventsOf(s)) ELSE {}
         /\ Subscribes(Append(q, e), s) <=> Subscribes(q, s) \/ e \in Subscription(s)
<1> DEFINE n == Len(q)
           a == Append(q, e)
           K == EventsOf(s)
           heard(f, j) == s \in A \/ \E k \in 1..j : f[k] \in Subscription(s)
<1>1. /\ n \in Nat /\ DOMAIN q = 1..n /\ DOMAIN a = 1..(n + 1)
      /\ a[n + 1] = e /\ \A i \in 1..n : a[i] = q[i]
  BY AppendProperties, LenProperties
<1> HIDE DEF n, a
<1>2. e \in K => e \notin Subscription(s)
  BY DEF EventsOf, Subscription
<1>3. \A j \in 1..n : heard(a, j) <=> heard(q, j)
  <2>1. \A j \in 1..n : \A k \in 1..j : k \in 1..n
    BY <1>1
  <2> QED
    BY <1>1, <2>1
<1>4. e \in K => (heard(a, n + 1) <=> (s \in A \/ Subscribes(q, s)))
  <2>1. \A k \in 1..(n + 1) : k \in 1..n \/ k = n + 1
    BY <1>1
  <2>2. \A k \in 1..n : k \in 1..(n + 1)
    BY <1>1
  <2> QED
    BY <1>1, <1>2, <2>1, <2>2 DEF Subscribes
<1>5. {j \in DOMAIN a : a[j] \in K /\ heard(a, j)} =
        {j \in DOMAIN q : q[j] \in K /\ heard(q, j)} \cup
          IF e \in K /\ (s \in A \/ Subscribes(q, s)) THEN {n + 1} ELSE {}
  <2>1. \A j : j \in 1..(n + 1) <=> (j \in 1..n \/ j = n + 1)
    BY <1>1
  <2>2. n + 1 \notin 1..n
    BY <1>1
  <2> HIDE DEF heard, K
  <2> QED
    BY <1>1, <1>3, <1>4, <2>1, <2>2
<1>6. HeardIn(a, A, s) = {a[i].version : i \in {j \in DOMAIN a : a[j] \in K /\ heard(a, j)}}
  BY DEF HeardIn
<1>7. HeardIn(q, A, s) = {q[i].version : i \in {j \in DOMAIN q : q[j] \in K /\ heard(q, j)}}
  BY DEF HeardIn
<1> HIDE DEF heard
<1>8. HeardIn(a, A, s) =
        HeardIn(q, A, s) \cup IF s \in A \/ Subscribes(q, s) THEN One(e, K) ELSE {}
  BY <1>1, <1>5, <1>6, <1>7 DEF One
<1>9. Subscribes(a, s) <=> Subscribes(q, s) \/ e \in Subscription(s)
  <2>1. \A k \in 1..(n + 1) : k \in 1..n \/ k = n + 1
    BY <1>1
  <2>2. n + 1 \in 1..(n + 1) /\ \A k \in 1..n : k \in 1..(n + 1)
    BY <1>1
  <2> QED
    BY <1>1, <2>1, <2>2 DEF Subscribes
<1> QED
  BY <1>8, <1>9 DEF a

\* An event that is taken was heard if s is subscribed; a subscription that is taken
\* leaves what will be heard as it is.
LEMMA TailHeard ==
  ASSUME NEW M, NEW q \in Seq(M), q # <<>>, NEW A, NEW B, NEW s,
         s \in B <=> s \in A \/ Head(q) \in Subscription(s)
  PROVE  /\ HeardIn(q, A, s) =
              HeardIn(Tail(q), B, s) \cup IF s \in A THEN One(Head(q), EventsOf(s)) ELSE {}
         /\ Subscribes(q, s) => Head(q) \in Subscription(s) \/ Subscribes(Tail(q), s)
<1> DEFINE n == Len(q)
           t == Tail(q)
           K == EventsOf(s)
           heard(f, X, j) == s \in X \/ \E k \in 1..j : f[k] \in Subscription(s)
<1>1. /\ n \in Nat \ {0} /\ DOMAIN q = 1..n /\ DOMAIN t = 1..(n - 1)
      /\ Head(q) = q[1] /\ \A i \in 1..(n - 1) : t[i] = q[i + 1]
  BY HeadTailProperties, LenProperties, EmptySeq
<1> HIDE DEF n, t
<1>2. q[1] \in K => q[1] \notin Subscription(s)
  BY DEF EventsOf, Subscription
<1>3. \A j \in 1..(n - 1) : heard(q, A, j + 1) <=> heard(t, B, j)
  <2> TAKE j \in 1..(n - 1)
  <2>1. ASSUME NEW k \in 1..(j + 1), q[k] \in Subscription(s)
        PROVE  q[1] \in Subscription(s) \/ \E l \in 1..j : t[l] \in Subscription(s)
    <3>1. k = 1 \/ (k - 1 \in 1..j /\ k - 1 \in 1..(n - 1) /\ (k - 1) + 1 = k)
      BY <1>1
    <3> QED
      BY <1>1, <2>1, <3>1
  <2>2. ASSUME NEW l \in 1..j, t[l] \in Subscription(s)
        PROVE  \E k \in 1..(j + 1) : q[k] \in Subscription(s)
    <3>1. l + 1 \in 1..(j + 1) /\ l \in 1..(n - 1)
      BY <1>1
    <3> QED
      BY <1>1, <2>2, <3>1
  <2>3. 1 \in 1..(j + 1)
    BY <1>1
  <2> QED
    BY <1>1, <2>1, <2>2, <2>3
<1>4. q[1] \in K => (heard(q, A, 1) <=> s \in A)
  <2>1. \A k \in 1..1 : k = 1
    OBVIOUS
  <2> QED
    BY <1>2, <2>1
<1>6. HeardIn(t, B, s) = {t[i].version : i \in {j \in DOMAIN t : t[j] \in K /\ heard(t, B, j)}}
  BY DEF HeardIn
<1>7. HeardIn(q, A, s) = {q[i].version : i \in {j \in DOMAIN q : q[j] \in K /\ heard(q, A, j)}}
  BY DEF HeardIn
<1> HIDE DEF heard
<1>8. ASSUME NEW v \in HeardIn(q, A, s)
      PROVE  v \in HeardIn(t, B, s) \cup IF s \in A THEN One(q[1], K) ELSE {}
  <2>1. PICK i \in DOMAIN q : q[i] \in K /\ heard(q, A, i) /\ v = q[i].version
    BY <1>7, <1>8
  <2>2. i = 1 \/ (i - 1 \in 1..(n - 1) /\ (i - 1) + 1 = i)
    BY <1>1
  <2>3. CASE i = 1
    BY <1>4, <2>1, <2>3 DEF One
  <2>4. CASE i - 1 \in 1..(n - 1) /\ (i - 1) + 1 = i
    <3>1. t[i - 1] = q[i] /\ heard(t, B, i - 1)
      BY <1>1, <1>3, <2>1, <2>4
    <3> QED
      BY <1>1, <1>6, <2>1, <2>4, <3>1
  <2> QED
    BY <2>2, <2>3, <2>4
<1>9. ASSUME NEW v \in HeardIn(t, B, s)
      PROVE  v \in HeardIn(q, A, s)
  <2>1. PICK i \in DOMAIN t : t[i] \in K /\ heard(t, B, i) /\ v = t[i].version
    BY <1>6, <1>9
  <2>2. i + 1 \in DOMAIN q /\ q[i + 1] = t[i] /\ heard(q, A, i + 1)
    BY <1>1, <1>3, <2>1
  <2> QED
    BY <1>7, <2>1, <2>2
<1>10. s \in A => One(q[1], K) \subseteq HeardIn(q, A, s)
  <2>1. 1 \in DOMAIN q
    BY <1>1
  <2> QED
    BY <1>4, <1>7, <2>1 DEF One
<1>11. Subscribes(q, s) => q[1] \in Subscription(s) \/ Subscribes(t, s)
  <2>1. \A k \in DOMAIN q : k = 1 \/ (k - 1 \in DOMAIN t /\ t[k - 1] = q[k])
    BY <1>1
  <2> QED
    BY <2>1 DEF Subscribes
<1> HIDE DEF K
<1>12. HeardIn(q, A, s) = HeardIn(t, B, s) \cup IF s \in A THEN One(q[1], K) ELSE {}
  BY <1>8, <1>9, <1>10
<1> QED
  BY <1>1, <1>11, <1>12 DEF K, t

-----------------------------------------------------------------------------
(* Who waits for the store *)

LEMMA WaitsTail ==
  ASSUME NEW q \in Seq(Request), q # <<>>, NEW c, WaitsIn(q, c)
  PROVE  WaitsIn(Tail(q), c)
<1> DEFINE n == Len(q)
           t == Tail(q)
<1>1. /\ n \in Nat \ {0} /\ DOMAIN q = 1..n /\ DOMAIN t = 1..(n - 1)
      /\ \A i \in 1..(n - 1) : t[i] = q[i + 1]
  BY HeadTailProperties, LenProperties, EmptySeq
<1> HIDE DEF n, t
<1>2. \A i \in DOMAIN t : i + 1 \in DOMAIN q /\ t[i] = q[i + 1] /\ i \in Int
  BY <1>1
<1>3. ASSUME NEW i \in DOMAIN t, NEW j \in DOMAIN t, t[i] = t[j], t[i].type \in Asks
      PROVE  i = j
  <2>1. i + 1 = j + 1
    BY <1>2, <1>3 DEF WaitsIn
  <2> QED
    BY <1>2, <2>1
<1> QED
  BY <1>2, <1>3 DEF WaitsIn, t

\* When the request of t is taken, no other of those left is of t.
LEMMA TailOthers ==
  ASSUME TypeOK, NEW t \in Subscribers, NEW d,
         store.mailbox # <<>>, WaitsIn(store.mailbox, child),
         Head(store.mailbox).type \in Asks, Head(store.mailbox).from = t,
         child[t].phase = IF Head(store.mailbox).type = "read" THEN "reading" ELSE "waiting",
         \A s \in Subscribers : s # t => d[s] = child[s]
  PROVE  WaitsIn(Tail(store.mailbox), d)
<1> DEFINE q == store.mailbox
           n == Len(q)
           rest == Tail(q)
<1>1. q \in Seq(Request)
  BY DEF TypeOK
<1>2. /\ n \in Nat \ {0} /\ DOMAIN q = 1..n /\ DOMAIN rest = 1..(n - 1)
      /\ Head(q) = q[1] /\ \A i \in 1..(n - 1) : rest[i] = q[i + 1]
      /\ \A i \in 1..n : q[i] \in Request
  BY <1>1, HeadTailProperties, LenProperties, EmptySeq, ElementOfSeq
<1>3. WaitsIn(q, child)
  OBVIOUS
<1>4. \A i \in 1..n : q[i].type \in Asks
        => q[i].from \in Subscribers /\ q[i] = [type |-> q[i].type, from |-> q[i].from]
  BY <1>2 DEF Request, Asks, Abandoned
<1> HIDE DEF q, n, rest
<1>5. \A i \in DOMAIN rest : i + 1 \in DOMAIN q /\ i + 1 # 1 /\ rest[i] = q[i + 1] /\ i \in Int
  BY <1>2
<1>6. ASSUME NEW i \in DOMAIN rest, rest[i].type \in Asks
      PROVE  rest[i].from # t
  <2>1. SUFFICES ASSUME rest[i].from = t PROVE FALSE
    OBVIOUS
  <2>2. q[i + 1].type = q[1].type
    <3>1. /\ q[i + 1].type = "read" => child[t].phase = "reading"
          /\ q[i + 1].type = "env" => child[t].phase = "waiting"
      BY <1>3, <1>5, <2>1 DEF WaitsIn
    <3>2. q[i + 1].type \in Asks /\ q[1].type \in Asks
      BY <1>2, <1>5, <1>6 DEF q
    <3> QED
      BY <1>2, <3>1, <3>2 DEF Asks, q
  <2>3. 1 \in DOMAIN q /\ q[1].type \in Asks /\ q[1].from = t
    BY <1>2 DEF q
  <2>4. q[i + 1] = q[1]
    BY <1>2, <1>4, <1>5, <1>6, <2>1, <2>2, <2>3
  <2> QED
    BY <1>3, <1>5, <2>3, <2>4 DEF WaitsIn
<1>7. \A i \in DOMAIN rest : rest[i].type \in Asks => d[rest[i].from] = child[rest[i].from]
  BY <1>2, <1>4, <1>5, <1>6
<1>8. \A i, j \in DOMAIN rest : rest[i] = rest[j] /\ rest[i].type \in Asks => i = j
  <2> TAKE i, j \in DOMAIN rest
  <2>1. q[i + 1] = q[j + 1] /\ q[i + 1].type \in Asks => i + 1 = j + 1
    BY <1>3, <1>5 DEF WaitsIn
  <2> QED
    BY <1>5, <2>1
<1>9. \A i \in DOMAIN rest :
        /\ rest[i].type = "read" => d[rest[i].from].phase = "reading"
        /\ rest[i].type = "env" => d[rest[i].from].phase = "waiting"
  <2> TAKE i \in DOMAIN rest
  <2>1. /\ rest[i].type = "read" => child[rest[i].from].phase = "reading"
        /\ rest[i].type = "env" => child[rest[i].from].phase = "waiting"
    BY <1>3, <1>5 DEF WaitsIn
  <2>2. rest[i].type \in {"read", "env"} => d[rest[i].from] = child[rest[i].from]
    BY <1>7 DEF Asks
  <2> QED
    BY <2>1, <2>2
<1> QED
  BY <1>8, <1>9 DEF WaitsIn, rest, q

LEMMA SameWaits ==
  ASSUME IInv,
         \A s \in Subscribers :
           child[s].phase \in {"reading", "waiting"} => child'[s].phase = child[s].phase
  PROVE  /\ WaitsIn(store.mailbox, child')
         /\ store'.mailbox = store.mailbox => Waits'
<1>1. \A i \in DOMAIN store.mailbox :
        store.mailbox[i].type \in Asks => store.mailbox[i].from \in Subscribers
  <2>1. store.mailbox \in Seq(Request)
    BY Types DEF IInv, Store
  <2>2. \A i \in DOMAIN store.mailbox : store.mailbox[i] \in Request
    BY <2>1, LenProperties, ElementOfSeq
  <2> QED
    BY <2>2 DEF Request, Asks, Abandoned
<1> QED
  BY <1>1 DEF IInv, Waits, WaitsIn, Asks

LEMMA WaitsAppend ==
  ASSUME NEW q \in Seq(Request), NEW r \in Request, NEW c, WaitsIn(q, c),
         r.type = "read" => c[r.from].phase = "reading",
         r.type = "env" => c[r.from].phase = "waiting",
         r.type \in Asks => \A i \in DOMAIN q : q[i] # r
  PROVE  WaitsIn(Append(q, r), c)
<1> DEFINE n == Len(q)
           a == Append(q, r)
<1>1. /\ n \in Nat /\ DOMAIN q = 1..n /\ DOMAIN a = 1..(n + 1)
      /\ a[n + 1] = r /\ \A i \in 1..n : a[i] = q[i]
  BY AppendProperties, LenProperties
<1> HIDE DEF n, a
<1>2. \A i \in DOMAIN a : i \in DOMAIN q \/ i = n + 1
  BY <1>1
<1> QED
  BY <1>1, <1>2 DEF WaitsIn, a

\* Nobody waits for what is abandoned, and the rest is as it was.
LEMMA WaitsAbandon ==
  ASSUME TypeOK, Waits, NEW ss, NEW d,
         \A s \in Subscribers \ ss : d[s].phase = child[s].phase
  PROVE  WaitsIn(Abandon(ss), d)
<1> DEFINE q == store.mailbox
           r == Abandon(ss)
<1>1. /\ DOMAIN r = DOMAIN q
      /\ \A i \in DOMAIN q : /\ q[i].from \in ss => r[i] = Abandoned
                             /\ q[i].from \notin ss => r[i] = q[i]
  BY Abandoning
<1>2. \A i \in DOMAIN q : q[i] \in Request
  <2>1. q \in Seq(Request)
    BY DEF TypeOK
  <2> QED
    BY <2>1, LenProperties, ElementOfSeq
<1>3. WaitsIn(q, child)
  BY DEF Waits
<1>4. Abandoned.type \notin Asks
  BY DEF Abandoned, Asks
<1> HIDE DEF q, r
<1>5. \A i \in DOMAIN r : r[i].type \in Asks
        => r[i] = q[i] /\ r[i].from \in Subscribers \ ss
  BY <1>1, <1>2, <1>4 DEF Request, Asks
<1>6. \A i \in DOMAIN r : r[i].type \in Asks => d[r[i].from].phase = child[r[i].from].phase
  BY <1>5
<1>7. WaitsIn(r, d)
  BY <1>1, <1>3, <1>5, <1>6 DEF WaitsIn, Asks
<1> QED
  BY <1>7 DEF r

-----------------------------------------------------------------------------
(* Steps of clients and of the store *)

Sound(s) == InLine(s) /\ Member(s) /\ Follows(s)

\* What a step must leave alone for everything on its way to s to stay as it is.
SameWay(s) ==
  /\ child'[s].mailbox = child[s].mailbox /\ compiling'[s] = compiling[s]
  /\ pubsub'.mailbox = pubsub.mailbox
  /\ pubsub'.subscribers = pubsub.subscribers
  /\ InHand(s)' = InHand(s)
  /\ store'.event = store.event
  /\ active'[s] = active[s]

LEMMA Untouched ==
  ASSUME NEW s \in Subscribers, SameWay(s), InLine(s)
  PROVE  /\ Finished(s)' = Finished(s) /\ Told(s)' = Told(s) /\ Sent(s)' = Sent(s)
         /\ Published(s)' = Published(s) /\ Coming(s)' = Coming(s)
         /\ (s \in adrift' <=> s \in adrift) => InLine(s)'
<1>1. /\ Finished(s)' = Finished(s) /\ Told(s)' = Told(s) /\ InHand(s)' = InHand(s)
      /\ Sent(s)' = Sent(s) /\ Published(s)' = Published(s) /\ Heard(s)' = Heard(s)
  BY DEF SameWay, Finished, Told, Sent, Published, Heard
<1>2. Coming(s)' = Coming(s)
  BY <1>1 DEF Coming, SameWay
<1>3. ASSUME s \in adrift' <=> s \in adrift
      PROVE  InLine(s)'
  <2>1. Done(s)' = Done(s) /\ Made(s)' = Made(s)
    BY <1>1, <1>3 DEF Done, Made, SameWay
  <2>2. StagesOf(s)' <=> StagesOf(s)
    BY <1>1, <2>1 DEF StagesOf, SameWay
  <2> QED
    BY <1>1, <1>3, <2>2 DEF InLine, SameWay
<1> QED
  BY <1>1, <1>2, <1>3

\* If the subscriber itself stays as it is too, nothing changes for it.
LEMMA Bystander ==
  ASSUME NEW s \in Subscribers, SameWay(s), Sound(s),
         child'[s] = child[s], s \in adrift' <=> s \in adrift
  PROVE  Sound(s)'
<1>1. InLine(s)' /\ Coming(s)' = Coming(s)
  BY Untouched DEF Sound
<1>2. Member(s)'
  BY DEF Sound, Member, SameWay
<1>3. Follows(s)'
  BY <1>1 DEF Sound, Follows, SameWay
<1> QED
  BY <1>1, <1>2, <1>3 DEF Sound

LEMMA CurrentIsNat ==
  ASSUME NEW c \in Child
  PROVE  Current(c) \in Nat
BY DEF Current, Child, Versions

LEMMA Idle ==
  ASSUME IInv, UNCHANGED <<active, store, pubsub, child, compiling, adrift>>
  PROVE  Waits' /\ \A s \in Subscribers : Sound(s)'
<1>1. \A s \in Subscribers : SameWay(s) /\ child'[s] = child[s] /\ Sound(s)
  BY DEF SameWay, InHand, IInv, Sound
<1>2. Waits'
  BY DEF IInv, Waits
<1> QED
  BY <1>1, <1>2, Bystander

LEMMA ClientStep ==
  ASSUME IInv, NEW c \in Clients, NEW t \in Subscribers, client_asks(c, t)
  PROVE  Waits' /\ \A s \in Subscribers : Sound(s)'
<1>1. ASSUME NEW s \in Subscribers
      PROVE  Sound(s)'
  <2>1. store'.event = store.event
    BY DEF client_asks, With, IInv, TypeOK
  <2>2. SameWay(s) /\ child' = child /\ adrift' = adrift
    BY <2>1 DEF client_asks, SameWay, InHand
  <2>3. Sound(s)
    BY DEF IInv, Sound
  <2> QED
    BY <2>2, <2>3, Bystander
<1>2. Waits'
  <2> DEFINE r == [type |-> "activate", from |-> c, of |-> t]
  <2>1. r \in Request /\ r.type = "activate" /\ r.type \notin Asks
    BY DEF Request, Asks
  <2>2. store \in Store /\ store.mailbox \in Seq(Request) /\ WaitsIn(store.mailbox, child)
    BY Types DEF IInv, Waits, Store
  <2>3. store' = With(store, r) /\ child' = child
    BY DEF client_asks
  <2> HIDE DEF r
  <2>4. WaitsIn(Append(store.mailbox, r), child)
    BY <2>1, <2>2, WaitsAppend
  <2>5. store'.mailbox = Append(store.mailbox, r)
    BY <2>1, <2>2, <2>3, ToStore
  <2> QED
    BY <2>3, <2>4, <2>5 DEF Waits
<1> QED
  BY <1>1, <1>2

LEMMA NobodyStep ==
  ASSUME IInv, answers_nobody
  PROVE  Waits' /\ \A s \in Subscribers : Sound(s)'
<1>1. /\ store \in Store /\ store.mailbox \in Seq(Request) /\ store.mailbox # <<>>
      /\ WaitsIn(store.mailbox, child)
      /\ store'.mailbox = Tail(store.mailbox) /\ store'.event = store.event
      /\ UNCHANGED <<active, pubsub, child, compiling, adrift>>
  BY Types, FromStore DEF IInv, Waits, Store, answers_nobody, StoreHandles
<1>2. Waits'
  BY <1>1, WaitsTail DEF Waits
<1>3. \A s \in Subscribers : SameWay(s) /\ child'[s] = child[s] /\ Sound(s)
  BY <1>1 DEF SameWay, InHand, IInv, Sound
<1> QED
  BY <1>1, <1>2, <1>3, Bystander

LEMMA ActivateStep ==
  ASSUME IInv, activate_module
  PROVE  Waits' /\ \A s \in Subscribers : Sound(s)'
<1> DEFINE request == Head(store.mailbox)
<1>1. /\ TypeOK /\ store \in Store /\ store.mailbox \in Seq(Request)
      /\ store.mailbox # <<>> /\ request \in Request /\ request.type = "activate"
      /\ Handled(store) \in Store /\ Handled(store).mailbox = Tail(store.mailbox)
      /\ store.event = None
  BY Types, FromStore DEF IInv, activate_module, StoreHandles, Store
<1>2. PICK of \in Subscribers : of = request.of
  BY <1>1 DEF Request, Abandoned
<1>3. active[of] \in Nat /\ active \in [Subscribers -> Nat]
  BY <1>1, <1>2 DEF TypeOK, Versions
<1>4. /\ store'.event = [type |-> "Activated", of |-> of, version |-> active[of] + 1]
      /\ store'.mailbox = Tail(store.mailbox)
      /\ active' = [active EXCEPT ![of] = @ + 1]
      /\ child' = child /\ pubsub' = pubsub /\ compiling' = compiling /\ adrift' = adrift
  BY <1>1, <1>2 DEF activate_module, Store
<1>5. Waits'
  <2>1. WaitsIn(Tail(store.mailbox), child)
    BY <1>1, WaitsTail DEF IInv, Waits
  <2> QED
    BY <1>4, <2>1 DEF Waits
<1>6. ASSUME NEW s \in Subscribers
      PROVE  Sound(s)'
  <2>1. Sound(s)
    BY DEF IInv, Sound
  <2>2. Published(s) = {}
    BY <1>1 DEF Published, One, EventsOf, None
  <2>3. /\ Finished(s)' = Finished(s) /\ Told(s)' = Told(s) /\ InHand(s)' = InHand(s)
        /\ Sent(s)' = Sent(s) /\ Heard(s)' = Heard(s)
        /\ Done(s)' = Done(s) /\ Made(s)' = Made(s)
    BY <1>4 DEF Finished, Told, InHand, Sent, Heard, Done, Made
  <2>4. CASE s = of
    <3> DEFINE w == active[s] + 1
    <3>1. active'[s] = w /\ w \in Nat /\ active[s] <= w /\ active[s] \in Nat
      BY <1>3, <1>4, <2>4
    <3>2. Published(s)' = {w}
      BY <1>4, <2>4, <3>1 DEF Published, One, EventsOf
    <3> HIDE DEF w
    <3>4. StagesOf(s)'
      <4>1. Stages(Done(s), Made(s), Told(s), InHand(s), Sent(s), {}, active[s])
        BY <2>1, <2>2 DEF Sound, InLine, StagesOf
      <4>2. Stages(Done(s), Made(s), Told(s), InHand(s), Sent(s), {w}, w)
        BY <1>1, <3>1, <4>1, StagesMove, StageTypes
      <4> QED
        BY <2>3, <3>1, <3>2, <4>2 DEF StagesOf
    <3>5. InLine(s)'
      <4>1. Finished(s) \subseteq Nat /\ compiling[s] \subseteq Nat
        BY <1>1, StageTypes
      <4>2. Below(Finished(s) \cup compiling[s], {active[s]})
        BY <2>1 DEF Sound, InLine
      <4>3. \A x \in Nat : x <= active[s] => x <= w
        BY <3>1
      <4>4. Below(Finished(s) \cup compiling[s], {w})
        BY <4>1, <4>2, <4>3 DEF Below
      <4> QED
        BY <1>4, <2>1, <2>3, <3>1, <3>4, <4>4 DEF Sound, InLine
    <3>6. Member(s)'
      BY <1>4, <2>1 DEF Sound, Member
    <3>7. Coming(s)' = Coming(s) \cup {w}
      BY <1>4, <2>2, <2>3, <3>2 DEF Coming
    <3>8. Follows(s)'
      <4>1. SUFFICES ASSUME s \notin adrift, Informed(child[s])
                     PROVE  Leads(Current(child[s]), Coming(s) \cup {w}, w)
        BY <1>4, <3>1, <3>7 DEF Follows
      <4>2. Leads(Current(child[s]), Coming(s), active[s])
        BY <2>1, <4>1 DEF Sound, Follows
      <4>3. Current(child[s]) \in Nat
        BY <1>1, Types, CurrentIsNat
      <4>4. Current(child[s]) <= active[s]
        BY <4>2, <4>3 DEF Leads, Below
      <4>5. Current(child[s]) <= w
        BY <3>1, <4>3, <4>4
      <4> QED
        BY <4>2, <4>5 DEF Leads, Below
    <3> QED
      BY <3>5, <3>6, <3>8 DEF Sound
  <2>5. CASE s # of
    <3>1. active'[s] = active[s]
      BY <1>3, <1>4, <2>5
    <3>2. Published(s)' = Published(s)
      BY <1>4, <2>2, <2>5 DEF Published, One, EventsOf
    <3>3. Coming(s)' = Coming(s) /\ (StagesOf(s)' <=> StagesOf(s))
      BY <1>4, <2>3, <3>1, <3>2 DEF Coming, StagesOf
    <3>4. InLine(s)'
      BY <1>4, <2>1, <2>3, <3>1, <3>3 DEF Sound, InLine
    <3> QED
      BY <1>4, <2>1, <3>1, <3>3, <3>4 DEF Sound, Member, Follows
  <2> QED
    BY <2>4, <2>5
<1> QED
  BY <1>5, <1>6

LEMMA PublishStep ==
  ASSUME IInv, publish
  PROVE  Waits' /\ \A s \in Subscribers : Sound(s)'
<1>1. /\ TypeOK /\ store \in Store /\ pubsub \in Pubsub /\ pubsub.mailbox \in Seq(Notice)
      /\ store.event \in Event /\ store.event \in Notice
  BY Types, EventTypes DEF IInv, publish, Store, Pubsub
<1>2. /\ pubsub'.mailbox = Append(pubsub.mailbox, store.event)
      /\ pubsub'.event = pubsub.event /\ pubsub'.remaining = pubsub.remaining
      /\ pubsub'.subscribers = pubsub.subscribers
      /\ store'.event = None /\ store'.mailbox = store.mailbox
      /\ active' = active /\ child' = child /\ compiling' = compiling /\ adrift' = adrift
  BY <1>1, ToPubsub DEF publish, Store
<1>3. Waits'
  BY <1>2 DEF IInv, Waits
<1>4. ASSUME NEW s \in Subscribers
      PROVE  Sound(s)'
  <2> DEFINE K == EventsOf(s)
  <2>1. Sound(s)
    BY DEF IInv, Sound
  <2>2. Published(s)' = {} /\ Published(s) = One(store.event, K)
    BY <1>2 DEF Published, One, EventsOf, None
  <2>3. /\ Finished(s)' = Finished(s) /\ Told(s)' = Told(s) /\ InHand(s)' = InHand(s)
        /\ Done(s)' = Done(s) /\ Made(s)' = Made(s)
    BY <1>2 DEF Finished, Told, InHand, Done, Made
  <2>4. Sent(s)' = Sent(s) \cup Published(s)
    BY <1>1, <1>2, <2>2, AppendVersions DEF Sent
  <2>5. InLine(s)'
    <3>1. Stages(Done(s), Made(s), Told(s), InHand(s), Sent(s) \cup Published(s), {}, active[s])
      BY <1>1, <2>1, StagesMove, StageTypes DEF Sound, InLine, StagesOf
    <3>2. StagesOf(s)'
      BY <1>2, <2>2, <2>3, <2>4, <3>1 DEF StagesOf
    <3>3. Below(VersionsIn(pubsub.mailbox, K), One(store.event, K))
      BY <2>1, <2>2 DEF Sound, InLine, StagesOf, Stages, Below, Sent
    <3>4. Increasing(pubsub'.mailbox, K)
      BY <1>1, <1>2, <2>1, <3>3, AppendVersions DEF Sound, InLine
    <3> QED
      BY <1>2, <2>1, <2>3, <3>2, <3>4 DEF Sound, InLine
  <2>6. Subscribes(pubsub.mailbox, s) => Subscribes(pubsub'.mailbox, s)
    BY <1>1, <1>2, AppendHeard
  <2>7. Member(s)'
    BY <1>2, <2>1, <2>6 DEF Sound, Member
  <2>8. Follows(s)'
    <3>1. SUFFICES ASSUME s \notin adrift, Informed(child[s])
                   PROVE  Leads(Current(child[s]), Coming(s)', active[s])
      BY <1>2 DEF Follows
    <3>2. s \in pubsub.subscribers \/ Subscribes(pubsub.mailbox, s)
      BY <2>1, <3>1 DEF Sound, Member, Informed, Pending
    <3>3. HeardIn(pubsub'.mailbox, pubsub.subscribers, s) =
            HeardIn(pubsub.mailbox, pubsub.subscribers, s) \cup One(store.event, K)
      BY <1>1, <1>2, <3>2, AppendHeard
    <3>4. Heard(s)' = Heard(s) \cup Published(s)
      BY <1>2, <2>2, <3>3 DEF Heard
    <3>5. Coming(s)' = Coming(s)
      BY <1>2, <2>2, <2>3, <3>4 DEF Coming
    <3> QED
      BY <2>1, <3>1, <3>5 DEF Sound, Follows
  <2> QED
    BY <2>5, <2>7, <2>8 DEF Sound
<1> QED
  BY <1>3, <1>4

\* Whatever else is still on its way to a subscriber that has just been told what is
\* active counts as on its way in the model.
LEMMA AllOnTheWay ==
  ASSUME NEW s \in Subscribers
  PROVE  Finished(s) \cup compiling[s] \cup Told(s) \cup InHand(s) \cup Heard(s)
           \subseteq OnTheWay(s)
<1>1. Finished(s) \subseteq OnTheWay(s)
  BY DEF Finished, VersionsIn, Results, OnTheWay, Range
<1>2. Told(s) \subseteq OnTheWay(s)
  BY DEF Told, VersionsIn, EventsOf, OnTheWay, Range
<1>3. InHand(s) \subseteq OnTheWay(s)
  BY DEF InHand, One, EventsOf, OnTheWay, Range, None
<1>4. Heard(s) \subseteq OnTheWay(s)
  BY DEF Heard, HeardIn, EventsOf, OnTheWay, Range
<1>5. compiling[s] \subseteq OnTheWay(s)
  BY DEF OnTheWay
<1> QED
  BY <1>1, <1>2, <1>3, <1>4, <1>5

LEMMA ReadStep ==
  ASSUME IInv, get_all_active_modules
  PROVE  Waits' /\ \A s \in Subscribers : Sound(s)'
<1> DEFINE request == Head(store.mailbox)
<1>1. /\ TypeOK /\ store \in Store /\ store.mailbox \in Seq(Request)
      /\ store.mailbox # <<>> /\ request \in Request /\ request.type = "read"
      /\ Handled(store) \in Store /\ Handled(store).mailbox = Tail(store.mailbox)
      /\ Handled(store).event = store.event /\ store.event = None
      /\ child \in [Subscribers -> Child]
  BY Types, FromStore DEF IInv, get_all_active_modules, StoreHandles, Store, TypeOK
<1>2. PICK t \in Subscribers : t = request.from
  BY <1>1 DEF Request, Abandoned
<1> DEFINE phase == IF active[t] = 0 THEN "ready" ELSE "compiling"
<1>3. /\ store' = Handled(store)
      /\ child' = [child EXCEPT ![t].phase = phase, ![t].next = active[t]]
      /\ adrift' = IF \E v \in OnTheWay(t) : v < active[t]
                     THEN adrift \cup {t} ELSE adrift \ {t}
      /\ active' = active /\ pubsub' = pubsub /\ compiling' = compiling
  BY <1>2 DEF get_all_active_modules
<1>4. child[t].phase = "reading" /\ child[t].loaded = 0
  <2>1. 1 \in DOMAIN store.mailbox /\ store.mailbox[1] = request
    BY <1>1, LenProperties, HeadTailProperties, EmptySeq
  <2>2. child[t].phase = "reading"
    BY <1>1, <1>2, <2>1 DEF IInv, Waits, WaitsIn
  <2> QED
    BY <2>2 DEF IInv, Fresh
<1>5. /\ child'[t].phase = phase /\ child'[t].mailbox = child[t].mailbox
      /\ child'[t].loaded = child[t].loaded /\ child'[t].next = active[t]
      /\ \A s \in Subscribers : s # t => child'[s] = child[s]
  BY <1>1, <1>3 DEF Child
<1>6. Current(child'[t]) = active[t]
  BY <1>4, <1>5 DEF Current, Pending
<1>7. ASSUME NEW s \in Subscribers
      PROVE  SameWay(s) /\ Sound(s)
  BY <1>1, <1>3, <1>5 DEF SameWay, InHand, IInv, Sound
<1>8. Waits'
  <2>2. WaitsIn(store.mailbox, child)
    BY DEF IInv, Waits
  <2>3. WaitsIn(Tail(store.mailbox), child')
    BY <1>1, <1>2, <1>4, <1>5, <2>2, TailOthers DEF Asks
  <2> QED
    BY <1>1, <1>3, <2>3 DEF Waits
<1>9. ASSUME NEW s \in Subscribers, s # t
      PROVE  Sound(s)'
  BY <1>3, <1>5, <1>7, <1>9, Bystander
<1>10. Sound(t)'
  <2>1. /\ Finished(t)' = Finished(t) /\ Told(t)' = Told(t) /\ Sent(t)' = Sent(t)
        /\ InHand(t)' = InHand(t)
        /\ Published(t)' = {} /\ Coming(t)' = Coming(t) /\ active'[t] = active[t]
    <3>1. Published(t) = {}
      BY <1>1 DEF Published, One, EventsOf, None
    <3> QED
      BY <1>7, <3>1, Untouched DEF Sound, SameWay
  <2>2. Member(t)'
    BY <1>3, <1>4, <1>7 DEF Sound, Member
  <2>3. ASSUME t \in adrift'
        PROVE  InLine(t)' /\ Follows(t)'
    <3>1. Done(t)' = {} /\ Made(t)' = {}
      BY <2>3 DEF Done, Made
    <3>2. Stages({}, {}, Told(t), InHand(t), Sent(t), {}, active[t])
      <4>1. Stages(Done(t), Made(t), Told(t), InHand(t), Sent(t), Published(t), active[t])
        BY <1>7 DEF Sound, InLine, StagesOf
      <4> QED
        BY <4>1, StagesLose
    <3>3. StagesOf(t)'
      BY <2>1, <3>1, <3>2 DEF StagesOf
    <3> QED
      BY <1>3, <1>7, <2>1, <2>3, <3>3 DEF InLine, Follows, Sound, SameWay
  <2>4. ASSUME t \notin adrift'
        PROVE  InLine(t)' /\ Follows(t)'
    <3>1. \A v \in OnTheWay(t) : ~(v < active[t])
      BY <1>3, <2>4
    <3>2. Finished(t) \cup compiling[t] \cup Told(t) \cup InHand(t) \cup Heard(t)
            \subseteq OnTheWay(t)
      BY AllOnTheWay
    <3>3. Sent(t) \subseteq OnTheWay(t)
      BY DEF Sent, VersionsIn, EventsOf, OnTheWay, Range
    <3>4. Coming(t) \subseteq OnTheWay(t)
      BY <2>1, <3>2, <1>7 DEF Coming, SameWay, Published
    <3>5. /\ Finished(t) \subseteq Nat /\ compiling[t] \subseteq Nat /\ Told(t) \subseteq Nat
          /\ InHand(t) \subseteq Nat /\ Sent(t) \subseteq Nat /\ active[t] \in Nat
          /\ Coming(t) \subseteq Nat
      BY <1>1, StageTypes DEF Coming
    <3>6. Follows(t)'
      BY <1>6, <2>1, <3>1, <3>4, <3>5 DEF Follows, Leads, Below
    <3>7. Finished(t) \cup compiling[t] \subseteq {active[t]}
      <4>1. \A x \in Finished(t) \cup compiling[t] : x <= active[t] /\ x \in Nat
        BY <1>7, <3>5 DEF Sound, InLine, Below
      <4>2. \A x \in Finished(t) \cup compiling[t] : ~(x < active[t])
        BY <3>1, <3>2
      <4> QED
        BY <3>5, <4>1, <4>2
    <3>8. \A x \in Told(t) \cup InHand(t) \cup Sent(t) \cup {active[t]} : active[t] <= x
      <4>1. \A x \in Told(t) \cup InHand(t) \cup Sent(t) : ~(x < active[t]) /\ x \in Nat
        BY <3>1, <3>2, <3>3, <3>5
      <4> QED
        BY <3>5, <4>1
    <3>9. StagesOf(t)'
      <4>1. Stages({}, {}, Told(t), InHand(t), Sent(t), {}, active[t])
        <5>1. Stages(Done(t), Made(t), Told(t), InHand(t), Sent(t), Published(t), active[t])
          BY <1>7 DEF Sound, InLine, StagesOf
        <5> QED
          BY <5>1, StagesLose
      <4>2. Stages(Finished(t), compiling[t], Told(t), InHand(t), Sent(t), {}, active[t])
        BY <3>5, <3>7, <3>8, <4>1 DEF Stages, Below
      <4>3. Done(t)' = Finished(t) /\ Made(t)' = compiling[t]
        BY <1>3, <2>1, <2>4 DEF Done, Made
      <4> QED
        BY <2>1, <4>2, <4>3 DEF StagesOf
    <3>10. Increasing(child[t].mailbox, Results)
      <4>1. \A i \in DOMAIN child[t].mailbox :
              child[t].mailbox[i] \in Results => child[t].mailbox[i].version = active[t]
        BY <3>7 DEF Finished, VersionsIn
      <4> QED
        BY <3>5, <4>1 DEF Increasing
    <3> QED
      BY <1>3, <1>5, <1>7, <2>1, <3>6, <3>9, <3>10 DEF InLine, Sound, SameWay
  <2> QED
    BY <2>2, <2>3, <2>4 DEF Sound
<1> QED
  BY <1>8, <1>9, <1>10

\* A subscriber that takes a step of its own while nothing moves on its way.
LEMMA OwnStep ==
  ASSUME IInv, NEW t \in Subscribers, adrift' = adrift,
         \A s \in Subscribers : SameWay(s),
         \A s \in Subscribers : s # t => child'[s] = child[s],
         Member(t)',
         Informed(child'[t])
           => Informed(child[t]) /\ Current(child'[t]) = Current(child[t])
  PROVE  \A s \in Subscribers : Sound(s)'
<1>1. ASSUME NEW s \in Subscribers
      PROVE  Sound(s) /\ InLine(s)' /\ Coming(s)' = Coming(s) /\ active'[s] = active[s]
  BY Untouched DEF IInv, Sound, SameWay
<1>2. \A s \in Subscribers : s # t => Sound(s)'
  BY <1>1, Bystander
<1>3. Sound(t)'
  BY <1>1 DEF Sound, Follows
<1> QED
  BY <1>2, <1>3

LEMMA EnvStep ==
  ASSUME IInv, get_env_vars
  PROVE  Waits' /\ \A s \in Subscribers : Sound(s)'
<1> DEFINE request == Head(store.mailbox)
<1>1. /\ TypeOK /\ store \in Store /\ store.mailbox \in Seq(Request)
      /\ store.mailbox # <<>> /\ request \in Request /\ request.type = "env"
      /\ Handled(store) \in Store /\ Handled(store).mailbox = Tail(store.mailbox)
      /\ Handled(store).event = store.event
      /\ child \in [Subscribers -> Child]
  BY Types, FromStore DEF IInv, get_env_vars, StoreHandles, Store, TypeOK
<1>2. PICK t \in Subscribers : t = request.from
  BY <1>1 DEF Request, Abandoned
<1>3. /\ store' = Handled(store) /\ child' = Loads(t)
      /\ adrift' = adrift /\ active' = active /\ pubsub' = pubsub /\ compiling' = compiling
  BY <1>2 DEF get_env_vars
<1>4. child[t].phase = "waiting"
  <2>1. 1 \in DOMAIN store.mailbox /\ store.mailbox[1] = request
    BY <1>1, LenProperties, HeadTailProperties, EmptySeq
  <2> QED
    BY <1>1, <1>2, <2>1 DEF IInv, Waits, WaitsIn
<1>5. /\ child'[t].phase = "ready" /\ Current(child'[t]) = Current(child[t])
      /\ child'[t].mailbox = child[t].mailbox
      /\ \A s \in Subscribers : s # t => child'[s] = child[s]
  BY <1>1, <1>3, <1>4, Loading DEF Current, Pending
<1>6. \A s \in Subscribers : SameWay(s)
  BY <1>1, <1>3, <1>5 DEF SameWay, InHand
<1>7. Waits'
  <2>2. WaitsIn(store.mailbox, child)
    BY DEF IInv, Waits
  <2>3. WaitsIn(Tail(store.mailbox), child')
    BY <1>1, <1>2, <1>4, <1>5, <2>2, TailOthers DEF Asks
  <2> QED
    BY <1>1, <1>3, <2>3 DEF Waits
<1>8. Member(t)'
  BY <1>3, <1>4 DEF IInv, Member
<1> QED
  BY <1>3, <1>4, <1>5, <1>6, <1>7, <1>8, OwnStep DEF Informed, Pending

-----------------------------------------------------------------------------
(* Steps of the pubsub *)

LEMMA TakeSubscription ==
  ASSUME IInv, pubsub_takes, Head(pubsub.mailbox).type = "Subscribe"
  PROVE  Waits' /\ \A s \in Subscribers : Sound(s)'
<1> DEFINE notice == Head(pubsub.mailbox)
<1>1. /\ TypeOK /\ pubsub \in Pubsub /\ pubsub.mailbox \in Seq(Notice)
      /\ pubsub.mailbox # <<>> /\ notice \in Notice /\ pubsub.event = None
      /\ Handled(pubsub) \in Pubsub /\ Handled(pubsub).mailbox = Tail(pubsub.mailbox)
      /\ Handled(pubsub).event = pubsub.event
      /\ Handled(pubsub).remaining = pubsub.remaining
      /\ Handled(pubsub).subscribers = pubsub.subscribers
      /\ child \in [Subscribers -> Child]
  BY Types, FromPubsub DEF IInv, pubsub_takes, Pubsub, TypeOK
<1>2. PICK t \in Subscribers : t = notice.from
  BY <1>1 DEF Notice, Event
<1>3. /\ pubsub' = [Handled(pubsub) EXCEPT !.subscribers = @ \cup {t}]
      /\ child' = IF child[t].phase = "subscribing"
                    THEN [child EXCEPT ![t].phase = "subscribed"] ELSE child
      /\ adrift' = adrift /\ active' = active /\ store' = store /\ compiling' = compiling
  BY <1>2 DEF pubsub_takes
<1>4. /\ pubsub'.mailbox = Tail(pubsub.mailbox) /\ pubsub'.event = pubsub.event
      /\ pubsub'.remaining = pubsub.remaining
      /\ pubsub'.subscribers = pubsub.subscribers \cup {t}
  BY <1>1, <1>3 DEF Pubsub
<1>5. \A s \in Subscribers :
        /\ child'[s].mailbox = child[s].mailbox /\ child'[s].loaded = child[s].loaded
        /\ child'[s].next = child[s].next
        /\ \/ child'[s].phase = child[s].phase
           \/ child[s].phase = "subscribing" /\ child'[s].phase = "subscribed"
  BY <1>1, <1>3 DEF Child
<1>6. Waits'
  BY <1>3, <1>5, SameWaits
<1>7. ASSUME NEW s \in Subscribers
      PROVE  Sound(s)'
  <2> DEFINE K == EventsOf(s)
  <2>1. Sound(s)
    BY DEF IInv, Sound
  <2>2. notice \notin K /\ One(notice, K) = {}
    BY DEF EventsOf, One
  <2>3. notice \in Subscription(s) <=> s = t
    <3>1. notice = [type |-> "Subscribe", from |-> t]
      BY <1>1, <1>2 DEF Notice, Event
    <3> QED
      BY <3>1 DEF Subscription
  <2>4. /\ Finished(s)' = Finished(s) /\ Told(s)' = Told(s) /\ InHand(s)' = InHand(s)
        /\ Published(s)' = Published(s) /\ Done(s)' = Done(s) /\ Made(s)' = Made(s)
    BY <1>3, <1>4, <1>5 DEF Finished, Told, InHand, Published, Done, Made
  <2>5. Sent(s)' = Sent(s) /\ (Increasing(pubsub.mailbox, K) => Increasing(pubsub'.mailbox, K))
    <3> DEFINE q == pubsub.mailbox
    <3>1. q \in Seq(Notice) /\ q # <<>> /\ One(Head(q), K) = {}
      BY <1>1, <2>2
    <3> HIDE DEF q, K
    <3>2. /\ VersionsIn(q, K) = VersionsIn(Tail(q), K) \cup One(Head(q), K)
          /\ Increasing(q, K) => Increasing(Tail(q), K)
      BY <3>1, TailVersions
    <3>3. VersionsIn(q, K) = VersionsIn(Tail(q), K)
      BY <3>1, <3>2
    <3> QED
      BY <1>4, <3>2, <3>3 DEF Sent, K, q
  <2>6. Heard(s)' = Heard(s)
    <3>1. s \in pubsub'.subscribers <=> s \in pubsub.subscribers \/ notice \in Subscription(s)
      BY <1>4, <2>3
    <3>2. HeardIn(pubsub.mailbox, pubsub.subscribers, s) =
            HeardIn(Tail(pubsub.mailbox), pubsub'.subscribers, s) \cup
              IF s \in pubsub.subscribers THEN One(notice, K) ELSE {}
      BY <1>1, <3>1, TailHeard
    <3> QED
      BY <1>4, <2>2, <3>2 DEF Heard
  <2>7. InLine(s)'
    <3>1. StagesOf(s)'
      BY <1>3, <2>1, <2>4, <2>5 DEF Sound, InLine, StagesOf
    <3> QED
      BY <1>3, <1>5, <2>1, <2>4, <2>5, <3>1 DEF Sound, InLine
  <2>8. Coming(s)' = Coming(s)
    BY <1>3, <2>4, <2>6 DEF Coming
  <2>9. Follows(s)'
    BY <1>3, <1>5, <2>1, <2>8 DEF Sound, Follows, Current, Informed, Pending
  <2>10. Member(s)'
    <3>1. Subscribes(pubsub.mailbox, s)
            => notice \in Subscription(s) \/ Subscribes(pubsub'.mailbox, s)
      <4>1. s \in pubsub'.subscribers <=> s \in pubsub.subscribers \/ notice \in Subscription(s)
        BY <1>4, <2>3
      <4> QED
        BY <1>1, <1>4, <4>1, TailHeard
    <3> QED
      BY <1>3, <1>4, <1>5, <2>1, <2>3, <3>1 DEF Sound, Member
  <2> QED
    BY <2>7, <2>9, <2>10 DEF Sound
<1> QED
  BY <1>6, <1>7

LEMMA TakeEvent ==
  ASSUME IInv, pubsub_takes, Head(pubsub.mailbox).type # "Subscribe"
  PROVE  Waits' /\ \A s \in Subscribers : Sound(s)'
<1> DEFINE notice == Head(pubsub.mailbox)
           subs == pubsub.subscribers
<1>1. /\ TypeOK /\ pubsub \in Pubsub /\ pubsub.mailbox \in Seq(Notice)
      /\ pubsub.mailbox # <<>> /\ notice \in Notice /\ pubsub.event = None
      /\ Handled(pubsub) \in Pubsub /\ Handled(pubsub).mailbox = Tail(pubsub.mailbox)
      /\ Handled(pubsub).subscribers = subs
  BY Types, FromPubsub DEF IInv, pubsub_takes, Pubsub, TypeOK
<1>2. /\ pubsub' = [Handled(pubsub) EXCEPT !.event = IF subs = {} THEN None ELSE notice,
                                           !.remaining = subs]
      /\ child' = child
      /\ adrift' = adrift /\ active' = active /\ store' = store /\ compiling' = compiling
  BY DEF pubsub_takes
<1>3. /\ pubsub'.mailbox = Tail(pubsub.mailbox) /\ pubsub'.subscribers = subs
      /\ pubsub'.event = (IF subs = {} THEN None ELSE notice) /\ pubsub'.remaining = subs
  BY <1>1, <1>2 DEF Pubsub
<1>4. Waits'
  BY <1>2 DEF IInv, Waits
<1>5. ASSUME NEW s \in Subscribers
      PROVE  Sound(s)'
  <2> DEFINE K == EventsOf(s)
             X == One(notice, K)
  <2>1. Sound(s)
    BY DEF IInv, Sound
  <2>2. notice \notin Subscription(s)
    <3>1. \A n \in Subscription(s) : n.type = "Subscribe"
      BY DEF Subscription
    <3> QED
      BY <3>1
  <2>3. InHand(s) = {} /\ InHand(s)' = IF s \in subs THEN X ELSE {}
    <3>1. InHand(s) = {}
      BY <1>1 DEF InHand, One, EventsOf, None
    <3>2. InHand(s)' = IF s \in pubsub'.remaining THEN One(pubsub'.event, K) ELSE {}
      BY DEF InHand
    <3>3. s \in subs => pubsub'.event = notice
      BY <1>3
    <3> HIDE DEF notice, K
    <3> QED
      BY <1>3, <3>1, <3>2, <3>3
  <2>4. /\ Finished(s)' = Finished(s) /\ Told(s)' = Told(s) /\ Published(s)' = Published(s)
        /\ Done(s)' = Done(s) /\ Made(s)' = Made(s)
    BY <1>2 DEF Finished, Told, Published, Done, Made
  <2>5. /\ Sent(s) = Sent(s)' \cup X
        /\ Increasing(pubsub'.mailbox, K) /\ Below(X, Sent(s)')
    <3>1. /\ VersionsIn(pubsub.mailbox, K) = VersionsIn(Tail(pubsub.mailbox), K) \cup X
          /\ Increasing(pubsub.mailbox, K)
               => /\ Increasing(Tail(pubsub.mailbox), K)
                  /\ Below(X, VersionsIn(Tail(pubsub.mailbox), K))
      BY <1>1, TailVersions
    <3> QED
      BY <1>3, <2>1, <3>1 DEF Sent, Sound, InLine
  <2>6. Heard(s) = Heard(s)' \cup InHand(s)'
    <3>1. s \in subs <=> s \in subs \/ notice \in Subscription(s)
      BY <2>2
    <3>2. HeardIn(pubsub.mailbox, subs, s) =
            HeardIn(Tail(pubsub.mailbox), subs, s) \cup IF s \in subs THEN X ELSE {}
      BY <1>1, <3>1, TailHeard
    <3> QED
      BY <1>3, <2>3, <3>2 DEF Heard
  <2>7. X \subseteq Nat /\ Sent(s)' \subseteq Nat
    BY DEF One, EventsOf, Sent, VersionsIn
  <2> HIDE DEF X
  <2>8. StagesOf(s)'
    <3>1. Stages(Done(s), Made(s), Told(s), {}, Sent(s)' \cup X, Published(s), active[s])
      BY <2>1, <2>3, <2>5 DEF Sound, InLine, StagesOf
    <3>2. Stages(Done(s), Made(s), Told(s), X, Sent(s)', Published(s), active[s])
      BY <1>1, <2>5, <2>7, <3>1, StagesMove, StageTypes
    <3>3. Stages(Done(s), Made(s), Told(s), InHand(s)', Sent(s)', Published(s), active[s])
      BY <2>3, <3>2, StagesLose
    <3> QED
      BY <1>2, <2>4, <3>3 DEF StagesOf
  <2>9. InLine(s)'
    BY <1>2, <2>1, <2>4, <2>5, <2>8 DEF Sound, InLine
  <2>10. Coming(s)' = Coming(s)
    BY <1>2, <2>3, <2>4, <2>6 DEF Coming
  <2>11. Follows(s)'
    BY <1>2, <2>1, <2>10 DEF Sound, Follows
  <2>12. Member(s)'
    <3>1. Subscribes(pubsub.mailbox, s) => Subscribes(pubsub'.mailbox, s)
      <4>1. s \in subs <=> s \in subs \/ notice \in Subscription(s)
        BY <2>2
      <4> QED
        BY <1>1, <1>3, <2>2, <4>1, TailHeard
    <3> QED
      BY <1>2, <1>3, <2>1, <3>1 DEF Sound, Member
  <2> QED
    BY <2>9, <2>11, <2>12 DEF Sound
<1> QED
  BY <1>4, <1>5

-----------------------------------------------------------------------------
(* The mailboxes of subscribers *)

\* A message that comes is either an event or a result.
LEMMA Receiving ==
  ASSUME TypeOK, NEW s \in Subscribers, NEW m \in Message, child'[s] = With(child[s], m)
  PROVE  /\ Finished(s)' = Finished(s) \cup One(m, Results)
         /\ Told(s)' = Told(s) \cup One(m, EventsOf(s))
         /\ \A K \in {Results, EventsOf(s)} :
              /\ Increasing(child[s].mailbox, K)
              /\ Below(VersionsIn(child[s].mailbox, K), One(m, K))
              => Increasing(child'[s].mailbox, K)
         /\ child'[s].phase = child[s].phase
         /\ Current(child'[s]) = Current(child[s])
<1>1. child[s] \in Child /\ child[s].mailbox \in Seq(Message)
  BY Types DEF Child
<1>2. /\ child'[s].mailbox = Append(child[s].mailbox, m)
      /\ child'[s].phase = child[s].phase /\ child'[s].loaded = child[s].loaded
      /\ child'[s].next = child[s].next
  <2>1. \A c \in Child : /\ With(c, m).mailbox = Append(c.mailbox, m)
                           /\ With(c, m).phase = c.phase /\ With(c, m).loaded = c.loaded
                           /\ With(c, m).next = c.next
    BY ToChild
  <2> QED
    BY <1>1, <2>1
<1>3. \A K : /\ VersionsIn(Append(child[s].mailbox, m), K) =
                  VersionsIn(child[s].mailbox, K) \cup One(m, K)
             /\ Increasing(child[s].mailbox, K)
                /\ Below(VersionsIn(child[s].mailbox, K), One(m, K))
                => Increasing(Append(child[s].mailbox, m), K)
  BY <1>1, AppendVersions
<1>4. Finished(s)' = Finished(s) \cup One(m, Results)
  BY <1>2, <1>3 DEF Finished
<1>5. Told(s)' = Told(s) \cup One(m, EventsOf(s))
  BY <1>2, <1>3 DEF Told
<1>6. Current(child'[s]) = Current(child[s])
  BY <1>2 DEF Current
<1> QED
  BY <1>2, <1>3, <1>4, <1>5, <1>6

LEMMA Handling ==
  ASSUME TypeOK, NEW s \in Subscribers, child[s].mailbox # <<>>,
         child'[s].mailbox = Tail(child[s].mailbox)
  PROVE  LET h == Head(child[s].mailbox)
         IN  /\ Finished(s) = Finished(s)' \cup One(h, Results)
             /\ Told(s) = Told(s)' \cup One(h, EventsOf(s))
             /\ Increasing(child[s].mailbox, Results)
                  => /\ Increasing(child'[s].mailbox, Results)
                     /\ Below(One(h, Results), Finished(s)')
             /\ Increasing(child[s].mailbox, EventsOf(s))
                  => /\ Increasing(child'[s].mailbox, EventsOf(s))
                     /\ Below(One(h, EventsOf(s)), Told(s)')
<1> DEFINE q == child[s].mailbox
<1>1. q \in Seq(Message) /\ q # <<>>
  BY Types DEF Child
<1> HIDE DEF q
<1>2. \A K : /\ VersionsIn(q, K) = VersionsIn(Tail(q), K) \cup One(Head(q), K)
             /\ Increasing(q, K) => /\ Increasing(Tail(q), K)
                                    /\ Below(One(Head(q), K), VersionsIn(Tail(q), K))
  BY <1>1, TailVersions
<1>3. Finished(s) = VersionsIn(q, Results) /\ Finished(s)' = VersionsIn(Tail(q), Results)
  BY DEF Finished, q
<1>4. Told(s) = VersionsIn(q, EventsOf(s)) /\ Told(s)' = VersionsIn(Tail(q), EventsOf(s))
  <2>1. Told(s)' = VersionsIn(child'[s].mailbox, EventsOf(s))
    BY DEF Told
  <2> QED
    BY <2>1 DEF Told, q
<1>5. child[s].mailbox = q /\ child'[s].mailbox = Tail(q)
  BY DEF q
<1> QED
  BY <1>2, <1>3, <1>4, <1>5

LEMMA DeliverStep ==
  ASSUME IInv, NEW t \in Subscribers, pubsub_delivers(t)
  PROVE  Waits' /\ \A s \in Subscribers : Sound(s)'
<1> DEFINE e == pubsub.event
           X == One(e, EventsOf(t))
<1>1. /\ TypeOK /\ pubsub \in Pubsub /\ child \in [Subscribers -> Child]
      /\ e \in Event /\ e \in Message /\ e.type = "Activated"
  BY Types, EventTypes DEF IInv, pubsub_delivers, Pubsub, TypeOK, Event
<1>2. /\ child' = [child EXCEPT ![t] = With(child[t], e)]
      /\ pubsub'.mailbox = pubsub.mailbox /\ pubsub'.subscribers = pubsub.subscribers
      /\ pubsub'.remaining = pubsub.remaining \ {t} /\ t \in pubsub.remaining
      /\ pubsub'.event = IF pubsub.remaining = {t} THEN None ELSE e
      /\ adrift' = adrift /\ active' = active /\ store' = store /\ compiling' = compiling
  BY <1>1 DEF pubsub_delivers, Pubsub
<1>3. child'[t] = With(child[t], e) /\ \A s \in Subscribers : s # t => child'[s] = child[s]
  BY <1>1, <1>2
<1>4. /\ Told(t)' = Told(t) \cup X /\ Finished(t)' = Finished(t)
      /\ Done(t)' = Done(t) /\ Made(t)' = Made(t)
      /\ Increasing(child[t].mailbox, Results) => Increasing(child'[t].mailbox, Results)
      /\ Increasing(child[t].mailbox, EventsOf(t)) /\ Below(Told(t), X)
           => Increasing(child'[t].mailbox, EventsOf(t))
      /\ child'[t].phase = child[t].phase /\ Current(child'[t]) = Current(child[t])
  <2>1. One(e, Results) = {}
    BY <1>1 DEF One, Results
  <2>2. Below(VersionsIn(child[t].mailbox, Results), {})
    BY DEF Below
  <2> HIDE DEF e
  <2>3. /\ Finished(t)' = Finished(t) \cup One(e, Results)
        /\ Told(t)' = Told(t) \cup X
        /\ \A K \in {Results, EventsOf(t)} :
             /\ Increasing(child[t].mailbox, K)
             /\ Below(VersionsIn(child[t].mailbox, K), One(e, K))
             => Increasing(child'[t].mailbox, K)
        /\ child'[t].phase = child[t].phase /\ Current(child'[t]) = Current(child[t])
    BY <1>1, <1>3, Receiving
  <2>4. Finished(t)' = Finished(t)
    BY <2>1, <2>3
  <2> QED
    BY <1>2, <2>1, <2>2, <2>3, <2>4 DEF Told, Done, Made
<1>5. InHand(t) = X /\ InHand(t)' = {}
  BY <1>2 DEF InHand
<1>6. Waits'
  <2>1. \A s \in Subscribers : child'[s].phase = child[s].phase
    BY <1>3, <1>4
  <2> QED
    BY <1>2, <2>1, SameWaits
<1>7. Sound(t)'
  <2>1. Sound(t)
    BY DEF IInv, Sound
  <2>2. Sent(t)' = Sent(t) /\ Published(t)' = Published(t) /\ Heard(t)' = Heard(t)
    BY <1>2 DEF Sent, Published, Heard
  <2>3. StagesOf(t)'
    <3>1. Stages(Done(t), Made(t), Told(t), X, Sent(t), Published(t), active[t])
      BY <1>5, <2>1 DEF Sound, InLine, StagesOf
    <3>2. X \subseteq Nat
      BY <1>1, <1>5, StageTypes
    <3> HIDE DEF X
    <3>3. Stages(Done(t), Made(t), Told(t) \cup X, {}, Sent(t), Published(t), active[t])
      BY <1>1, <3>1, <3>2, StagesMove, StageTypes
    <3> QED
      BY <1>2, <1>4, <1>5, <2>2, <3>3 DEF StagesOf
  <2>4. InLine(t)'
    <3>1. Below(Told(t), X)
      BY <1>5, <2>1 DEF Sound, InLine, StagesOf, Stages, Below
    <3> QED
      BY <1>2, <1>4, <2>1, <2>3, <3>1 DEF Sound, InLine
  <2>5. Coming(t)' = Coming(t)
    BY <1>2, <1>4, <1>5, <2>2 DEF Coming
  <2>6. Member(t)' /\ Follows(t)'
    BY <1>2, <1>4, <2>1, <2>5 DEF Sound, Member, Follows, Informed
  <2> QED
    BY <2>4, <2>6 DEF Sound
<1>8. ASSUME NEW s \in Subscribers, s # t
      PROVE  Sound(s)'
  <2>1. InHand(s)' = InHand(s)
    <3>1. s \in pubsub'.remaining <=> s \in pubsub.remaining
      BY <1>2, <1>8
    <3>2. s \in pubsub.remaining => pubsub'.event = e
      BY <1>2, <1>8
    <3> QED
      BY <3>1, <3>2 DEF InHand
  <2>2. SameWay(s) /\ Sound(s)
    BY <1>2, <1>3, <1>8, <2>1 DEF SameWay, IInv, Sound
  <2> QED
    BY <1>2, <1>3, <1>8, <2>2, Bystander
<1> QED
  BY <1>6, <1>7, <1>8

-----------------------------------------------------------------------------
(* Steps of subscribers *)

LEMMA SubscribeStep ==
  ASSUME IInv, NEW t \in Subscribers, subscribe(t)
  PROVE  Waits' /\ \A s \in Subscribers : Sound(s)'
<1> DEFINE n == [type |-> "Subscribe", from |-> t]
<1>1. /\ TypeOK /\ pubsub \in Pubsub /\ pubsub.mailbox \in Seq(Notice)
      /\ child \in [Subscribers -> Child] /\ n \in Notice
  BY Types, EventTypes DEF IInv, Pubsub, TypeOK
<1>2. /\ pubsub' = With(pubsub, n) /\ child' = [child EXCEPT ![t].phase = "subscribing"]
      /\ child[t].phase = "starting" /\ adrift' = adrift
      /\ active' = active /\ store' = store /\ compiling' = compiling
  BY DEF subscribe
<1>3. n \in Subscription(t) /\ \A s : n \notin EventsOf(s)
  BY DEF Subscription, EventsOf
<1> HIDE DEF n
<1>4. /\ pubsub'.mailbox = Append(pubsub.mailbox, n) /\ pubsub'.event = pubsub.event
      /\ pubsub'.remaining = pubsub.remaining /\ pubsub'.subscribers = pubsub.subscribers
  BY <1>1, <1>2, ToPubsub
<1>5. /\ child'[t].phase = "subscribing" /\ child'[t].mailbox = child[t].mailbox
      /\ \A s \in Subscribers : s # t => child'[s] = child[s]
  BY <1>1, <1>2 DEF Child
<1>6. Waits'
  BY <1>2, <1>5, SameWaits
<1>7. ASSUME NEW s \in Subscribers
      PROVE  Sound(s)'
  <2> DEFINE K == EventsOf(s)
             q == pubsub.mailbox
             A == pubsub.subscribers
  <2>1. Sound(s) /\ One(n, K) = {} /\ Below(VersionsIn(q, K), {})
    BY <1>3 DEF IInv, Sound, One, Below
  <2>2. /\ Finished(s)' = Finished(s) /\ Told(s)' = Told(s) /\ InHand(s)' = InHand(s)
        /\ Published(s)' = Published(s) /\ Done(s)' = Done(s) /\ Made(s)' = Made(s)
    BY <1>2, <1>4, <1>5 DEF Finished, Told, InHand, Published, Done, Made
  <2>3. q \in Seq(Notice) /\ q' = Append(q, n) /\ A' = A
    BY <1>1, <1>4
  <2>4. /\ VersionsIn(Append(q, n), K) = VersionsIn(q, K)
        /\ Increasing(q, K) => Increasing(Append(q, n), K)
    <3> HIDE DEF q, K
    <3>1. /\ VersionsIn(Append(q, n), K) = VersionsIn(q, K) \cup One(n, K)
          /\ Increasing(q, K) /\ Below(VersionsIn(q, K), One(n, K))
               => Increasing(Append(q, n), K)
      BY <1>1, <2>3, AppendVersions
    <3> QED
      BY <2>1, <3>1
  <2>5. /\ HeardIn(Append(q, n), A, s) = HeardIn(q, A, s)
        /\ Subscribes(Append(q, n), s) <=> Subscribes(q, s) \/ n \in Subscription(s)
    <3> HIDE DEF q, A
    <3>1. /\ HeardIn(Append(q, n), A, s) =
               HeardIn(q, A, s) \cup
                 IF s \in A \/ Subscribes(q, s) THEN One(n, EventsOf(s)) ELSE {}
          /\ Subscribes(Append(q, n), s) <=> Subscribes(q, s) \/ n \in Subscription(s)
      BY <1>1, <2>3, AppendHeard
    <3> QED
      BY <2>1, <3>1
  <2>6. Sent(s)' = Sent(s) /\ Heard(s)' = Heard(s)
    BY <2>3, <2>4, <2>5 DEF Sent, Heard
  <2>7. InLine(s)' /\ Coming(s)' = Coming(s)
    <3>1. StagesOf(s)'
      BY <1>2, <2>1, <2>2, <2>6 DEF Sound, InLine, StagesOf
    <3>2. Increasing(pubsub'.mailbox, EventsOf(s))
      BY <2>1, <2>3, <2>4 DEF Sound, InLine
    <3>3. child'[s].mailbox = child[s].mailbox
      BY <1>5
    <3>4. InLine(s)'
      BY <1>2, <2>1, <2>2, <3>1, <3>2, <3>3 DEF Sound, InLine
    <3> QED
      BY <1>2, <2>2, <2>6, <3>4 DEF Coming
  <2>8. Member(s)'
    <3>1. CASE s = t
      BY <1>3, <2>3, <2>5, <3>1 DEF Member
    <3>2. CASE s # t
      BY <1>2, <1>5, <2>1, <2>3, <2>5, <3>2 DEF Sound, Member
    <3> QED
      BY <3>1, <3>2
  <2>9. Follows(s)'
    <3>1. CASE s = t
      BY <1>5, <3>1 DEF Follows, Informed, Pending
    <3>2. CASE s # t
      BY <1>2, <1>5, <2>1, <2>7, <3>2 DEF Sound, Follows
    <3> QED
      BY <3>1, <3>2
  <2> QED
    BY <2>7, <2>8, <2>9 DEF Sound
<1> QED
  BY <1>6, <1>7

\* A subscriber asks the store for something and waits for it.
LEMMA AskStep ==
  ASSUME IInv, NEW t \in Subscribers, read_active(t) \/ ask_env_vars(t)
  PROVE  Waits' /\ \A s \in Subscribers : Sound(s)'
<1>1. PICK type \in Asks, phase \in {"reading", "waiting"} :
        /\ store' = With(store, [type |-> type, from |-> t])
        /\ child' = [child EXCEPT ![t].phase = phase]
        /\ \/ type = "read" /\ phase = "reading" /\ child[t].phase = "subscribed"
           \/ type = "env" /\ phase = "waiting" /\ child[t].phase = "asking"
  BY DEF read_active, ask_env_vars, Asks
<1>2. adrift' = adrift /\ active' = active /\ pubsub' = pubsub /\ compiling' = compiling
  BY DEF read_active, ask_env_vars
<1> DEFINE r == [type |-> type, from |-> t]
<1>3. /\ TypeOK /\ store \in Store /\ store.mailbox \in Seq(Request)
      /\ r \in Request /\ r.type = type /\ r.from = t
  BY Types, EventTypes DEF IInv, Store, Asks
<1> HIDE DEF r
<1>4. store'.mailbox = Append(store.mailbox, r) /\ store'.event = store.event
  BY <1>1, <1>3, ToStore DEF r
<1>5. /\ child'[t].phase = phase /\ child'[t].mailbox = child[t].mailbox
      /\ child'[t].loaded = child[t].loaded /\ child'[t].next = child[t].next
      /\ \A s \in Subscribers : s # t => child'[s] = child[s]
  BY <1>1, <1>3, SetPhase
<1>6. Waits'
  <2>1. WaitsIn(store.mailbox, child')
    BY <1>1, <1>5, SameWaits
  <2>2. \A i \in DOMAIN store.mailbox : store.mailbox[i] # r
    BY <1>1, <1>3 DEF IInv, Waits, WaitsIn
  <2>3. WaitsIn(Append(store.mailbox, r), child')
    BY <1>1, <1>3, <1>5, <2>1, <2>2, WaitsAppend
  <2> QED
    BY <1>4, <2>3 DEF Waits
<1>7. \A s \in Subscribers : SameWay(s)
  BY <1>2, <1>4, <1>5 DEF SameWay, InHand
<1>8. Member(t)'
  BY <1>1, <1>2 DEF IInv, Member
<1>9. Informed(child'[t]) => Informed(child[t]) /\ Current(child'[t]) = Current(child[t])
  BY <1>1, <1>5 DEF Informed, Current, Pending
<1> QED
  BY <1>2, <1>5, <1>6, <1>7, <1>8, <1>9, OwnStep

LEMMA SubscribeTimesOutStep ==
  ASSUME IInv, NEW t \in Subscribers, subscribe_times_out(t)
  PROVE  Waits' /\ \A s \in Subscribers : Sound(s)'
<1>1. TypeOK
  BY DEF IInv
<1>2. /\ child' = [child EXCEPT ![t].phase = "subscribed"]
      /\ child[t].phase = "subscribing" /\ adrift' = adrift
      /\ active' = active /\ store' = store /\ pubsub' = pubsub /\ compiling' = compiling
  BY DEF subscribe_times_out
<1>3. /\ child'[t].phase = "subscribed" /\ child'[t].mailbox = child[t].mailbox
      /\ \A s \in Subscribers : s # t => child'[s] = child[s]
  BY <1>1, <1>2, SetPhase
<1>4. Waits'
  BY <1>2, <1>3, SameWaits
<1>5. \A s \in Subscribers : SameWay(s)
  BY <1>2, <1>3 DEF SameWay, InHand
<1>6. Member(t)'
  BY <1>2 DEF IInv, Member
<1> QED
  BY <1>2, <1>3, <1>4, <1>5, <1>6, OwnStep DEF Informed, Pending

LEMMA StartupStep ==
  ASSUME IInv, NEW t \in Subscribers, startup_compiled(t)
  PROVE  Waits' /\ \A s \in Subscribers : Sound(s)'
<1>1. TypeOK /\ child[t].phase = "compiling"
      /\ adrift' = adrift /\ active' = active /\ store' = store /\ pubsub' = pubsub
      /\ compiling' = compiling
  BY DEF IInv, startup_compiled
<1>2. /\ child'[t].phase \in {"ready", "asking"} /\ child'[t].mailbox = child[t].mailbox
      /\ Current(child'[t]) = Current(child[t])
      /\ \A s \in Subscribers : s # t => child'[s] = child[s]
  <2>1. CASE child' = Loads(t)
    BY <1>1, <2>1, Loading DEF Current, Pending
  <2>2. CASE child' = [child EXCEPT ![t].phase = "asking"]
    BY <1>1, <2>2, SetPhase DEF Current, Pending
  <2> QED
    BY <2>1, <2>2 DEF startup_compiled
<1>3. Waits'
  BY <1>1, <1>2, SameWaits
<1>4. \A s \in Subscribers : SameWay(s)
  BY <1>1, <1>2 DEF SameWay, InHand
<1>5. Member(t)'
  BY <1>1 DEF IInv, Member
<1> QED
  BY <1>1, <1>2, <1>3, <1>4, <1>5, OwnStep DEF Informed, Pending

LEMMA EnvTimesOutStep ==
  ASSUME IInv, NEW t \in Subscribers, env_times_out(t)
  PROVE  Waits' /\ \A s \in Subscribers : Sound(s)'
<1>1. /\ TypeOK /\ Waits /\ store \in Store /\ child[t].phase = "waiting"
      /\ store' = [store EXCEPT !.mailbox = Abandon({t})] /\ child' = Loads(t)
      /\ adrift' = adrift /\ active' = active /\ pubsub' = pubsub /\ compiling' = compiling
  BY Types DEF IInv, env_times_out
<1>2. /\ child'[t].phase = "ready" /\ child'[t].mailbox = child[t].mailbox
      /\ Current(child'[t]) = Current(child[t])
      /\ \A s \in Subscribers : s # t => child'[s] = child[s]
  BY <1>1, Loading DEF Current, Pending
<1>3. Waits'
  <2>1. WaitsIn(Abandon({t}), child')
    BY <1>1, <1>2, WaitsAbandon
  <2> QED
    BY <1>1, <2>1 DEF Waits, Store
<1>4. \A s \in Subscribers : SameWay(s)
  BY <1>1, <1>2 DEF SameWay, InHand, Store
<1>5. Member(t)'
  BY <1>1 DEF IInv, Member
<1> QED
  BY <1>1, <1>2, <1>3, <1>4, <1>5, OwnStep DEF Informed, Pending

LEMMA EventStep ==
  ASSUME IInv, NEW t \in Subscribers, module_event(t)
  PROVE  Waits' /\ \A s \in Subscribers : Sound(s)'
<1> DEFINE h == Head(child[t].mailbox)
           X == One(h, EventsOf(t))
<1>1. /\ TypeOK /\ child \in [Subscribers -> Child] /\ child[t] \in Child
      /\ compiling \in [Subscribers -> SUBSET Nat]
      /\ child[t].mailbox # <<>> /\ child[t].phase = "ready"
      /\ h.type = "Activated" /\ h \in Message
  BY Types, FromChild DEF IInv, TypeOK, module_event, Receives, Versions
<1>2. h.version \in Nat /\ (h.of = t <=> h \in EventsOf(t)) /\ One(h, Results) = {}
  BY <1>1 DEF Message, Event, EventsOf, Versions, One, Results
<1>3. /\ child' = [child EXCEPT ![t] = Handled(child[t])]
      /\ \/ h.of = t /\ compiling' = [compiling EXCEPT ![t] = @ \cup {h.version}]
         \/ (h.of # t \/ child[t].loaded = h.version) /\ compiling' = compiling
      /\ adrift' = adrift /\ active' = active /\ pubsub' = pubsub /\ store' = store
  BY DEF module_event
<1>4. /\ child'[t] = Handled(child[t])
      /\ \A s \in Subscribers : s # t => child'[s] = child[s] /\ compiling'[s] = compiling[s]
  BY <1>1, <1>3
<1>5. /\ child'[t].mailbox = Tail(child[t].mailbox) /\ child'[t].phase = child[t].phase
      /\ Current(child'[t]) = Current(child[t]) /\ Current(child[t]) = child[t].loaded
  <2>1. \A c \in Child : c.mailbox # <<>>
          => /\ Handled(c).mailbox = Tail(c.mailbox) /\ Handled(c).phase = c.phase
             /\ Handled(c).loaded = c.loaded /\ Handled(c).next = c.next
    BY FromChild
  <2> QED
    BY <1>1, <1>4, <2>1 DEF Current, Pending
<1>6. Waits'
  BY <1>3, <1>4, <1>5, SameWaits
<1>7. ASSUME NEW s \in Subscribers, s # t
      PROVE  Sound(s)'
  <2>1. SameWay(s) /\ Sound(s)
    BY <1>3, <1>4, <1>7 DEF SameWay, InHand, IInv, Sound
  <2> QED
    BY <1>3, <1>4, <1>7, <2>1, Bystander
<1>8. Sound(t)'
  <2>1. Sound(t)
    BY DEF IInv, Sound
  <2>2. /\ Sent(t)' = Sent(t) /\ Published(t)' = Published(t) /\ Heard(t)' = Heard(t)
        /\ InHand(t)' = InHand(t)
    BY <1>3 DEF Sent, Published, Heard, InHand
  <2>3. /\ Finished(t)' = Finished(t) /\ Told(t) = Told(t)' \cup X
        /\ t \notin adrift => Increasing(child'[t].mailbox, Results)
        /\ Increasing(child'[t].mailbox, EventsOf(t)) /\ Below(X, Told(t)')
    <3>1. /\ t \notin adrift => Increasing(child[t].mailbox, Results)
          /\ Increasing(child[t].mailbox, EventsOf(t))
      BY <2>1 DEF Sound, InLine
    <3>2. /\ Finished(t) = Finished(t)' \cup One(h, Results)
          /\ Told(t) = Told(t)' \cup X
          /\ Increasing(child[t].mailbox, Results)
               => Increasing(child'[t].mailbox, Results)
          /\ Increasing(child[t].mailbox, EventsOf(t))
               => /\ Increasing(child'[t].mailbox, EventsOf(t))
                  /\ Below(X, Told(t)')
      BY <1>1, <1>5, Handling
    <3> QED
      BY <1>2, <3>1, <3>2
  <2>4. /\ X \subseteq Nat /\ Told(t)' \subseteq Nat
        /\ Finished(t) \subseteq Nat /\ compiling[t] \subseteq Nat
    BY <1>1, <2>3, StageTypes
  <2>5. Member(t)'
    BY <1>3, <1>5, <2>1 DEF Sound, Member
  <2>6. Stages(Done(t), Made(t), Told(t)' \cup X, InHand(t), Sent(t), Published(t), active[t])
    BY <2>1, <2>3 DEF Sound, InLine, StagesOf
  <2>7. Done(t)' = Done(t)
    BY <1>3, <2>3 DEF Done
  <2>8. CASE h.of = t /\ compiling' = [compiling EXCEPT ![t] = @ \cup {h.version}]
    <3>1. X = {h.version}
      BY <1>2, <2>8 DEF One
    <3>2. compiling'[t] = compiling[t] \cup X
      BY <1>1, <2>8, <3>1
    <3> HIDE DEF X
    <3>3. StagesOf(t)'
      <4>1. Stages(Done(t), Made(t) \cup X, Told(t)', InHand(t), Sent(t), Published(t),
                   active[t])
        BY <1>1, <2>3, <2>4, <2>6, StagesMove, StageTypes
      <4>2. Made(t)' \subseteq Made(t) \cup X
        BY <1>3, <3>2 DEF Made
      <4>3. Stages(Done(t), Made(t)', Told(t)', InHand(t), Sent(t), Published(t), active[t])
        BY <4>1, <4>2, StagesLose
      <4> QED
        BY <1>3, <2>2, <2>7, <4>3 DEF StagesOf
    <3>4. Below(Finished(t)' \cup compiling'[t], {active[t]})
      <4>1. Below(X, {active[t]})
        BY <2>6 DEF Stages, Below
      <4>2. Below(Finished(t) \cup compiling[t], {active[t]})
        BY <2>1 DEF Sound, InLine
      <4> QED
        BY <2>3, <3>2, <4>1, <4>2 DEF Below
    <3>5. InLine(t)'
      BY <1>3, <2>1, <2>3, <3>3, <3>4 DEF Sound, InLine
    <3>6. Coming(t)' = Coming(t)
      BY <2>2, <2>3, <3>2 DEF Coming
    <3>7. Follows(t)'
      BY <1>3, <1>5, <2>1, <3>6 DEF Sound, Follows, Informed
    <3> QED
      BY <2>5, <3>5, <3>7 DEF Sound
  <2>9. CASE (h.of # t \/ child[t].loaded = h.version) /\ compiling' = compiling
    <3>1. X \subseteq {Current(child[t])}
      BY <1>2, <1>5, <2>9 DEF One
    <3>2. Made(t)' = Made(t)
      BY <1>3, <2>9 DEF Made
    <3>3. StagesOf(t)'
      <4> HIDE DEF X
      <4>1. Stages(Done(t), Made(t), Told(t)', InHand(t), Sent(t), Published(t), active[t])
        BY <2>6, StagesLose
      <4> QED
        BY <1>3, <2>2, <2>7, <3>2, <4>1 DEF StagesOf
    <3>4. InLine(t)'
      BY <1>3, <2>1, <2>3, <2>9, <3>3 DEF Sound, InLine
    <3>5. /\ Coming(t)' \subseteq Coming(t)
          /\ Coming(t) \subseteq Coming(t)' \cup {Current(child[t])}
      BY <2>2, <2>3, <2>9, <3>1 DEF Coming
    <3>6. Follows(t)'
      <4>1. SUFFICES ASSUME t \notin adrift
                     PROVE  Leads(Current(child[t]), Coming(t)', active[t])
        BY <1>3, <1>5 DEF Follows
      <4>2. Leads(Current(child[t]), Coming(t), active[t])
        BY <1>1, <2>1, <4>1 DEF Sound, Follows, Informed
      <4> QED
        BY <3>5, <4>2 DEF Leads, Below
    <3> QED
      BY <2>5, <3>4, <3>6 DEF Sound
  <2> QED
    BY <1>3, <2>8, <2>9
<1> QED
  BY <1>6, <1>7, <1>8

LEMMA CompilationStep ==
  ASSUME IInv, NEW t \in Subscribers, NEW v \in compiling[t], compilation_ends(t, v)
  PROVE  Waits' /\ \A s \in Subscribers : Sound(s)'
<1> DEFINE m == [type |-> "Compiled", version |-> v]
<1>1. /\ TypeOK /\ child \in [Subscribers -> Child] /\ child[t] \in Child
      /\ compiling \in [Subscribers -> SUBSET Nat] /\ v \in Nat
  BY Types DEF IInv, TypeOK, Versions
<1>2. m \in Message /\ One(m, Results) = {v} /\ One(m, EventsOf(t)) = {}
  BY <1>1 DEF Message, Versions, One, Results, EventsOf
<1>3. /\ child' = [child EXCEPT ![t] = With(child[t], m)]
      /\ compiling' = [compiling EXCEPT ![t] = @ \ {v}]
      /\ adrift' = IF \E w \in compiling[t] : w < v THEN adrift \cup {t} ELSE adrift
      /\ active' = active /\ pubsub' = pubsub /\ store' = store
  BY DEF compilation_ends
<1> HIDE DEF m
<1>4. /\ child'[t] = With(child[t], m) /\ compiling[t] = compiling'[t] \cup {v}
      /\ \A s \in Subscribers : s # t => /\ child'[s] = child[s]
                                         /\ compiling'[s] = compiling[s]
                                         /\ s \in adrift' <=> s \in adrift
  BY <1>1, <1>3
<1>5. /\ Finished(t)' = Finished(t) \cup {v} /\ Told(t)' = Told(t)
      /\ Increasing(child[t].mailbox, Results) /\ Below(Finished(t), {v})
           => Increasing(child'[t].mailbox, Results)
      /\ Increasing(child[t].mailbox, EventsOf(t))
           => Increasing(child'[t].mailbox, EventsOf(t))
      /\ child'[t].phase = child[t].phase /\ Current(child'[t]) = Current(child[t])
  <2>1. Below(VersionsIn(child[t].mailbox, EventsOf(t)), {})
    BY DEF Below
  <2>2. /\ Finished(t)' = Finished(t) \cup One(m, Results)
        /\ Told(t)' = Told(t) \cup One(m, EventsOf(t))
        /\ \A K \in {Results, EventsOf(t)} :
             /\ Increasing(child[t].mailbox, K)
             /\ Below(VersionsIn(child[t].mailbox, K), One(m, K))
             => Increasing(child'[t].mailbox, K)
        /\ child'[t].phase = child[t].phase /\ Current(child'[t]) = Current(child[t])
    BY <1>1, <1>2, <1>4, Receiving
  <2> QED
    BY <1>2, <2>1, <2>2 DEF Finished
<1>6. Waits'
  BY <1>3, <1>4, <1>5, SameWaits
<1>7. ASSUME NEW s \in Subscribers, s # t
      PROVE  Sound(s)'
  <2>1. SameWay(s) /\ Sound(s)
    BY <1>3, <1>4, <1>7 DEF SameWay, InHand, IInv, Sound
  <2> QED
    BY <1>4, <1>7, <2>1, Bystander
<1>8. Sound(t)'
  <2>1. Sound(t)
    BY DEF IInv, Sound
  <2>2. /\ Sent(t)' = Sent(t) /\ Published(t)' = Published(t) /\ Heard(t)' = Heard(t)
        /\ InHand(t)' = InHand(t)
    BY <1>3 DEF Sent, Published, Heard, InHand
  <2>3. Finished(t)' \cup compiling'[t] = Finished(t) \cup compiling[t]
    BY <1>4, <1>5
  <2>4. Coming(t)' = Coming(t)
    BY <1>5, <2>2, <2>3 DEF Coming
  <2>5. Stages(Done(t), Made(t), Told(t), InHand(t), Sent(t), Published(t), active[t])
    BY <2>1 DEF Sound, InLine, StagesOf
  <2>6. Member(t)'
    BY <1>3, <1>5, <2>1 DEF Sound, Member
  <2>7. CASE t \in adrift'
    <3>1. Done(t)' = {} /\ Made(t)' = {}
      BY <2>7 DEF Done, Made
    <3>2. Stages({}, {}, Told(t), InHand(t), Sent(t), Published(t), active[t])
      BY <2>5, StagesLose
    <3>3. StagesOf(t)'
      BY <1>3, <1>5, <2>2, <3>1, <3>2 DEF StagesOf
    <3>4. InLine(t)'
      BY <1>3, <1>5, <2>1, <2>3, <2>7, <3>3 DEF Sound, InLine
    <3>5. Follows(t)'
      BY <2>7 DEF Follows
    <3> QED
      BY <2>6, <3>4, <3>5 DEF Sound
  <2>8. CASE t \notin adrift'
    <3>1. t \notin adrift /\ Below({v}, compiling'[t])
      <4>1. t \notin adrift /\ ~\E w \in compiling[t] : w < v
        BY <1>3, <2>8
      <4>2. compiling[t] \subseteq Nat
        BY <1>1
      <4> QED
        BY <1>1, <1>4, <4>1, <4>2 DEF Below
    <3>2. /\ Done(t) = Finished(t) /\ Made(t) = compiling'[t] \cup {v}
          /\ Done(t)' = Finished(t) \cup {v} /\ Made(t)' = compiling'[t]
      BY <1>4, <1>5, <2>8, <3>1 DEF Done, Made
    <3>3. StagesOf(t)'
      <4>1. {v} \in SUBSET Nat /\ compiling'[t] \in SUBSET Nat
        BY <1>1, <1>4
      <4>2. Stages(Finished(t), compiling'[t] \cup {v}, Told(t), InHand(t), Sent(t),
                   Published(t), active[t])
        BY <2>5, <3>2
      <4>3. Stages(Finished(t) \cup {v}, compiling'[t], Told(t), InHand(t), Sent(t),
                   Published(t), active[t])
        BY <1>1, <3>1, <4>1, <4>2, StagesMove, StageTypes
      <4> QED
        BY <1>3, <1>5, <2>2, <3>2, <4>3 DEF StagesOf
    <3>4. InLine(t)'
      <4>1. Below(Finished(t), {v})
        BY <2>5, <3>2 DEF Stages, Below
      <4> QED
        BY <1>3, <1>5, <2>1, <2>3, <3>1, <3>3, <4>1 DEF Sound, InLine
    <3>5. Follows(t)'
      BY <1>3, <1>5, <2>1, <2>4, <3>1 DEF Sound, Follows, Informed
    <3> QED
      BY <2>6, <3>4, <3>5 DEF Sound
  <2> QED
    BY <2>7, <2>8
<1> QED
  BY <1>6, <1>7, <1>8

LEMMA CompiledStep ==
  ASSUME IInv, NEW t \in Subscribers, module_compiled(t)
  PROVE  Waits' /\ \A s \in Subscribers : Sound(s)'
<1> DEFINE h == Head(child[t].mailbox)
           v == h.version
           c == Handled(child[t])
<1>1. /\ TypeOK /\ child \in [Subscribers -> Child] /\ child[t] \in Child
      /\ child[t].mailbox # <<>> /\ child[t].phase = "ready"
      /\ h.type = "Compiled" /\ h \in Message
      /\ c \in Child /\ c.mailbox = Tail(child[t].mailbox) /\ c.phase = "ready"
  BY Types, FromChild DEF IInv, TypeOK, module_compiled, Receives
<1>2. v \in Nat /\ One(h, Results) = {v} /\ One(h, EventsOf(t)) = {}
  BY <1>1 DEF Message, Event, EventsOf, Versions, One, Results
<1>3. /\ \/ child' = [child EXCEPT ![t] = [c EXCEPT !.loaded = v]]
         \/ child' = [child EXCEPT ![t] = [c EXCEPT !.phase = "asking", !.next = v]]
      /\ adrift' = adrift /\ active' = active /\ pubsub' = pubsub /\ compiling' = compiling
      /\ store' = store
  BY <1>1 DEF module_compiled
<1> HIDE DEF v, c
<1>4. /\ child'[t].mailbox = Tail(child[t].mailbox) /\ Current(child'[t]) = v
      /\ child'[t].phase \in {"ready", "asking"}
      /\ \A s \in Subscribers : s # t => child'[s] = child[s]
  <2>1. /\ [c EXCEPT !.loaded = v].mailbox = Tail(child[t].mailbox)
        /\ [c EXCEPT !.loaded = v].phase = "ready"
        /\ Current([c EXCEPT !.loaded = v]) = v
        /\ [c EXCEPT !.phase = "asking", !.next = v].mailbox = Tail(child[t].mailbox)
        /\ [c EXCEPT !.phase = "asking", !.next = v].phase = "asking"
        /\ Current([c EXCEPT !.phase = "asking", !.next = v]) = v
    BY <1>1 DEF Child, Current, Pending
  <2> QED
    BY <1>1, <1>3, <2>1
<1>5. Waits'
  BY <1>1, <1>3, <1>4, SameWaits
<1>6. ASSUME NEW s \in Subscribers, s # t
      PROVE  Sound(s)'
  <2>1. SameWay(s) /\ Sound(s)
    BY <1>3, <1>4, <1>6 DEF SameWay, InHand, IInv, Sound
  <2> QED
    BY <1>3, <1>4, <1>6, <2>1, Bystander
<1>7. Sound(t)'
  <2>1. Sound(t)
    BY DEF IInv, Sound
  <2>2. /\ Sent(t)' = Sent(t) /\ Published(t)' = Published(t) /\ Heard(t)' = Heard(t)
        /\ InHand(t)' = InHand(t)
    BY <1>3 DEF Sent, Published, Heard, InHand
  <2>3. /\ Finished(t) = Finished(t)' \cup {v} /\ Told(t)' = Told(t)
        /\ t \notin adrift
             => Increasing(child'[t].mailbox, Results) /\ Below({v}, Finished(t)')
        /\ Increasing(child'[t].mailbox, EventsOf(t))
    <3>1. /\ t \notin adrift => Increasing(child[t].mailbox, Results)
          /\ Increasing(child[t].mailbox, EventsOf(t))
      BY <2>1 DEF Sound, InLine
    <3>2. /\ Finished(t) = Finished(t)' \cup One(h, Results)
          /\ Told(t) = Told(t)' \cup One(h, EventsOf(t))
          /\ Increasing(child[t].mailbox, Results)
               => /\ Increasing(child'[t].mailbox, Results)
                  /\ Below(One(h, Results), Finished(t)')
          /\ Increasing(child[t].mailbox, EventsOf(t))
               => Increasing(child'[t].mailbox, EventsOf(t))
      BY <1>1, <1>4, Handling
    <3> QED
      BY <1>2, <3>1, <3>2
  <2>4. Stages(Done(t), Made(t), Told(t), InHand(t), Sent(t), Published(t), active[t])
    BY <2>1 DEF Sound, InLine, StagesOf
  <2>5. InLine(t)'
    <3>1. Done(t)' \subseteq Done(t) /\ Made(t)' = Made(t)
      BY <1>3, <2>3 DEF Done, Made
    <3>2. Stages(Done(t)', Made(t), Told(t), InHand(t), Sent(t), Published(t), active[t])
      BY <2>4, <3>1, StagesLose
    <3>3. StagesOf(t)'
      BY <1>3, <2>2, <2>3, <3>1, <3>2 DEF StagesOf
    <3>4. Below(Finished(t)' \cup compiling'[t], {active[t]})
      BY <1>3, <2>1, <2>3 DEF Sound, InLine, Below
    <3> QED
      BY <1>3, <2>1, <2>3, <3>3, <3>4 DEF Sound, InLine
  <2>6. Member(t)'
    BY <1>1, <1>3, <2>1 DEF Sound, Member
  <2>7. Coming(t) = Coming(t)' \cup {v}
    BY <1>3, <2>2, <2>3 DEF Coming
  <2>8. Follows(t)'
    <3>1. SUFFICES ASSUME t \notin adrift
                   PROVE  Leads(v, Coming(t)', active[t])
      BY <1>3, <1>4 DEF Follows
    <3>2. Leads(Current(child[t]), Coming(t), active[t])
      BY <1>1, <2>1, <3>1 DEF Sound, Follows, Informed
    <3>3. Current(child[t]) \in Nat /\ active[t] \in Nat
      BY <1>1, Types, CurrentIsNat
    <3>4. Current(child[t]) <= v
      BY <2>7, <3>2 DEF Leads, Below
    <3>5. Below({v}, Coming(t)') /\ v <= active[t]
      <4>1. Heard(t) \subseteq Sent(t)
        BY HeardAll DEF Heard, Sent
      <4>2. Done(t) = Finished(t) /\ Made(t) = compiling[t]
        BY <3>1 DEF Done, Made
      <4>3. /\ v <= active[t]
            /\ Below({v}, compiling[t] \cup Told(t) \cup InHand(t) \cup Sent(t)
                            \cup Published(t))
        BY <2>3, <2>4, <4>2 DEF Stages, Below
      <4>4. Coming(t)' = Finished(t)' \cup compiling[t] \cup Told(t) \cup InHand(t)
                           \cup Heard(t) \cup Published(t)
        BY <1>3, <2>2, <2>3 DEF Coming
      <4> QED
        BY <2>3, <3>1, <4>1, <4>3, <4>4 DEF Below
    <3>6. active[t] \in Coming(t)' \cup {v}
      <4>1. active[t] \in Coming(t) \/ active[t] = Current(child[t])
        BY <3>2 DEF Leads
      <4>2. active[t] = Current(child[t]) => active[t] = v
        BY <1>2, <3>3, <3>4, <3>5
      <4> QED
        BY <2>7, <4>1, <4>2
    <3> QED
      BY <3>5, <3>6 DEF Leads
  <2> QED
    BY <2>5, <2>6, <2>8 DEF Sound
<1> QED
  BY <1>5, <1>6, <1>7

-----------------------------------------------------------------------------
(* Restarts *)

LEMMA Empties ==
  ASSUME NEW K, NEW s, NEW A
  PROVE  /\ VersionsIn(<<>>, K) = {} /\ Increasing(<<>>, K)
         /\ HeardIn(<<>>, A, s) = {}
         /\ One(None, EventsOf(s)) = {}
<1>1. DOMAIN <<>> = {}
  OBVIOUS
<1>2. One(None, EventsOf(s)) = {}
  BY DEF One, EventsOf, None
<1> QED
  BY <1>1, <1>2 DEF VersionsIn, Increasing, HeardIn

\* Where nothing is on its way everything is in order.
LEMMA EmptyWay ==
  ASSUME NEW s \in Subscribers,
         child[s].mailbox = <<>>, compiling[s] = {},
         pubsub.mailbox = <<>>, pubsub.event = None, store.event = None
  PROVE  InLine(s) /\ Coming(s) = {}
<1>1. /\ Finished(s) = {} /\ Told(s) = {} /\ InHand(s) = {} /\ Sent(s) = {}
      /\ Published(s) = {} /\ Heard(s) = {} /\ Done(s) = {} /\ Made(s) = {}
  BY Empties DEF Finished, Told, InHand, Sent, Published, Heard, Done, Made
<1>2. StagesOf(s)
  BY <1>1 DEF StagesOf, Stages, Below
<1>3. InLine(s)
  BY <1>1, <1>2, Empties DEF InLine, Below
<1> QED
  BY <1>1, <1>3 DEF Coming

LEMMA ProcessStep ==
  ASSUME IInv, NEW t \in Subscribers, process_restarts(t)
  PROVE  Waits' /\ \A s \in Subscribers : Sound(s)'
<1>1. /\ store'.mailbox = <<>> /\ store'.event = None
      /\ pubsub'.mailbox = <<>> /\ pubsub'.event = None
      /\ \A s \in Subscribers :
           /\ child'[s].mailbox = <<>> /\ child'[s].phase = "starting"
           /\ compiling'[s] = {}
  BY DEF process_restarts, Started
<1>2. Waits'
  <2>1. DOMAIN <<>> = {}
    OBVIOUS
  <2> QED
    BY <1>1, <2>1 DEF Waits, WaitsIn
<1>3. ASSUME NEW s \in Subscribers
      PROVE  Sound(s)'
  <2>1. /\ Finished(s)' = {} /\ Told(s)' = {} /\ InHand(s)' = {} /\ Sent(s)' = {}
        /\ Published(s)' = {} /\ Done(s)' = {} /\ Made(s)' = {}
    BY <1>1, Empties DEF Finished, Told, InHand, Sent, Published, Done, Made
  <2>2. StagesOf(s)'
    BY <2>1 DEF StagesOf, Stages, Below
  <2>3. InLine(s)'
    BY <1>1, <2>1, <2>2, Empties DEF InLine, Below
  <2>4. Member(s)' /\ Follows(s)'
    BY <1>1 DEF Member, Follows, Informed, Pending
  <2> QED
    BY <2>3, <2>4 DEF Sound
<1> QED
  BY <1>2, <1>3

\* Who is restarted loses what was in the hands of the pubsub and of the store, and has
\* to subscribe and to ask again; who is not loses nothing.
LEMMA RestartStep ==
  ASSUME IInv, NEW x, Restart(supervision_strategy(x)),
         active' = active, compiling' = compiling, adrift' = adrift
  PROVE  Waits' /\ \A s \in Subscribers : Sound(s)'
<1> DEFINE R == supervision_strategy(x)
<1>1. /\ TypeOK /\ Waits /\ store \in Store /\ pubsub \in Pubsub
      /\ child \in [Subscribers -> Child]
  BY Types DEF IInv, TypeOK
<1>2. /\ "pubsub" \in R \/ "store" \in R => Subscribers \subseteq R
      /\ "pubsub" \in R => "store" \in R
  BY RestForOne
<1>3. /\ store' = IF "store" \in R
                    THEN [mailbox |-> Abandon(R), event |-> None, by |-> Nobody]
                    ELSE [store EXCEPT !.mailbox = Abandon(R)]
      /\ pubsub' = IF "pubsub" \in R
                     THEN [pubsub EXCEPT !.event = None, !.remaining = {}, !.subscribers = {}]
                     ELSE pubsub
      /\ child' = [s \in Subscribers |->
           IF s \in R THEN [Started EXCEPT !.phase = "starting",
                                           !.mailbox = child[s].mailbox]
                      ELSE child[s]]
  BY DEF Restart
<1> HIDE DEF R
<1>4. /\ store'.mailbox = Abandon(R)
      /\ "store" \in R => store'.event = None
      /\ "store" \notin R => store'.event = store.event
  BY <1>1, <1>3 DEF Store
<1>5. /\ pubsub'.mailbox = pubsub.mailbox
      /\ "pubsub" \in R => pubsub'.remaining = {}
      /\ "pubsub" \notin R => pubsub' = pubsub
  BY <1>1, <1>3 DEF Pubsub
<1>6. \A s \in Subscribers :
        /\ s \in R => child'[s].phase = "starting" /\ child'[s].mailbox = child[s].mailbox
        /\ s \notin R => child'[s] = child[s]
  BY <1>3 DEF Started
<1>7. Waits'
  <2>1. WaitsIn(Abandon(R), child')
    BY <1>1, <1>6, WaitsAbandon
  <2> QED
    BY <1>4, <2>1 DEF Waits
<1>8. ASSUME NEW s \in Subscribers
      PROVE  Sound(s)'
  <2>1. Sound(s)
    BY DEF IInv, Sound
  <2>2. CASE s \notin R
    <3>1. "pubsub" \notin R /\ "store" \notin R
      BY <1>2, <2>2
    <3>2. SameWay(s)
      BY <1>4, <1>5, <1>6, <2>2, <3>1 DEF SameWay, InHand
    <3> QED
      BY <1>6, <2>1, <2>2, <3>2, Bystander
  <2>3. CASE s \in R
    <3>1. /\ Finished(s)' = Finished(s) /\ Told(s)' = Told(s) /\ Sent(s)' = Sent(s)
          /\ Done(s)' = Done(s) /\ Made(s)' = Made(s)
      BY <1>5, <1>6, <2>3 DEF Finished, Told, Sent, Done, Made
    <3>2. InHand(s)' \subseteq InHand(s)
      BY <1>5 DEF InHand
    <3>3. Published(s)' \subseteq Published(s)
      BY <1>4, Empties DEF Published
    <3>4. StagesOf(s)'
      <4>1. Stages(Done(s), Made(s), Told(s), InHand(s), Sent(s), Published(s), active[s])
        BY <2>1 DEF Sound, InLine, StagesOf
      <4>2. Stages(Done(s), Made(s), Told(s), InHand(s)', Sent(s), Published(s)', active[s])
        BY <3>2, <3>3, <4>1, StagesLose
      <4> QED
        BY <3>1, <4>2 DEF StagesOf
    <3>5. InLine(s)'
      BY <1>5, <1>6, <2>1, <2>3, <3>1, <3>4 DEF Sound, InLine
    <3>6. Member(s)' /\ Follows(s)'
      BY <1>6, <2>3 DEF Member, Follows, Informed, Pending
    <3> QED
      BY <3>5, <3>6 DEF Sound
  <2> QED
    BY <2>2, <2>3
<1> QED
  BY <1>7, <1>8

-----------------------------------------------------------------------------
(* What one step does to a subscriber *)

\* The phase, the loaded version and the next one, before and after a step.
Keeps(c, d)  == d.phase = c.phase /\ d.loaded = c.loaded /\ d.next = c.next
Starts(d)    == d.phase = "starting" /\ d.loaded = 0
Prepares(c, d) ==
  /\ c.phase \in {"starting", "subscribing", "subscribed"}
  /\ d.phase \in {"subscribing", "subscribed", "reading"}
  /\ d.loaded = c.loaded
Learns(c, d) ==
  c.phase = "reading" /\ d.phase \in {"ready", "compiling"} /\ d.loaded = c.loaded
Compiles(c, d) ==
  c.phase = "compiling" /\ d.phase = "asking" /\ d.loaded = c.loaded /\ d.next = c.next
Waiting(c, d) ==
  c.phase = "asking" /\ d.phase = "waiting" /\ d.loaded = c.loaded /\ d.next = c.next
Enters(c, d) ==
  c.phase \in {"compiling", "waiting"} /\ d.phase = "ready" /\ d.loaded = c.next

GoesOn(c, d) ==
  Keeps(c, d) \/ Prepares(c, d) \/ Compiles(c, d) \/ Waiting(c, d) \/ Enters(c, d)

\* Only those that start again, or that learn what is active, are not adrift any more.
LEMMA ChildMoves ==
  ASSUME TypeOK, Waits, [Next]_vars, NEW s \in Subscribers, ~module_compiled(s)
  PROVE  \/ Starts(child'[s])
         \/ Learns(child[s], child'[s])
         \/ GoesOn(child[s], child'[s]) /\ (s \in adrift => s \in adrift')
<1> DEFINE Goal == \/ Starts(child'[s])
                   \/ Learns(child[s], child'[s])
                   \/ GoesOn(child[s], child'[s]) /\ (s \in adrift => s \in adrift')
<1> SUFFICES Goal
  OBVIOUS
<1>1. child \in [Subscribers -> Child] /\ child[s] \in Child
  BY DEF TypeOK
<1>2. ASSUME child'[s] = child[s], s \in adrift => s \in adrift'
      PROVE  Goal
  BY <1>2 DEF GoesOn, Keeps
<1> HIDE DEF Goal
<1>3. CASE child' = child /\ adrift' = adrift
  BY <1>2, <1>3
<1>4. CASE get_all_active_modules
  <2> DEFINE t == Head(store.mailbox).from
             phase == IF active[t] = 0 THEN "ready" ELSE "compiling"
  <2>1. /\ child' = [child EXCEPT ![t].phase = phase, ![t].next = active[t]]
        /\ adrift' = adrift \cup {t} \/ adrift' = adrift \ {t}
    BY <1>4 DEF get_all_active_modules
  <2>2. child[t].phase = "reading" /\ t \in Subscribers
    <3>1. /\ store.mailbox \in Seq(Request) /\ store.mailbox # <<>>
          /\ Head(store.mailbox).type = "read" /\ Head(store.mailbox) \in Request
      BY <1>4, Types, FromStore DEF get_all_active_modules, StoreHandles, Store
    <3>2. 1 \in DOMAIN store.mailbox /\ store.mailbox[1] = Head(store.mailbox)
      BY <3>1, LenProperties, HeadTailProperties, EmptySeq
    <3> QED
      BY <3>1, <3>2 DEF Waits, WaitsIn, Request, Abandoned
  <2>3. phase \in {"ready", "compiling"}
    OBVIOUS
  <2> HIDE DEF t, phase
  <2>4. CASE s = t
    BY <1>1, <2>1, <2>2, <2>3, <2>4 DEF Goal, Learns, Child
  <2>5. CASE s # t
    BY <1>1, <1>2, <2>1, <2>5
  <2> QED
    BY <2>4, <2>5
<1>5. CASE get_env_vars
  <2>1. /\ store.mailbox \in Seq(Request) /\ store.mailbox # <<>>
        /\ Head(store.mailbox).type = "env" /\ Head(store.mailbox) \in Request
    BY <1>5, Types, FromStore DEF get_env_vars, StoreHandles, Store
  <2>2. PICK t \in Subscribers : t = Head(store.mailbox).from
    BY <2>1 DEF Request, Abandoned
  <2>3. 1 \in DOMAIN store.mailbox /\ store.mailbox[1] = Head(store.mailbox)
    BY <2>1, LenProperties, HeadTailProperties, EmptySeq
  <2>4. child[t].phase = "waiting"
    BY <2>1, <2>2, <2>3 DEF Waits, WaitsIn
  <2>5. child' = Loads(t) /\ adrift' = adrift
    BY <1>5, <2>2 DEF get_env_vars
  <2> QED
    BY <1>2, <2>4, <2>5, Loading DEF Goal, GoesOn, Enters
<1>6. CASE pubsub_takes
  <2>1. /\ \/ child' = child
           \/ /\ child[Head(pubsub.mailbox).from].phase = "subscribing"
              /\ child' = [child EXCEPT ![Head(pubsub.mailbox).from].phase = "subscribed"]
        /\ adrift' = adrift
    BY <1>6 DEF pubsub_takes
  <2>2. \/ child'[s] = child[s]
        \/ child[s].phase = "subscribing" /\ child'[s] = [child[s] EXCEPT !.phase = "subscribed"]
    BY <1>1, <2>1
  <2>3. ASSUME child[s].phase = "subscribing",
               child'[s] = [child[s] EXCEPT !.phase = "subscribed"]
        PROVE  Goal
    BY <1>1, <2>1, <2>3 DEF Goal, GoesOn, Prepares, Child
  <2> QED
    BY <1>2, <2>1, <2>2, <2>3
<1>7. ASSUME NEW t \in Subscribers,
             \/ pubsub_delivers(t) \/ module_event(t)
             \/ \E v \in compiling[t] : compilation_ends(t, v)
      PROVE  Goal
  <2>1. /\ \/ child' = [child EXCEPT ![t] = Handled(child[t])]
           \/ \E m : child' = [child EXCEPT ![t] = With(child[t], m)]
        /\ s \in adrift => s \in adrift'
    BY <1>7 DEF pubsub_delivers, module_event, compilation_ends
  <2>2. \/ child'[s] = child[s]
        \/ child'[s] = Handled(child[s])
        \/ \E m : child'[s] = With(child[s], m)
    BY <1>1, <2>1
  <2>3. Keeps(child[s], child'[s])
    BY <1>1, <2>2 DEF Child, Handled, With, Keeps
  <2> QED
    BY <2>1, <2>3 DEF Goal, GoesOn
<1>8. ASSUME NEW t \in Subscribers, subscribe(t) \/ read_active(t) \/ subscribe_times_out(t)
      PROVE  Goal
  <2>1. PICK phase \in {"subscribing", "reading", "subscribed"} :
          child' = [child EXCEPT ![t].phase = phase]
    BY <1>8 DEF subscribe, read_active, subscribe_times_out
  <2>2. /\ child[t].phase \in {"starting", "subscribing", "subscribed"}
        /\ adrift' = adrift
    BY <1>8 DEF subscribe, read_active, subscribe_times_out
  <2>3. /\ child'[t].phase = phase /\ child'[t].loaded = child[t].loaded
        /\ s # t => child'[s] = child[s]
    BY <2>1, SetPhase
  <2> QED
    BY <1>2, <2>2, <2>3 DEF Goal, GoesOn, Prepares
<1>9. ASSUME NEW t \in Subscribers, ask_env_vars(t)
      PROVE  Goal
  <2>1. /\ child' = [child EXCEPT ![t].phase = "waiting"]
        /\ child[t].phase = "asking" /\ adrift' = adrift
    BY <1>9 DEF ask_env_vars
  <2>2. /\ child'[t].phase = "waiting" /\ child'[t].loaded = child[t].loaded
        /\ child'[t].next = child[t].next
        /\ s # t => child'[s] = child[s]
    BY <2>1, SetPhase
  <2> QED
    BY <1>2, <2>1, <2>2 DEF Goal, GoesOn, Waiting
<1>10. ASSUME NEW t \in Subscribers, startup_compiled(t)
       PROVE  Goal
  <2>1. child[t].phase = "compiling" /\ adrift' = adrift
    BY <1>10 DEF startup_compiled
  <2>2. CASE child' = Loads(t)
    BY <1>2, <2>1, <2>2, Loading DEF Goal, GoesOn, Enters
  <2>3. CASE child' = [child EXCEPT ![t].phase = "asking"]
    <3>1. /\ child'[t].phase = "asking" /\ child'[t].loaded = child[t].loaded
          /\ child'[t].next = child[t].next
          /\ s # t => child'[s] = child[s]
      BY <2>3, SetPhase
    <3> QED
      BY <1>2, <2>1, <3>1 DEF Goal, GoesOn, Compiles
  <2> QED
    BY <1>10, <2>2, <2>3 DEF startup_compiled
<1>11. ASSUME NEW t \in Subscribers, env_times_out(t)
       PROVE  Goal
  <2>1. child[t].phase = "waiting" /\ child' = Loads(t) /\ adrift' = adrift
    BY <1>11 DEF env_times_out
  <2> QED
    BY <1>2, <2>1, Loading DEF Goal, GoesOn, Enters
<1>12. ASSUME NEW t \in Subscribers, module_compiled(t)
       PROVE  Goal
  <2>1. child'[s] = child[s] /\ adrift' = adrift
    BY <1>1, <1>12 DEF module_compiled
  <2> QED
    BY <1>2, <2>1
<1>13. ASSUME NEW R, Restart(R), adrift' = adrift
       PROVE  Goal
  <2>1. Starts(child'[s]) \/ child'[s] = child[s]
    BY <1>13 DEF Restart, Started, Starts
  <2> QED
    BY <1>2, <1>13, <2>1 DEF Goal
<1>14. ASSUME NEW t \in Subscribers, process_restarts(t)
       PROVE  Goal
  BY <1>14 DEF process_restarts, Started, Starts, Goal
<1>15. CASE StoreStep
  <2>1. activate_module \/ publish \/ answers_nobody => child' = child /\ adrift' = adrift
    BY DEF activate_module, publish, answers_nobody
  <2> QED
    BY <1>3, <1>4, <1>5, <1>15, <2>1 DEF StoreStep
<1>16. CASE PubsubStep
  BY <1>6, <1>7, <1>16 DEF PubsubStep
<1>17. ASSUME NEW t \in Subscribers,
              SubscriberStep(t) \/ \E v \in compiling[t] : compilation_ends(t, v)
       PROVE  Goal
  <2>1. CASE read_fails(t)
    BY <1>13, <2>1 DEF read_fails
  <2> QED
    BY <1>7, <1>8, <1>9, <1>10, <1>11, <1>12, <1>14, <1>17, <2>1 DEF SubscriberStep
<1>18. ASSUME NEW x, panic(x)
       PROVE  Goal
  BY <1>13, <1>18 DEF panic
<1>19. CASE start_server \/ UNCHANGED vars
  BY <1>3, <1>19 DEF start_server, vars
<1>20. ASSUME NEW c \in Clients, client_activates(c) \/ \E t \in Subscribers : client_asks(c, t)
       PROVE  Goal
  BY <1>3, <1>20 DEF client_activates, client_asks
<1> QED
  BY <1>15, <1>16, <1>17, <1>18, <1>19, <1>20 DEF Next

LEMMA CompiledMoves ==
  ASSUME TypeOK, NEW t \in Subscribers, module_compiled(t)
  PROVE  LET v == Head(child[t].mailbox).version
         IN  /\ child[t].phase = "ready" /\ v \in Finished(t)
             /\ \/ child'[t].phase = "ready" /\ child'[t].loaded = v
                \/ /\ child'[t].phase = "asking" /\ child'[t].next = v
                   /\ child'[t].loaded = child[t].loaded
<1> DEFINE h == Head(child[t].mailbox)
           v == h.version
           c == Handled(child[t])
<1>1. /\ child \in [Subscribers -> Child] /\ child[t] \in Child
      /\ child[t].mailbox # <<>> /\ child[t].phase = "ready"
      /\ h.type = "Compiled" /\ h \in Message
      /\ c \in Child /\ c.phase = "ready" /\ c.loaded = child[t].loaded
  BY Types, FromChild DEF TypeOK, module_compiled, Receives
<1>2. One(h, Results) = {v}
  BY <1>1 DEF Message, Event, Versions, One, Results
<1>3. v \in Finished(t)
  <2>1. child[t].mailbox \in Seq(Message)
    BY <1>1 DEF Child
  <2>2. VersionsIn(child[t].mailbox, Results) =
          VersionsIn(Tail(child[t].mailbox), Results) \cup One(h, Results)
    BY <1>1, <2>1, TailVersions
  <2> QED
    BY <1>2, <2>2 DEF Finished
<1>4. \/ child' = [child EXCEPT ![t] = [c EXCEPT !.loaded = v]]
      \/ child' = [child EXCEPT ![t] = [c EXCEPT !.phase = "asking", !.next = v]]
  BY <1>1 DEF module_compiled
<1> HIDE DEF c, v
<1>5. \/ child'[t] = [c EXCEPT !.loaded = v]
      \/ child'[t] = [c EXCEPT !.phase = "asking", !.next = v]
  BY <1>1, <1>4
<1>6. /\ [c EXCEPT !.loaded = v].phase = "ready" /\ [c EXCEPT !.loaded = v].loaded = v
      /\ [c EXCEPT !.phase = "asking", !.next = v].phase = "asking"
      /\ [c EXCEPT !.phase = "asking", !.next = v].next = v
      /\ [c EXCEPT !.phase = "asking", !.next = v].loaded = child[t].loaded
  BY <1>1 DEF Child
<1> QED
  BY <1>1, <1>3, <1>5, <1>6 DEF v

LEMMA NextFresh ==
  ASSUME TypeOK, Waits, [Next]_vars, NEW s \in Subscribers, Fresh(s)
  PROVE  Fresh(s)'
<1>1. CASE module_compiled(s)
  BY <1>1, CompiledMoves DEF Fresh
<1>2. CASE Starts(child'[s]) \/ Learns(child[s], child'[s])
  BY <1>2 DEF Fresh, Starts, Learns
<1>3. CASE GoesOn(child[s], child'[s])
  BY <1>3 DEF Fresh, GoesOn, Keeps, Prepares, Compiles, Waiting, Enters
<1> QED
  BY <1>1, <1>2, <1>3, ChildMoves

-----------------------------------------------------------------------------
(* The invariant *)

LEMMA InitInv == Init => IInv
<1> SUFFICES ASSUME Init PROVE IInv
  OBVIOUS
<1>1. TypeOK
  BY InitType
<1>2. Waits
  <2>1. store.mailbox = <<>> /\ DOMAIN <<>> = {}
    BY DEF Init
  <2> QED
    BY <2>1 DEF Waits, WaitsIn
<1>3. ASSUME NEW s \in Subscribers
      PROVE  InLine(s) /\ Member(s) /\ Fresh(s) /\ Follows(s)
  <2>1. /\ child[s].mailbox = <<>> /\ compiling[s] = {} /\ pubsub.mailbox = <<>>
        /\ pubsub.event = None /\ store.event = None /\ s \in pubsub.subscribers
        /\ Current(child[s]) = 0 /\ active[s] = 0 /\ child[s].loaded = 0
    BY DEF Init, Started, Current, Pending
  <2>2. InLine(s) /\ Coming(s) = {}
    BY <2>1, EmptyWay
  <2> QED
    BY <2>1, <2>2 DEF Member, Fresh, Follows, Leads, Below
<1> QED
  BY <1>1, <1>2, <1>3 DEF IInv

LEMMA NextInv == IInv /\ [Next]_vars => IInv'
<1> SUFFICES ASSUME IInv, [Next]_vars
             PROVE  IInv'
  OBVIOUS
<1>1. TypeOK'
  BY NextType DEF IInv
<1>2. \A s \in Subscribers : Fresh(s)'
  BY NextFresh DEF IInv
<1> DEFINE Goal == Waits' /\ \A s \in Subscribers : Sound(s)'
<1>3. ASSUME NEW c \in Clients, client_activates(c) \/ \E s \in Subscribers : client_asks(c, s)
      PROVE  Goal
  BY <1>3, ClientStep, Idle DEF client_activates
<1>4. ASSUME StoreStep
      PROVE  Goal
  BY <1>4, ActivateStep, PublishStep, ReadStep, EnvStep, NobodyStep DEF StoreStep
<1>5. ASSUME PubsubStep
      PROVE  Goal
  BY <1>5, TakeSubscription, TakeEvent, DeliverStep DEF PubsubStep
<1>6. ASSUME NEW s \in Subscribers, SubscriberStep(s)
      PROVE  Goal
  <2>1. CASE read_fails(s)
    BY <2>1, RestartStep DEF read_fails
  <2> QED
    BY <1>6, <2>1, SubscribeStep, AskStep, StartupStep, EventStep, CompiledStep,
       SubscribeTimesOutStep, EnvTimesOutStep, ProcessStep DEF SubscriberStep
<1>7. ASSUME NEW s \in Subscribers, NEW v \in compiling[s], compilation_ends(s, v)
      PROVE  Goal
  BY <1>7, CompilationStep
<1>8. ASSUME start_server \/ UNCHANGED vars
      PROVE  Goal
  BY <1>8, Idle DEF start_server, vars
<1>9. ASSUME NEW x \in Mortal, panic(x)
      PROVE  Goal
  BY <1>9, RestartStep DEF panic
<1>10. Goal
  <2> HIDE DEF Goal
  <2> QED
    BY <1>3, <1>4, <1>5, <1>6, <1>7, <1>8, <1>9 DEF Next
<1> QED
  BY <1>1, <1>2, <1>10 DEF IInv, Sound

LEMMA NothingComing == IInv => InSync
<1> SUFFICES ASSUME IInv, Quiet, NEW s \in Subscribers \ adrift
             PROVE  child[s].loaded = active[s]
  BY DEF InSync
<1>1. Coming(s) = {} /\ child[s].phase = "ready"
  BY EmptyWay DEF Quiet
<1>2. Leads(Current(child[s]), {}, active[s])
  BY <1>1 DEF IInv, Follows, Informed
<1> QED
  BY <1>1, <1>2 DEF Leads, Current, Pending

\* Whichever actors die and in whatever order they are restarted, and however many
\* activations, timeouts and restarts of the process there were: once nothing is on its
\* way every subscriber runs what the store says is active, except one that started
\* with older activations still on their way to it, or one of whose versions was compiled
\* before an older one.
THEOREM StaysInSync == Spec => []InSync
BY InitInv, NextInv, NothingComing, PTL DEF Spec

-----------------------------------------------------------------------------
(* Newer versions only *)

\* What a supervisor waits for variables of is not older than what it runs.
Newer(s) ==
  s \notin adrift /\ child[s].phase \in {"asking", "waiting"}
    => child[s].loaded <= child[s].next

GInv == IInv /\ \A s \in Subscribers : Newer(s)

\* What one step may do to the version of a subscriber that goes on.
Forward(s) ==
  s \notin adrift /\ Runs(child[s]) /\ Runs(child'[s]) => child[s].loaded <= child'[s].loaded

LEMMA NextForward ==
  ASSUME GInv, [Next]_vars, NEW s \in Subscribers
  PROVE  Newer(s)' /\ Forward(s)
<1>1. /\ IInv /\ TypeOK /\ Waits /\ Fresh(s) /\ Newer(s)
      /\ child[s].loaded \in Nat /\ child[s].next \in Nat
  BY Types DEF GInv, IInv, Child, Versions
<1>2. CASE module_compiled(s)
  <2> DEFINE v == Head(child[s].mailbox).version
  <2>1. /\ child[s].phase = "ready" /\ v \in Finished(s)
        /\ \/ child'[s].phase = "ready" /\ child'[s].loaded = v
           \/ /\ child'[s].phase = "asking" /\ child'[s].next = v
              /\ child'[s].loaded = child[s].loaded
    BY <1>1, <1>2, CompiledMoves
  <2>2. adrift' = adrift
    BY <1>2 DEF module_compiled
  <2> HIDE DEF v
  <2>3. s \notin adrift => child[s].loaded <= v
    BY <1>1, <2>1 DEF IInv, Follows, Informed, Leads, Below, Current, Pending, Coming
  <2> QED
    BY <1>1, <2>1, <2>2, <2>3 DEF Newer, Forward
<1>3. CASE Starts(child'[s])
  BY <1>3 DEF Starts, Newer, Forward, Runs
<1>4. CASE Learns(child[s], child'[s])
  BY <1>4 DEF Learns, Newer, Forward, Runs
<1>5. CASE GoesOn(child[s], child'[s]) /\ (s \in adrift => s \in adrift')
  <2>1. CASE Keeps(child[s], child'[s])
    BY <1>1, <1>5, <2>1 DEF Keeps, Newer, Forward
  <2>2. CASE Prepares(child[s], child'[s])
    BY <2>2 DEF Prepares, Newer, Forward, Runs
  <2>3. CASE Compiles(child[s], child'[s])
    BY <1>1, <2>3 DEF Compiles, Newer, Forward, Runs, Fresh
  <2>4. CASE Waiting(child[s], child'[s])
    BY <1>1, <1>5, <2>4 DEF Waiting, Newer, Forward
  <2>5. CASE Enters(child[s], child'[s])
    BY <1>1, <2>5 DEF Enters, Newer, Forward, Runs
  <2> QED
    BY <1>5, <2>1, <2>2, <2>3, <2>4, <2>5 DEF GoesOn
<1> QED
  BY <1>1, <1>2, <1>3, <1>4, <1>5, ChildMoves

\* While it runs, a subscriber goes from a version only to a newer one, with the same
\* exceptions.
THEOREM GoesForward == Spec => NeverOlder
<1>1. Init => GInv
  BY InitInv DEF Init, Started, GInv, Newer
<1>2. GInv /\ [Next]_vars => GInv'
  BY NextInv, NextForward DEF GInv
<1>3. GInv /\ [Next]_vars =>
        [\A s \in Subscribers :
           s \notin adrift /\ Runs(child[s]) /\ Runs(child'[s])
             => child[s].loaded <= child'[s].loaded]_vars
  BY NextForward DEF Forward
<1> QED
  BY <1>1, <1>2, <1>3, PTL DEF Spec, NeverOlder
=============================================================================
