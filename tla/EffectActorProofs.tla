------------------------- MODULE EffectActorProofs -------------------------
(* Proofs about EffectActor, for every value of its constants. *)
EXTENDS EffectActor, TLAPS, WellFoundedInduction, SequenceTheorems, FiniteSetTheorems

\* A non-empty set of naturals has a least element: what in_flight.first()
\* returns exists, so the CHOOSE in calculate_watermark is well defined.
LEMMA LeastExists ==
  ASSUME NEW S \in SUBSET Nat, S # {}
  PROVE  \E p \in S : \A q \in S : p <= q
<1> DEFINE R == {ss \in Nat \X Nat : ss[1] < ss[2]}
<1>1. IsWellFoundedOn(R, Nat)
  BY NatLessThanWellFounded DEF OpToRel
<1>2. PICK x \in S : \A y \in S : ~(<<y, x>> \in R)
  <2> HIDE DEF R
  <2> QED BY <1>1, WFMin
<1>3. \A y \in S : ~(y < x)
  BY <1>2
<1> QED BY <1>3

\* Updating a function at a point keeps its type.
LEMMA UpdateType ==
  ASSUME NEW S, NEW T, NEW f \in [S -> T], NEW x, NEW y \in T
  PROVE  [f EXCEPT ![x] = y] \in [S -> T]
OBVIOUS

\* What calculate_watermark returns: one below the oldest event in flight, or
\* the larger of its other arguments when nothing is.
LEMMA WatermarkValue ==
  ASSUME NEW in_flight \in SUBSET Nat, NEW cursor \in Nat, NEW completed \in Nat
  PROVE  LET w == calculate_watermark(in_flight, cursor, completed)
         IN /\ w \in Nat \cup {None}
            /\ in_flight = {} => w = Larger(cursor, completed)
            /\ in_flight # {} => w + 1 \in in_flight
            /\ \A q \in in_flight : w < q
<1>1. CASE in_flight = {}
  BY <1>1 DEF calculate_watermark, Larger
<1>2. CASE in_flight # {}
  <2> DEFINE min == CHOOSE p \in in_flight : IsMin(p, in_flight)
  <2>1. \E p \in in_flight : IsMin(p, in_flight)
    BY <1>2, LeastExists DEF IsMin
  <2>2. min \in in_flight /\ \A q \in in_flight : min <= q
    BY <2>1 DEF IsMin
  <2>3. calculate_watermark(in_flight, cursor, completed) = min - 1
    BY <1>2 DEF calculate_watermark
  <2> HIDE DEF min
  <2> QED BY <1>2, <2>2, <2>3 DEF None
<1> QED BY <1>1, <1>2

-----------------------------------------------------------------------------
(* Type correctness *)

LEMMA StoppedType ==
  ASSUME NEW m \in Module
  PROVE  Stopped(m) \in Module
<1>1. <<>> \in Seq(Ack)
  OBVIOUS
<1>2. {} \in SUBSET Nat
  OBVIOUS
<1> QED BY <1>1, <1>2 DEF Stopped, Module

\* handle_ack keeps the shape of the dispatchers and of the stored positions.
LEMMA HandleAckType ==
  ASSUME TypeOK, NEW a \in Actors, NEW m \in Module, NEW pos \in Nat,
         handle_ack(a, m, pos)
  PROVE  /\ module' \in [Actors -> Module]
         /\ db_position' \in [Files -> Nat \cup {None}]
<1> DEFINE rest      == m.in_flight \ {pos}
           completed == Larger(m.highest_completed, pos)
           watermark == calculate_watermark(rest, m.cursor, completed)
           done      == [m EXCEPT !.in_flight = rest,
                                  !.highest_completed = completed]
<1>1. rest \in SUBSET Nat /\ completed \in Nat
  BY DEF Module, Larger
<1>2. watermark \in Nat \cup {None}
  BY <1>1, WatermarkValue DEF Module
<1> HIDE DEF watermark
<1>3. done \in Module
  BY <1>1 DEF Module
<1>4. [done EXCEPT !.last_position = watermark] \in Module
  BY <1>2, <1>3 DEF Module
<1>5. Stopped(m) \in Module
  BY StoppedType
<1> HIDE DEF done
<1>6. module \in [Actors -> Module] /\ db_position \in [Files -> Nat \cup {None}]
  BY DEF TypeOK
<1>7. CASE /\ module' = [module EXCEPT ![a] = done]
           /\ UNCHANGED db_position
  BY <1>3, <1>6, <1>7
<1>8. CASE /\ db_position' = [db_position EXCEPT ![m.conn] = watermark]
           /\ module' = [module EXCEPT ![a] =
                           [done EXCEPT !.last_position = watermark]]
  BY <1>2, <1>4, <1>6, <1>8
<1>9. CASE /\ module' = [module EXCEPT ![a] = Stopped(m)]
           /\ UNCHANGED db_position
  BY <1>5, <1>6, <1>9
<1> QED BY <1>7, <1>8, <1>9 DEF handle_ack, done, watermark

\* Handing an ack to a dispatcher, dead or alive, keeps the dispatchers' shape.
LEMMA TellType ==
  ASSUME TypeOK, NEW a \in Actors, NEW ack \in Ack, Tell(a, ack)
  PROVE  module' \in [Actors -> Module]
<1>1. module[a] \in Module /\ module[a].mailbox \in Seq(Ack)
  BY DEF TypeOK, Module
<1>2. Append(module[a].mailbox, ack) \in Seq(Ack)
  BY <1>1
<1>3. [module[a] EXCEPT !.mailbox = Append(@, ack)] \in Module
  BY <1>1, <1>2 DEF Module
<1> QED BY <1>3 DEF TypeOK, Tell

\* Handled or failed, a worker is free of its event and keeps the rest of its queue.
LEMMA FinishWorker ==
  ASSUME TypeOK, NEW a \in Actors, NEW w \in Workers,
         event_handled(a, w) \/ event_failed(a, w)
  PROVE  worker' = [worker EXCEPT ![a] =
           [worker[a] EXCEPT ![w] =
             [worker[a][w] EXCEPT !.current_position = None]]]
<1>1. worker[a][w] \in Worker
  BY DEF TypeOK
<1>2. CASE event_handled(a, w)
  BY <1>2 DEF event_handled
<1>3. CASE event_failed(a, w)
  <2>1. started(worker[a][w].queue) = [worker[a][w] EXCEPT !.current_position = None]
    BY <1>1 DEF started, Worker
  <2>2. worker' = [worker EXCEPT ![a] =
          [worker[a] EXCEPT ![w] = started(worker[a][w].queue)]]
    BY <1>3 DEF event_failed
  <2> QED BY <2>1, <2>2
<1> QED BY <1>2, <1>3

\* What a dispatcher gives up is a set of positions.
LEMMA ExposesType ==
  ASSUME module' \in [Actors -> Module], NEW a \in Actors, NEW p \in Nat
  PROVE  Exposes(a, p) \in SUBSET Nat
<1>1. module'[a].batch \in SUBSET Nat
  BY DEF Module
<1> QED BY <1>1 DEF Exposes

LEMMA InitType == Init => TypeOK
<1> SUFFICES ASSUME Init PROVE TypeOK
  OBVIOUS
<1>1. 1 \in Files
  BY BoundsAssumption DEF Files
<1>2. <<>> \in Seq(Ack) /\ <<>> \in Seq(Event) /\ <<>> \in Seq(Nat)
  OBVIOUS
<1>3. [alive |-> FALSE, conn |-> 1, last_position |-> None, cursor |-> 0,
       batch |-> {}, in_flight |-> {}, highest_completed |-> 0,
       mailbox |-> <<>>] \in Module
  BY <1>1, <1>2 DEF Module, None
<1>4. [queue |-> <<>>, current_position |-> None] \in Worker
  BY <1>2 DEF Worker, None
<1> QED BY <1>1, <1>2, <1>3, <1>4 DEF Init, started, TypeOK

\* One step per action of the model.
LEMMA NextType == TypeOK /\ [Next]_vars => TypeOK'
<1> SUFFICES ASSUME TypeOK, [Next]_vars PROVE TypeOK'
  OBVIOUS
<1> USE DEF TypeOK
<1>1. ASSUME NEW e \in Event, append(e) PROVE TypeOK'
  BY <1>1 DEF append
<1>2. ASSUME NEW k \in KeyIds, delete_crypto_key(k) PROVE TypeOK'
  BY <1>2 DEF delete_crypto_key
<1>3. ASSUME NEW a \in Actors, NEW major \in Majors, NEW reset_db \in BOOLEAN,
             on_start(a, major, reset_db)
      PROVE  TypeOK'
  <2>1. PICK f \in Files :
          /\ file' = f
          /\ db_major' = [db_major EXCEPT ![f] = major]
          /\ module' = [module EXCEPT ![a] =
               [alive |-> TRUE, conn |-> f, last_position |-> db_position[f],
                cursor |-> resume_position(db_position[f]), batch |-> {},
                in_flight |-> {}, highest_completed |-> 0, mailbox |-> <<>>]]
    BY <1>3 DEF on_start, started
  <2>2. <<>> \in Seq(Ack) /\ <<>> \in Seq(Nat)
    OBVIOUS
  <2>3. [alive |-> TRUE, conn |-> f, last_position |-> db_position[f],
         cursor |-> resume_position(db_position[f]), batch |-> {},
         in_flight |-> {}, highest_completed |-> 0, mailbox |-> <<>>] \in Module
    BY <2>2 DEF Module, resume_position, None
  <2>4. [w \in Workers |-> [queue |-> <<>>, current_position |-> None]]
          \in [Workers -> Worker]
    BY <2>2 DEF Worker, None
  <2>5. module' \in [Actors -> Module]
    BY <2>1, <2>3
  <2>6. worker' \in [Actors -> [Workers -> Worker]]
    BY <1>3, <2>4 DEF on_start, started
  <2> QED BY <1>3, <2>1, <2>5, <2>6 DEF on_start, started
<1>4. ASSUME NEW a \in Actors, next_batch(a) PROVE TypeOK'
  <2>1. PICK end \in module[a].cursor + 1 .. Len(log) :
          module' = [module EXCEPT ![a].cursor = end,
                                   ![a].batch = Matching(module[a].cursor, end)]
    BY <1>4 DEF next_batch
  <2>2. Matching(module[a].cursor, end) \in SUBSET Nat /\ end \in Nat
    BY DEF Matching, Module
  <2> DEFINE m == [module[a] EXCEPT !.cursor = end,
                                    !.batch = Matching(module[a].cursor, end)]
  <2>3. m \in Module
    BY <2>2 DEF Module
  <2>4. module' = [module EXCEPT ![a] = m]
    BY <2>1
  <2> HIDE DEF m
  <2>5. module' \in [Actors -> Module]
    BY <2>3, <2>4, UpdateType
  <2> QED BY <1>4, <2>5 DEF next_batch
<1>5. ASSUME NEW a \in Actors, NEW p \in module[a].batch, dispatch(a, p)
      PROVE  TypeOK'
  <2>1. p \in Nat
    BY DEF Module
  <2>2. module' \in [Actors -> Module]
    <3> DEFINE m == [module[a] EXCEPT !.batch = @ \ {p},
                                      !.in_flight = @ \cup {p}]
    <3>1. m \in Module
      BY <2>1 DEF Module
    <3>2. module' = [module EXCEPT ![a] = m]
      BY <1>5 DEF dispatch
    <3> HIDE DEF m
    <3> QED BY <3>1, <3>2, UpdateType
  <2>3. PICK w : worker' = [worker EXCEPT ![a][w].queue = Append(@, p)]
    BY <1>5 DEF dispatch
  <2>4. worker' \in [Actors -> [Workers -> Worker]]
    <3>1. CASE w \notin Workers
      BY <2>3, <3>1
    <3>2. CASE w \in Workers
      <4>1. worker[a][w] \in Worker /\ Append(worker[a][w].queue, p) \in Seq(Nat)
        BY <2>1, <3>2 DEF Worker
      <4> QED BY <2>3, <3>2, <4>1 DEF Worker
    <3> QED BY <3>1, <3>2
  <2> QED BY <1>5, <2>2, <2>4 DEF dispatch
<1>6. ASSUME NEW a \in Actors, NEW p \in module[a].batch, skip_shredded(a, p)
      PROVE  TypeOK'
  <2>1. p \in Nat
    BY DEF Module
  <2>2. [module[a] EXCEPT !.batch = @ \ {p}, !.in_flight = @ \cup {p}] \in Module
    BY <2>1 DEF Module
  <2>3. module' \in [Actors -> Module]
        /\ db_position' \in [Files -> Nat \cup {None}]
    BY <1>6, <2>1, <2>2, HandleAckType DEF skip_shredded
  <2>4. exposed' \in [Files -> SUBSET Nat]
    <3>1. Exposes(a, p) \in SUBSET Nat /\ module[a].conn \in Files
      BY <2>1, <2>3, ExposesType DEF Module
    <3>2. exposed' = [exposed EXCEPT ![module[a].conn] = @ \cup Exposes(a, p)]
      BY <1>6 DEF skip_shredded
    <3> QED BY <3>1, <3>2
  <2> QED BY <1>6, <2>3, <2>4 DEF skip_shredded
<1>7. ASSUME NEW a \in Actors, worker_ack_ok(a) PROVE TypeOK'
  <2>1. module[a].mailbox \in Seq(Ack) /\ module[a].mailbox # <<>>
    BY <1>7 DEF Module, worker_ack_ok
  <2>2. Head(module[a].mailbox) \in Ack /\ Tail(module[a].mailbox) \in Seq(Ack)
    BY <2>1, HeadTailProperties
  <2>3. [module[a] EXCEPT !.mailbox = Tail(@)] \in Module
    BY <2>2 DEF Module
  <2>4. Head(module[a].mailbox).pos \in Nat
    BY <2>2 DEF Ack
  <2>5. module' \in [Actors -> Module]
        /\ db_position' \in [Files -> Nat \cup {None}]
    BY <1>7, <2>3, <2>4, HandleAckType DEF worker_ack_ok
  <2> QED BY <1>7, <2>5 DEF worker_ack_ok
<1>8. ASSUME NEW a \in Actors, worker_ack_err(a) \/ die(a) PROVE TypeOK'
  <2>1. Stopped(module[a]) \in Module
    BY StoppedType
  <2>2. module' = [module EXCEPT ![a] = Stopped(module[a])]
    BY <1>8 DEF worker_ack_err, die
  <2>3. module' \in [Actors -> Module]
    BY <2>1, <2>2, UpdateType
  <2> QED BY <1>8, <2>3 DEF worker_ack_err, die
<1>9. ASSUME NEW a \in Actors, NEW w \in Workers, process_event(a, w)
      PROVE  TypeOK'
  <2>1. worker[a][w].queue \in Seq(Nat) /\ worker[a][w].queue # <<>>
    BY <1>9 DEF Worker, process_event
  <2>2. Head(worker[a][w].queue) \in Nat /\ Tail(worker[a][w].queue) \in Seq(Nat)
    BY <2>1, HeadTailProperties
  <2>3. [queue |-> Tail(worker[a][w].queue),
         current_position |-> Head(worker[a][w].queue)] \in Worker
    BY <2>2 DEF Worker
  <2>4. worker' \in [Actors -> [Workers -> Worker]]
    BY <1>9, <2>3 DEF process_event
  <2> QED BY <1>9, <2>4 DEF process_event
<1>10. ASSUME NEW a \in Actors, NEW w \in Workers,
              event_handled(a, w) \/ event_failed(a, w)
       PROVE  TypeOK'
  <2> DEFINE p == worker[a][w].current_position
  <2>1. p \in Nat
    BY <1>10 DEF event_handled, event_failed, Worker
  <2>2. \E ok \in BOOLEAN : Tell(a, [ok |-> ok, pos |-> p])
    BY <1>10 DEF event_handled, event_failed
  <2>3. module' \in [Actors -> Module]
    BY <2>1, <2>2, TellType DEF Ack
  <2>4. worker' \in [Actors -> [Workers -> Worker]]
    <3>0. worker[a][w] \in Worker
      OBVIOUS
    <3>1. [worker[a][w] EXCEPT !.current_position = None] \in Worker
      BY <3>0 DEF Worker, None
    <3>2. worker' = [worker EXCEPT ![a] =
            [worker[a] EXCEPT ![w] =
              [worker[a][w] EXCEPT !.current_position = None]]]
      BY <1>10, FinishWorker
    <3>3. [worker[a] EXCEPT ![w] =
            [worker[a][w] EXCEPT !.current_position = None]]
              \in [Workers -> Worker]
      BY <3>1, UpdateType
    <3> QED BY <3>2, <3>3, UpdateType
  <2>5. handled' \in [Files -> SUBSET Nat]
    <3>1. \/ handled' = handled
          \/ handled' = [handled EXCEPT ![module[a].conn] = @ \cup {p}]
      BY <1>10 DEF event_handled, event_failed
    <3> QED BY <2>1, <3>1
  <2> QED BY <1>10, <2>3, <2>4, <2>5 DEF event_handled, event_failed
<1>11. CASE UNCHANGED vars
  BY <1>11 DEF vars
<1> QED
  BY <1>1, <1>2, <1>3, <1>4, <1>5, <1>6, <1>7, <1>8, <1>9, <1>10, <1>11
     DEF Next, Work, Dispatch

\* The state of the dispatcher, its workers and the stored watermark always has
\* its declared shape.
THEOREM TypeCorrect == Spec => []TypeOK
BY InitType, NextType, PTL DEF Spec

-----------------------------------------------------------------------------
(* Back-pressure *)

BoundInv == TypeOK /\ BatchBounded /\ InFlightBounded

\* What a dispatcher holds, and is allowed to.
Bounded(batch, in_flight) ==
  /\ IsFiniteSet(in_flight \cup batch)
  /\ Cardinality(batch) <= MaxBatch
  /\ Cardinality(in_flight \cup batch) <= InFlightLimit + MaxBatch

\* Giving events back keeps a dispatcher within its bounds.
LEMMA BoundShrinks ==
  ASSUME NEW B \in SUBSET Nat, NEW F \in SUBSET Nat, Bounded(B, F), NEW C \in SUBSET B,
         NEW G \in SUBSET Nat, G \cup C \subseteq F \cup B
  PROVE  Bounded(C, G)
<1>1. IsFiniteSet(F \cup B) /\ IsFiniteSet(B)
  BY FS_Subset DEF Bounded
<1>2. /\ Cardinality(C) \in Nat /\ Cardinality(B) \in Nat
      /\ Cardinality(C) <= Cardinality(B)
  <2>1. IsFiniteSet(C) /\ Cardinality(C) <= Cardinality(B)
    BY <1>1, FS_Subset
  <2> QED BY <1>1, <2>1, FS_CardinalityType
<1>3. /\ IsFiniteSet(G \cup C) /\ Cardinality(G \cup C) <= Cardinality(F \cup B)
      /\ Cardinality(G \cup C) \in Nat /\ Cardinality(F \cup B) \in Nat
  <2>1. IsFiniteSet(G \cup C) /\ Cardinality(G \cup C) <= Cardinality(F \cup B)
    BY <1>1, FS_Subset
  <2> QED BY <1>1, <2>1, FS_CardinalityType
<1> QED BY <1>2, <1>3, BoundsAssumption DEF Bounded

\* A dispatcher that holds nothing is within its bounds.
LEMMA BoundEmpty == Bounded({}, {})
BY FS_EmptySet, BoundsAssumption DEF Bounded

\* A batch is taken only with at most InFlightLimit events in flight.
LEMMA BoundBatch ==
  ASSUME BoundInv, NEW a \in Actors, next_batch(a)
  PROVE  Bounded(module'[a].batch, module'[a].in_flight)
<1>1. PICK end \in module[a].cursor + 1 .. Len(log) :
        /\ Cardinality(Matching(module[a].cursor, end)) <= MaxBatch
        /\ module' = [module EXCEPT ![a].cursor = end,
                                    ![a].batch = Matching(module[a].cursor, end)]
  BY DEF next_batch
<1> DEFINE batch == Matching(module[a].cursor, end)
           flying == module[a].in_flight
<1>2. module'[a].batch = batch /\ module'[a].in_flight = flying
  BY <1>1 DEF BoundInv, TypeOK, Module
<1>3. IsFiniteSet(batch)
  <2>1. module[a].cursor + 1 \in Int /\ end \in Int
    BY <1>1 DEF BoundInv, TypeOK, Module
  <2>2. batch \in SUBSET (module[a].cursor + 1 .. end)
    BY DEF Matching
  <2> HIDE DEF batch
  <2> QED BY <2>1, <2>2, FS_Interval, FS_Subset
<1>4. IsFiniteSet(flying) /\ Cardinality(flying) <= InFlightLimit
  <2>1. IsFiniteSet(flying \cup module[a].batch)
    BY DEF BoundInv, BatchBounded
  <2>2. flying \in SUBSET (flying \cup module[a].batch)
    OBVIOUS
  <2> HIDE DEF flying
  <2>3. IsFiniteSet(flying)
    BY <2>1, <2>2, FS_Subset
  <2> QED BY <2>3 DEF next_batch, flying
<1> HIDE DEF batch, flying
<1>5. /\ IsFiniteSet(flying \cup batch)
      /\ Cardinality(flying \cup batch)
           = Cardinality(flying) + Cardinality(batch) - Cardinality(flying \cap batch)
  BY <1>3, <1>4, FS_Union
<1>6. /\ Cardinality(flying) \in Nat /\ Cardinality(batch) \in Nat
      /\ Cardinality(flying \cap batch) \in Nat
  <2>1. IsFiniteSet(flying \cap batch)
    BY <1>3, FS_Subset
  <2> QED BY <1>3, <1>4, <2>1, FS_CardinalityType
<1>7. Cardinality(batch) <= MaxBatch
  BY <1>1 DEF batch
<1> QED BY <1>2, <1>4, <1>5, <1>6, <1>7, BoundsAssumption DEF Bounded

\* Every other step of a dispatcher empties it or gives events back.
LEMMA BoundStep ==
  ASSUME BoundInv, [Next]_vars, NEW a \in Actors, ~next_batch(a)
  PROVE  \/ module'[a].batch = {} /\ module'[a].in_flight = {}
         \/ /\ module'[a].batch \subseteq module[a].batch
            /\ module'[a].in_flight \cup module'[a].batch
                 \subseteq module[a].in_flight \cup module[a].batch
<1> DEFINE Empty == module'[a].batch = {} /\ module'[a].in_flight = {}
           Back  == /\ module'[a].batch \subseteq module[a].batch
                    /\ module'[a].in_flight \cup module'[a].batch
                         \subseteq module[a].in_flight \cup module[a].batch
<1>1. module \in [Actors -> Module]
  BY DEF BoundInv, TypeOK
<1>2. ASSUME module'[a] = module[a] PROVE Back
  BY <1>2
<1>3. ASSUME NEW b \in Actors, NEW major \in Majors, NEW reset_db \in BOOLEAN,
             on_start(b, major, reset_db)
      PROVE  Empty \/ Back
  BY <1>1, <1>3 DEF on_start
<1>4. ASSUME NEW b \in Actors, next_batch(b) PROVE Empty \/ Back
  <2>1. b # a
    BY <1>4
  <2> QED BY <1>1, <1>4, <2>1 DEF next_batch
<1>5. ASSUME NEW b \in Actors, NEW p \in module[b].batch, dispatch(b, p)
      PROVE  Empty \/ Back
  <2>1. module' = [module EXCEPT ![b] =
          [module[b] EXCEPT !.batch = @ \ {p}, !.in_flight = @ \cup {p}]]
    BY <1>5 DEF dispatch
  <2>2. CASE b = a
    <3>1. /\ module'[a].batch = module[a].batch \ {p}
          /\ module'[a].in_flight = module[a].in_flight \cup {p}
      BY <1>1, <2>1, <2>2 DEF Module
    <3> QED BY <2>2, <3>1
  <2> QED BY <1>1, <2>1, <2>2
<1>6. ASSUME NEW b \in Actors, NEW m \in Module, NEW pos, handle_ack(b, m, pos),
             m.batch \subseteq module[b].batch,
             m.in_flight \cup m.batch \subseteq module[b].in_flight \cup module[b].batch
      PROVE  Empty \/ Back
  <2>1. CASE b # a
    BY <1>1, <1>6, <2>1 DEF handle_ack
  <2>2. CASE b = a
    <3>1. \/ Empty
          \/ module'[a].batch = m.batch /\ module'[a].in_flight = m.in_flight \ {pos}
      <4> DEFINE completed == Larger(m.highest_completed, pos)
                 watermark == calculate_watermark(m.in_flight \ {pos}, m.cursor, completed)
                 done == [m EXCEPT !.in_flight = m.in_flight \ {pos},
                                   !.highest_completed = completed]
      <4>1. \/ module' = [module EXCEPT ![a] = done]
            \/ module' = [module EXCEPT ![a] = [done EXCEPT !.last_position = watermark]]
            \/ module' = [module EXCEPT ![a] = Stopped(m)]
        BY <1>6, <2>2 DEF handle_ack
      <4>2. /\ done.batch = m.batch /\ done.in_flight = m.in_flight \ {pos}
            /\ [done EXCEPT !.last_position = watermark].batch = m.batch
            /\ [done EXCEPT !.last_position = watermark].in_flight = m.in_flight \ {pos}
            /\ Stopped(m).batch = {} /\ Stopped(m).in_flight = {}
        BY <1>6 DEF Stopped, Module
      <4> HIDE DEF done, watermark
      <4> QED BY <1>1, <4>1, <4>2
    <3> QED BY <1>6, <2>2, <3>1
  <2> QED BY <2>1, <2>2
<1>7. ASSUME NEW b \in Actors, NEW p \in module[b].batch, skip_shredded(b, p)
      PROVE  Empty \/ Back
  <2> DEFINE m == [module[b] EXCEPT !.batch = @ \ {p}, !.in_flight = @ \cup {p}]
  <2>1. p \in Nat
    BY <1>1 DEF Module
  <2>2. /\ m \in Module /\ m.batch = module[b].batch \ {p}
        /\ m.in_flight = module[b].in_flight \cup {p}
    BY <1>1, <2>1 DEF Module
  <2>3. handle_ack(b, m, p)
    BY <1>7 DEF skip_shredded
  <2> HIDE DEF m
  <2> QED BY <1>6, <2>2, <2>3
<1>8. ASSUME NEW b \in Actors, worker_ack_ok(b) PROVE Empty \/ Back
  <2> DEFINE m == [module[b] EXCEPT !.mailbox = Tail(@)]
  <2>1. module[b].mailbox \in Seq(Ack) /\ module[b].mailbox # <<>>
    BY <1>1, <1>8 DEF worker_ack_ok, Module
  <2>2. Tail(module[b].mailbox) \in Seq(Ack)
    BY <2>1, HeadTailProperties
  <2>3. /\ m \in Module /\ m.batch = module[b].batch
        /\ m.in_flight = module[b].in_flight
    BY <1>1, <2>2 DEF Module
  <2>4. handle_ack(b, m, Head(module[b].mailbox).pos)
    BY <1>8 DEF worker_ack_ok
  <2> HIDE DEF m
  <2> QED BY <1>6, <2>3, <2>4
<1>9. ASSUME NEW b \in Actors, worker_ack_err(b) \/ die(b) PROVE Empty \/ Back
  BY <1>1, <1>9 DEF worker_ack_err, die, Stopped, Module
<1>10. ASSUME NEW b \in Actors, NEW w \in Workers,
              process_event(b, w) \/ event_handled(b, w) \/ event_failed(b, w)
       PROVE  Empty \/ Back
  <2>1. /\ module'[a].batch = module[a].batch
        /\ module'[a].in_flight = module[a].in_flight
    <3>1. \/ module' = module
          \/ \E mailbox : module' = [module EXCEPT ![b] = [module[b] EXCEPT !.mailbox = mailbox]]
      BY <1>10 DEF process_event, event_handled, event_failed, Tell
    <3>2. ASSUME NEW mailbox,
                 module' = [module EXCEPT ![b] = [module[b] EXCEPT !.mailbox = mailbox]]
          PROVE  /\ module'[a].batch = module[a].batch
                 /\ module'[a].in_flight = module[a].in_flight
      BY <1>1, <3>2 DEF Module
    <3> QED BY <3>1, <3>2
  <2> QED BY <2>1
<1>11. CASE (\E e \in Event : append(e)) \/ (\E k \in KeyIds : delete_crypto_key(k))
              \/ UNCHANGED vars
  BY <1>2, <1>11 DEF append, delete_crypto_key, vars
<1> QED
  BY <1>3, <1>4, <1>5, <1>7, <1>8, <1>9, <1>10, <1>11 DEF Next, Work, Dispatch

\* What is in flight never exceeds the limit by more than one batch, for every limit
\* and every batch size.
LEMMA NextBound ==
  ASSUME BoundInv, [Next]_vars PROVE BoundInv'
<1>1. TypeOK /\ TypeOK'
  BY NextType DEF BoundInv
<1>2. ASSUME NEW a \in Actors PROVE Bounded(module'[a].batch, module'[a].in_flight)
  <2>1. Bounded(module[a].batch, module[a].in_flight)
    BY DEF BoundInv, BatchBounded, InFlightBounded, Bounded
  <2>2. /\ module[a].batch \in SUBSET Nat /\ module[a].in_flight \in SUBSET Nat
        /\ module'[a].batch \in SUBSET Nat /\ module'[a].in_flight \in SUBSET Nat
    BY <1>1 DEF TypeOK, Module
  <2>3. CASE next_batch(a)
    BY <2>3, BoundBatch
  <2>4. CASE ~next_batch(a)
    BY <2>1, <2>2, <2>4, BoundStep, BoundShrinks, BoundEmpty
  <2> QED BY <2>3, <2>4
<1> QED BY <1>1, <1>2 DEF BoundInv, BatchBounded, InFlightBounded, Bounded

\* Initially no dispatcher holds anything.
LEMMA InitBound == Init => BoundInv
<1> SUFFICES ASSUME Init PROVE BoundInv
  OBVIOUS
<1>1. TypeOK /\ \A a \in Actors : module[a].batch = {} /\ module[a].in_flight = {}
  BY InitType DEF Init
<1> QED BY <1>1, BoundEmpty DEF BoundInv, BatchBounded, InFlightBounded, Bounded

\* Back-pressure: however many workers and events there are, what a dispatcher has
\* taken and not yet answered for exceeds InFlightLimit by at most one batch.
THEOREM BackPressure == Spec => []InFlightBounded
<1>1. BoundInv => InFlightBounded
  BY DEF BoundInv
<1> QED BY InitBound, NextBound, <1>1, PTL DEF Spec

-----------------------------------------------------------------------------
(* At-least-once delivery, but for events that are exposed *)

MarksInLog == \A f \in Files : resume_position(db_position[f]) <= Len(log)

\* What every step does to the log, the keys and the handled events.
Grows ==
  /\ deleted \subseteq deleted'
  /\ Len(log) <= Len(log')
  /\ \A p \in 1 .. Len(log) : log'[p] = log[p]
  /\ \A f \in Files : handled[f] \subseteq handled'[f]
  /\ \A f \in Files : exposed[f] \subseteq exposed'[f]

\* What a step may do to the stored positions.
MarksHold ==
  \A f \in Files :
    resume_position(db_position[f]') < resume_position(db_position[f]) =>
      resume_position(db_position[f]') + 1 \in exposed[f]

LEMMA RelevantStable ==
  ASSUME TypeOK, TypeOK', Grows, NEW p \in 1 .. Len(log)
  PROVE  Relevant(p)' => Relevant(p)
<1>1. DOMAIN log = 1 .. Len(log) /\ DOMAIN log' = 1 .. Len(log')
  BY DEF TypeOK
<1>2. p \in DOMAIN log /\ p \in DOMAIN log' /\ log'[p] = log[p]
  BY <1>1, LenProperties DEF Grows, TypeOK
<1> QED BY <1>2 DEF Relevant, Shredded, Grows

\* A step that leaves a dispatcher and its workers alone keeps its invariant.
LEMMA Frame ==
  ASSUME TypeOK, TypeOK', Grows, NEW b \in Actors, DispatcherInv(b),
         module'[b] = module[b],
         worker'[b] = worker[b]
  PROVE  DispatcherInv(b)'
<1> SUFFICES ASSUME module[b].alive PROVE DispatcherInv(b)'
  BY DEF DispatcherInv
<1>1. module[b] \in Module /\ module[b].cursor \in Nat /\ module[b].conn \in Files
  BY DEF TypeOK, Module
<1>2. module[b].cursor <= Len(log) /\ Len(log) <= Len(log')
  BY DEF DispatcherInv, Grows
<1>3. Len(log) \in Nat /\ Len(log') \in Nat
  BY DEF TypeOK
<1>4. ASSUME NEW p \in 1 .. module[b].cursor, Relevant(p)'
      PROVE  p \in handled'[module[b].conn] \cup module[b].in_flight
                     \cup module[b].batch \cup exposed'[module[b].conn]
  <2>1. p \in 1 .. Len(log)
    BY <1>1, <1>2, <1>3
  <2>2. Relevant(p)
    BY <1>4, <2>1, RelevantStable
  <2> QED BY <2>2, <1>1 DEF DispatcherInv, Grows
<1>5. /\ handled[module[b].conn] \subseteq handled'[module[b].conn]
      /\ exposed[module[b].conn] \subseteq exposed'[module[b].conn]
  BY <1>1 DEF Grows
<1> QED BY <1>1, <1>2, <1>3, <1>4, <1>5 DEF DispatcherInv

\* A step that leaves the stored positions alone keeps LostOnlyIfExposed.
LEMMA MarksFrame ==
  ASSUME TypeOK, TypeOK', Grows, LostOnlyIfExposed, MarksInLog,
         db_position' = db_position
  PROVE  LostOnlyIfExposed' /\ MarksInLog'
<1>1. MarksInLog'
  BY DEF MarksInLog, Grows, TypeOK, resume_position, None
<1>2. ASSUME NEW f \in Files, NEW p \in 1 .. resume_position(db_position[f]),
             Relevant(p)'
      PROVE  p \in handled'[f] \cup exposed'[f]
  <2>1. p \in 1 .. Len(log)
    BY DEF MarksInLog, TypeOK, resume_position, None
  <2>2. Relevant(p)
    BY <1>2, <2>1, RelevantStable
  <2> QED BY <2>2 DEF LostOnlyIfExposed, Grows
<1> QED BY <1>1, <1>2 DEF LostOnlyIfExposed, resume_position, None

LEMMA MarksStay ==
  ASSUME db_position \in [Files -> Nat \cup {None}], db_position' = db_position
  PROVE  MarksHold
BY DEF MarksHold, resume_position, None

\* What a step of handle_ack establishes.
AckKeeps(a) ==
  /\ Grows /\ DispatcherInv(a)' /\ LostOnlyIfExposed' /\ MarksInLog' /\ MarksHold

\* Acknowledging an event that was handled, need not be or is given up: the watermark it
\* persists vouches only for events that were handled or are exposed.  m is the
\* dispatcher as handle_ack sees it.
LEMMA HandleInv ==
  ASSUME IInv, TypeOK', NEW a \in Actors, module[a].alive, NEW m \in Module,
         NEW pos \in Nat, handle_ack(a, m, pos), pos <= module[a].cursor,
         m.alive, m.in_flight \cup m.batch = module[a].in_flight \cup module[a].batch,
         \A p \in m.in_flight, q \in m.batch : p < q,
         m.cursor = module[a].cursor, m.conn = module[a].conn,
         m.last_position = module[a].last_position,
         m.highest_completed = module[a].highest_completed,
         \A i \in DOMAIN m.mailbox :
           \E j \in DOMAIN module[a].mailbox : m.mailbox[i] = module[a].mailbox[j],
         \A f \in Files : exposed[f] \subseteq exposed'[f],
         module'[a].alive /\ Relevant(pos) =>
           pos \in handled[module[a].conn] \cup exposed'[module[a].conn],
         module'[a].alive /\ m.in_flight \ {pos} = {} =>
           m.batch \subseteq exposed'[module[a].conn],
         UNCHANGED <<log, deleted, handled, worker>>
  PROVE  AckKeeps(a)
<1> DEFINE rest      == m.in_flight \ {pos}
           completed == Larger(m.highest_completed, pos)
           watermark == calculate_watermark(rest, m.cursor, completed)
           done      == [m EXCEPT !.in_flight = rest,
                                  !.highest_completed = completed]
           f         == module[a].conn
           mark      == resume_position(module[a].last_position)
<1> USE DEF IInv
<1>1. /\ module[a] \in Module
      /\ module[a].cursor \in Nat /\ f \in Files
      /\ m.in_flight \in SUBSET Nat /\ m.batch \in SUBSET Nat
      /\ module[a].last_position \in Nat \cup {None}
      /\ module[a].highest_completed \in Nat
  BY DEF TypeOK, Module
<1>2. exposed[f] \subseteq exposed'[f]
  BY <1>1
<1>3. DispatcherInv(a)
  OBVIOUS
<1>4. /\ mark \in Nat /\ mark <= module[a].cursor
      /\ module[a].cursor <= Len(log) /\ Len(log) \in Nat
      /\ module[a].highest_completed <= module[a].cursor
      /\ \A p \in m.in_flight \cup m.batch :
           p \in 1 .. module[a].cursor /\ (mark < p \/ p \in exposed[f])
  BY <1>1, <1>3 DEF DispatcherInv, TypeOK, resume_position, None
<1>6. /\ rest \in SUBSET Nat /\ rest \subseteq m.in_flight
      /\ completed \in Nat /\ completed <= module[a].cursor
  BY <1>1, <1>4 DEF Larger
<1>7. /\ watermark \in Nat /\ watermark <= module[a].cursor
      /\ mark <= watermark \/ watermark + 1 \in exposed[f]
      /\ \A p \in rest : watermark < p
      /\ rest = {} \/ watermark + 1 \in rest
  <2>1. /\ watermark \in Nat \cup {None}
        /\ rest = {} => watermark = Larger(module[a].cursor, completed)
        /\ rest # {} => watermark + 1 \in rest
        /\ \A q \in rest : watermark < q
    <3> HIDE DEF rest, completed
    <3>1. m.cursor \in Nat /\ m.cursor = module[a].cursor
      BY <1>1
    <3>2. /\ watermark \in Nat \cup {None}
          /\ rest = {} => watermark = Larger(m.cursor, completed)
          /\ rest # {} => watermark + 1 \in rest
          /\ \A q \in rest : watermark < q
      BY ONLY <1>6, <3>1, WatermarkValue
    <3> QED BY <3>1, <3>2
  <2> HIDE DEF watermark
  <2>2. CASE rest = {}
    BY <2>1, <2>2, <1>1, <1>4, <1>6 DEF Larger, None
  <2>3. CASE rest # {}
    <3>1. watermark + 1 \in m.in_flight /\ watermark + 1 \in rest
      BY <2>1, <2>3
    <3>2. watermark \in Nat
      BY <2>1, <3>1, <1>4 DEF None
    <3> QED BY <2>1, <2>3, <3>1, <3>2, <1>1, <1>4
  <2> QED BY <2>2, <2>3
<1>8. \A p \in 1 .. module[a].cursor :
        Relevant(p) => p \in handled[f] \cup rest \cup {pos} \cup m.batch \cup exposed[f]
  BY <1>1, <1>3 DEF DispatcherInv
<1>9. ASSUME module'[a].alive, NEW p \in m.batch PROVE watermark < p \/ p \in exposed'[f]
  <2>1. CASE rest = {}
    BY <1>9, <2>1
  <2>2. CASE rest # {}
    <3>1. watermark + 1 \in rest
      BY <1>7, <2>2
    <3> HIDE DEF watermark, rest
    <3>2. watermark + 1 < p /\ p \in Nat
      BY <3>1, <1>1, <1>6
    <3> QED BY <3>2, <1>7
  <2> QED BY <2>1, <2>2
<1>10. ASSUME module'[a].alive, NEW p \in 1 .. watermark, Relevant(p)
       PROVE  p \in handled[f] \cup exposed'[f]
  <2> HIDE DEF watermark, rest
  <2>1. p \in 1 .. module[a].cursor /\ p \notin rest
    BY <1>1, <1>7
  <2>2. CASE p \in m.batch
    BY <1>9, <1>10, <2>2, <1>7
  <2>3. CASE p = pos
    BY <1>10, <2>3
  <2> QED BY <1>2, <1>8, <1>10, <2>1, <2>2, <2>3
<1>11. \A i \in DOMAIN m.mailbox :
         m.mailbox[i].ok => /\ m.mailbox[i].pos \in handled[f]
                            /\ m.mailbox[i].pos <= module[a].cursor
  BY <1>3 DEF DispatcherInv
<1>12. /\ log' = log /\ deleted' = deleted /\ handled' = handled
       /\ worker' = worker
  OBVIOUS
<1>13. Grows
  BY <1>12, <1>4 DEF Grows
<1>14. /\ done.alive /\ done.cursor = module[a].cursor /\ done.conn = f
       /\ done.batch = m.batch /\ done.in_flight = rest
       /\ done.highest_completed = completed
       /\ done.mailbox = m.mailbox
       /\ done.last_position = module[a].last_position
       /\ done \in Module
  BY <1>6 DEF Module
<1>15. \A w \in Workers :
         /\ worker[a][w].current_position <= module[a].cursor
         /\ \A i \in DOMAIN worker[a][w].queue :
              worker[a][w].queue[i] <= module[a].cursor
  BY <1>1, <1>3 DEF DispatcherInv
<1>16. module \in [Actors -> Module] /\ db_position \in [Files -> Nat \cup {None}]
  BY DEF TypeOK
<1>17. LostOnlyIfExposed /\ MarksInLog
  BY DEF MarksInLog
<1>18. \A p : Relevant(p)' <=> Relevant(p)
  BY <1>12 DEF Relevant, Shredded
<1>19. /\ \A p \in rest \cup m.batch :
            p \in 1 .. module[a].cursor /\ (mark < p \/ p \in exposed'[f])
       /\ \A p \in rest, q \in m.batch : p < q
  BY <1>2, <1>4, <1>6
<1>20. \A p \in 1 .. module[a].cursor :
         Relevant(p) /\ module'[a].alive =>
           p \in handled[f] \cup rest \cup m.batch \cup exposed'[f]
  BY <1>2, <1>8
<1> HIDE DEF rest, completed, watermark, done, mark, IInv
<1>21. CASE /\ module' = [module EXCEPT ![a] = done]
            /\ UNCHANGED db_position
  <2>1. module'[a] = done
    BY <1>16, <1>21
  <2>2. DispatcherInv(a)'
    BY <2>1, <1>4, <1>6, <1>11, <1>12, <1>14, <1>15, <1>18, <1>19, <1>20
       DEF DispatcherInv, mark
  <2>3. LostOnlyIfExposed' /\ MarksInLog'
    BY <1>21, <1>13, <1>17, MarksFrame DEF IInv
  <2> QED BY <1>13, <1>16, <1>21, <2>2, <2>3, MarksStay DEF AckKeeps
<1>22. CASE /\ db_position[f] = module[a].last_position
            /\ db_position' = [db_position EXCEPT ![f] = watermark]
            /\ module' = [module EXCEPT ![a] =
                            [done EXCEPT !.last_position = watermark]]
  <2> DEFINE moved == [done EXCEPT !.last_position = watermark]
  <2>1. module'[a] = moved
    BY <1>16, <1>22
  <2>2. /\ moved.alive /\ moved.cursor = module[a].cursor /\ moved.conn = f
        /\ moved.batch = m.batch /\ moved.in_flight = rest
        /\ moved.highest_completed = completed
        /\ moved.mailbox = m.mailbox
        /\ moved.last_position = watermark
    BY <1>14 DEF Module
  <2> HIDE DEF moved
  <2>3. resume_position(watermark) = watermark
    BY <1>7 DEF resume_position, None
  <2>4. /\ \A p \in rest : watermark < p
        /\ \A p \in m.batch : watermark < p \/ p \in exposed'[f]
    BY <1>7, <1>9, <2>1, <2>2
  <2>5. DispatcherInv(a)'
    BY <2>1, <2>2, <2>3, <2>4, <1>4, <1>6, <1>7, <1>11, <1>12, <1>15, <1>18, <1>19, <1>20
       DEF DispatcherInv
  <2>6. db_position'[f] = watermark
        /\ \A g \in Files : g # f => db_position'[g] = db_position[g]
    BY <1>1, <1>16, <1>22
  <2>7. LostOnlyIfExposed'
    <3>1. \A p \in 1 .. watermark : Relevant(p) => p \in handled[f] \cup exposed'[f]
      BY <1>10, <2>1, <2>2
    <3> SUFFICES ASSUME NEW g \in Files, NEW p \in 1 .. resume_position(db_position'[g]),
                        Relevant(p)'
                 PROVE  p \in handled'[g] \cup exposed'[g]
      BY DEF LostOnlyIfExposed, resume_position
    <3>2. CASE g = f
      BY <2>3, <2>6, <3>1, <3>2, <1>12, <1>18
    <3>3. CASE g # f
      BY <2>6, <3>3, <1>12, <1>17, <1>18 DEF LostOnlyIfExposed
    <3> QED BY <3>2, <3>3
  <2>8. MarksInLog'
    BY <2>3, <2>6, <1>1, <1>4, <1>7, <1>12, <1>17 DEF MarksInLog
  <2>9. MarksHold
    <3> SUFFICES ASSUME NEW g \in Files,
                        resume_position(db_position'[g]) < resume_position(db_position[g])
                 PROVE  resume_position(db_position'[g]) + 1 \in exposed[g]
      BY DEF MarksHold, resume_position
    <3>1. g = f
      BY <2>6, <1>16 DEF resume_position, None
    <3>2. resume_position(db_position[f]) = mark
      BY <1>22 DEF mark
    <3> QED BY <2>3, <2>6, <3>1, <3>2, <1>4, <1>7
  <2> QED BY <1>13, <2>5, <2>7, <2>8, <2>9 DEF AckKeeps
<1>23. CASE /\ module' = [module EXCEPT ![a] = Stopped(m)]
            /\ UNCHANGED db_position
  <2>1. module'[a] = Stopped(m) /\ ~Stopped(m).alive
    BY <1>16, <1>23 DEF Stopped, Module
  <2>2. DispatcherInv(a)'
    BY <2>1 DEF DispatcherInv
  <2>3. LostOnlyIfExposed' /\ MarksInLog'
    BY <1>23, <1>13, <1>17, MarksFrame DEF IInv
  <2> QED BY <1>13, <1>16, <1>23, <2>2, <2>3, MarksStay DEF AckKeeps
<1> QED
  BY <1>21, <1>22, <1>23 DEF handle_ack, done, watermark, rest, completed

\* A dispatcher that survives handle_ack keeps its batch and drops the event.
LEMMA HandleHolds ==
  ASSUME module \in [Actors -> Module], NEW a \in Actors, NEW m \in Module, NEW pos,
         handle_ack(a, m, pos), module'[a].alive
  PROVE  module'[a].batch = m.batch /\ module'[a].in_flight = m.in_flight \ {pos}
<1> DEFINE completed == Larger(m.highest_completed, pos)
           watermark == calculate_watermark(m.in_flight \ {pos}, m.cursor, completed)
           done == [m EXCEPT !.in_flight = m.in_flight \ {pos},
                             !.highest_completed = completed]
<1>1. \/ module' = [module EXCEPT ![a] = done]
      \/ module' = [module EXCEPT ![a] = [done EXCEPT !.last_position = watermark]]
      \/ module' = [module EXCEPT ![a] = Stopped(m)]
  BY DEF handle_ack
<1>2. /\ done.batch = m.batch /\ done.in_flight = m.in_flight \ {pos}
      /\ [done EXCEPT !.last_position = watermark].batch = m.batch
      /\ [done EXCEPT !.last_position = watermark].in_flight = m.in_flight \ {pos}
      /\ ~Stopped(m).alive
  BY DEF Stopped, Module
<1> HIDE DEF done, watermark
<1> QED BY <1>1, <1>2

\* An ack that says an event was handled.
LEMMA AckInv ==
  ASSUME IInv, TypeOK', NEW a \in Actors, worker_ack_ok(a)
  PROVE  AckKeeps(a)
<1> DEFINE m   == [module[a] EXCEPT !.mailbox = Tail(@)]
           pos == Head(module[a].mailbox).pos
<1>1. /\ module[a] \in Module /\ module[a].alive /\ module[a].batch = {}
      /\ module[a].mailbox \in Seq(Ack) /\ module[a].mailbox # <<>>
      /\ Head(module[a].mailbox).ok
  BY DEF IInv, TypeOK, Module, worker_ack_ok
<1>2. /\ Head(module[a].mailbox) \in Ack
      /\ Tail(module[a].mailbox) \in Seq(Ack)
      /\ Head(module[a].mailbox) = module[a].mailbox[1]
      /\ 1 \in DOMAIN module[a].mailbox
      /\ \A i \in DOMAIN Tail(module[a].mailbox) :
           /\ i + 1 \in DOMAIN module[a].mailbox
           /\ Tail(module[a].mailbox)[i] = module[a].mailbox[i + 1]
  BY <1>1, HeadTailProperties
<1>3. pos \in Nat /\ pos \in handled[module[a].conn] /\ pos <= module[a].cursor
  BY <1>1, <1>2 DEF IInv, DispatcherInv, Ack
<1>4. /\ m.in_flight = module[a].in_flight /\ m.cursor = module[a].cursor
      /\ m.highest_completed = module[a].highest_completed
      /\ m.conn = module[a].conn /\ m.last_position = module[a].last_position
      /\ m.mailbox = Tail(module[a].mailbox) /\ m.batch = {} /\ m.alive
      /\ m \in Module
  BY <1>1, <1>2 DEF Module
<1>5. /\ UNCHANGED <<log, deleted, handled, worker>> /\ handle_ack(a, m, pos)
      /\ exposed' = exposed
  BY DEF worker_ack_ok
<1>6. m.in_flight \cup m.batch = module[a].in_flight \cup module[a].batch
  BY <1>1, <1>4
<1>7. \A i \in DOMAIN m.mailbox :
        \E j \in DOMAIN module[a].mailbox : m.mailbox[i] = module[a].mailbox[j]
  BY <1>2, <1>4
<1> HIDE DEF m, pos
<1> QED
  BY <1>1, <1>3, <1>4, <1>5, <1>6, <1>7, HandleInv

\* An event acknowledged unread: what the watermark may pass with it is exposed.
LEMMA SkipInv ==
  ASSUME IInv, TypeOK', NEW a \in Actors, NEW p \in module[a].batch, skip_shredded(a, p)
  PROVE  AckKeeps(a)
<1> DEFINE m == [module[a] EXCEPT !.batch = @ \ {p}, !.in_flight = @ \cup {p}]
           f == module[a].conn
<1>1. /\ module[a] \in Module /\ module \in [Actors -> Module]
      /\ module[a].alive /\ p \in Nat /\ f \in Files
      /\ p <= module[a].cursor
      /\ module[a].batch \in SUBSET Nat /\ module[a].in_flight \in SUBSET Nat
      /\ \A q \in module[a].in_flight, r \in module[a].batch : q < r
      /\ \A q \in module[a].batch : p <= q
  <2>1. /\ module[a] \in Module /\ module \in [Actors -> Module]
        /\ module[a].alive /\ \A q \in module[a].batch : p <= q
    BY DEF IInv, TypeOK, skip_shredded, IsMin
  <2>2. /\ f \in Files /\ module[a].cursor \in Nat
        /\ module[a].batch \in SUBSET Nat /\ module[a].in_flight \in SUBSET Nat
    BY <2>1 DEF Module
  <2>3. DispatcherInv(a)
    BY DEF IInv
  <2> QED BY <2>1, <2>2, <2>3 DEF DispatcherInv
<1>2. /\ m.in_flight = module[a].in_flight \cup {p} /\ m.cursor = module[a].cursor
      /\ m.highest_completed = module[a].highest_completed
      /\ m.conn = module[a].conn /\ m.last_position = module[a].last_position
      /\ m.mailbox = module[a].mailbox /\ m.batch = module[a].batch \ {p} /\ m.alive
      /\ m \in Module
  BY <1>1 DEF Module
<1>3. /\ UNCHANGED <<log, deleted, handled, worker>> /\ handle_ack(a, m, p)
      /\ exposed' = [exposed EXCEPT ![f] = @ \cup Exposes(a, p)]
  BY DEF skip_shredded
<1> HIDE DEF m
<1>4. /\ m.in_flight \cup m.batch = module[a].in_flight \cup module[a].batch
      /\ \A q \in m.in_flight, r \in m.batch : q < r
  <2>1. \A r \in m.batch : p < r
    BY <1>1, <1>2
  <2> QED BY <1>1, <1>2, <2>1
<1>5. \A g \in Files : exposed[g] \subseteq exposed'[g]
  BY <1>3 DEF IInv, TypeOK
<1>6. exposed'[f] = exposed[f] \cup Exposes(a, p)
  BY <1>1, <1>3 DEF IInv, TypeOK
<1>7. module'[a].alive =>
        module'[a].batch = m.batch /\ module'[a].in_flight = m.in_flight \ {p}
  BY <1>1, <1>2, <1>3, HandleHolds
<1>8. module'[a].alive => p \in exposed'[f]
  BY <1>6 DEF Exposes
<1>9. module'[a].alive /\ m.in_flight \ {p} = {} => m.batch \subseteq exposed'[f]
  BY <1>6, <1>7 DEF Exposes
<1> QED
  BY <1>1, <1>2, <1>3, <1>4, <1>5, <1>8, <1>9, HandleInv

\* Starting a dispatcher: it vouches for what the file's watermark vouches for.
LEMMA StartInv ==
  ASSUME IInv, TypeOK', NEW a \in Actors, NEW major, NEW reset_db,
         on_start(a, major, reset_db)
  PROVE  DispatcherInv(a)'
<1> USE DEF IInv
<1>1. PICK f \in Files :
        module' = [module EXCEPT ![a] =
             [alive |-> TRUE, conn |-> f, last_position |-> db_position[f],
              cursor |-> resume_position(db_position[f]), batch |-> {},
              in_flight |-> {}, highest_completed |-> 0, mailbox |-> <<>>]]
  BY DEF on_start, started
<1> DEFINE m == module'[a]
<1>2. /\ m.alive /\ m.conn = f /\ m.last_position = db_position[f]
      /\ m.cursor = resume_position(db_position[f]) /\ m.batch = {}
      /\ m.in_flight = {} /\ m.highest_completed = 0 /\ m.mailbox = <<>>
  BY <1>1 DEF TypeOK
<1> HIDE DEF m
<1>3. \A w \in Workers : worker'[a][w] = [queue |-> <<>>, current_position |-> None]
  BY DEF on_start, started, TypeOK
<1>4. m.cursor \in Nat /\ m.cursor <= Len(log)
  BY <1>2 DEF TypeOK, resume_position, None
<1>5. log' = log /\ handled' = handled /\ deleted' = deleted /\ exposed' = exposed
  BY DEF on_start, started
<1>6. \A p \in 1 .. m.cursor : Relevant(p)' => p \in handled'[f] \cup exposed'[f]
  BY <1>2, <1>5 DEF LostOnlyIfExposed, Relevant, Shredded
<1> QED BY <1>2, <1>3, <1>4, <1>5, <1>6 DEF DispatcherInv, m, None

\* Taking a batch: whatever the cursor passes and is relevant is in the batch.
LEMMA BatchInv ==
  ASSUME IInv, TypeOK', NEW a \in Actors, next_batch(a)
  PROVE  DispatcherInv(a)'
<1> USE DEF IInv
<1>1. PICK end \in module[a].cursor + 1 .. Len(log) :
        module' = [module EXCEPT ![a].cursor = end,
                                 ![a].batch = Matching(module[a].cursor, end)]
  BY DEF next_batch
<1> DEFINE m == module'[a]
           lo == module[a].cursor
<1>2. /\ module[a] \in Module /\ lo \in Nat
      /\ module[a].alive /\ module[a].batch = {}
      /\ module[a].last_position \in Nat \cup {None}
  BY DEF TypeOK, Module, next_batch
<1>3. /\ m.alive /\ m.conn = module[a].conn
      /\ m.last_position = module[a].last_position
      /\ m.cursor = end /\ m.batch = Matching(lo, end)
      /\ m.in_flight = module[a].in_flight
      /\ m.highest_completed = module[a].highest_completed
      /\ m.mailbox = module[a].mailbox
  BY <1>1, <1>2 DEF TypeOK, Module
<1> HIDE DEF m
<1>4. /\ log' = log /\ handled' = handled /\ deleted' = deleted
      /\ worker' = worker /\ exposed' = exposed
  BY DEF next_batch
<1>5. end \in Nat /\ lo < end /\ end <= Len(log) /\ Len(log) \in Nat
  BY <1>2 DEF TypeOK
<1>6. \A p \in m.batch : lo < p /\ p <= end
  BY <1>2, <1>3, <1>5 DEF Matching
<1>7. \A p \in lo + 1 .. end : Relevant(p) => p \in m.batch
  BY <1>3 DEF Matching, Relevant
<1>8. \A p \in 1 .. lo : 
        Relevant(p) => p \in handled[m.conn] \cup m.in_flight \cup exposed[m.conn]
  BY <1>2, <1>3 DEF DispatcherInv
<1>9. \A p \in 1 .. end :
        Relevant(p)' =>
          p \in handled'[m.conn] \cup m.in_flight \cup m.batch \cup exposed'[m.conn]
  <2> SUFFICES ASSUME NEW p \in 1 .. end, Relevant(p)'
               PROVE  p \in handled'[m.conn] \cup m.in_flight \cup m.batch
                             \cup exposed'[m.conn]
    OBVIOUS
  <2>1. Relevant(p)
    BY <1>4 DEF Relevant, Shredded
  <2>2. p \in 1 .. lo \/ p \in lo + 1 .. end
    BY <1>2, <1>5
  <2> QED BY <2>1, <2>2, <1>4, <1>7, <1>8
<1>10. /\ resume_position(m.last_position) \in Nat
       /\ resume_position(m.last_position) <= lo
       /\ module[a].highest_completed <= lo
       /\ module[a].highest_completed \in Nat
       /\ \A p \in m.in_flight :
            /\ p \in 1 .. lo
            /\ resume_position(m.last_position) < p \/ p \in exposed[m.conn]
  BY <1>2, <1>3 DEF DispatcherInv, resume_position, None, Module
<1>11. \A i \in DOMAIN m.mailbox :
         m.mailbox[i].ok => /\ m.mailbox[i].pos \in handled[m.conn]
                            /\ m.mailbox[i].pos <= end
  <2> SUFFICES ASSUME NEW i \in DOMAIN m.mailbox, m.mailbox[i].ok
               PROVE  /\ m.mailbox[i].pos \in handled[m.conn]
                      /\ m.mailbox[i].pos <= end
    OBVIOUS
  <2>1. m.mailbox \in Seq(Ack)
    BY <1>2, <1>3 DEF Module
  <2>2. m.mailbox[i].pos \in Nat
    <3>1. i \in 1 .. Len(m.mailbox)
      BY <2>1
    <3>2. m.mailbox[i] \in Ack
      BY <2>1, <3>1, ElementOfSeq
    <3> QED BY <3>2 DEF Ack
  <2> QED BY <2>2, <1>2, <1>3, <1>5 DEF DispatcherInv
<1>12. \A w \in Workers :
         /\ worker[a][w].current_position <= end
         /\ \A i \in DOMAIN worker[a][w].queue : worker[a][w].queue[i] <= end
  <2> SUFFICES ASSUME NEW w \in Workers
               PROVE  /\ worker[a][w].current_position <= end
                      /\ \A i \in DOMAIN worker[a][w].queue :
                           worker[a][w].queue[i] <= end
    OBVIOUS
  <2>1. worker[a][w] \in Worker
    BY DEF TypeOK
  <2>2. /\ worker[a][w].current_position \in Nat \cup {None}
        /\ worker[a][w].queue \in Seq(Nat)
    BY <2>1 DEF Worker
  <2>3. \A i \in DOMAIN worker[a][w].queue : worker[a][w].queue[i] \in Nat
    BY <2>2
  <2> QED BY <2>2, <2>3, <1>2, <1>5 DEF DispatcherInv, None
<1>13. module'[a] = m
  BY DEF m
<1>14. /\ resume_position(m.last_position) <= m.cursor
       /\ m.cursor <= Len(log')
       /\ m.highest_completed <= m.cursor
       /\ \A p \in m.in_flight \cup m.batch :
            /\ p \in 1 .. m.cursor
            /\ resume_position(m.last_position) < p \/ p \in exposed'[m.conn]
       /\ \A p \in m.in_flight, q \in m.batch : p < q
  <2>1. \A p \in m.batch : p \in Nat
    BY <1>5, <1>3, <1>2 DEF Matching
  <2> QED BY <1>2, <1>3, <1>4, <1>5, <1>6, <1>10, <2>1
<1>15. /\ \A p \in 1 .. m.cursor :
            Relevant(p)' =>
              p \in handled'[m.conn] \cup m.in_flight \cup m.batch \cup exposed'[m.conn]
       /\ \A i \in DOMAIN m.mailbox :
            m.mailbox[i].ok => /\ m.mailbox[i].pos \in handled'[m.conn]
                               /\ m.mailbox[i].pos <= m.cursor
  BY <1>3, <1>4, <1>9, <1>11
<1>16. \A w \in Workers :
         /\ worker'[a][w].current_position <= m.cursor
         /\ \A i \in DOMAIN worker'[a][w].queue :
              worker'[a][w].queue[i] <= m.cursor
  BY <1>3, <1>4, <1>12
<1> HIDE DEF IInv
<1> QED
  BY <1>13, <1>14, <1>15, <1>16 DEF DispatcherInv

\* Sending the batch's next event to a worker moves it from the batch to the
\* events in flight.
LEMMA DispatchInv ==
  ASSUME IInv, TypeOK', NEW a \in Actors, NEW p \in module[a].batch,
         dispatch(a, p)
  PROVE  DispatcherInv(a)'
<1> USE DEF IInv
<1> DEFINE m == module'[a]
           w == route(log[p])
<1>1. /\ module[a] \in Module /\ module[a].alive
      /\ module[a].in_flight \in SUBSET Nat /\ module[a].batch \in SUBSET Nat
      /\ module[a].cursor \in Nat
      /\ \A q \in module[a].batch : p <= q
  BY DEF TypeOK, Module, dispatch, IsMin
<1>2. module' = [module EXCEPT ![a] =
        [module[a] EXCEPT !.batch = @ \ {p}, !.in_flight = @ \cup {p}]]
  BY DEF dispatch
<1>3. /\ m.alive /\ m.conn = module[a].conn
      /\ m.last_position = module[a].last_position
      /\ m.cursor = module[a].cursor /\ m.batch = module[a].batch \ {p}
      /\ m.in_flight = module[a].in_flight \cup {p}
      /\ m.highest_completed = module[a].highest_completed
      /\ m.mailbox = module[a].mailbox
  BY <1>1, <1>2 DEF TypeOK, Module
<1> HIDE DEF m
<1>4. log' = log /\ handled' = handled /\ deleted' = deleted /\ exposed' = exposed
  BY DEF dispatch
<1>5. /\ \A q \in m.in_flight \cup m.batch :
           /\ q \in 1 .. m.cursor
           /\ resume_position(m.last_position) < q \/ q \in exposed'[m.conn]
      /\ \A q \in m.in_flight, r \in m.batch : q < r
  <2>1. \A r \in m.batch : p < r
    BY <1>1, <1>3
  <2> QED BY <1>1, <1>3, <1>4, <2>1 DEF DispatcherInv
<1>6. \A q \in 1 .. m.cursor :
        Relevant(q)' =>
          q \in handled'[m.conn] \cup m.in_flight \cup m.batch \cup exposed'[m.conn]
  BY <1>1, <1>3, <1>4 DEF DispatcherInv, Relevant, Shredded
<1>7. ASSUME NEW v \in Workers
      PROVE  /\ worker'[a][v].current_position <= m.cursor
             /\ \A i \in DOMAIN worker'[a][v].queue :
                  worker'[a][v].queue[i] <= m.cursor
  <2>1. /\ worker[a][v].current_position <= m.cursor
        /\ \A i \in DOMAIN worker[a][v].queue : worker[a][v].queue[i] <= m.cursor
    BY <1>1, <1>3 DEF DispatcherInv
  <2>2. worker[a][v] \in Worker /\ worker[a][v].queue \in Seq(Nat)
    BY DEF TypeOK, Worker
  <2>3. p \in Nat /\ p <= m.cursor
    BY <1>1, <1>3 DEF DispatcherInv
  <2>4. worker' = [worker EXCEPT ![a] =
          [worker[a] EXCEPT ![w] =
            [worker[a][w] EXCEPT !.queue = Append(worker[a][w].queue, p)]]]
    BY DEF dispatch
  <2>5. CASE v # w
    <3>1. worker'[a][v] = worker[a][v]
      BY <2>4, <2>5 DEF TypeOK
    <3> QED BY <2>1, <3>1
  <2>6. CASE v = w
    <3>1. worker'[a][v] =
            [worker[a][v] EXCEPT !.queue = Append(worker[a][v].queue, p)]
      BY <2>4, <2>6 DEF TypeOK
    <3>2. /\ worker'[a][v].current_position = worker[a][v].current_position
          /\ worker'[a][v].queue = Append(worker[a][v].queue, p)
      BY <2>2, <3>1 DEF Worker
    <3>3. \A i \in DOMAIN Append(worker[a][v].queue, p) :
            Append(worker[a][v].queue, p)[i] <= m.cursor
      BY <2>1, <2>2, <2>3
    <3> QED BY <2>1, <3>2, <3>3
  <2> QED BY <2>5, <2>6
<1>8. /\ resume_position(m.last_position) <= m.cursor
      /\ m.cursor <= Len(log')
      /\ m.highest_completed <= m.cursor
      /\ \A i \in DOMAIN m.mailbox :
           m.mailbox[i].ok => /\ m.mailbox[i].pos \in handled'[m.conn]
                              /\ m.mailbox[i].pos <= m.cursor
  BY <1>1, <1>3, <1>4 DEF DispatcherInv
<1>9. module'[a] = m
  BY DEF m
<1> HIDE DEF IInv
<1> QED BY <1>5, <1>6, <1>7, <1>8, <1>9 DEF DispatcherInv

\* A worker taking the next event of its queue.
LEMMA TakeInv ==
  ASSUME IInv, TypeOK', NEW a \in Actors, NEW w \in Workers, process_event(a, w)
  PROVE  DispatcherInv(a)'
<1> USE DEF IInv
<1> SUFFICES ASSUME module[a].alive PROVE DispatcherInv(a)'
  BY DEF DispatcherInv, process_event
<1>1. /\ module' = module /\ log' = log /\ handled' = handled
      /\ deleted' = deleted /\ exposed' = exposed
  BY DEF process_event
<1>2. ASSUME NEW v \in Workers
      PROVE  /\ worker'[a][v].current_position <= module[a].cursor
             /\ \A i \in DOMAIN worker'[a][v].queue :
                  worker'[a][v].queue[i] <= module[a].cursor
  <2>1. worker[a][v] \in Worker /\ worker[a][v].queue \in Seq(Nat)
    BY DEF TypeOK, Worker
  <2>2. /\ worker[a][v].current_position <= module[a].cursor
        /\ \A i \in DOMAIN worker[a][v].queue :
             worker[a][v].queue[i] <= module[a].cursor
    BY DEF DispatcherInv
  <2>3. CASE v # w
    <3>1. worker'[a][v] = worker[a][v]
      BY <2>3 DEF process_event, TypeOK
    <3> QED BY <2>2, <3>1
  <2>4. CASE v = w
    <3>1. worker[a][v].queue # <<>>
      BY <2>4 DEF process_event
    <3>2. /\ worker'[a][v].queue = Tail(worker[a][v].queue)
          /\ worker'[a][v].current_position = Head(worker[a][v].queue)
      BY <2>4 DEF process_event, TypeOK
    <3>3. /\ Head(worker[a][v].queue) = worker[a][v].queue[1]
          /\ 1 \in DOMAIN worker[a][v].queue
          /\ \A i \in DOMAIN Tail(worker[a][v].queue) :
               /\ i + 1 \in DOMAIN worker[a][v].queue
               /\ Tail(worker[a][v].queue)[i] = worker[a][v].queue[i + 1]
      BY <2>1, <3>1, HeadTailProperties
    <3> QED BY <2>2, <3>2, <3>3
  <2> QED BY <2>3, <2>4
<1> QED BY <1>1, <1>2 DEF DispatcherInv, Relevant, Shredded

\* A worker finishing an event, one way or the other: a successful ack is sent
\* only once the event is handled.
LEMMA FinishInv ==
  ASSUME IInv, TypeOK', NEW a \in Actors, NEW w \in Workers,
         event_handled(a, w) \/ event_failed(a, w)
  PROVE  Grows /\ DispatcherInv(a)'
<1> USE DEF IInv
<1> DEFINE p == worker[a][w].current_position
           c == module[a].conn
<1>1. /\ log' = log /\ deleted' = deleted /\ exposed' = exposed /\ p \in Nat
      /\ worker[a][w] \in Worker /\ module[a] \in Module
      /\ c \in Files /\ module[a].cursor \in Nat
  BY DEF event_handled, event_failed, TypeOK, Worker, Module
<1>2. PICK ok \in BOOLEAN :
        /\ Tell(a, [ok |-> ok, pos |-> p])
        /\ ok => p \in handled'[c]
  <2>1. CASE event_handled(a, w)
    <3>1. Tell(a, [ok |-> TRUE, pos |-> p])
      BY <2>1 DEF event_handled
    <3>2. handled' = [handled EXCEPT ![c] = @ \cup {p}]
      BY <2>1 DEF event_handled
    <3>3. p \in handled'[c]
      BY <1>1, <3>2 DEF TypeOK
    <3> QED BY <3>1, <3>3
  <2>2. CASE event_failed(a, w)
    BY <2>2 DEF event_failed
  <2> QED BY <2>1, <2>2
<1>3. \A f \in Files : handled[f] \subseteq handled'[f]
  <2>1. \/ handled' = handled
        \/ handled' = [handled EXCEPT ![c] = @ \cup {p}]
    BY DEF event_handled, event_failed
  <2> QED BY <1>1, <2>1 DEF TypeOK
<1>4. Grows
  BY <1>1, <1>3 DEF Grows, TypeOK
<1>5. CASE ~module[a].alive
  BY <1>2, <1>4, <1>5 DEF Tell, DispatcherInv
<1>6. CASE module[a].alive
  <2> DEFINE box == Append(module[a].mailbox, [ok |-> ok, pos |-> p])
             m   == [module[a] EXCEPT !.mailbox = box]
  <2>1. module' = [module EXCEPT ![a] = m]
    BY <1>2, <1>6 DEF Tell
  <2>2. module'[a] = m /\ module[a].mailbox \in Seq(Ack)
    BY <2>1, <1>1 DEF TypeOK, Module
  <2>3. /\ m.alive /\ m.conn = c /\ m.mailbox = box
        /\ m.last_position = module[a].last_position
        /\ m.cursor = module[a].cursor /\ m.batch = module[a].batch
        /\ m.in_flight = module[a].in_flight
        /\ m.highest_completed = module[a].highest_completed
    BY <1>1, <1>6 DEF Module
  <2> HIDE DEF m
  <2>4. p <= module[a].cursor
    BY <1>6 DEF DispatcherInv
  <2>5. \A i \in DOMAIN box :
          box[i].ok => box[i].pos \in handled'[c] /\ box[i].pos <= m.cursor
    <3> SUFFICES ASSUME NEW i \in DOMAIN box, box[i].ok
                 PROVE  box[i].pos \in handled'[c] /\ box[i].pos <= m.cursor
      OBVIOUS
    <3>0. [ok |-> ok, pos |-> p] \in Ack
      BY <1>1 DEF Ack
    <3>1. \/ i \in DOMAIN module[a].mailbox /\ box[i] = module[a].mailbox[i]
          \/ box[i] = [ok |-> ok, pos |-> p]
      BY <2>2, <3>0, AppendProperties
    <3>2. CASE i \in DOMAIN module[a].mailbox /\ box[i] = module[a].mailbox[i]
      <4>1. module[a].mailbox[i].pos \in handled[c]
            /\ module[a].mailbox[i].pos <= module[a].cursor
        BY <3>2, <1>6 DEF DispatcherInv
      <4> QED BY <4>1, <3>2, <1>1, <1>3, <2>3
    <3>3. CASE box[i] = [ok |-> ok, pos |-> p]
      BY <3>3, <1>2, <2>3, <2>4
    <3> QED BY <3>1, <3>2, <3>3
  <2>6. ASSUME NEW v \in Workers
        PROVE  /\ worker'[a][v].current_position <= m.cursor
               /\ \A i \in DOMAIN worker'[a][v].queue :
                    worker'[a][v].queue[i] <= m.cursor
    <3>1. /\ worker[a][v].current_position <= m.cursor
          /\ \A i \in DOMAIN worker[a][v].queue :
               worker[a][v].queue[i] <= m.cursor
      BY <1>6, <2>3 DEF DispatcherInv
    <3>2. \/ worker'[a][v] = worker[a][v]
          \/ worker'[a][v] = [worker[a][v] EXCEPT !.current_position = None]
      <4>1. worker' = [worker EXCEPT ![a] =
              [worker[a] EXCEPT ![w] =
                [worker[a][w] EXCEPT !.current_position = None]]]
        BY FinishWorker
      <4> QED BY <4>1 DEF TypeOK
    <3>3. worker[a][v] \in Worker
      BY DEF TypeOK
    <3>4. CASE worker'[a][v] = [worker[a][v] EXCEPT !.current_position = None]
      <4>1. /\ worker'[a][v].current_position = None
            /\ worker'[a][v].queue = worker[a][v].queue
        BY <3>3, <3>4 DEF Worker
      <4> QED BY <3>1, <4>1, <2>3, <1>1 DEF None
    <3> QED BY <3>1, <3>2, <3>4
  <2>7. \A q \in 1 .. m.cursor :
          Relevant(q)' =>
            q \in handled'[m.conn] \cup m.in_flight \cup m.batch \cup exposed'[m.conn]
    BY <1>1, <1>3, <1>6, <2>3 DEF DispatcherInv, Relevant, Shredded
  <2>8. /\ resume_position(m.last_position) <= m.cursor
        /\ m.cursor <= Len(log')
        /\ m.highest_completed <= m.cursor
        /\ \A q \in m.in_flight \cup m.batch :
             /\ q \in 1 .. m.cursor
             /\ resume_position(m.last_position) < q \/ q \in exposed'[m.conn]
        /\ \A q \in m.in_flight, r \in m.batch : q < r
    BY <1>1, <1>6, <2>3 DEF DispatcherInv
  <2> HIDE DEF box
  <2>9. DispatcherInv(a)'
    BY <2>2, <2>3, <2>5, <2>6, <2>7, <2>8 DEF DispatcherInv
  <2> QED BY <1>4, <2>9
<1> QED BY <1>5, <1>6

LEMMA InitInv == Init => IInv
<1> SUFFICES ASSUME Init PROVE IInv
  OBVIOUS
<1>1. TypeOK
  BY InitType
<1>2. \A f \in Files : resume_position(db_position[f]) = 0
  BY DEF Init, started, resume_position
<1>3. \A a \in Actors : ~module[a].alive
  BY DEF Init, started
<1>4. Len(log) = 0
  BY DEF Init, started
<1>5. LostOnlyIfExposed
  BY <1>2 DEF LostOnlyIfExposed
<1>6. \A f \in Files : resume_position(db_position[f]) <= Len(log)
  BY <1>2, <1>4
<1>7. \A a \in Actors : DispatcherInv(a)
  BY <1>3 DEF DispatcherInv
<1> QED BY <1>1, <1>5, <1>6, <1>7 DEF IInv

\* One step per action.
LEMMA NextInv ==
  ASSUME IInv, [Next]_vars
  PROVE  IInv'
<1>1. TypeOK /\ LostOnlyIfExposed /\ MarksInLog /\ \A b \in Actors : DispatcherInv(b)
  BY DEF IInv, MarksInLog
<1>2. TypeOK'
  BY <1>1, NextType
<1> SUFFICES LostOnlyIfExposed' /\ MarksInLog' /\ \A b \in Actors : DispatcherInv(b)'
  BY <1>2 DEF IInv, MarksInLog
\* A step of dispatcher a or its workers.
<1>3. ASSUME NEW a \in Actors, Grows, DispatcherInv(a)',
             LostOnlyIfExposed' /\ MarksInLog',
             \A b \in Actors \ {a} : module'[b] = module[b] /\ worker'[b] = worker[b]
      PROVE  LostOnlyIfExposed' /\ MarksInLog' /\ \A b \in Actors : DispatcherInv(b)'
  <2>1. ASSUME NEW b \in Actors \ {a} PROVE DispatcherInv(b)'
    BY <1>1, <1>2, <1>3, Frame
  <2> QED BY <1>3, <2>1
<1>4. CASE \E e \in Event : append(e)
  <2>1. PICK e \in Event : append(e)
    BY <1>4
  <2>2. Grows
    BY <1>1, <2>1 DEF append, Grows, TypeOK
  <2>3. module' = module /\ worker' = worker /\ db_position' = db_position
    BY <2>1 DEF append
  <2> QED BY <1>1, <1>2, <2>2, <2>3, Frame, MarksFrame
<1>5. ASSUME NEW a \in Actors, NEW major \in Majors, NEW reset_db \in BOOLEAN,
             on_start(a, major, reset_db)
      PROVE  LostOnlyIfExposed' /\ MarksInLog' /\ \A b \in Actors : DispatcherInv(b)'
  <2>1. Grows /\ db_position' = db_position
    BY <1>1, <1>5 DEF on_start, started, Grows, TypeOK
  <2>2. \A b \in Actors \ {a} : module'[b] = module[b] /\ worker'[b] = worker[b]
    BY <1>1, <1>5 DEF on_start, started, TypeOK
  <2>3. LostOnlyIfExposed' /\ MarksInLog'
    BY <1>1, <1>2, <2>1, MarksFrame
  <2> QED BY <1>2, <1>3, <1>5, <2>1, <2>2, <2>3, StartInv
<1>6. ASSUME NEW a \in Actors,
             \/ next_batch(a)
             \/ \E p \in module[a].batch : dispatch(a, p)
      PROVE  LostOnlyIfExposed' /\ MarksInLog' /\ \A b \in Actors : DispatcherInv(b)'
  <2>1. Grows /\ db_position' = db_position
    <3>1. /\ log' = log /\ deleted' = deleted /\ handled' = handled
          /\ db_position' = db_position /\ exposed' = exposed
      BY <1>6 DEF next_batch, dispatch
    <3> QED BY <1>1, <3>1 DEF Grows, TypeOK
  <2>2. \A b \in Actors \ {a} : module'[b] = module[b] /\ worker'[b] = worker[b]
    BY <1>1, <1>6 DEF next_batch, dispatch, TypeOK
  <2>3. LostOnlyIfExposed' /\ MarksInLog'
    BY <1>1, <1>2, <2>1, MarksFrame
  <2> QED BY <1>2, <1>3, <1>6, <2>1, <2>2, <2>3, BatchInv, DispatchInv
<1>7. ASSUME NEW a \in Actors, NEW p \in module[a].batch, skip_shredded(a, p)
      PROVE  LostOnlyIfExposed' /\ MarksInLog' /\ \A b \in Actors : DispatcherInv(b)'
  <2>2. Grows /\ DispatcherInv(a)' /\ LostOnlyIfExposed' /\ MarksInLog'
    BY <1>2, <1>7, SkipInv DEF AckKeeps
  <2>3. \A b \in Actors \ {a} : module'[b] = module[b] /\ worker'[b] = worker[b]
    BY <1>1, <1>7 DEF skip_shredded, handle_ack, TypeOK
  <2> QED BY <1>3, <2>2, <2>3
<1>8. ASSUME NEW a \in Actors, worker_ack_ok(a)
      PROVE  LostOnlyIfExposed' /\ MarksInLog' /\ \A b \in Actors : DispatcherInv(b)'
  <2>1. DispatcherInv(a)' /\ LostOnlyIfExposed' /\ MarksInLog'
    BY <1>2, <1>8, AckInv DEF AckKeeps
  <2>2. Grows
    BY <1>1, <1>8 DEF worker_ack_ok, Grows, TypeOK
  <2>3. \A b \in Actors \ {a} : module'[b] = module[b] /\ worker'[b] = worker[b]
    BY <1>1, <1>8 DEF worker_ack_ok, handle_ack, TypeOK
  <2> QED BY <1>3, <2>1, <2>2, <2>3
<1>9. ASSUME NEW a \in Actors, worker_ack_err(a) \/ die(a)
      PROVE  LostOnlyIfExposed' /\ MarksInLog' /\ \A b \in Actors : DispatcherInv(b)'
  <2>1. Grows /\ db_position' = db_position /\ worker' = worker
    BY <1>1, <1>9 DEF worker_ack_err, die, Grows, TypeOK
  <2>2. module' = [module EXCEPT ![a] = Stopped(module[a])]
    BY <1>9 DEF worker_ack_err, die
  <2>3. \A b \in Actors \ {a} : module'[b] = module[b]
    BY <1>1, <2>2 DEF TypeOK
  <2>4. ~module'[a].alive
    BY <1>1, <2>2 DEF TypeOK, Stopped, Module
  <2>5. DispatcherInv(a)'
    BY <2>4 DEF DispatcherInv
  <2>6. LostOnlyIfExposed' /\ MarksInLog'
    BY <1>1, <1>2, <2>1, MarksFrame
  <2> QED BY <1>3, <2>1, <2>3, <2>5, <2>6
<1>10. ASSUME NEW a \in Actors, NEW w \in Workers, process_event(a, w)
       PROVE  LostOnlyIfExposed' /\ MarksInLog' /\ \A b \in Actors : DispatcherInv(b)'
  <2>1. Grows /\ db_position' = db_position /\ module' = module
    BY <1>1, <1>10 DEF process_event, Grows, TypeOK
  <2>2. \A b \in Actors \ {a} : worker'[b] = worker[b]
    BY <1>1, <1>10 DEF process_event, TypeOK
  <2>3. LostOnlyIfExposed' /\ MarksInLog'
    BY <1>1, <1>2, <2>1, MarksFrame
  <2>4. DispatcherInv(a)'
    BY <1>2, <1>10, TakeInv
  <2> QED BY <1>3, <2>1, <2>2, <2>3, <2>4
<1>11. ASSUME NEW a \in Actors, NEW w \in Workers,
              event_handled(a, w) \/ event_failed(a, w)
       PROVE  LostOnlyIfExposed' /\ MarksInLog' /\ \A b \in Actors : DispatcherInv(b)'
  <2>1. Grows /\ DispatcherInv(a)'
    BY <1>2, <1>11, FinishInv
  <2>2. db_position' = db_position
    BY <1>11 DEF event_handled, event_failed
  <2>3. \A b \in Actors \ {a} : worker'[b] = worker[b] /\ module'[b] = module[b]
    BY <1>1, <1>11 DEF event_handled, event_failed, Tell, TypeOK
  <2>4. LostOnlyIfExposed' /\ MarksInLog'
    BY <1>1, <1>2, <2>1, <2>2, MarksFrame
  <2> QED BY <1>3, <2>1, <2>3, <2>4
<1>12. CASE UNCHANGED vars
  <2>1. /\ Grows /\ db_position' = db_position
        /\ module' = module /\ worker' = worker
    BY <1>1, <1>12 DEF vars, Grows, TypeOK
  <2> QED BY <1>1, <1>2, <2>1, Frame, MarksFrame
<1>13. ASSUME NEW k \in KeyIds, delete_crypto_key(k)
       PROVE  LostOnlyIfExposed' /\ MarksInLog' /\ \A b \in Actors : DispatcherInv(b)'
  <2>1. /\ Grows /\ db_position' = db_position
        /\ module' = module /\ worker' = worker
    BY <1>1, <1>13 DEF delete_crypto_key, Grows, TypeOK
  <2> QED BY <1>1, <1>2, <2>1, Frame, MarksFrame
<1> QED
  BY <1>4, <1>5, <1>6, <1>7, <1>8, <1>9, <1>10, <1>11, <1>12, <1>13
     DEF Next, Work, Dispatch

\* At-least-once delivery: no crash, failed handler, deleted key, store that does not
\* answer, restart, replay or second dispatcher leaves a readable event below the
\* persisted watermark unhandled, but for the events exposed by an ack of an unread one.
THEOREM OnlyExposedLost == Spec => []LostOnlyIfExposed
<1>1. IInv /\ [Next]_vars => IInv'
  BY NextInv
<1>2. IInv => LostOnlyIfExposed
  BY DEF IInv
<1> QED BY InitInv, <1>1, <1>2, PTL DEF Spec

\* Only two steps write a position.
LEMMA NextHolds ==
  ASSUME IInv, [Next]_vars PROVE MarksHold
<1>1. TypeOK /\ TypeOK' /\ db_position \in [Files -> Nat \cup {None}]
  BY NextType DEF IInv, TypeOK
<1>2. ASSUME NEW a \in Actors, worker_ack_ok(a) PROVE MarksHold
  BY <1>1, <1>2, AckInv DEF AckKeeps
<1>3. ASSUME NEW a \in Actors, NEW p \in module[a].batch, skip_shredded(a, p)
      PROVE  MarksHold
  BY <1>1, <1>3, SkipInv DEF AckKeeps
<1>4. CASE db_position' = db_position
  BY <1>1, <1>4, MarksStay
<1>5. \/ \E a \in Actors : worker_ack_ok(a)
      \/ \E a \in Actors : \E p \in module[a].batch : skip_shredded(a, p)
      \/ db_position' = db_position
  BY DEF Next, Work, Dispatch, append, delete_crypto_key, on_start, next_batch,
         dispatch, worker_ack_err, die, process_event, event_handled,
         event_failed, vars
<1> QED BY <1>2, <1>3, <1>4, <1>5

\* A file's watermark moves backwards only to just below an exposed event, however many
\* dispatchers of the module race to update it.
THEOREM WatermarkFallsToExposed == Spec => FallsOnlyToExposed
<1>1. IInv /\ [Next]_vars => IInv'
  BY NextInv
<1>2. IInv /\ [Next]_vars
        => [\A f \in Files :
              resume_position(db_position[f]') < resume_position(db_position[f]) =>
                resume_position(db_position[f]') + 1 \in exposed[f]]_vars
  BY NextHolds DEF MarksHold
<1> QED BY InitInv, <1>1, <1>2, PTL DEF Spec, FallsOnlyToExposed

\* With no encryption key, no event is ever taken for shredded.
LEMMA NoSkip ==
  ASSUME KeyIds = {}, IInv, NEW a \in Actors, NEW p \in module[a].batch
  PROVE  ~skip_shredded(a, p)
<1> SUFFICES ASSUME skip_shredded(a, p) PROVE FALSE
  OBVIOUS
<1>1. p \in module[a].batch /\ module[a] \in Module /\ module[a].alive
  BY DEF IInv, TypeOK, skip_shredded
<1>2. p \in 1 .. Len(log)
  <2>1. module[a].cursor \in Nat /\ Len(log) \in Nat
    BY <1>1 DEF Module, IInv, TypeOK
  <2>2. p \in 1 .. module[a].cursor /\ module[a].cursor <= Len(log)
    BY <1>1 DEF IInv, DispatcherInv
  <2> QED BY <2>1, <2>2
<1>3. log[p] \in Event
  BY <1>2, ElementOfSeq DEF IInv, TypeOK
<1>4. log[p].key_id = NoKey
  <2>1. \A e \in Event : e.key_id \in KeyIds \cup {NoKey}
    <3> SUFFICES ASSUME NEW e \in Event PROVE e.key_id \in KeyIds \cup {NoKey}
      OBVIOUS
    <3>1. CASE e \in [matches : {TRUE}, pkey : PartitionKeys \cup {Unkeyed},
                      key_id : KeyIds \cup {NoKey}]
      BY <3>1
    <3>2. CASE e = [matches |-> FALSE, pkey |-> Unkeyed, key_id |-> NoKey]
      BY <3>2
    <3> QED BY <3>1, <3>2 DEF Event
  <2> QED BY <1>3, <2>1
<1> QED BY <1>4 DEF skip_shredded

\* Without encrypted events nothing is exposed.
PlainInv == IInv /\ \A f \in Files : exposed[f] = {}

LEMMA InitPlain == Init => PlainInv
BY InitInv DEF Init, PlainInv

LEMMA NextPlain ==
  ASSUME KeyIds = {}, PlainInv, [Next]_vars PROVE PlainInv'
<1>1. IInv'
  BY NextInv DEF PlainInv
<1>2. ASSUME NEW a \in Actors, NEW p \in module[a].batch, skip_shredded(a, p) PROVE FALSE
  BY <1>2, NoSkip DEF PlainInv
<1>3. exposed' = exposed
  BY <1>2 DEF Next, Work, Dispatch, append, delete_crypto_key, on_start, next_batch,
              dispatch, worker_ack_ok, worker_ack_err, die, process_event,
              event_handled, event_failed, vars
<1> QED BY <1>1, <1>3 DEF PlainInv

\* At-least-once delivery without exception, for effects none of whose events are
\* encrypted.
THEOREM PlainAtLeastOnce ==
  ASSUME KeyIds = {}
  PROVE  Spec => []AtLeastOnce
<1>1. PlainInv /\ [Next]_vars => PlainInv'
  BY NextPlain
<1>2. PlainInv => AtLeastOnce
  BY DEF PlainInv, IInv, LostOnlyIfExposed, AtLeastOnce
<1> QED BY InitPlain, <1>1, <1>2, PTL DEF Spec

\* With unencrypted events no file's watermark ever moves backwards.
THEOREM PlainWatermarkMonotone ==
  ASSUME KeyIds = {}
  PROVE  Spec => WatermarkMonotone
<1>1. PlainInv /\ [Next]_vars => PlainInv'
  BY NextPlain
<1>2. PlainInv /\ [Next]_vars
        => [\A f \in Files :
              resume_position(db_position[f])
                <= resume_position(db_position[f]')]_vars
  <2> SUFFICES ASSUME PlainInv, [Next]_vars, NEW f \in Files
               PROVE  resume_position(db_position[f]) <= resume_position(db_position'[f])
    BY DEF resume_position
  <2>1. MarksHold /\ TypeOK /\ TypeOK' /\ exposed[f] = {}
    BY NextHolds, NextType DEF PlainInv, IInv
  <2>2. /\ resume_position(db_position[f]) \in Nat
        /\ resume_position(db_position'[f]) \in Nat
    BY <2>1 DEF TypeOK, resume_position, None
  <2> QED BY <2>1, <2>2 DEF MarksHold, resume_position
<1> QED BY InitPlain, <1>1, <1>2, PTL DEF Spec, WatermarkMonotone

-----------------------------------------------------------------------------
(* Order within a partition key, for every effect *)

LogGrows == Len(log) <= Len(log') /\ \A p \in 1 .. Len(log) : log'[p] = log[p]

\* Every event has a worker.
LEMMA RouteType ==
  ASSUME TypeOK, NEW p \in 1 .. Len(log) PROVE route(log[p]) \in Workers
<1>1. log[p] \in Event
  BY ElementOfSeq DEF TypeOK
<1>2. \A e \in Event : e.pkey \in PartitionKeys \cup {Unkeyed}
  <2> SUFFICES ASSUME NEW e \in Event
               PROVE  e.pkey \in PartitionKeys \cup {Unkeyed}
    OBVIOUS
  <2>1. CASE e \in [matches : {TRUE}, pkey : PartitionKeys \cup {Unkeyed},
                    key_id : KeyIds \cup {NoKey}]
    BY <2>1
  <2>2. CASE e = [matches |-> FALSE, pkey |-> Unkeyed, key_id |-> NoKey]
    BY <2>2
  <2> QED BY <2>1, <2>2 DEF Event
<1> QED BY <1>1, <1>2, RouteAssumption DEF route, Workers

\* The positions of a dispatcher and of its workers are numbers.
LEMMA OrderTypes ==
  ASSUME TypeOK, NEW a \in Actors
  PROVE  /\ module[a] \in Module /\ module[a].cursor \in Nat /\ module[a].conn \in Files
         /\ module[a].in_flight \in SUBSET Nat /\ module[a].batch \in SUBSET Nat
         /\ module[a].highest_completed \in Nat /\ module[a].mailbox \in Seq(Ack)
         /\ \A w \in Workers :
              /\ worker[a][w] \in Worker /\ worker[a][w].queue \in Seq(Nat)
              /\ worker[a][w].current_position \in Nat \cup {None}
              /\ \A i \in DOMAIN worker[a][w].queue : worker[a][w].queue[i] \in Nat
BY DEF TypeOK, Module, Worker

\* A step that leaves a dispatcher and its workers alone keeps their order.
LEMMA OrderFrame ==
  ASSUME TypeOK, LogGrows, NEW b \in Actors, Ordered(b),
         module'[b] = module[b], worker'[b] = worker[b], Len(log') \in Nat
  PROVE  Ordered(b)'
<1>1. module[b].cursor \in Nat /\ module[b].cursor <= Len(log) /\ Len(log) \in Nat
  BY OrderTypes DEF Ordered, TypeOK
<1>2. /\ Answered(b)' = Answered(b)
      /\ \A w : Queued(b, w)' = Queued(b, w) /\ AtWorker(b, w)' = AtWorker(b, w)
  BY DEF Answered, Queued, AtWorker
<1>3. \A p \in 1 .. module[b].cursor : route(log'[p]) = route(log[p])
  BY <1>1 DEF LogGrows
<1>4. module[b].in_flight \cup module[b].batch \cup Answered(b) \subseteq 1 .. module[b].cursor
  BY DEF Ordered
<1>5. \A p \in module[b].in_flight :
        p \in AtWorker(b, route(log'[p])) \cup Answered(b)
  BY <1>3, <1>4 DEF Ordered
<1>6. ASSUME NEW w \in Workers PROVE InOrder(b, w)'
  <2>1. InOrder(b, w)
    BY DEF Ordered
  <2> QED BY <1>2, <1>3, <2>1 DEF InOrder
<1>7. module[b].cursor <= Len(log')
  BY <1>1 DEF LogGrows
<1> QED BY <1>2, <1>4, <1>5, <1>6, <1>7 DEF Ordered

\* A dispatcher that starts has given out nothing.
LEMMA StartOrder ==
  ASSUME OrderInv, NEW a \in Actors, NEW major, NEW reset_db, on_start(a, major, reset_db)
  PROVE  Ordered(a)'
<1>1. PICK f \in Files :
        module' = [module EXCEPT ![a] =
             [alive |-> TRUE, conn |-> f, last_position |-> db_position[f],
              cursor |-> resume_position(db_position[f]), batch |-> {},
              in_flight |-> {}, highest_completed |-> 0, mailbox |-> <<>>]]
  BY DEF on_start
<1> DEFINE m == module'[a]
<1>2. /\ m.cursor = resume_position(db_position[f]) /\ m.batch = {}
      /\ m.in_flight = {} /\ m.highest_completed = 0 /\ m.mailbox = <<>>
  BY <1>1 DEF OrderInv, TypeOK
<1>3. m.cursor \in Nat /\ m.cursor <= Len(log) /\ log' = log
  BY <1>2 DEF OrderInv, TypeOK, resume_position, None, on_start
<1>4. \A w \in Workers : worker'[a][w] = [queue |-> <<>>, current_position |-> None]
  BY DEF on_start, started, OrderInv, TypeOK
<1>5. Answered(a)' = {}
  BY <1>2 DEF Answered
<1>6. \A w \in Workers : AtWorker(a, w)' = {} /\ worker'[a][w].queue = <<>>
  BY <1>4 DEF AtWorker, Queued
<1>7. \A w \in Workers : InOrder(a, w)'
  BY <1>6 DEF InOrder
<1> HIDE DEF m
<1>8. /\ m.cursor <= Len(log') /\ m.highest_completed <= m.cursor
      /\ m.in_flight \cup m.batch \cup Answered(a)' \subseteq 1 .. m.cursor
      /\ m.in_flight = {}
  BY <1>2, <1>3, <1>5
<1> QED BY <1>7, <1>8 DEF Ordered, m

\* A batch comes after all that was given out before.
LEMMA BatchOrder ==
  ASSUME OrderInv, NEW a \in Actors, next_batch(a) PROVE Ordered(a)'
<1>1. PICK end \in module[a].cursor + 1 .. Len(log) :
        module' = [module EXCEPT ![a].cursor = end,
                                 ![a].batch = Matching(module[a].cursor, end)]
  BY DEF next_batch
<1> DEFINE lo == module[a].cursor
<1>2. TypeOK /\ Ordered(a) /\ module[a] \in Module /\ lo \in Nat /\ Len(log) \in Nat
  BY OrderTypes DEF OrderInv, next_batch, TypeOK
<1>3. /\ module'[a].cursor = end /\ module'[a].batch = Matching(lo, end)
      /\ module'[a].in_flight = module[a].in_flight
      /\ module'[a].highest_completed = module[a].highest_completed
      /\ module'[a].mailbox = module[a].mailbox
  BY <1>1, <1>2 DEF TypeOK, Module
<1>4. end \in Nat /\ lo < end /\ end <= Len(log) /\ log' = log /\ worker' = worker
  BY <1>2 DEF next_batch
<1>5. /\ Matching(lo, end) \subseteq lo + 1 .. end
      /\ \A p \in 1 .. lo : p \in 1 .. end /\ \A q \in lo + 1 .. end : p < q
  BY <1>2, <1>4 DEF Matching
<1>6. /\ Answered(a)' = Answered(a)
      /\ \A w : Queued(a, w)' = Queued(a, w) /\ AtWorker(a, w)' = AtWorker(a, w)
  BY <1>3, <1>4 DEF Answered, Queued, AtWorker
<1>7. ASSUME NEW w \in Workers PROVE InOrder(a, w)'
  <2>1. InOrder(a, w)
    BY <1>2 DEF Ordered
  <2>2. \A p \in AtWorker(a, w) :
          /\ p \in 1 .. end /\ route(log[p]) = w
          /\ \A q \in Matching(lo, end) : p < q
    BY <1>5, <2>1 DEF InOrder
  <2> QED BY <1>3, <1>4, <1>6, <2>1, <2>2 DEF InOrder
<1>8. /\ module[a].in_flight \cup Matching(lo, end) \cup Answered(a) \subseteq 1 .. end
      /\ module[a].highest_completed <= end
  <2>1. module[a].in_flight \cup Answered(a) \subseteq 1 .. lo
    BY <1>2 DEF Ordered
  <2>2. module[a].highest_completed <= lo /\ module[a].highest_completed \in Nat
    BY <1>2, OrderTypes DEF Ordered
  <2>3. Matching(lo, end) \subseteq 1 .. end
    BY <1>2, <1>4, <1>5
  <2> QED BY <1>2, <1>4, <1>5, <2>1, <2>2, <2>3
<1>9. \A p \in module[a].in_flight : p \in AtWorker(a, route(log[p])) \cup Answered(a)
  BY <1>2 DEF Ordered
<1> QED BY <1>3, <1>4, <1>6, <1>7, <1>8, <1>9 DEF Ordered

\* What a queue or a mailbox holds once something is added to its end.
LEMMA QueueAppend ==
  ASSUME NEW s \in Seq(Nat), NEW p \in Nat
  PROVE  /\ DOMAIN Append(s, p) = 1 .. Len(s) + 1 /\ DOMAIN s = 1 .. Len(s)
         /\ Len(s) \in Nat
         /\ Append(s, p)[Len(s) + 1] = p
         /\ \A i \in 1 .. Len(s) : Append(s, p)[i] = s[i]
OBVIOUS

\* An event that is sent goes to the end of its worker's queue.
LEMMA DispatchOrder ==
  ASSUME OrderInv, NEW a \in Actors, NEW p \in module[a].batch, dispatch(a, p)
  PROVE  Ordered(a)'
<1>1. /\ TypeOK /\ Ordered(a) /\ module[a] \in Module /\ module[a].cursor \in Nat
      /\ Len(log) \in Nat
  BY OrderTypes DEF OrderInv, dispatch, TypeOK
<1>a. module[a].in_flight \cup module[a].batch \subseteq 1 .. module[a].cursor
      /\ module[a].cursor <= Len(log)
  BY <1>1 DEF Ordered
<1>b. route(log[p]) \in Workers
  BY <1>1, <1>a, RouteType
<1>c. PICK w \in Workers : w = route(log[p])
  BY <1>b
<1>d. PICK queue \in Seq(Nat) : queue = worker[a][w].queue
  BY <1>1, OrderTypes
<1>2. /\ module' = [module EXCEPT ![a] =
           [module[a] EXCEPT !.batch = @ \ {p}, !.in_flight = @ \cup {p}]]
      /\ worker' = [worker EXCEPT ![a] =
           [worker[a] EXCEPT ![w] = [worker[a][w] EXCEPT !.queue = Append(queue, p)]]]
      /\ log' = log /\ \A q \in module[a].batch : p <= q
  BY <1>c, <1>d DEF dispatch, IsMin
<1>3. /\ module'[a].cursor = module[a].cursor /\ module'[a].batch = module[a].batch \ {p}
      /\ module'[a].in_flight = module[a].in_flight \cup {p}
      /\ module'[a].highest_completed = module[a].highest_completed
      /\ module'[a].mailbox = module[a].mailbox
  BY <1>1, <1>2 DEF TypeOK, Module
<1>4. /\ module[a].in_flight \cup module[a].batch \cup Answered(a)
           \subseteq 1 .. module[a].cursor
      /\ module[a].cursor <= Len(log)
      /\ module[a].highest_completed <= module[a].cursor
  BY <1>1 DEF Ordered
<1>5. p \in 1 .. module[a].cursor /\ p \in 1 .. Len(log) /\ w \in Workers
  BY <1>1, <1>4
<1>6. queue \in Seq(Nat) /\ worker[a][w] \in Worker /\ p \in Nat
  BY <1>1, <1>5, OrderTypes
<1>7. /\ worker'[a][w].queue = Append(queue, p)
      /\ worker'[a][w].current_position = worker[a][w].current_position
      /\ \A v \in Workers : v # w => worker'[a][v] = worker[a][v]
  BY <1>1, <1>2, <1>5, <1>6 DEF TypeOK, Worker
<1>8. /\ DOMAIN Append(queue, p) = 1 .. Len(queue) + 1 /\ DOMAIN queue = 1 .. Len(queue)
      /\ Len(queue) \in Nat
      /\ Append(queue, p)[Len(queue) + 1] = p
      /\ \A i \in 1 .. Len(queue) : Append(queue, p)[i] = queue[i]
  BY <1>6, QueueAppend
<1>9. Queued(a, w)' = Queued(a, w) \cup {p}
  <2>1. ASSUME NEW x \in Queued(a, w)' PROVE x \in Queued(a, w) \cup {p}
    <3>1. PICK i \in 1 .. Len(queue) + 1 : x = Append(queue, p)[i]
      BY <1>7, <1>8, <2>1 DEF Queued
    <3>2. i = Len(queue) + 1 \/ i \in 1 .. Len(queue)
      BY <1>8
    <3> QED BY <1>d, <1>8, <3>1, <3>2 DEF Queued
  <2>2. ASSUME NEW x \in Queued(a, w) \cup {p} PROVE x \in Queued(a, w)'
    <3>1. CASE x = p
      <4>1. /\ Len(queue) + 1 \in DOMAIN worker'[a][w].queue
            /\ worker'[a][w].queue[Len(queue) + 1] = x
        BY <1>7, <1>8, <3>1
      <4> QED BY <4>1 DEF Queued
    <3>2. CASE x \in Queued(a, w)
      <4>1. PICK i \in 1 .. Len(queue) : x = queue[i]
        BY <1>d, <1>8, <3>2 DEF Queued
      <4>2. i \in 1 .. Len(queue) + 1 /\ Append(queue, p)[i] = x
        BY <1>8, <4>1
      <4> QED BY <1>d, <1>7, <1>8, <4>2 DEF Queued
    <3> QED BY <3>1, <3>2
  <2> QED BY <2>1, <2>2
<1>10. /\ AtWorker(a, w)' = AtWorker(a, w) \cup {p} /\ Answered(a)' = Answered(a)
       /\ \A v \in Workers : v # w => AtWorker(a, v)' = AtWorker(a, v)
  <2>1. AtWorker(a, w)' = AtWorker(a, w) \cup {p}
    BY <1>7, <1>9 DEF AtWorker
  <2>2. Answered(a)' = Answered(a)
    BY <1>3 DEF Answered
  <2>3. ASSUME NEW v \in Workers, v # w PROVE AtWorker(a, v)' = AtWorker(a, v)
    BY <1>7, <2>3 DEF AtWorker, Queued
  <2> QED BY <2>1, <2>2, <2>3
<1>11. ASSUME NEW v \in Workers PROVE InOrder(a, v)'
  <2>1. InOrder(a, v)
    BY <1>1 DEF Ordered
  <2>2. CASE v # w
    <3>1. AtWorker(a, v)' = AtWorker(a, v) /\ worker'[a][v] = worker[a][v]
      BY <1>7, <1>10, <2>2
    <3> QED BY <1>2, <1>3, <2>1, <3>1 DEF InOrder
  <2>3. CASE v = w
    <3>1. \A x \in AtWorker(a, w) : x < p
      BY <2>1, <2>3 DEF InOrder
    <3>2. \A i \in 1 .. Len(queue) : queue[i] \in AtWorker(a, w)
      BY <1>d, <1>8 DEF AtWorker, Queued
    <3>3. \A i, j \in 1 .. Len(queue) + 1 :
            i < j => Append(queue, p)[i] < Append(queue, p)[j]
      <4> SUFFICES ASSUME NEW i \in 1 .. Len(queue) + 1, NEW j \in 1 .. Len(queue) + 1, i < j
                   PROVE  Append(queue, p)[i] < Append(queue, p)[j]
        OBVIOUS
      <4>1. i \in 1 .. Len(queue) /\ (j \in 1 .. Len(queue) \/ j = Len(queue) + 1)
        BY <1>8
      <4> QED BY <1>d, <1>6, <1>8, <2>1, <2>3, <3>1, <3>2, <4>1 DEF InOrder
    <3>4. \A i \in 1 .. Len(queue) + 1 :
            worker[a][w].current_position < Append(queue, p)[i]
      <4>1. worker[a][w].current_position < p
        <5>1. CASE worker[a][w].current_position = None
          BY <1>6, <5>1 DEF None
        <5>2. CASE worker[a][w].current_position # None
          BY <3>1, <5>2 DEF AtWorker
        <5> QED BY <5>1, <5>2
      <4> SUFFICES ASSUME NEW i \in 1 .. Len(queue) + 1
                   PROVE  worker[a][w].current_position < Append(queue, p)[i]
        OBVIOUS
      <4>2. i \in 1 .. Len(queue) \/ i = Len(queue) + 1
        BY <1>8
      <4> QED BY <1>d, <1>6, <1>8, <2>1, <2>3, <4>1, <4>2 DEF InOrder
    <3>5. \A x \in AtWorker(a, w) \cup {p} :
            /\ x \in 1 .. module[a].cursor /\ route(log[x]) = w
            /\ \A q \in module[a].batch \ {p} : x < q
      <4>1. \A q \in module[a].batch \ {p} : q \in Nat /\ p < q
        BY <1>1, <1>2, <1>6, OrderTypes
      <4> QED BY <1>5, <1>c, <2>1, <2>3, <4>1 DEF InOrder
    <3> QED BY <1>2, <1>3, <1>7, <1>8, <1>10, <2>3, <3>3, <3>4, <3>5 DEF InOrder
  <2> QED BY <2>2, <2>3
<1>12. \A q \in module[a].in_flight \cup {p} :
         q \in AtWorker(a, route(log[q]))' \cup Answered(a)'
  <2> SUFFICES ASSUME NEW q \in module[a].in_flight \cup {p}
               PROVE  q \in AtWorker(a, route(log[q]))' \cup Answered(a)'
    OBVIOUS
  <2>1. CASE q = p
    BY <1>2, <1>c, <1>10, <2>1
  <2>2. CASE q \in module[a].in_flight
    <3>1. route(log[q]) \in Workers
      BY <1>1, <1>4, <2>2, RouteType
    <3>2. q \in AtWorker(a, route(log[q])) \cup Answered(a)
      BY <1>1, <2>2 DEF Ordered
    <3> QED BY <1>2, <1>c, <1>10, <3>1, <3>2
  <2> QED BY <2>1, <2>2
<1> QED BY <1>1, <1>2, <1>3, <1>4, <1>5, <1>10, <1>11, <1>12 DEF Ordered

\* What is left of a dispatcher after handle_ack, and the watermark it stores.
LEMMA HandleOrder ==
  ASSUME OrderInv, NEW a \in Actors, module[a].alive, NEW m \in Module,
         NEW pos \in Nat, handle_ack(a, m, pos), UNCHANGED <<log, worker>>,
         m.cursor = module[a].cursor, m.conn = module[a].conn,
         m.highest_completed = module[a].highest_completed,
         m.batch \subseteq module[a].batch, pos \in 1 .. m.cursor,
         m.in_flight \ {pos} \subseteq module[a].in_flight,
         {m.mailbox[i].pos : i \in DOMAIN m.mailbox} \subseteq Answered(a),
         \A p \in m.in_flight \ {pos} :
           \/ p \in AtWorker(a, route(log[p]))
           \/ p \in {m.mailbox[i].pos : i \in DOMAIN m.mailbox}
  PROVE  (module'[a].alive => Ordered(a)') /\ MarksInLog'
<1> DEFINE rest      == m.in_flight \ {pos}
           completed == Larger(m.highest_completed, pos)
           watermark == calculate_watermark(rest, m.cursor, completed)
           done      == [m EXCEPT !.in_flight = rest,
                                  !.highest_completed = completed]
           answered  == {m.mailbox[i].pos : i \in DOMAIN m.mailbox}
<1>1. /\ TypeOK /\ Ordered(a) /\ MarksInLog /\ Len(log) \in Nat
      /\ m.cursor \in Nat /\ m.conn \in Files /\ m.in_flight \in SUBSET Nat
      /\ m.highest_completed \in Nat
  BY DEF OrderInv, MarksInLog, TypeOK, Module
<1>2. /\ m.cursor <= Len(log) /\ m.highest_completed <= m.cursor
      /\ rest \cup m.batch \cup answered \subseteq 1 .. m.cursor
  BY <1>1 DEF Ordered
<1>3. /\ completed \in Nat /\ completed <= m.cursor /\ rest \in SUBSET Nat
  BY <1>1, <1>2 DEF Larger
<1>4. watermark \in Nat \cup {None} /\ resume_position(watermark) <= m.cursor
  <2>1. /\ watermark \in Nat \cup {None}
        /\ rest = {} => watermark = Larger(m.cursor, completed)
        /\ rest # {} => watermark + 1 \in rest
    <3> HIDE DEF rest, completed
    <3> QED BY ONLY <1>1, <1>3, WatermarkValue
  <2> HIDE DEF watermark, rest, completed
  <2>2. CASE rest = {}
    BY <2>1, <2>2, <1>1, <1>3 DEF Larger, None, resume_position
  <2>3. CASE rest # {}
    <3>1. watermark + 1 \in 1 .. m.cursor
      BY <2>1, <2>3, <1>2
    <3> QED BY <2>1, <3>1, <1>1 DEF None, resume_position
  <2> QED BY <2>2, <2>3
<1>5. /\ done.cursor = m.cursor /\ done.batch = m.batch /\ done.in_flight = rest
      /\ done.highest_completed = completed /\ done.mailbox = m.mailbox
      /\ [done EXCEPT !.last_position = watermark].cursor = m.cursor
      /\ [done EXCEPT !.last_position = watermark].batch = m.batch
      /\ [done EXCEPT !.last_position = watermark].in_flight = rest
      /\ [done EXCEPT !.last_position = watermark].highest_completed = completed
      /\ [done EXCEPT !.last_position = watermark].mailbox = m.mailbox
  BY DEF Module
<1>6. \A p \in rest : p \in AtWorker(a, route(log[p])) \cup answered
  OBVIOUS
<1>7. module \in [Actors -> Module] /\ db_position \in [Files -> Nat \cup {None}]
  BY <1>1 DEF TypeOK
<1>8. /\ log' = log /\ worker' = worker
  OBVIOUS
<1> HIDE DEF rest, completed, watermark, done
<1>9. \/ ~module'[a].alive
      \/ /\ module'[a].cursor = m.cursor /\ module'[a].batch = m.batch
         /\ module'[a].in_flight = rest /\ module'[a].mailbox = m.mailbox
         /\ module'[a].highest_completed = completed
  <2>1. CASE module' = [module EXCEPT ![a] = done]
    BY <1>5, <1>7, <2>1
  <2>2. CASE module' = [module EXCEPT ![a] = [done EXCEPT !.last_position = watermark]]
    BY <1>5, <1>7, <2>2
  <2>3. CASE module' = [module EXCEPT ![a] = Stopped(m)]
    BY <1>7, <2>3 DEF Stopped, Module
  <2> QED BY <2>1, <2>2, <2>3 DEF handle_ack, done, watermark, rest, completed
<1>10. MarksInLog'
  <2>1. CASE db_position' = db_position
    BY <1>1, <1>8, <2>1 DEF MarksInLog
  <2>2. CASE db_position' = [db_position EXCEPT ![m.conn] = watermark]
    BY <1>1, <1>2, <1>4, <1>7, <1>8, <2>2 DEF MarksInLog, resume_position
  <2> QED BY <2>1, <2>2 DEF handle_ack, done, watermark, rest, completed
<1>11. ASSUME module'[a].alive PROVE Ordered(a)'
  <2>1. /\ module'[a].cursor = m.cursor /\ module'[a].batch = m.batch
        /\ module'[a].in_flight = rest /\ module'[a].mailbox = m.mailbox
        /\ module'[a].highest_completed = completed
    BY <1>9, <1>11
  <2>2. Answered(a)' = answered
    BY <2>1 DEF Answered
  <2>3. \A w : AtWorker(a, w)' = AtWorker(a, w)
    BY <1>8 DEF AtWorker, Queued
  <2>4. ASSUME NEW w \in Workers PROVE InOrder(a, w)'
    <3>1. InOrder(a, w)
      BY <1>1 DEF Ordered
    <3> QED BY <1>8, <2>1, <2>3, <3>1 DEF InOrder
  <2> HIDE DEF answered
  <2> QED BY <1>2, <1>3, <1>6, <1>8, <2>1, <2>2, <2>3, <2>4 DEF Ordered
<1> QED BY <1>10, <1>11

\* A skipped event leaves the batch, and is in flight no longer than handle_ack runs.
LEMMA SkipOrder ==
  ASSUME OrderInv, NEW a \in Actors, NEW p \in module[a].batch, skip_shredded(a, p)
  PROVE  (module'[a].alive => Ordered(a)') /\ MarksInLog'
<1> DEFINE m == [module[a] EXCEPT !.batch = @ \ {p}, !.in_flight = @ \cup {p}]
<1>1. /\ module[a].alive /\ Ordered(a) /\ module[a] \in Module /\ p \in Nat
      /\ module[a].batch \in SUBSET Nat /\ module[a].in_flight \in SUBSET Nat
  BY OrderTypes DEF OrderInv, skip_shredded
<1>2. /\ m \in Module /\ m.cursor = module[a].cursor /\ m.conn = module[a].conn
      /\ m.highest_completed = module[a].highest_completed
      /\ m.batch = module[a].batch \ {p} /\ m.in_flight = module[a].in_flight \cup {p}
      /\ m.mailbox = module[a].mailbox
  BY <1>1 DEF Module
<1>3. /\ p \in 1 .. module[a].cursor
      /\ \A q \in module[a].in_flight : q \in AtWorker(a, route(log[q])) \cup Answered(a)
  BY <1>1 DEF Ordered
<1>4. handle_ack(a, m, p) /\ UNCHANGED <<log, worker>>
  BY DEF skip_shredded
<1> HIDE DEF m
<1>5. {m.mailbox[i].pos : i \in DOMAIN m.mailbox} = Answered(a)
  BY <1>2 DEF Answered
<1> QED BY <1>1, <1>2, <1>3, <1>4, <1>5, HandleOrder

\* What an ack answered for is what its dispatcher takes out of in_flight.
LEMMA AckOrder ==
  ASSUME OrderInv, NEW a \in Actors, worker_ack_ok(a)
  PROVE  (module'[a].alive => Ordered(a)') /\ MarksInLog'
<1> DEFINE m   == [module[a] EXCEPT !.mailbox = Tail(@)]
           pos == Head(module[a].mailbox).pos
<1>1. /\ module[a].alive /\ Ordered(a) /\ module[a] \in Module
      /\ module[a].mailbox \in Seq(Ack) /\ module[a].mailbox # <<>>
  BY OrderTypes DEF OrderInv, worker_ack_ok
<1>2. /\ Head(module[a].mailbox) \in Ack
      /\ Tail(module[a].mailbox) \in Seq(Ack)
      /\ Head(module[a].mailbox) = module[a].mailbox[1]
      /\ 1 \in DOMAIN module[a].mailbox
      /\ \A i \in DOMAIN module[a].mailbox \ {1} :
           /\ i - 1 \in DOMAIN Tail(module[a].mailbox)
           /\ Tail(module[a].mailbox)[i - 1] = module[a].mailbox[i]
      /\ \A i \in DOMAIN Tail(module[a].mailbox) :
           /\ i + 1 \in DOMAIN module[a].mailbox
           /\ Tail(module[a].mailbox)[i] = module[a].mailbox[i + 1]
  BY <1>1, HeadTailProperties
<1>3. /\ m \in Module /\ m.cursor = module[a].cursor /\ m.conn = module[a].conn
      /\ m.highest_completed = module[a].highest_completed
      /\ m.batch = module[a].batch /\ m.in_flight = module[a].in_flight
      /\ m.mailbox = Tail(module[a].mailbox)
  BY <1>1, <1>2 DEF Module
<1>4. handle_ack(a, m, pos) /\ UNCHANGED <<log, worker>>
  BY DEF worker_ack_ok
<1>5. pos \in Answered(a) /\ pos \in Nat
  BY <1>2 DEF Answered, Ack
<1>6. /\ Answered(a) \subseteq 1 .. module[a].cursor
      /\ \A q \in module[a].in_flight : q \in AtWorker(a, route(log[q])) \cup Answered(a)
  BY <1>1 DEF Ordered
<1> HIDE DEF m
<1>7. {m.mailbox[i].pos : i \in DOMAIN m.mailbox} \subseteq Answered(a)
  BY <1>2, <1>3 DEF Answered
<1>8. ASSUME NEW q \in Answered(a) \ {pos}
      PROVE  q \in {m.mailbox[i].pos : i \in DOMAIN m.mailbox}
  <2>1. PICK i \in DOMAIN module[a].mailbox : q = module[a].mailbox[i].pos
    BY DEF Answered
  <2>2. i # 1
    BY <1>2, <2>1
  <2>3. i - 1 \in DOMAIN m.mailbox /\ m.mailbox[i - 1].pos = q
    BY <1>2, <1>3, <2>1, <2>2
  <2> QED BY <2>3
<1> HIDE DEF pos
<1> QED BY <1>1, <1>3, <1>4, <1>5, <1>6, <1>7, <1>8, HandleOrder

\* A worker that takes up an event has it still.
LEMMA TakeOrder ==
  ASSUME OrderInv, NEW a \in Actors, NEW w \in Workers, module[a].alive,
         process_event(a, w)
  PROVE  Ordered(a)'
<1>1. TypeOK /\ Ordered(a) /\ module' = module /\ log' = log
  BY DEF OrderInv, process_event
<1>2. PICK queue \in Seq(Nat) : queue = worker[a][w].queue
  BY <1>1, OrderTypes
<1>3. /\ queue # <<>> /\ worker[a][w].current_position = None
      /\ worker'[a][w].queue = Tail(queue)
      /\ worker'[a][w].current_position = Head(queue)
      /\ \A v \in Workers : v # w => worker'[a][v] = worker[a][v]
  BY <1>1, <1>2 DEF process_event, TypeOK
<1>4. /\ Tail(queue) \in Seq(Nat) /\ Head(queue) = queue[1]
      /\ Head(queue) \in Nat /\ DOMAIN queue = 1 .. Len(queue) /\ Len(queue) \in Nat
      /\ 1 \in DOMAIN queue /\ DOMAIN Tail(queue) = 1 .. Len(queue) - 1
      /\ \A i \in 1 .. Len(queue) - 1 : Tail(queue)[i] = queue[i + 1]
  BY <1>3, HeadTailProperties
<1>5. Queued(a, w) = Queued(a, w)' \cup {Head(queue)}
  <2>1. ASSUME NEW x \in Queued(a, w) PROVE x \in Queued(a, w)' \cup {Head(queue)}
    <3>1. PICK i \in DOMAIN queue : x = queue[i]
      BY <1>2, <2>1 DEF Queued
    <3>2. CASE i = 1
      BY <1>4, <3>1, <3>2
    <3>3. CASE i # 1
      <4>1. i - 1 \in 1 .. Len(queue) - 1 /\ Tail(queue)[i - 1] = x
        BY <1>4, <3>1, <3>3
      <4> QED BY <1>3, <1>4, <4>1 DEF Queued
    <3> QED BY <3>2, <3>3
  <2>2. ASSUME NEW x \in Queued(a, w)' \cup {Head(queue)} PROVE x \in Queued(a, w)
    <3>1. CASE x = Head(queue)
      BY <1>2, <1>4, <3>1 DEF Queued
    <3>2. CASE x \in Queued(a, w)'
      <4>1. PICK i \in 1 .. Len(queue) - 1 : x = Tail(queue)[i]
        BY <1>3, <1>4, <3>2 DEF Queued
      <4>2. i + 1 \in DOMAIN queue /\ queue[i + 1] = x
        BY <1>4, <4>1
      <4> QED BY <1>2, <4>2 DEF Queued
    <3> QED BY <2>2, <3>1, <3>2
  <2> QED BY <2>1, <2>2
<1>6. /\ \A v \in Workers : AtWorker(a, v)' = AtWorker(a, v)
      /\ Answered(a)' = Answered(a)
  <2>1. AtWorker(a, w)' = AtWorker(a, w)
    BY <1>3, <1>4, <1>5 DEF AtWorker, None
  <2>2. ASSUME NEW v \in Workers, v # w PROVE AtWorker(a, v)' = AtWorker(a, v)
    BY <1>3, <2>2 DEF AtWorker, Queued
  <2> QED BY <1>1, <2>1, <2>2 DEF Answered
<1>7. ASSUME NEW v \in Workers PROVE InOrder(a, v)'
  <2>1. InOrder(a, v)
    BY <1>1 DEF Ordered
  <2>2. CASE v # w
    <3>1. AtWorker(a, v)' = AtWorker(a, v) /\ worker'[a][v] = worker[a][v]
      BY <1>3, <1>6, <2>2
    <3> QED BY <1>1, <2>1, <3>1 DEF InOrder
  <2>3. CASE v = w
    <3>1. /\ \A i, j \in 1 .. Len(queue) - 1 :
               i < j => Tail(queue)[i] < Tail(queue)[j]
          /\ \A i \in 1 .. Len(queue) - 1 : Head(queue) < Tail(queue)[i]
      <4>1. \A i, j \in DOMAIN queue : i < j => queue[i] < queue[j]
        BY <1>2, <2>1, <2>3 DEF InOrder
      <4> QED BY <1>4, <4>1
    <3> QED BY <1>1, <1>3, <1>4, <1>6, <2>1, <2>3, <3>1 DEF InOrder
  <2> QED BY <2>2, <2>3
<1>8. \A q \in module[a].in_flight : q \in (AtWorker(a, route(log[q])) \cup Answered(a))'
  <2> SUFFICES ASSUME NEW q \in module[a].in_flight
               PROVE  q \in AtWorker(a, route(log[q]))' \cup Answered(a)'
    BY <1>1
  <2>1. q \in 1 .. Len(log)
    BY <1>1, OrderTypes DEF Ordered, TypeOK
  <2>2. route(log[q]) \in Workers
    BY <1>1, <2>1, RouteType
  <2> QED BY <1>1, <1>6, <2>2 DEF Ordered
<1> QED BY <1>1, <1>6, <1>7, <1>8 DEF Ordered

\* An event that its worker is done with is answered for.
LEMMA FinishOrder ==
  ASSUME OrderInv, NEW a \in Actors, NEW w \in Workers, module[a].alive,
         event_handled(a, w) \/ event_failed(a, w)
  PROVE  Ordered(a)'
<1>1. TypeOK /\ Ordered(a) /\ log' = log /\ module[a] \in Module
  BY DEF OrderInv, event_handled, event_failed, TypeOK
<1>2. PICK p \in Nat : p = worker[a][w].current_position
  BY <1>1, OrderTypes DEF event_handled, event_failed
<1>3. worker' = [worker EXCEPT ![a] =
        [worker[a] EXCEPT ![w] = [worker[a][w] EXCEPT !.current_position = None]]]
  BY <1>1, FinishWorker
<1>4. /\ worker'[a][w].queue = worker[a][w].queue
      /\ worker'[a][w].current_position = None
      /\ \A v \in Workers : v # w => worker'[a][v] = worker[a][v]
  BY <1>1, <1>3 DEF TypeOK, Worker
<1>5. PICK ack \in Ack : ack.pos = p /\ Tell(a, ack)
  <2>1. [ok |-> TRUE, pos |-> p] \in Ack /\ [ok |-> FALSE, pos |-> p] \in Ack
    BY DEF Ack
  <2> QED BY <1>2, <2>1 DEF event_handled, event_failed
<1>6. PICK mailbox \in Seq(Ack) : mailbox = module[a].mailbox
  BY <1>1, OrderTypes
<1>7. /\ module'[a].cursor = module[a].cursor /\ module'[a].batch = module[a].batch
      /\ module'[a].in_flight = module[a].in_flight
      /\ module'[a].highest_completed = module[a].highest_completed
      /\ module'[a].mailbox = Append(mailbox, ack)
  BY <1>1, <1>5, <1>6 DEF Tell, TypeOK, Module
<1>8. /\ DOMAIN Append(mailbox, ack) = 1 .. Len(mailbox) + 1
      /\ DOMAIN mailbox = 1 .. Len(mailbox) /\ Len(mailbox) \in Nat
      /\ Append(mailbox, ack)[Len(mailbox) + 1] = ack
      /\ \A i \in 1 .. Len(mailbox) : Append(mailbox, ack)[i] = mailbox[i]
  BY <1>6
<1>9. Answered(a)' = Answered(a) \cup {p}
  <2>1. ASSUME NEW x \in Answered(a)' PROVE x \in Answered(a) \cup {p}
    <3>1. PICK i \in 1 .. Len(mailbox) + 1 : x = Append(mailbox, ack)[i].pos
      BY <1>7, <1>8, <2>1 DEF Answered
    <3>2. i = Len(mailbox) + 1 \/ i \in 1 .. Len(mailbox)
      BY <1>8
    <3> QED BY <1>5, <1>6, <1>8, <3>1, <3>2 DEF Answered
  <2>2. ASSUME NEW x \in Answered(a) \cup {p} PROVE x \in Answered(a)'
    <3>1. CASE x = p
      BY <1>5, <1>7, <1>8, <3>1 DEF Answered
    <3>2. CASE x \in Answered(a)
      <4>1. PICK i \in 1 .. Len(mailbox) : x = mailbox[i].pos
        BY <1>6, <1>8, <3>2 DEF Answered
      <4>2. i \in 1 .. Len(mailbox) + 1 /\ Append(mailbox, ack)[i].pos = x
        BY <1>8, <4>1
      <4> QED BY <1>7, <1>8, <4>2 DEF Answered
    <3> QED BY <2>2, <3>1, <3>2
  <2> QED BY <2>1, <2>2
<1>10. /\ \A v \in Workers : AtWorker(a, v)' \subseteq AtWorker(a, v)
       /\ \A v \in Workers : AtWorker(a, v) \subseteq AtWorker(a, v)' \cup {p}
  <2>1. AtWorker(a, w)' = Queued(a, w) /\ AtWorker(a, w) = Queued(a, w) \cup {p}
    BY <1>2, <1>4 DEF AtWorker, Queued, None
  <2>2. ASSUME NEW v \in Workers, v # w PROVE AtWorker(a, v)' = AtWorker(a, v)
    BY <1>4, <2>2 DEF AtWorker, Queued
  <2> QED BY <2>1, <2>2
<1>11. ASSUME NEW v \in Workers PROVE InOrder(a, v)'
  <2>1. InOrder(a, v)
    BY <1>1 DEF Ordered
  <2>2. worker'[a][v].queue = worker[a][v].queue
    BY <1>4
  <2>3. \A i \in DOMAIN worker[a][v].queue :
          worker'[a][v].current_position < worker[a][v].queue[i]
    <3>1. CASE v # w
      BY <1>4, <2>1, <3>1 DEF InOrder
    <3>2. CASE v = w
      BY <1>1, <1>4, <3>2, OrderTypes DEF None
    <3> QED BY <3>1, <3>2
  <2> QED BY <1>1, <1>7, <1>10, <2>1, <2>2, <2>3 DEF InOrder
<1>12. p \in 1 .. module[a].cursor
  BY <1>1, <1>2 DEF Ordered, InOrder, AtWorker, None
<1>13. \A q \in module[a].in_flight :
         q \in AtWorker(a, route(log[q]))' \cup Answered(a)'
  <2> SUFFICES ASSUME NEW q \in module[a].in_flight
               PROVE  q \in AtWorker(a, route(log[q]))' \cup Answered(a)'
    OBVIOUS
  <2>1. q \in 1 .. Len(log)
    BY <1>1, OrderTypes DEF Ordered, TypeOK
  <2>2. route(log[q]) \in Workers
    BY <1>1, <2>1, RouteType
  <2> QED BY <1>1, <1>9, <1>10, <2>2 DEF Ordered
<1> QED BY <1>1, <1>7, <1>9, <1>11, <1>12, <1>13 DEF Ordered

\* Before anything is appended nothing is out of order.
LEMMA InitOrder == Init => OrderInv
<1> SUFFICES ASSUME Init PROVE OrderInv
  OBVIOUS
<1>1. TypeOK
  BY InitType
<1>2. \A f \in Files : resume_position(db_position[f]) = 0
  BY DEF Init, resume_position
<1>3. Len(log) = 0 /\ \A a \in Actors : ~module[a].alive
  BY DEF Init
<1> QED BY <1>1, <1>2, <1>3 DEF OrderInv

\* A step of dispatcher a, or of its workers, that writes no position: what is to be
\* shown of it is only that a's own events stay in order.
LEMMA OwnOrder ==
  ASSUME OrderInv, TypeOK', NEW a \in Actors, log' = log, db_position' = db_position,
         \A b \in Actors \ {a} : module'[b] = module[b] /\ worker'[b] = worker[b],
         module'[a].alive => Ordered(a)'
  PROVE  OrderInv'
<1>1. TypeOK /\ LogGrows /\ Len(log') \in Nat
  BY DEF OrderInv, LogGrows, TypeOK
<1>2. \A b \in Actors \ {a} : module'[b].alive => Ordered(b)'
  BY <1>1, OrderFrame DEF OrderInv
<1> QED BY <1>2 DEF OrderInv

\* Each step keeps the events of every live dispatcher in order.
LEMMA NextOrder ==
  ASSUME OrderInv, [Next]_vars PROVE OrderInv'
<1>1. TypeOK /\ TypeOK' /\ Len(log) \in Nat /\ Len(log') \in Nat
  BY NextType DEF OrderInv, TypeOK
<1>2. \A f \in Files : resume_position(db_position[f]) \in Nat
  BY <1>1 DEF TypeOK, resume_position, None
<1>3. ASSUME LogGrows, db_position' = db_position, module' = module, worker' = worker
      PROVE  OrderInv'
  <2>1. \A b \in Actors : module'[b].alive => Ordered(b)'
    BY <1>1, <1>3, OrderFrame DEF OrderInv
  <2>2. \A f \in Files : resume_position(db_position'[f]) <= Len(log')
    BY <1>1, <1>2, <1>3 DEF LogGrows, OrderInv
  <2> QED BY <1>1, <2>1, <2>2 DEF OrderInv
<1>4. CASE \E e \in Event : append(e)
  <2>1. LogGrows
    BY <1>1, <1>4 DEF append, LogGrows, TypeOK
  <2> QED BY <1>3, <1>4, <2>1 DEF append
<1>5. CASE (\E k \in KeyIds : delete_crypto_key(k)) \/ UNCHANGED vars
  <2>1. log' = log /\ db_position' = db_position /\ module' = module /\ worker' = worker
    BY <1>5 DEF delete_crypto_key, vars
  <2>2. LogGrows
    BY <1>1, <2>1 DEF LogGrows
  <2> QED BY <1>3, <2>1, <2>2
<1>6. ASSUME NEW a \in Actors, NEW major \in Majors, NEW reset_db \in BOOLEAN,
             on_start(a, major, reset_db)
      PROVE  OrderInv'
  <2>1. /\ log' = log /\ db_position' = db_position
        /\ \A b \in Actors \ {a} : module'[b] = module[b] /\ worker'[b] = worker[b]
    BY <1>1, <1>6 DEF on_start, TypeOK
  <2>2. Ordered(a)'
    BY <1>6, StartOrder
  <2> QED BY <1>1, <2>1, <2>2, OwnOrder
<1>7. ASSUME NEW a \in Actors, next_batch(a) PROVE OrderInv'
  <2>1. /\ log' = log /\ db_position' = db_position
        /\ \A b \in Actors \ {a} : module'[b] = module[b] /\ worker'[b] = worker[b]
    BY <1>1, <1>7 DEF next_batch, TypeOK
  <2>2. Ordered(a)'
    BY <1>7, BatchOrder
  <2> QED BY <1>1, <2>1, <2>2, OwnOrder
<1>8. ASSUME NEW a \in Actors, NEW p \in module[a].batch, dispatch(a, p) PROVE OrderInv'
  <2>1. /\ log' = log /\ db_position' = db_position
        /\ \A b \in Actors \ {a} : module'[b] = module[b] /\ worker'[b] = worker[b]
    BY <1>1, <1>8 DEF dispatch, TypeOK
  <2>2. Ordered(a)'
    BY <1>8, DispatchOrder
  <2> QED BY <1>1, <2>1, <2>2, OwnOrder
<1>9. ASSUME NEW a \in Actors,
             worker_ack_ok(a) \/ \E p \in module[a].batch : skip_shredded(a, p)
      PROVE  OrderInv'
  <2>1. (module'[a].alive => Ordered(a)') /\ MarksInLog'
    <3>1. CASE worker_ack_ok(a)
      BY <3>1, AckOrder
    <3>2. ASSUME NEW p \in module[a].batch, skip_shredded(a, p)
          PROVE  (module'[a].alive => Ordered(a)') /\ MarksInLog'
      BY <3>2, SkipOrder
    <3> QED BY <1>9, <3>1, <3>2
  <2>2. log' = log /\ worker' = worker
    BY <1>9 DEF worker_ack_ok, skip_shredded
  <2>3. \A b \in Actors \ {a} : module'[b] = module[b]
    BY <1>1, <1>9 DEF worker_ack_ok, skip_shredded, handle_ack, TypeOK
  <2>4. LogGrows
    BY <1>1, <2>2 DEF LogGrows
  <2>5. \A b \in Actors \ {a} : module'[b].alive => Ordered(b)'
    BY <1>1, <2>2, <2>3, <2>4, OrderFrame DEF OrderInv
  <2> QED BY <1>1, <2>1, <2>5 DEF OrderInv, MarksInLog
<1>10. ASSUME NEW a \in Actors, worker_ack_err(a) \/ die(a) PROVE OrderInv'
  <2>1. /\ log' = log /\ db_position' = db_position
        /\ \A b \in Actors \ {a} : module'[b] = module[b] /\ worker'[b] = worker[b]
    BY <1>1, <1>10 DEF worker_ack_err, die, TypeOK
  <2>2. ~module'[a].alive
    <3>1. module' = [module EXCEPT ![a] = Stopped(module[a])]
      BY <1>10 DEF worker_ack_err, die
    <3> QED BY <1>1, <3>1 DEF TypeOK, Stopped, Module
  <2> QED BY <1>1, <2>1, <2>2, OwnOrder
<1>11. ASSUME NEW a \in Actors, NEW w \in Workers, process_event(a, w) PROVE OrderInv'
  <2>1. /\ log' = log /\ db_position' = db_position /\ module' = module
        /\ \A b \in Actors \ {a} : worker'[b] = worker[b]
    BY <1>1, <1>11 DEF process_event, TypeOK
  <2>2. module'[a].alive => Ordered(a)'
    BY <1>11, <2>1, TakeOrder
  <2> QED BY <1>1, <2>1, <2>2, OwnOrder
<1>12. ASSUME NEW a \in Actors, NEW w \in Workers, event_handled(a, w) \/ event_failed(a, w)
       PROVE  OrderInv'
  <2>1. /\ log' = log /\ db_position' = db_position
        /\ \A b \in Actors \ {a} : module'[b] = module[b] /\ worker'[b] = worker[b]
    BY <1>1, <1>12 DEF event_handled, event_failed, Tell, TypeOK
  <2>2. module'[a].alive => module[a].alive
    BY <1>1, <1>12 DEF event_handled, event_failed, Tell, TypeOK
  <2>3. module'[a].alive => Ordered(a)'
    BY <1>12, <2>2, FinishOrder
  <2> QED BY <1>1, <2>1, <2>3, OwnOrder
<1> QED
  BY <1>4, <1>5, <1>6, <1>7, <1>8, <1>9, <1>10, <1>11, <1>12 DEF Next, Work, Dispatch

\* An event at a worker comes after every earlier one with its key that is still to
\* be answered for: both have the same worker, which takes them in order.
LEMMA OrderImpliesKeyed == OrderInv => KeyedOrder
<1> SUFFICES ASSUME OrderInv, NEW a \in Actors, NEW w \in Workers, module[a].alive,
                    worker[a][w].current_position # None,
                    NEW q \in module[a].in_flight, q < worker[a][w].current_position,
                    log[q].pkey = log[worker[a][w].current_position].pkey
             PROVE  \E i \in DOMAIN module[a].mailbox : module[a].mailbox[i].pos = q
  BY DEF KeyedOrder
<1>1. TypeOK /\ Ordered(a) /\ InOrder(a, w)
  BY DEF OrderInv, Ordered
<1>2. PICK p \in Nat : p = worker[a][w].current_position
  BY <1>1, OrderTypes
<1>3. route(log[p]) = w
  BY <1>1, <1>2 DEF InOrder, AtWorker
<1>4. route(log[q]) = w
  BY <1>2, <1>3 DEF route
<1>5. q \notin AtWorker(a, w)
  <2>1. \A i \in DOMAIN worker[a][w].queue : q < worker[a][w].queue[i]
    BY <1>1, <1>2, OrderTypes DEF InOrder
  <2>2. q \in Nat
    BY <1>1, OrderTypes
  <2> QED BY <1>1, <1>2, <2>1, <2>2, OrderTypes DEF AtWorker, Queued
<1>6. q \in Answered(a)
  BY <1>1, <1>4, <1>5 DEF Ordered
<1> QED BY <1>6 DEF Answered

\* Order within a partition key, for every effect, encrypted or not, and with any
\* number of dispatchers, crashes and failures: an event is taken up only once every
\* earlier event with its key has been answered for.
THEOREM KeyedOrderKept == Spec => []KeyedOrder
BY InitOrder, NextOrder, OrderImpliesKeyed, PTL DEF Spec

=============================================================================
