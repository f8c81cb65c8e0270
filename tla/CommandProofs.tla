---------------------------- MODULE CommandProofs ----------------------------
(***************************************************************************)
(* Theorems about commands: the transactions they read and append in       *)
(* (CommandTx), for any number of executions, requests, kinds of events,   *)
(* keys and scopes and any log, and the folds they read with (FoldPass),   *)
(* for every set of fields, event types, folds and bindings, any log and   *)
(* any number of folds of one reader.                                      *)
(***************************************************************************)
EXTENDS CommandTx, FoldPass, FiniteSetTheorems, SequenceTheorems, TLAPS

-----------------------------------------------------------------------------
(* Sequences and the events of one append *)

\* The events of one append are a sequence of events, one per emitted kind.
LEMMA BatchType ==
  ASSUME NEW r \in Requests, NEW first \in Nat, NEW seen \in SUBSET Nat
  PROVE  /\ Serial!Batch(r, first, seen) \in Seq(Event)
         /\ Len(Serial!Batch(r, first, seen)) = Len(r.emits)
         /\ \A i \in 1 .. Len(r.emits) : Serial!Batch(r, first, seen)[i] =
              [kind |-> r.emits[i], ikey |-> r.ikey, first |-> first, seen |-> seen]
<1> DEFINE b == Serial!Batch(r, first, seen)
<1>1. r \in [query : SUBSET Kinds, emits : Seq(Kinds), ikey : Ikeys \cup {NoIkey}]
  BY RequestsAssumption
<1>2. Len(r.emits) \in Nat /\ DOMAIN r.emits = 1 .. Len(r.emits)
  BY <1>1, LenProperties
<1>3. \A i \in 1 .. Len(r.emits) : r.emits[i] \in Kinds
  BY <1>1, ElementOfSeq
<1>4. b = [i \in 1 .. Len(r.emits) |->
         [kind |-> r.emits[i], ikey |-> r.ikey, first |-> first, seen |-> seen]]
  BY <1>2 DEF Serial!Batch
<1>5. b \in [1 .. Len(r.emits) -> Event]
  BY <1>1, <1>3, <1>4 DEF Event
<1>6. b \in Seq(Event)
  BY <1>2, <1>5, SeqDef
<1>7. Len(b) = Len(r.emits)
  BY <1>2, <1>5, <1>6, LenProperties
<1> QED
  BY <1>4, <1>6, <1>7

\* The key ids of one append are a sequence of key ids.
LEMMA KeyIdsType ==
  ASSUME NEW r \in Requests, NEW n \in Nat,
         NEW keys \in [Scopes -> Nat], \A s \in Scopes : keys[s] \in 0 .. n
  PROVE  LET ids == [i \in DOMAIN r.emits |->
                       IF ScopeOf[r.emits[i]] = NoScope
                         THEN NoKeyId ELSE keys[ScopeOf[r.emits[i]]]]
         IN ids \in Seq(0 .. n) /\ Len(ids) = Len(r.emits)
<1> DEFINE ids == [i \in DOMAIN r.emits |->
                     IF ScopeOf[r.emits[i]] = NoScope
                       THEN NoKeyId ELSE keys[ScopeOf[r.emits[i]]]]
<1>1. r.emits \in Seq(Kinds)
  BY RequestsAssumption
<1>2. Len(r.emits) \in Nat /\ DOMAIN r.emits = 1 .. Len(r.emits)
  BY <1>1, LenProperties
<1>3. \A i \in 1 .. Len(r.emits) : ScopeOf[r.emits[i]] \in Scopes \cup {NoScope}
  BY <1>1, ElementOfSeq, ScopeAssumption
<1>4. ids \in [1 .. Len(r.emits) -> 0 .. n]
  BY <1>2, <1>3 DEF NoKeyId
<1>5. ids \in Seq(0 .. n)
  BY <1>2, <1>4, SeqDef
<1>6. Len(ids) = Len(r.emits)
  BY <1>2, <1>4, <1>5, LenProperties
<1> QED
  BY <1>5, <1>6

\* Key ids stay key ids when keys are added.
LEMMA WidenIds ==
  ASSUME NEW m \in Nat, NEW n \in Nat, m <= n, NEW ids \in Seq(0 .. m)
  PROVE  ids \in Seq(0 .. n)
<1>1. Len(ids) \in Nat /\ ids \in [1 .. Len(ids) -> 0 .. m]
  BY LenProperties
<1>2. ids \in [1 .. Len(ids) -> 0 .. n]
  BY <1>1
<1> QED
  BY <1>1, <1>2, SeqDef

\* What a query selects is a set of positions of the log.
LEMMA MatchingType ==
  ASSUME TypeOK, NEW q
  PROVE  /\ Serial!Matching(q, log) \in SUBSET Nat
         /\ Serial!Matching(q, log) = {p \in 1 .. Len(log) : log[p].kind \in q}
<1>1. DOMAIN log = 1 .. Len(log) /\ Len(log) \in Nat
  BY LenProperties DEF TypeOK
<1> QED
  BY <1>1 DEF Serial!Matching

-----------------------------------------------------------------------------
(* Type correctness *)

\* Replacing the transaction of one execution by a well-typed one.
LEMMA UpdateTx ==
  ASSUME tx \in [Execs -> Tx], NEW e \in Execs, NEW t \in Tx, NEW n \in Nat,
         \A d \in Execs, s \in Scopes : tx[d].keys[s] \in 0 .. n,
         \A s \in Scopes : t.keys[s] \in 0 .. n
  PROVE  LET new == [tx EXCEPT ![e] = t]
         IN /\ new \in [Execs -> Tx]
            /\ \A d \in Execs, s \in Scopes : new[d].keys[s] \in 0 .. n
OBVIOUS

\* A new transaction is well-typed, whatever the log holds.
LEMMA NewTx ==
  ASSUME TypeOK, NEW r \in Requests
  PROVE  /\ transaction_new(r) \in Tx
         /\ \A s \in Scopes : transaction_new(r).keys[s] \in 0 .. Len(crypto_keys)
<1>1. Len(log) \in Nat /\ Len(crypto_keys) \in Nat
  BY LenProperties DEF TypeOK
<1>2. Serial!Matching(r.query, log) \in SUBSET Nat
  BY MatchingType
<1> QED
  BY <1>1, <1>2 DEF transaction_new, Tx, Phases, None, NoKeyId

LEMMA InitType == Init => TypeOK
<1> SUFFICES ASSUME Init PROVE TypeOK
  OBVIOUS
<1>1. log \in Seq(Event) /\ crypto_keys \in Seq(CryptoKey)
      /\ Len(log) = 0 /\ Len(crypto_keys) = 0
      /\ key_ids \in Seq(0 .. Len(crypto_keys)) /\ Len(key_ids) = 0
  BY EmptySeq DEF Init
<1>2. tx \in [Execs -> Tx]
  BY DEF Init, Tx, Phases, None, NoKeyId
<1>3. \A e \in Execs, s \in Scopes : tx[e].keys[s] = 0
  BY DEF Init, NoKeyId
<1> QED
  BY <1>1, <1>2, <1>3 DEF TypeOK

\* Every step keeps the shape of the state.
LEMMA NextType == TypeOK /\ [Next]_vars => TypeOK'
<1> SUFFICES ASSUME TypeOK, [Next]_vars PROVE TypeOK'
  OBVIOUS
<1> DEFINE n == Len(crypto_keys)
<1>0. /\ Len(log) \in Nat /\ n \in Nat
      /\ tx \in [Execs -> Tx]
      /\ \A d \in Execs, s \in Scopes : tx[d].keys[s] \in 0 .. n
      /\ log \in Seq(Event) /\ key_ids \in Seq(0 .. n) /\ Len(key_ids) = Len(log)
      /\ crypto_keys \in Seq(CryptoKey)
  BY LenProperties DEF TypeOK
<1>a. ASSUME NEW e \in Execs, NEW t \in Tx, \A s \in Scopes : t.keys[s] \in 0 .. n,
             tx' = [tx EXCEPT ![e] = t],
             UNCHANGED <<log, key_ids, crypto_keys>>
      PROVE  TypeOK'
  <2>1. /\ tx' \in [Execs -> Tx]
        /\ \A d \in Execs, s \in Scopes : tx'[d].keys[s] \in 0 .. n
    <3> HIDE DEF n
    <3> QED BY <1>0, <1>a, UpdateTx
  <2> QED
    BY <1>0, <1>a, <2>1 DEF TypeOK
<1>b. \A e \in Execs : tx[e] \in Tx
  BY <1>0
<1>1. ASSUME NEW s \in Scopes, delete_crypto_key(s) PROVE TypeOK'
  <2>1. crypto_keys \in [1 .. n -> CryptoKey] /\ DOMAIN crypto_keys = 1 .. n
    BY <1>0, LenProperties
  <2>2. crypto_keys' \in [1 .. n -> CryptoKey]
    BY <1>1, <2>1 DEF delete_crypto_key, CryptoKey
  <2>3. crypto_keys' \in Seq(CryptoKey)
    <3> HIDE DEF n
    <3> QED BY <1>0, <2>2, SeqDef
  <2>4. Len(crypto_keys') = n
    BY <1>0, <2>2, <2>3, LenProperties
  <2> QED
    BY <1>0, <1>1, <2>3, <2>4 DEF TypeOK, delete_crypto_key
<1>2. ASSUME NEW e \in Execs, NEW r \in Requests, execute(e, r) PROVE TypeOK'
  BY <1>2, <1>a, NewTx DEF execute
<1>3. ASSUME NEW e \in Execs, retry(e) PROVE TypeOK'
  <2>1. tx[e].request \in Requests
    BY <1>b DEF Tx
  <2> QED
    BY <1>3, <1>a, <2>1, NewTx DEF retry
<1>4. ASSUME NEW e \in Execs, next_batch(e) PROVE TypeOK'
  <2>1. PICK p \in tx[e].todo : tx' = [tx EXCEPT
         ![e].todo = @ \ {p},
         ![e].folded = IF readable(p) THEN @ \cup {p} ELSE @]
    BY <1>4 DEF next_batch
  <2> DEFINE t == [tx[e] EXCEPT !.todo = @ \ {p},
                          !.folded = IF readable(p) THEN @ \cup {p} ELSE @]
  <2>2. t \in Tx /\ t.keys = tx[e].keys
    BY <1>b DEF Tx
  <2>3. tx' = [tx EXCEPT ![e] = t]
    BY <2>1
  <2>4. \A s \in Scopes : t.keys[s] \in 0 .. n
    BY <1>0, <2>2
  <2> HIDE DEF t, n
  <2> QED
    BY <1>4, <1>a, <2>2, <2>3, <2>4 DEF next_batch, n
<1>5. ASSUME NEW e \in Execs, NEW ph \in Phases, NEW pos \in Nat \cup {None},
             tx' = [tx EXCEPT ![e].phase = ph, ![e].position = pos],
             UNCHANGED <<log, key_ids, crypto_keys>>
      PROVE  TypeOK'
  <2> DEFINE t == [tx[e] EXCEPT !.phase = ph, !.position = pos]
  <2>1. t \in Tx /\ t.keys = tx[e].keys
    BY <1>b DEF Tx
  <2>2. tx' = [tx EXCEPT ![e] = t]
    BY <1>5, <1>0
  <2>3. \A s \in Scopes : t.keys[s] \in 0 .. n
    BY <1>0, <2>1
  <2> HIDE DEF t, n
  <2> QED
    BY <1>5, <1>a, <2>1, <2>2, <2>3 DEF n
<1>6. ASSUME NEW e \in Execs, NEW ph \in Phases,
             tx' = [tx EXCEPT ![e].phase = ph],
             UNCHANGED <<log, key_ids, crypto_keys>>
      PROVE  TypeOK'
  <2> DEFINE t == [tx[e] EXCEPT !.phase = ph]
  <2>1. t \in Tx /\ t.keys = tx[e].keys
    BY <1>b DEF Tx
  <2>2. tx' = [tx EXCEPT ![e] = t]
    BY <1>6, <1>0
  <2>3. \A s \in Scopes : t.keys[s] \in 0 .. n
    BY <1>0, <2>1
  <2> HIDE DEF t, n
  <2> QED
    BY <1>6, <1>a, <2>1, <2>2, <2>3 DEF n
<1>7. \A e \in Execs : tx[e].head \in Nat \cup {None}
  BY <1>b DEF Tx
<1>8. ASSUME NEW e \in Execs, duplicate(e) \/ emit_nothing(e) PROVE TypeOK'
  BY <1>5, <1>7, <1>8 DEF duplicate, emit_nothing, Phases
<1>9. ASSUME NEW e \in Execs, emit(e) \/ append_conflict(e) \/ fail(e) PROVE TypeOK'
  BY <1>6, <1>9 DEF emit, append_conflict, fail, Phases
<1>10. ASSUME NEW e \in Execs, NEW s \in Scopes, create_crypto_key(e, s)
       PROVE  TypeOK'
  <2>1. \A k \in Nat : LET t == [tx[e] EXCEPT !.keys[s] = k]
                       IN t \in Tx /\ t.keys = [tx[e].keys EXCEPT ![s] = k]
    BY <1>b DEF Tx
  <2>2. \A k : [tx EXCEPT ![e].keys[s] = k] =
                 [tx EXCEPT ![e] = [tx[e] EXCEPT !.keys[s] = k]]
    BY <1>0
  <2>3. tx[e].keys \in [Scopes -> Nat]
    BY <1>b DEF Tx
  <2>4. CASE \E k \in DOMAIN crypto_keys :
               /\ tx' = [tx EXCEPT ![e].keys[s] = k]
               /\ UNCHANGED crypto_keys
    <3>1. PICK k \in DOMAIN crypto_keys : /\ tx' = [tx EXCEPT ![e].keys[s] = k]
                                          /\ UNCHANGED crypto_keys
      BY <2>4
    <3>2. k \in 1 .. n
      BY <1>0, LenProperties
    <3> DEFINE t == [tx[e] EXCEPT !.keys[s] = k]
    <3>3. t \in Tx /\ t.keys = [tx[e].keys EXCEPT ![s] = k]
      BY <1>0, <2>1, <3>2
    <3>4. \A z \in Scopes : t.keys[z] \in 0 .. n
      BY <1>0, <2>3, <3>2, <3>3
    <3>5. tx' = [tx EXCEPT ![e] = t]
      BY <2>2, <3>1
    <3>6. UNCHANGED <<log, key_ids, crypto_keys>>
      BY <1>10, <3>1 DEF create_crypto_key
    <3> HIDE DEF t, n
    <3> QED
      BY <1>a, <3>3, <3>4, <3>5, <3>6
  <2>5. CASE /\ crypto_keys' = Append(crypto_keys, [scope |-> s, deleted |-> FALSE])
             /\ tx' = [tx EXCEPT ![e].keys[s] = Len(crypto_keys) + 1]
    <3> DEFINE t == [tx[e] EXCEPT !.keys[s] = n + 1]
    <3>1. crypto_keys' \in Seq(CryptoKey) /\ Len(crypto_keys') = n + 1
      BY <1>0, <2>5, AppendProperties DEF CryptoKey
    <3>2. key_ids' \in Seq(0 .. n + 1) /\ UNCHANGED <<log, key_ids>>
      <4>1. UNCHANGED <<log, key_ids>>
        BY <1>10 DEF create_crypto_key
      <4>2. key_ids \in Seq(0 .. n + 1)
        <5> HIDE DEF n
        <5> QED BY <1>0, WidenIds
      <4> QED
        BY <4>1, <4>2
    <3>3. t \in Tx /\ t.keys = [tx[e].keys EXCEPT ![s] = n + 1]
      <4>1. n + 1 \in Nat
        BY <1>0
      <4> HIDE DEF n
      <4> QED BY <2>1, <4>1
    <3>4. \A z \in Scopes : t.keys[z] \in 0 .. n + 1
      BY <1>0, <2>3, <3>3
    <3>5. tx' = [tx EXCEPT ![e] = t]
      BY <2>2, <2>5
    <3>6. \A d \in Execs, z \in Scopes : tx[d].keys[z] \in 0 .. n + 1
      BY <1>0
    <3>7. /\ tx' \in [Execs -> Tx]
          /\ \A d \in Execs, z \in Scopes : tx'[d].keys[z] \in 0 .. n + 1
      <4>1. n + 1 \in Nat
        BY <1>0
      <4> HIDE DEF t, n
      <4> QED BY <1>0, <3>3, <3>4, <3>5, <3>6, <4>1, UpdateTx
    <3> QED
      BY <1>0, <3>1, <3>2, <3>7 DEF TypeOK
  <2> QED
    BY <1>10, <2>4, <2>5 DEF create_crypto_key
<1>11. ASSUME NEW e \in Execs, append(e) PROVE TypeOK'
  <2> DEFINE r == tx[e].request
             b == Serial!Batch(r, Len(log) + 1, tx[e].events)
             ids == [i \in DOMAIN r.emits |->
                       IF ScopeOf[r.emits[i]] = NoScope
                         THEN NoKeyId ELSE tx[e].keys[ScopeOf[r.emits[i]]]]
             t == [tx[e] EXCEPT !.phase = "ok",
                                !.position = Len(log) + Len(r.emits)]
  <2>1. r \in Requests /\ tx[e].events \in SUBSET Nat /\ tx[e].keys \in [Scopes -> Nat]
    BY <1>b DEF Tx
  <2>2. Len(r.emits) \in Nat
    BY <2>1, RequestsAssumption, LenProperties
  <2>3. b \in Seq(Event) /\ Len(b) = Len(r.emits)
    BY <1>0, <2>1, BatchType
  <2>4. ids \in Seq(0 .. n) /\ Len(ids) = Len(r.emits)
    <3> HIDE DEF n
    <3> QED BY <1>0, <2>1, KeyIdsType
  <2>5. log' \in Seq(Event) /\ Len(log') = Len(log) + Len(r.emits)
    <3> HIDE DEF b
    <3>1. log' = log \o b
      BY <1>11 DEF append, b
    <3>2. log \o b \in Seq(Event) /\ Len(log \o b) = Len(log) + Len(b)
      BY <1>0, <2>3, ConcatProperties
    <3> QED
      BY <2>3, <3>1, <3>2
  <2>6. key_ids' \in Seq(0 .. n) /\ Len(key_ids') = Len(log) + Len(r.emits)
    <3> HIDE DEF ids, n
    <3>1. key_ids' = key_ids \o ids
      BY <1>11 DEF append, ids
    <3>2. /\ key_ids \o ids \in Seq(0 .. n)
          /\ Len(key_ids \o ids) = Len(key_ids) + Len(ids)
      BY <1>0, <2>4, ConcatProperties
    <3> QED
      BY <1>0, <2>4, <3>1, <3>2
  <2>7. t \in Tx /\ t.keys = tx[e].keys
    <3>1. Len(log) + Len(r.emits) \in Nat
      BY <1>0, <2>2
    <3> DEFINE pos == Len(log) + Len(r.emits)
    <3>2. tx[e] \in Tx /\ pos \in Nat
      BY <1>b, <3>1
    <3> HIDE DEF pos
    <3>3. [tx[e] EXCEPT !.phase = "ok", !.position = pos] \in Tx
      BY <3>2 DEF Tx, Phases
    <3>4. [tx[e] EXCEPT !.phase = "ok", !.position = pos].keys = tx[e].keys
      BY <3>2 DEF Tx
    <3> QED BY <3>3, <3>4 DEF pos
  <2>8. tx' = [tx EXCEPT ![e] = t] /\ UNCHANGED crypto_keys
    BY <1>0, <1>11 DEF append
  <2>9. /\ tx' \in [Execs -> Tx]
        /\ \A d \in Execs, z \in Scopes : tx'[d].keys[z] \in 0 .. n
    <3>1. \A z \in Scopes : t.keys[z] \in 0 .. n
      BY <1>0, <2>7
    <3> HIDE DEF t, n
    <3> QED BY <1>0, <2>7, <2>8, <3>1, UpdateTx
  <2> QED
    BY <1>0, <2>5, <2>6, <2>8, <2>9 DEF TypeOK
<1>12. CASE UNCHANGED vars
  BY <1>12 DEF vars, TypeOK
<1> QED
  BY <1>1, <1>2, <1>3, <1>4, <1>8, <1>9, <1>10, <1>11, <1>12 DEF Next, api_execute,
     ui_execute, Run, run, HostTransaction

\* CommandTx's state keeps its shape: in particular no event and no transaction
\* ever refers to an encryption key the module store does not have a row for.
THEOREM TypeCorrect == Spec => []TypeOK
  BY InitType, NextType, PTL DEF Spec
-----------------------------------------------------------------------------
(* Command execution implements serial execution *)

\* What the append condition buys: when it holds, the events a transaction read
\* are all the events its query selects, although the log may have grown.
LEMMA FencedRead ==
  ASSUME TypeOK, NEW e \in Execs, TxInv(e), tx[e].phase \in Running,
         ~conflicts(tx[e])
  PROVE  Serial!Matching(tx[e].request.query, log) = tx[e].events
<1> DEFINE t == tx[e]
           q == t.request.query
<1>1. Serial!Matching(q, log) = {p \in 1 .. Len(log) : log[p].kind \in q}
  BY MatchingType
<1>2. Len(log) \in Nat
  BY LenProperties DEF TypeOK
<1>3. CASE q = {}
  BY <1>1, <1>3 DEF TxInv
<1>4. CASE q # {}
  <2>1. t.head \in 0 .. Len(log) /\ t.events = {p \in 1 .. t.head : log[p].kind \in q}
    BY <1>4 DEF TxInv
  <2>2. \A p \in t.head + 1 .. Len(log) : log[p].kind \notin q
    BY <1>2, <2>1 DEF conflicts, None
  <2>3. \A p \in 1 .. Len(log) : log[p].kind \in q => p \in 1 .. t.head
    BY <1>2, <2>1, <2>2
  <2>4. \A p \in 1 .. t.head : p \in 1 .. Len(log)
    BY <1>2, <2>1
  <2> QED
    BY <1>1, <2>1, <2>3, <2>4
<1> QED
  BY <1>3, <1>4

\* Appending leaves the events already in the log in place.
LEMMA AppendStable ==
  ASSUME TypeOK, NEW e \in Execs, append(e)
  PROVE  /\ Len(log') \in Nat /\ Len(log) \in Nat /\ Len(log) <= Len(log')
         /\ \A p \in 1 .. Len(log) : log'[p] = log[p]
<1> DEFINE r == tx[e].request
           b == Serial!Batch(r, Len(log) + 1, tx[e].events)
<1>1. r \in Requests /\ tx[e].events \in SUBSET Nat /\ log \in Seq(Event)
  BY DEF TypeOK, Tx
<1>2. Len(log) \in Nat
  BY <1>1, LenProperties
<1>3. b \in Seq(Event) /\ Len(b) = Len(r.emits) /\ Len(b) \in Nat
  <2>1. b \in Seq(Event) /\ Len(b) = Len(r.emits)
    BY <1>1, <1>2, BatchType
  <2> HIDE DEF b
  <2> QED BY <2>1, LenProperties
<1>4. log' = log \o b
  BY DEF append
<1> HIDE DEF b
<1>5. /\ Len(log \o b) = Len(log) + Len(b)
      /\ \A p \in 1 .. Len(log) + Len(b) : (log \o b)[p] =
           IF p <= Len(log) THEN log[p] ELSE b[p - Len(log)]
  BY <1>1, <1>3, ConcatProperties
<1> QED
  BY <1>2, <1>3, <1>4, <1>5

\* A transaction just opened holds what its query selects, at the head.
LEMMA NewTxInv ==
  ASSUME TypeOK, NEW e \in Execs, NEW r \in Requests,
         tx' = [tx EXCEPT ![e] = transaction_new(r)], UNCHANGED log
  PROVE  TxInv(e)'
<1>1. tx'[e] = transaction_new(r)
  BY DEF TypeOK
<1>2. Len(log) \in Nat
  BY LenProperties DEF TypeOK
<1>3. Serial!Matching(r.query, log) = {p \in 1 .. Len(log) : log[p].kind \in r.query}
  BY MatchingType
<1> QED
  BY <1>1, <1>2, <1>3 DEF TxInv, transaction_new

\* A transaction whose snapshot and phase do not change stays good as the log grows.
LEMMA TxInvStable ==
  ASSUME TypeOK, NEW e \in Execs, TxInv(e),
         tx'[e].phase \in Running => tx'[e].phase = tx[e].phase,
         tx'[e].request = tx[e].request, tx'[e].head = tx[e].head,
         tx'[e].events = tx[e].events,
         Len(log) \in Nat, Len(log') \in Nat, Len(log) <= Len(log'),
         \A p \in 1 .. Len(log) : log'[p] = log[p]
  PROVE  TxInv(e)'
<1> SUFFICES ASSUME tx'[e].phase \in Running PROVE TxInv(e)'
  BY DEF TxInv
<1> DEFINE t == tx[e]
           q == t.request.query
<1>1. CASE q = {}
  BY <1>1 DEF TxInv, is_idempotent, Serial!Duplicate
<1>2. CASE q # {}
  <2>1. t.head \in 0 .. Len(log) /\ t.events = {p \in 1 .. t.head : log[p].kind \in q}
    BY <1>2 DEF TxInv
  <2>2. \A p \in 1 .. t.head : p \in 1 .. Len(log) /\ log'[p] = log[p]
    BY <2>1
  <2>3. t.head \in 0 .. Len(log')
    BY <2>1
  <2>4. t.events = {p \in 1 .. t.head : log'[p].kind \in q}
    BY <2>1, <2>2
  <2>5. ~is_idempotent(t) => ~is_idempotent(t)'
    BY <2>1, <2>2 DEF is_idempotent, Serial!Duplicate
  <2> QED
    BY <1>2, <2>3, <2>4, <2>5 DEF TxInv, is_idempotent
<1> QED
  BY <1>1, <1>2
\* A step of one execution leaves the others' transactions alone.
LEMMA OthersUntouched ==
  ASSUME TypeOK, NEW e \in Execs, NEW d \in Execs, d # e,
         \/ \E r \in Requests : execute(e, r)
         \/ retry(e) \/ Run(e) \/ fail(e)
  PROVE  tx'[d] = tx[d]
<1>1. tx \in [Execs -> Tx]
  BY DEF TypeOK
<1>2. CASE \E r \in Requests : execute(e, r)
  BY <1>1, <1>2 DEF execute
<1>3. CASE retry(e) \/ fail(e)
  BY <1>1, <1>3 DEF retry, fail
<1>4. CASE next_batch(e)
  BY <1>1, <1>4 DEF next_batch
<1>5. CASE duplicate(e) \/ emit(e)
  BY <1>1, <1>5 DEF duplicate, emit
<1>6. CASE emit_nothing(e) \/ append_conflict(e)
  BY <1>1, <1>6 DEF emit_nothing, append_conflict
<1>7. CASE \E s \in Scopes : create_crypto_key(e, s)
  BY <1>1, <1>7 DEF create_crypto_key
<1>8. CASE append(e)
  BY <1>1, <1>8 DEF append
<1> QED
  BY <1>2, <1>3, <1>4, <1>5, <1>6, <1>7, <1>8 DEF Run, run, HostTransaction

\* Within a transaction only execute and retry touch the snapshot, and only emit
\* moves to another phase in which the transaction is still running.
LEMMA SnapshotKept ==
  ASSUME TypeOK, NEW e \in Execs, Run(e) \/ fail(e), ~emit(e)
  PROVE  /\ tx'[e].phase \in Running => tx'[e].phase = tx[e].phase
         /\ tx'[e].request = tx[e].request
         /\ tx'[e].head = tx[e].head
         /\ tx'[e].events = tx[e].events
<1>1. tx \in [Execs -> Tx] /\ tx[e] \in Tx
  BY DEF TypeOK
<1>2. CASE fail(e)
  BY <1>1, <1>2 DEF fail, Running
<1>3. CASE next_batch(e)
  BY <1>1, <1>3 DEF next_batch, Running
<1>4. ASSUME NEW ph, NEW pos, ph \notin Running,
             \/ tx' = [tx EXCEPT ![e].phase = ph]
             \/ tx' = [tx EXCEPT ![e].phase = ph, ![e].position = pos]
      PROVE  /\ tx'[e].phase = ph
             /\ tx'[e].request = tx[e].request
             /\ tx'[e].head = tx[e].head
             /\ tx'[e].events = tx[e].events
  BY <1>1, <1>4 DEF Tx
<1>5. CASE \E s \in Scopes : create_crypto_key(e, s)
  <2>1. PICK s, k : tx' = [tx EXCEPT ![e].keys[s] = k]
    BY <1>5 DEF create_crypto_key
  <2>2. /\ tx'[e].phase = tx[e].phase
        /\ tx'[e].request = tx[e].request
        /\ tx'[e].head = tx[e].head
        /\ tx'[e].events = tx[e].events
    BY <1>1, <2>1 DEF Tx
  <2> QED
    BY <2>2
<1>6. "ok" \notin Running /\ "duplicate" \notin Running /\ "conflict" \notin Running
  BY DEF Running
<1>7. CASE append(e)
  BY <1>4, <1>6, <1>7 DEF append
<1>8. CASE duplicate(e)
  BY <1>4, <1>6, <1>8 DEF duplicate
<1>9. CASE emit_nothing(e)
  BY <1>4, <1>6, <1>9 DEF emit_nothing
<1>10. CASE append_conflict(e)
  BY <1>4, <1>6, <1>10 DEF append_conflict
<1> QED
  BY <1>2, <1>3, <1>5, <1>7, <1>8, <1>9, <1>10 DEF Run, run, HostTransaction

LEMMA InitInv == Init => IInv
<1> SUFFICES ASSUME Init PROVE IInv
  OBVIOUS
<1>1. \A e \in Execs : TxInv(e)
  BY DEF Init, TxInv, Running
<1> QED
  BY <1>1, InitType DEF IInv

LEMMA NextInv == IInv /\ [Next]_vars => IInv'
<1> SUFFICES ASSUME IInv, [Next]_vars PROVE IInv'
  OBVIOUS
<1>1. TypeOK /\ TypeOK'
  BY NextType DEF IInv
<1>2. Len(log) \in Nat
  BY <1>1, LenProperties DEF TypeOK
<1>3. ASSUME NEW d \in Execs PROVE TxInv(d)'
  <2>0. TxInv(d)
    BY DEF IInv
  <2>1. CASE UNCHANGED <<tx, log>>
    BY <2>0, <2>1 DEF TxInv, is_idempotent
  <2>2. ASSUME NEW s \in Scopes, delete_crypto_key(s) PROVE TxInv(d)'
    BY <2>1, <2>2 DEF delete_crypto_key
  <2>3. ASSUME NEW e \in Execs, NEW r \in Requests, execute(e, r) PROVE TxInv(d)'
    <3>1. CASE d = e
      BY <1>1, <2>3, <3>1, NewTxInv DEF execute
    <3>2. CASE d # e
      <4>1. tx'[d] = tx[d] /\ log' = log
        BY <1>1, <2>3, <3>2, OthersUntouched DEF execute
      <4> QED
        BY <2>0, <4>1 DEF TxInv, is_idempotent
    <3> QED
      BY <3>1, <3>2
  <2>4. ASSUME NEW e \in Execs, retry(e) PROVE TxInv(d)'
    <3>1. CASE d = e
      <4>1. tx[e].request \in Requests
        BY <1>1 DEF TypeOK, Tx
      <4> QED
        BY <1>1, <2>4, <3>1, <4>1, NewTxInv DEF retry
    <3>2. CASE d # e
      <4>1. tx'[d] = tx[d] /\ log' = log
        BY <1>1, <2>4, <3>2, OthersUntouched DEF retry
      <4> QED
        BY <2>0, <4>1 DEF TxInv, is_idempotent
    <3> QED
      BY <3>1, <3>2
  <2>5. ASSUME NEW e \in Execs, Run(e) \/ fail(e) PROVE TxInv(d)'
    <3>1. /\ Len(log') \in Nat /\ Len(log) <= Len(log')
          /\ \A p \in 1 .. Len(log) : log'[p] = log[p]
      <4>1. CASE append(e)
        BY <1>1, <4>1, AppendStable
      <4>2. CASE log' = log
        BY <1>2, <4>2
      <4> QED
        BY <2>5, <4>1, <4>2 DEF Run, run, HostTransaction, fail, next_batch,
           duplicate, emit,
           emit_nothing, create_crypto_key, append_conflict
    <3>2. CASE d # e
      <4>1. tx'[d] = tx[d]
        BY <1>1, <2>5, <3>2, OthersUntouched
      <4> QED
        BY <1>1, <1>2, <2>0, <3>1, <4>1, TxInvStable
    <3>3. CASE d = e /\ ~emit(e)
      BY <1>1, <1>2, <2>0, <2>5, <3>1, <3>3, SnapshotKept, TxInvStable
    <3>4. CASE d = e /\ emit(e)
      <4>1. /\ tx'[e] = [tx[e] EXCEPT !.phase = "committing"]
            /\ log' = log /\ tx[e].phase \in Running /\ ~is_idempotent(tx[e])
            /\ tx[e] \in Tx
        BY <1>1, <3>4 DEF emit, Running, TypeOK
      <4>2. /\ tx'[e].request = tx[e].request /\ tx'[e].head = tx[e].head
            /\ tx'[e].events = tx[e].events
        BY <4>1 DEF Tx
      <4> QED
        BY <2>0, <3>4, <4>1, <4>2 DEF TxInv, is_idempotent, Serial!Duplicate
    <3> QED
      BY <3>2, <3>3, <3>4
  <2>6. CASE UNCHANGED vars
    BY <2>1, <2>6 DEF vars
  <2> QED
    BY <2>2, <2>3, <2>4, <2>5, <2>6 DEF Next, api_execute, ui_execute
<1> QED
  BY <1>1, <1>3 DEF IInv

\* A step appends a command's events as serial execution would, or leaves the
\* log alone.
LEMMA NextSerial == IInv /\ [Next]_vars => [Serial!Next]_log
<1> SUFFICES ASSUME IInv, [Next]_vars, log' # log PROVE Serial!Next
  OBVIOUS
<1>1. TypeOK
  BY DEF IInv
<1>2. PICK e \in Execs : append(e)
  BY DEF Next, api_execute, ui_execute, Run, run, HostTransaction, vars,
         delete_crypto_key, execute, retry, fail, next_batch, duplicate, emit,
         emit_nothing, create_crypto_key, append_conflict
<1>3. TxInv(e) /\ tx[e].request \in Requests
  BY <1>1 DEF IInv, TypeOK, Tx
<1>4. /\ tx[e].phase = "committing" /\ tx[e].phase \in Running
      /\ ~conflicts(tx[e])
  BY <1>2 DEF append, KeysReady, Running
<1>5. Serial!Matching(tx[e].request.query, log) = tx[e].events
  BY <1>1, <1>3, <1>4, FencedRead
<1>6. ~Serial!Duplicate(tx[e].request.ikey, log, tx[e].events)
  BY <1>3, <1>4 DEF TxInv, is_idempotent
<1>7. log' = log \o Serial!Batch(tx[e].request, Len(log) + 1, tx[e].events)
  BY <1>2 DEF append
<1>8. Serial!Execute(tx[e].request)
  BY <1>5, <1>6, <1>7 DEF Serial!Execute
<1> QED
  BY <1>3, <1>8 DEF Serial!Next

\* Concurrent optimistic execution implements serial execution: whatever the
\* interleaving, each append is the step a command would have taken alone.
THEOREM ImplementsSerial == Spec => SerialSpec
<1>1. Init => Serial!Init
  BY DEF Init, Serial!Init
<1> QED
  BY <1>1, InitInv, NextInv, NextSerial, PTL DEF Spec, SerialSpec, Serial!Spec
-----------------------------------------------------------------------------
(* Idempotency keys *)

\* Every event of the log that carries a key was emitted by a command that reads
\* events of its kind.
KeyedEventsRead ==
  \A p \in DOMAIN log : log[p].ikey # NoIkey =>
    \E r \in Requests : r.ikey = log[p].ikey /\ log[p].kind \in r.query

OnceInv == KeyedEventsRead /\ OncePerKey

LEMMA OnceStep ==
  ASSUME Serial!KeysInScope, TypeOK, OnceInv, [Serial!Next]_log
  PROVE  OnceInv'
<1>1. CASE UNCHANGED log
  BY <1>1 DEF OnceInv, KeyedEventsRead, OncePerKey, Serial!OncePerKey
<1>2. ASSUME NEW r \in Requests, Serial!Execute(r) PROVE OnceInv'
  <2> DEFINE seen == Serial!Matching(r.query, log)
             first == Len(log) + 1
             b == Serial!Batch(r, first, seen)
  <2>1. /\ log \in Seq(Event) /\ Len(log) \in Nat /\ DOMAIN log = 1 .. Len(log)
        /\ seen \in SUBSET Nat
    BY LenProperties, MatchingType DEF TypeOK
  <2>2. log' = log \o b /\ ~Serial!Duplicate(r.ikey, log, seen)
    BY <1>2 DEF Serial!Execute
  <2>3. /\ b \in Seq(Event) /\ Len(b) = Len(r.emits)
        /\ \A i \in 1 .. Len(r.emits) :
             b[i] = [kind |-> r.emits[i], ikey |-> r.ikey, first |-> first,
                     seen |-> seen]
    BY <2>1, BatchType
  <2>4. /\ r.emits \in Seq(Kinds) /\ Len(r.emits) \in Nat
        /\ DOMAIN r.emits = 1 .. Len(r.emits)
    BY RequestsAssumption, LenProperties
  <2>5. \A p \in 1 .. Len(log) : log[p].ikey = r.ikey => r.ikey = NoIkey
    <3> SUFFICES ASSUME NEW p \in 1 .. Len(log), log[p].ikey = r.ikey,
                        r.ikey # NoIkey
                 PROVE  FALSE
      OBVIOUS
    <3>1. log[p].kind \in r.query
      BY <2>1 DEF OnceInv, KeyedEventsRead, Serial!KeysInScope
    <3>2. p \in seen
      BY <2>1, <3>1 DEF Serial!Matching
    <3> QED
      BY <2>2, <3>2 DEF Serial!Duplicate
  <2> HIDE DEF b, seen, first
  <2>6. /\ log' \in Seq(Event) /\ Len(log') = Len(log) + Len(r.emits)
        /\ \A p \in 1 .. Len(log) + Len(r.emits) : log'[p] =
             IF p <= Len(log) THEN log[p] ELSE b[p - Len(log)]
    <3>1. /\ log \o b \in Seq(Event) /\ Len(log \o b) = Len(log) + Len(b)
          /\ \A p \in 1 .. Len(log) + Len(b) : (log \o b)[p] =
               IF p <= Len(log) THEN log[p] ELSE b[p - Len(log)]
      BY <2>1, <2>3, ConcatProperties
    <3> QED
      BY <2>2, <2>3, <3>1
  <2>7. DOMAIN log' = 1 .. Len(log) + Len(r.emits)
    BY <2>6, LenProperties
  <2>8. ASSUME NEW p \in DOMAIN log'
        PROVE  \/ p \in 1 .. Len(log) /\ log'[p] = log[p]
               \/ /\ p - Len(log) \in 1 .. Len(r.emits)
                  /\ log'[p] = [kind |-> r.emits[p - Len(log)], ikey |-> r.ikey,
                                first |-> first, seen |-> seen]
    BY <2>1, <2>3, <2>4, <2>6, <2>7
  <2>9. KeyedEventsRead'
    <3> SUFFICES ASSUME NEW p \in DOMAIN log', log'[p].ikey # NoIkey
                 PROVE  \E s \in Requests : /\ s.ikey = log'[p].ikey
                                            /\ log'[p].kind \in s.query
      BY DEF KeyedEventsRead
    <3>1. CASE p \in 1 .. Len(log) /\ log'[p] = log[p]
      BY <2>1, <3>1 DEF OnceInv, KeyedEventsRead
    <3>2. CASE /\ p - Len(log) \in 1 .. Len(r.emits)
               /\ log'[p] = [kind |-> r.emits[p - Len(log)], ikey |-> r.ikey,
                             first |-> first, seen |-> seen]
      BY <2>4, <3>2 DEF Serial!KeysInScope
    <3> QED
      BY <2>8, <3>1, <3>2
  <2>10. OncePerKey'
    <3> SUFFICES ASSUME NEW p \in DOMAIN log', NEW q \in DOMAIN log',
                        log'[p].ikey = log'[q].ikey, log'[p].ikey # NoIkey
                 PROVE  log'[p].first = log'[q].first
      BY DEF OncePerKey, Serial!OncePerKey
    <3>1. /\ p \in 1 .. Len(log) => log'[p] = log[p]
          /\ q \in 1 .. Len(log) => log'[q] = log[q]
      BY <2>1, <2>4, <2>6
    <3>2. /\ p \notin 1 .. Len(log) => log'[p].ikey = r.ikey /\ log'[p].first = first
          /\ q \notin 1 .. Len(log) => log'[q].ikey = r.ikey /\ log'[q].first = first
      BY <2>8
    <3>3. CASE p \in 1 .. Len(log) /\ q \in 1 .. Len(log)
      BY <2>1, <3>1, <3>3 DEF OnceInv, OncePerKey, Serial!OncePerKey
    <3>4. CASE p \notin 1 .. Len(log) /\ q \notin 1 .. Len(log)
      BY <3>2, <3>4
    <3>5. CASE ~(p \in 1 .. Len(log) <=> q \in 1 .. Len(log))
      BY <2>5, <3>1, <3>2, <3>5
    <3> QED
      BY <3>3, <3>4, <3>5
  <2> QED
    BY <2>9, <2>10 DEF OnceInv
<1> QED
  BY <1>1, <1>2 DEF Serial!Next

\* A command called with an idempotency key takes effect at most once, however
\* often and however concurrently it is retried, provided it reads the kinds of
\* event it emits and the key belongs to that command (KeysInScope).
THEOREM OnceOnly ==
  ASSUME Serial!KeysInScope
  PROVE  Spec => []OncePerKey
<1>1. Init => OnceInv
  BY DEF Init, OnceInv, KeyedEventsRead, OncePerKey, Serial!OncePerKey
<1>2. IInv /\ OnceInv /\ [Next]_vars => OnceInv'
  BY NextSerial, OnceStep DEF IInv
<1>3. OnceInv => OncePerKey
  BY DEF OnceInv
<1> QED
  BY <1>1, <1>2, <1>3, InitInv, NextInv, PTL DEF Spec

-----------------------------------------------------------------------------
(* Reads that span the deletion of a key *)

\* What no step undoes: events keep their place and their key, and a key that is
\* deleted stays deleted.
StoresGrow ==
  /\ Len(log) <= Len(log') /\ Len(log') \in Nat
  /\ \A p \in 1 .. Len(log) : key_ids'[p] = key_ids[p]
  /\ \A k \in 1 .. Len(crypto_keys) : ~Live(k) => ~Live(k)'

\* The positions and key ids that TypeOK promises.
LEMMA KeyTypes ==
  ASSUME TypeOK
  PROVE  /\ Len(log) \in Nat /\ Len(crypto_keys) \in Nat
         /\ DOMAIN crypto_keys = 1 .. Len(crypto_keys)
         /\ \A k \in 1 .. Len(crypto_keys) : crypto_keys[k] \in CryptoKey
         /\ \A p \in 1 .. Len(log) : key_ids[p] \in 0 .. Len(crypto_keys)
<1>1. /\ log \in Seq(Event) /\ crypto_keys \in Seq(CryptoKey)
      /\ key_ids \in Seq(0 .. Len(crypto_keys)) /\ Len(key_ids) = Len(log)
  BY DEF TypeOK
<1>2. /\ Len(log) \in Nat /\ Len(crypto_keys) \in Nat
      /\ DOMAIN crypto_keys = 1 .. Len(crypto_keys)
      /\ \A k \in 1 .. Len(crypto_keys) : crypto_keys[k] \in CryptoKey
  BY <1>1, LenProperties
<1>3. key_ids \in [1 .. Len(key_ids) -> 0 .. Len(crypto_keys)]
  BY <1>1, LenProperties
<1> QED BY <1>1, <1>2, <1>3

\* Each step lets the stores grow.
LEMMA NextGrows ==
  ASSUME TypeOK, [Next]_vars PROVE StoresGrow
<1>1. /\ Len(log) \in Nat /\ Len(crypto_keys) \in Nat
      /\ DOMAIN crypto_keys = 1 .. Len(crypto_keys)
      /\ \A k \in 1 .. Len(crypto_keys) : crypto_keys[k] \in CryptoKey
  BY KeyTypes
<1>2. CASE UNCHANGED <<log, key_ids, crypto_keys>>
  BY <1>1, <1>2 DEF StoresGrow, Live
<1>3. ASSUME NEW s \in Scopes, delete_crypto_key(s) PROVE StoresGrow
  <2>1. /\ log' = log /\ key_ids' = key_ids
        /\ crypto_keys' = [k \in 1 .. Len(crypto_keys) |->
             IF crypto_keys[k].scope = s
               THEN [crypto_keys[k] EXCEPT !.deleted = TRUE] ELSE crypto_keys[k]]
    BY <1>1, <1>3 DEF delete_crypto_key
  <2>2. \A k \in 1 .. Len(crypto_keys) :
          crypto_keys[k].deleted => crypto_keys'[k].deleted
    BY <1>1, <2>1 DEF CryptoKey
  <2> QED BY <1>1, <2>1, <2>2 DEF StoresGrow, Live
<1>4. ASSUME NEW e \in Execs, NEW s \in Scopes, create_crypto_key(e, s)
      PROVE  StoresGrow
  <2>1. CASE crypto_keys' = crypto_keys
    BY <1>2, <1>4, <2>1 DEF create_crypto_key
  <2>2. CASE crypto_keys' = Append(crypto_keys, [scope |-> s, deleted |-> FALSE])
    <3>1. \A k \in 1 .. Len(crypto_keys) : crypto_keys'[k] = crypto_keys[k]
      BY <2>2 DEF TypeOK
    <3> QED BY <1>1, <1>4, <3>1 DEF create_crypto_key, StoresGrow, Live
  <2> QED BY <1>4, <2>1, <2>2 DEF create_crypto_key
<1>5. ASSUME NEW e \in Execs, append(e) PROVE StoresGrow
  <2> DEFINE r   == tx[e].request
             ids == [i \in DOMAIN r.emits |->
                       IF ScopeOf[r.emits[i]] = NoScope
                         THEN NoKeyId ELSE tx[e].keys[ScopeOf[r.emits[i]]]]
  <2>1. /\ r \in Requests /\ tx[e].keys \in [Scopes -> Nat]
        /\ \A s \in Scopes : tx[e].keys[s] \in 0 .. Len(crypto_keys)
    BY DEF TypeOK, Tx
  <2>2. ids \in Seq(0 .. Len(crypto_keys))
    <3> HIDE DEF r
    <3> QED BY <1>1, <2>1, KeyIdsType
  <2>3. key_ids' = key_ids \o ids /\ crypto_keys' = crypto_keys
    BY <1>5 DEF append
  <2>4. key_ids \in Seq(0 .. Len(crypto_keys)) /\ Len(key_ids) = Len(log)
    BY DEF TypeOK
  <2> HIDE DEF ids
  <2>5. \A p \in 1 .. Len(log) : (key_ids \o ids)[p] = key_ids[p]
    BY <1>1, <2>2, <2>4, ConcatProperties, LenProperties
  <2>6. Len(log) <= Len(log') /\ Len(log') \in Nat
    BY <1>5, AppendStable
  <2> QED BY <2>3, <2>5, <2>6 DEF StoresGrow, Live
<1>6. (\E e \in Execs : retry(e) \/ fail(e)) \/ UNCHANGED vars
        => UNCHANGED <<log, key_ids, crypto_keys>>
  BY DEF retry, fail, vars
<1>7. ASSUME NEW e \in Execs, \/ \E r \in Requests : execute(e, r)
                              \/ run(e) \/ next_batch(e) \/ append_conflict(e)
      PROVE  UNCHANGED <<log, key_ids, crypto_keys>>
  BY <1>7 DEF execute, run, next_batch, append_conflict, duplicate, emit, emit_nothing
<1> QED
  BY <1>2, <1>3, <1>4, <1>5, <1>6, <1>7
     DEF Next, api_execute, ui_execute, Run, HostTransaction

\* A transaction that keeps its place in its read keeps what it has read.
LEMMA ReadStable ==
  ASSUME TypeOK, NEW d \in Execs, ReadInv(d), StoresGrow,
         tx'[d].phase = "reading" =>
           /\ tx[d].phase = "reading" /\ tx'[d].events = tx[d].events
           /\ tx'[d].todo = tx[d].todo /\ tx'[d].folded = tx[d].folded
  PROVE  ReadInv(d)'
<1> SUFFICES ASSUME tx'[d].phase = "reading" PROVE ReadInv(d)'
  BY DEF ReadInv
<1> DEFINE done == tx[d].events \ tx[d].todo
<1>1. /\ tx[d].events \subseteq 1 .. Len(log)
      /\ tx[d].todo \subseteq tx[d].events /\ tx[d].folded \subseteq done
      /\ \A p \in done, q \in tx[d].todo : p < q
      /\ \A p \in done \ tx[d].folded : key_ids[p] # NoKeyId /\ ~Live(key_ids[p])
      /\ \A p, q \in done :
           p < q /\ key_ids[p] = key_ids[q] /\ q \in tx[d].folded => p \in tx[d].folded
  BY DEF ReadInv
<1>2. \A p \in 1 .. Len(log) : key_ids[p] \in 0 .. Len(crypto_keys)
  BY KeyTypes
<1>3. /\ done \subseteq 1 .. Len(log) /\ tx[d].events \subseteq 1 .. Len(log')
      /\ \A p \in done : key_ids'[p] = key_ids[p]
  BY <1>1, KeyTypes DEF StoresGrow
<1>4. \A p \in done \ tx[d].folded : key_ids'[p] # NoKeyId /\ ~Live(key_ids[p])'
  <2> SUFFICES ASSUME NEW p \in done \ tx[d].folded
               PROVE  key_ids'[p] # NoKeyId /\ ~Live(key_ids[p])'
    OBVIOUS
  <2>1. key_ids'[p] = key_ids[p] /\ key_ids[p] \in 1 .. Len(crypto_keys)
    BY <1>1, <1>2, <1>3, KeyTypes DEF NoKeyId
  <2>2. ~Live(key_ids[p]) /\ key_ids[p] # NoKeyId
    BY <1>1
  <2> QED BY <2>1, <2>2 DEF StoresGrow, Live
<1> QED BY <1>1, <1>3, <1>4 DEF ReadInv

\* An event is folded only if its key is still there: then no event before it was
\* left out for want of that key.
LEMMA FoldNext ==
  ASSUME TypeOK, NEW e \in Execs, ReadInv(e), next_batch(e) PROVE ReadInv(e)'
<1>1. PICK p \in tx[e].todo :
        /\ tx[e].phase = "reading" /\ \A q \in tx[e].todo : p <= q
        /\ tx' = [tx EXCEPT
             ![e].todo = @ \ {p},
             ![e].folded = IF readable(p) THEN @ \cup {p} ELSE @]
  BY DEF next_batch
<1> DEFINE t    == tx[e]
           done == t.events \ t.todo
<1>2. /\ tx'[e].events = t.events /\ tx'[e].todo = t.todo \ {p}
      /\ tx'[e].folded = IF readable(p) THEN t.folded \cup {p} ELSE t.folded
  BY <1>1 DEF TypeOK, Tx
<1>3. /\ log' = log /\ key_ids' = key_ids /\ crypto_keys' = crypto_keys
  BY DEF next_batch
<1>4. /\ t.events \subseteq 1 .. Len(log)
      /\ t.todo \subseteq t.events /\ t.folded \subseteq done
      /\ \A x \in done, q \in t.todo : x < q
      /\ \A x \in done \ t.folded : key_ids[x] # NoKeyId /\ ~Live(key_ids[x])
      /\ \A x, q \in done :
           x < q /\ key_ids[x] = key_ids[q] /\ q \in t.folded => x \in t.folded
  BY <1>1 DEF ReadInv
<1>5. /\ p \in Nat /\ t.todo \subseteq Nat /\ done \subseteq Nat /\ p \notin done
  BY <1>4, KeyTypes
<1>6. t.events \ (t.todo \ {p}) = done \cup {p}
  BY <1>4
<1> HIDE DEF t, done
<1>7. /\ \A x \in done \cup {p}, q \in t.todo \ {p} : x < q
      /\ tx'[e].folded \subseteq done \cup {p} /\ t.todo \ {p} \subseteq t.events
  BY <1>1, <1>2, <1>4, <1>5 DEF t
<1>8. \A x \in (done \cup {p}) \ tx'[e].folded : key_ids[x] # NoKeyId /\ ~Live(key_ids[x])
  BY <1>2, <1>4, <1>5 DEF readable
<1>9. \A x, q \in done \cup {p} :
        x < q /\ key_ids[x] = key_ids[q] /\ q \in tx'[e].folded => x \in tx'[e].folded
  <2> SUFFICES ASSUME NEW x \in done \cup {p}, NEW q \in done \cup {p}, x < q,
                      key_ids[x] = key_ids[q], q \in tx'[e].folded
               PROVE  x \in tx'[e].folded
    OBVIOUS
  <2>1. x \in done
    <3> SUFFICES ASSUME x = p PROVE FALSE
      OBVIOUS
    <3>1. q \in done /\ q < p
      BY <1>4, <1>5 DEF t
    <3> QED BY <1>5, <3>1
  <2>2. CASE q = p
    <3>1. readable(p)
      BY <1>2, <1>4, <1>5, <2>2
    <3>2. x \in t.folded
      BY <1>4, <2>1, <2>2, <3>1 DEF readable
    <3> QED BY <1>2, <3>2
  <2>3. CASE q # p
    BY <1>2, <1>4, <2>1, <2>3
  <2> QED BY <2>2, <2>3
<1> QED BY <1>1, <1>2, <1>3, <1>4, <1>6, <1>7, <1>8, <1>9 DEF ReadInv, Live, t

\* A transaction just opened has read nothing yet.
LEMMA ReadNew ==
  ASSUME TypeOK, NEW e \in Execs, NEW r \in Requests,
         tx' = [tx EXCEPT ![e] = transaction_new(r)],
         UNCHANGED <<log, key_ids, crypto_keys>>
  PROVE  ReadInv(e)'
<1>1. tx'[e] = transaction_new(r)
  BY DEF TypeOK
<1>2. /\ tx'[e].events \subseteq 1 .. Len(log') /\ tx'[e].todo = tx'[e].events
      /\ tx'[e].folded = {}
  BY <1>1, MatchingType DEF transaction_new
<1> QED BY <1>2 DEF ReadInv

\* Each step keeps every read in order and complete.
LEMMA NextFold == TypeOK /\ FoldInv /\ [Next]_vars => FoldInv'
<1> SUFFICES ASSUME TypeOK, FoldInv, [Next]_vars, NEW d \in Execs PROVE ReadInv(d)'
  BY DEF FoldInv
<1>1. ReadInv(d) /\ StoresGrow /\ tx \in [Execs -> Tx]
  BY NextGrows DEF FoldInv, TypeOK
<1>2. CASE tx'[d] = tx[d]
  BY <1>1, <1>2, ReadStable
<1>3. CASE (\E s \in Scopes : delete_crypto_key(s)) \/ UNCHANGED vars
  BY <1>2, <1>3 DEF delete_crypto_key, vars
<1>4. ASSUME NEW e \in Execs, e # d,
             \/ \E r \in Requests : execute(e, r)
             \/ retry(e) \/ Run(e) \/ fail(e)
      PROVE  ReadInv(d)'
  BY <1>2, <1>4, OthersUntouched
<1>5. ASSUME NEW r \in Requests, execute(d, r) PROVE ReadInv(d)'
  BY <1>5, ReadNew DEF execute
<1>6. CASE retry(d)
  <2>1. tx[d].request \in Requests
    BY <1>1 DEF Tx
  <2> QED BY <1>6, <2>1, ReadNew DEF retry
<1>7. CASE next_batch(d)
  BY <1>1, <1>7, FoldNext
<1>8. CASE \E s \in Scopes : create_crypto_key(d, s)
  <2>1. PICK s, k : /\ tx[d].phase = "committing"
                    /\ tx' = [tx EXCEPT ![d].keys[s] = k]
    BY <1>8 DEF create_crypto_key
  <2>2. tx'[d].phase = "committing"
    BY <1>1, <2>1 DEF Tx
  <2> QED BY <1>1, <2>2, ReadStable
<1>9. CASE append(d) \/ append_conflict(d) \/ run(d) \/ fail(d)
  <2>1. \/ \E ph, pos : /\ ph # "reading"
                        /\ tx' = [tx EXCEPT ![d].phase = ph, ![d].position = pos]
        \/ \E ph : ph # "reading" /\ tx' = [tx EXCEPT ![d].phase = ph]
    BY <1>9 DEF append, append_conflict, run, duplicate, emit, emit_nothing, fail
  <2>2. tx'[d].phase # "reading"
    BY <1>1, <2>1 DEF Tx
  <2> QED BY <1>1, <2>2, ReadStable
<1> QED
  BY <1>3, <1>4, <1>5, <1>6, <1>7, <1>8, <1>9
     DEF Next, api_execute, ui_execute, Run, HostTransaction

\* A read that spans the deletion of a key folds a prefix of the events that key
\* encrypted, whatever keys its scope has had before and since.
THEOREM PrefixFolded == Spec => []FoldsPrefixOfKey
<1>1. Init => FoldInv
  BY DEF Init, FoldInv, ReadInv
<1>2. FoldInv => FoldsPrefixOfKey
  BY DEF FoldInv, ReadInv, FoldsPrefixOfKey
<1> QED BY <1>1, <1>2, InitType, NextType, NextFold, PTL DEF Spec


-----------------------------------------------------------------------------
(* The folds a command or a query reads with *)

-----------------------------------------------------------------------------
(* What a pass over the events keeps *)

IsSlot(x) ==
  /\ x = [fold |-> x.fold, binding |-> x.binding, state |-> x.state]
  /\ x.fold \in FoldTypes

\* The folds of a Rust command are bound to what is their own of the input.
BoundToInput == mode = "command"

PassInv ==
  /\ history \in Seq(StoredEvent)
  /\ \E S : folds \in Seq(S)
  /\ \A i \in DOMAIN folds : IsSlot(folds[i])
  /\ cursor \in Nat
  /\ phase \in {"emitting", "building"} => cursor = 0
  /\ phase = "emitting" => folds = <<>>
  /\ BoundToInput => \A i \in DOMAIN folds :
                       folds[i].binding = pickBindings(input, folds[i].fold.fields)

-----------------------------------------------------------------------------
(* Bindings and tags *)

\* A fold's own test of an event is the documented one for the entry it looks at.
LEMMA MatchIsAdmit ==
  ASSUME NEW entry, NEW b, NEW e
  PROVE  matchesFoldQuery(entry, TagsOf(e), b) <=> EntryTags(entry, b) \subseteq TagsOf(e)
BY DEF matchesFoldQuery, EntryTags

\* A smaller binding requires fewer tags.
LEMMA PickRequiresLess ==
  ASSUME NEW entry, NEW b, NEW fields
  PROVE  EntryTags(entry, pickBindings(b, fields)) \subseteq EntryTags(entry, b)
BY DEF EntryTags, pickBindings

\* The store hands out what some entry under some binding of the read asks for,
\* and nothing else.
LEMMA SelectsMeaning ==
  ASSUME NEW entries, NEW bindings, NEW e
  PROVE  Selects(build_dcb_query(entries, bindings), e) <=>
           \E entry \in entries, b \in bindings :
             entry.type = e.type /\ EntryTags(entry, b) \subseteq TagsOf(e)
<1> DEFINE Item(g) == [tags |-> g, types |-> {x.type : x \in {y \in entries :
                         \E b \in bindings : EntryTags(y, b) = g}}]
           groups  == {EntryTags(x, b) : x \in entries, b \in bindings}
<1>1. build_dcb_query(entries, bindings) = {Item(g) : g \in groups}
  BY DEF build_dcb_query
<1>2. \A g : Item(g).tags = g
  OBVIOUS
<1>3. \A g, t : t \in Item(g).types <=>
        \E y \in entries : y.type = t /\ \E b \in bindings : EntryTags(y, b) = g
  OBVIOUS
<1>4. \A g : g \in groups <=> \E x \in entries, b \in bindings : g = EntryTags(x, b)
  OBVIOUS
<1> HIDE DEF Item, groups
<1>5. Selects(build_dcb_query(entries, bindings), e) <=>
        \E g \in groups : e.type \in Item(g).types /\ g \subseteq TagsOf(e)
  BY <1>1, <1>2 DEF Selects
<1> QED
  BY <1>3, <1>4, <1>5

-----------------------------------------------------------------------------
(* The pass is well formed *)

LEMMA AppendSlot ==
  ASSUME NEW seq, \E S : seq \in Seq(S), NEW x
  PROVE  /\ \E S : Append(seq, x) \in Seq(S)
         /\ Len(seq) \in Nat /\ DOMAIN seq = 1 .. Len(seq)
         /\ DOMAIN Append(seq, x) = 1 .. Len(seq) + 1
         /\ \A i \in DOMAIN seq : Append(seq, x)[i] = seq[i]
         /\ Append(seq, x)[Len(seq) + 1] = x
<1>1. PICK S : seq \in Seq(S)
  OBVIOUS
<1>2. Len(seq) \in Nat /\ DOMAIN seq = 1 .. Len(seq) /\ \A i \in DOMAIN seq : seq[i] \in S
  BY <1>1, LenProperties, ElementOfSeq
<1>3. seq \in [1 .. Len(seq) -> S \cup {x}]
  BY <1>1, <1>2, LenProperties
<1>4. seq \in Seq(S \cup {x})
  BY <1>2, <1>3, SeqDef
<1>5. Append(seq, x) \in Seq(S \cup {x})
  BY <1>4, AppendProperties
<1> QED
  BY <1>2, <1>4, <1>5, AppendProperties, LenProperties

\* Folding an event changes a fold's state and nothing else of it.
LEMMA ApplyKeeps ==
  ASSUME NEW x, IsSlot(x), NEW e, NEW pos
  PROVE  /\ IsSlot(Apply(x, e, pos))
         /\ Apply(x, e, pos).fold = x.fold
         /\ Apply(x, e, pos).binding = x.binding
<1>1. ASSUME NEW s PROVE LET y == [x EXCEPT !.state = s]
                         IN IsSlot(y) /\ y.fold = x.fold /\ y.binding = x.binding
  BY DEF IsSlot
<1> QED
  BY <1>1 DEF Apply, slot_apply, box_apply

\* What one event does to the folds.
LEMMA PassStep ==
  ASSUME PassInv, next_event
  PROVE  /\ history' = history /\ mode' = mode /\ input' = input /\ phase = "reading"
         /\ cursor' = cursor + 1 /\ cursor < Len(history)
         /\ DOMAIN folds' = DOMAIN folds
         /\ \/ folds' = folds
            \/ /\ \E S : folds' \in Seq(S)
               /\ \A i \in DOMAIN folds :
                    folds'[i] = Apply(folds[i], history[cursor + 1], cursor + 1)
         /\ phase' \in {"reading", "failed"}
<1>1. PICK S : folds \in Seq(S)
  BY DEF PassInv
<1>2. DOMAIN folds = 1 .. Len(folds) /\ Len(folds) \in Nat
  BY <1>1, LenProperties
<1>3. CASE folds' = folds
  BY <1>3 DEF next_event
<1>4. CASE folds' = [i \in DOMAIN folds |->
                       Apply(folds[i], history[cursor + 1], cursor + 1)]
  <2> DEFINE new(i) == Apply(folds[i], history[cursor + 1], cursor + 1)
             T == {new(i) : i \in DOMAIN folds}
  <2>1. folds' \in [1 .. Len(folds) -> T]
    BY <1>2, <1>4
  <2>2. folds' \in Seq(T)
    BY <1>2, <2>1, SeqDef
  <2> QED
    BY <1>4, <2>2 DEF next_event
<1> QED
  BY <1>3, <1>4 DEF next_event

LEMMA PassInvInit == PassInit => PassInv
<1> SUFFICES ASSUME PassInit PROVE PassInv
  OBVIOUS
<1>1. <<>> \in Seq(StoredEvent) /\ <<>> \in Seq({})
  BY EmptySeq
<1>2. \A i \in DOMAIN folds : FALSE
  BY EmptySeq DEF PassInit
<1>3. history \in Seq(StoredEvent) /\ \E S : folds \in Seq(S)
  <2>1. history = <<>> /\ folds = <<>>
    BY DEF PassInit
  <2>2. folds \in Seq({})
    BY <1>1, <2>1
  <2>3. history \in Seq(StoredEvent)
    BY <1>1, <2>1
  <2> QED
    BY <2>2, <2>3
<1>4. cursor = 0 /\ folds = <<>>
  BY DEF PassInit
<1> QED
  BY <1>2, <1>3, <1>4 DEF PassInv

\* One more fold, which has seen nothing.
LEMMA AddInv ==
  ASSUME PassInv, NEW t \in FoldTypes, NEW b, Add(t, b),
         BoundToInput => b = pickBindings(input, t.fields)
  PROVE  PassInv'
<1> DEFINE x == [fold |-> t, binding |-> b, state |-> Initial(t.kind)]
<1>1. IsSlot(x) /\ x.fold = t /\ x.binding = b
  BY DEF IsSlot
<1>2. folds' = Append(folds, x) /\ phase' = "building" /\ cursor = 0
      /\ UNCHANGED <<history, mode, input, cursor>>
  BY DEF Add, PassInv
<1> HIDE DEF x
<1>3. /\ \E S : folds' \in Seq(S)
      /\ Len(folds) \in Nat /\ DOMAIN folds = 1 .. Len(folds)
      /\ DOMAIN folds' = 1 .. Len(folds) + 1
      /\ \A i \in DOMAIN folds : folds'[i] = folds[i]
      /\ folds'[Len(folds) + 1] = x
  <2>1. \E S : folds \in Seq(S)
    BY DEF PassInv
  <2>2. /\ \E S : Append(folds, x) \in Seq(S)
        /\ Len(folds) \in Nat /\ DOMAIN folds = 1 .. Len(folds)
        /\ DOMAIN Append(folds, x) = 1 .. Len(folds) + 1
        /\ \A i \in DOMAIN folds : Append(folds, x)[i] = folds[i]
        /\ Append(folds, x)[Len(folds) + 1] = x
    BY <2>1, AppendSlot, Zenon
  <2> QED
    BY <1>2, <2>2
<1>4. \A i \in DOMAIN folds' : i \in DOMAIN folds \/ i = Len(folds) + 1
  BY <1>3
<1>5. \A i \in DOMAIN folds' : IsSlot(folds'[i])
  BY <1>1, <1>3, <1>4 DEF PassInv
<1>6. BoundToInput => \A i \in DOMAIN folds' :
        folds'[i].binding = pickBindings(input, folds'[i].fold.fields)
  BY <1>1, <1>3, <1>4 DEF PassInv
<1>7. BoundToInput' = BoundToInput
  BY <1>2 DEF BoundToInput
<1> QED
  BY <1>2, <1>3, <1>5, <1>6, <1>7 DEF PassInv

LEMMA PassInvNext == PassInv /\ [PassNext]_passVars => PassInv'
<1> SUFFICES ASSUME PassInv, [PassNext]_passVars PROVE PassInv'
  OBVIOUS
<1>1. ASSUME NEW e \in StoredEvent, emit_event(e) PROVE PassInv'
  <2>1. history' \in Seq(StoredEvent)
    BY <1>1, AppendProperties DEF emit_event, PassInv
  <2> QED
    BY <1>1, <2>1 DEF emit_event, PassInv, BoundToInput
<1>2. ASSUME NEW t \in FoldTypes, fold(t) PROVE PassInv'
  BY <1>2, AddInv DEF fold
<1>3. ASSUME NEW t \in FoldTypes, NEW b \in Given, fold_bound(t, b) PROVE PassInv'
  <2>1. ~BoundToInput
    BY <1>3 DEF fold_bound, BoundToInput
  <2> QED
    BY <1>3, <2>1, AddInv DEF fold_bound
<1>4. ASSUME NEW t \in FoldTypes, NEW b \in Given, defineFold(t, b) PROVE PassInv'
  <2>1. ~BoundToInput
    BY <1>4 DEF defineFold, BoundToInput
  <2> QED
    BY <1>4, <2>1, AddInv DEF defineFold
<1>5. CASE run_folds
  BY <1>5 DEF run_folds, PassInv, BoundToInput
<1>6. CASE next_event
  <2>1. /\ history' = history /\ mode' = mode /\ input' = input
        /\ cursor' = cursor + 1
        /\ DOMAIN folds' = DOMAIN folds
        /\ \/ folds' = folds
           \/ /\ \E S : folds' \in Seq(S)
              /\ \A i \in DOMAIN folds :
                   folds'[i] = Apply(folds[i], history[cursor + 1], cursor + 1)
        /\ phase' \in {"reading", "failed"}
    BY <1>6, PassStep
  <2>2. \A i \in DOMAIN folds : /\ IsSlot(folds'[i])
                                /\ folds'[i].fold = folds[i].fold
                                /\ folds'[i].binding = folds[i].binding
    BY <2>1, ApplyKeeps DEF PassInv
  <2>3. BoundToInput' = BoundToInput
    BY <2>1 DEF BoundToInput
  <2>4. BoundToInput => \A i \in DOMAIN folds' :
          folds'[i].binding = pickBindings(input, folds'[i].fold.fields)
    BY <2>1, <2>2 DEF PassInv
  <2>5. \E S : folds' \in Seq(S)
    BY <2>1 DEF PassInv
  <2> QED
    BY <2>1, <2>2, <2>3, <2>4, <2>5 DEF PassInv
<1>7. CASE extract
  BY <1>7 DEF extract, PassInv, BoundToInput
<1>8. CASE UNCHANGED passVars
  BY <1>8 DEF passVars, PassInv, BoundToInput
<1> QED
  BY <1>1, <1>2, <1>3, <1>4, <1>5, <1>6, <1>7, <1>8 DEF PassNext

LEMMA PassInvariance == PassSpec => []PassInv
BY PassInvInit, PassInvNext, PTL DEF PassSpec

-----------------------------------------------------------------------------
(* The shape of a pass *)

\* What is taken of a binding is a binding.
LEMMA PickTyped ==
  ASSUME NEW b \in Bindings, NEW fields
  PROVE  pickBindings(b, fields) \in Bindings /\ extractBindings(fields, b) \in Bindings
<1>1. PICK D \in SUBSET Fields : b \in [D -> Values]
  BY DEF Bindings
<1>2. pickBindings(b, fields) \in [D \cap fields -> Values]
  BY <1>1 DEF pickBindings
<1>3. extractBindings(fields, b) \in [fields \cap D -> Values]
  BY <1>1 DEF extractBindings
<1>4. D \cap fields \in SUBSET Fields /\ fields \cap D \in SUBSET Fields
  OBVIOUS
<1> QED
  BY <1>2, <1>3, <1>4 DEF Bindings

LEMMA AddTyped ==
  ASSUME PassInv, PassTypeOK, NEW t \in FoldTypes, NEW b \in Bindings, Add(t, b)
  PROVE  PassTypeOK'
<1> DEFINE x == [fold |-> t, binding |-> b, state |-> Initial(t.kind)]
<1>1. x.fold = t /\ x.binding = b
  OBVIOUS
<1>2. folds' = Append(folds, x) /\ phase' = "building"
      /\ UNCHANGED <<history, mode, input, cursor>>
  BY DEF Add
<1> HIDE DEF x
<1>3. \E S : folds \in Seq(S)
  BY DEF PassInv
<1>4. /\ Len(folds) \in Nat /\ DOMAIN folds = 1 .. Len(folds)
      /\ DOMAIN Append(folds, x) = 1 .. Len(folds) + 1
      /\ \A i \in DOMAIN folds : Append(folds, x)[i] = folds[i]
      /\ Append(folds, x)[Len(folds) + 1] = x
  BY <1>3, AppendSlot, Zenon
<1>5. \A i \in DOMAIN folds' : i \in DOMAIN folds \/ i = Len(folds) + 1
  BY <1>2, <1>4
<1>6. \A i \in DOMAIN folds' : folds'[i].fold \in FoldTypes
                               /\ folds'[i].binding \in Bindings
  BY <1>1, <1>2, <1>4, <1>5 DEF PassTypeOK
<1> QED
  BY <1>2, <1>6 DEF PassTypeOK

LEMMA PassTypeNext == PassInv /\ PassTypeOK /\ [PassNext]_passVars => PassTypeOK'
<1> SUFFICES ASSUME PassInv, PassTypeOK, [PassNext]_passVars PROVE PassTypeOK'
  OBVIOUS
<1>1. ASSUME NEW e \in StoredEvent, emit_event(e) PROVE PassTypeOK'
  <2>1. history' \in Seq(StoredEvent) /\ Len(history') \in Nat
    BY <1>1, AppendProperties, LenProperties DEF emit_event, PassTypeOK
  <2>2. cursor' = 0
    BY <1>1 DEF emit_event, PassInv
  <2> QED
    BY <1>1, <2>1, <2>2 DEF emit_event, PassTypeOK
<1>2. ASSUME NEW t \in FoldTypes, fold(t) PROVE PassTypeOK'
  <2>1. pickBindings(input, t.fields) \in Bindings
    BY PickTyped DEF PassTypeOK
  <2> QED
    BY <1>2, <2>1, AddTyped DEF fold
<1>3. ASSUME NEW t \in FoldTypes, NEW b \in Given, fold_bound(t, b) PROVE PassTypeOK'
  BY <1>3, AddTyped, TypesAssumption DEF fold_bound
<1>4. ASSUME NEW t \in FoldTypes, NEW b \in Given, defineFold(t, b) PROVE PassTypeOK'
  <2>1. pickBindings(b, t.fields) \in Bindings
    BY PickTyped, TypesAssumption
  <2> QED
    BY <1>4, <2>1, AddTyped DEF defineFold
<1>5. CASE run_folds
  BY <1>5 DEF run_folds, PassTypeOK
<1>6. CASE next_event
  <2>1. /\ UNCHANGED <<history, mode, input>>
        /\ cursor' = cursor + 1 /\ cursor < Len(history)
        /\ DOMAIN folds' = DOMAIN folds
        /\ \/ folds' = folds
           \/ \A i \in DOMAIN folds :
                folds'[i] = Apply(folds[i], history[cursor + 1], cursor + 1)
        /\ phase' \in {"reading", "failed"}
    BY <1>6, PassStep
  <2>2. \A i \in DOMAIN folds : /\ folds'[i].fold = folds[i].fold
                                /\ folds'[i].binding = folds[i].binding
    BY <2>1, ApplyKeeps DEF PassInv
  <2>3. \A i \in DOMAIN folds' : folds'[i].fold \in FoldTypes
                                 /\ folds'[i].binding \in Bindings
    BY <2>1, <2>2 DEF PassTypeOK
  <2>4. cursor' \in 0 .. Len(history')
    BY <2>1, LenProperties DEF PassTypeOK
  <2> QED
    BY <2>1, <2>3, <2>4 DEF PassTypeOK
<1>7. CASE extract
  BY <1>7 DEF extract, PassTypeOK
<1>8. CASE UNCHANGED passVars
  BY <1>8 DEF passVars, PassTypeOK
<1> QED
  BY <1>1, <1>2, <1>3, <1>4, <1>5, <1>6, <1>7, <1>8 DEF PassNext

\* A pass stays within the log, and its folds are bound to domain ids that exist.
THEOREM PassTypeCorrect == PassSpec => []PassTypeOK
<1>1. PassInit => PassTypeOK
  <2> SUFFICES ASSUME PassInit PROVE PassTypeOK
    OBVIOUS
  <2>1. history = <<>> /\ folds = <<>> /\ cursor = 0
    BY DEF PassInit
  <2>2. history \in Seq(StoredEvent) /\ Len(history) = 0 /\ \A i \in DOMAIN folds : FALSE
    BY <2>1, EmptySeq
  <2>3. input \in Bindings
    BY PickTyped, TypesAssumption DEF PassInit
  <2> QED
    BY <2>1, <2>2, <2>3 DEF PassInit, PassTypeOK
<1> QED
  BY <1>1, PassInvInit, PassInvNext, PassTypeNext, PTL DEF PassSpec

-----------------------------------------------------------------------------
(* Failing, and the width of the query *)

FailInv ==
  phase = "failed" =>
    /\ cursor \in 1 .. Len(history)
    /\ history[cursor].fate = "broken"
    /\ \E i \in DOMAIN folds :
         \E entry \in EntriesOf(folds[i].fold) : Admits(entry, folds[i].binding, history[cursor])

\* A fold that takes an event for its own has an entry that admits it.
LEMMA MatchAdmits ==
  ASSUME NEW t, NEW e, NEW b, matches_fold_query(t, e, b)
  PROVE  \E entry \in EntriesOf(t) : Admits(entry, b, e)
<1>1. PICK i \in FirstOf(t, e.type) : matchesFoldQuery(t.entries[i], TagsOf(e), b)
  BY DEF matches_fold_query
<1>2. i \in DOMAIN t.entries /\ t.entries[i].type = e.type
  BY <1>1 DEF FirstOf
<1>3. EntryTags(t.entries[i], b) \subseteq TagsOf(e)
  BY <1>1, MatchIsAdmit
<1> QED
  BY <1>2, <1>3 DEF EntriesOf, Admits

LEMMA FailNext == PassInv /\ FailInv /\ [PassNext]_passVars => FailInv'
<1> SUFFICES ASSUME PassInv, FailInv, [PassNext]_passVars, phase' = "failed" PROVE FailInv'
  BY DEF FailInv
<1>1. CASE next_event
  <2>1. /\ history' = history /\ cursor' = cursor + 1 /\ cursor < Len(history) /\ cursor \in Nat
        /\ folds' = folds
        /\ \E i \in DOMAIN folds : Fails(folds[i], history[cursor + 1])
    BY <1>1 DEF next_event, PassInv
  <2>2. PICK i \in DOMAIN folds : Fails(folds[i], history[cursor + 1])
    BY <2>1
  <2>3. \E entry \in EntriesOf(folds[i].fold) :
          Admits(entry, folds[i].binding, history[cursor + 1])
    BY <2>2, MatchAdmits DEF Fails
  <2>4. history[cursor + 1].fate = "broken"
    BY <2>2 DEF Fails
  <2>5. Len(history) \in Nat
    BY LenProperties DEF PassInv
  <2>6. cursor' \in 1 .. Len(history')
    BY <2>1, <2>5
  <2> QED
    BY <2>1, <2>3, <2>4, <2>6 DEF FailInv, Admits, EntryTags, EntriesOf, TagsOf
<1>2. CASE UNCHANGED passVars
  BY <1>2 DEF FailInv, passVars, Admits, EntryTags, EntriesOf, TagsOf
<1> QED
  BY <1>1, <1>2 DEF PassNext, emit_event, fold, fold_bound, defineFold, Add, run_folds, extract

\* A run of any command or query fails only at an event that one of its own folds
\* admits and cannot decode: no other fold's event and no shredded one breaks it.
THEOREM FailuresAreOwn == PassSpec => []FailsOnOwnEvent
<1>1. PassInit => FailInv
  BY DEF PassInit, FailInv
<1>2. PassInv /\ FailInv => FailsOnOwnEvent
  <2> SUFFICES ASSUME PassInv, FailInv, phase = "failed" PROVE FailsOnOwnEvent
    BY DEF FailsOnOwnEvent
  <2>1. PICK i \in DOMAIN folds :
          \E entry \in EntriesOf(folds[i].fold) :
            Admits(entry, folds[i].binding, history[cursor])
    BY DEF FailInv
  <2>2. cursor \in 1 .. cursor /\ history[cursor].fate = "broken"
    BY DEF FailInv, PassInv
  <2>3. cursor \in Received(folds[i], cursor)
    BY <2>1, <2>2 DEF Received
  <2> QED
    BY <2>2, <2>3 DEF FailsOnOwnEvent
<1> QED
  BY <1>1, <1>2, FailNext, PassInvariance, PTL DEF PassSpec

\* A command never conflicts with an append that none of its folds would have seen:
\* its query selects only what an entry of a fold admits under the fold's binding.
THEOREM QueriesAreTight == PassSpec => []QueryIsTight
<1>1. PassInv => QueryIsTight
  <2> SUFFICES ASSUME PassInv, mode = "command",
                      NEW p \in 1 .. Len(history), Selects(Query, history[p])
               PROVE  \E i \in DOMAIN folds : \E entry \in EntriesOf(folds[i].fold) :
                        Admits(entry, folds[i].binding, history[p])
    BY DEF QueryIsTight
  <2>1. ReadBindings = {input}
    BY DEF ReadBindings
  <2>2. PICK entry \in AllEntries :
          entry.type = history[p].type /\ EntryTags(entry, input) \subseteq TagsOf(history[p])
    BY <2>1, SelectsMeaning DEF Query
  <2>3. PICK i \in DOMAIN folds : entry \in EntriesOf(folds[i].fold)
    BY <2>2 DEF AllEntries
  <2>4. folds[i].binding = pickBindings(input, folds[i].fold.fields)
    BY <2>3 DEF PassInv, BoundToInput
  <2>5. EntryTags(entry, folds[i].binding) \subseteq EntryTags(entry, input)
    BY <2>4, PickRequiresLess
  <2>6. Admits(entry, folds[i].binding, history[p])
    BY <2>2, <2>5 DEF Admits
  <2> QED
    BY <2>3, <2>6
<1> QED
  BY <1>1, PassInvariance, PTL

-----------------------------------------------------------------------------
(* The meaning of folds *)

\* The entry of an event is the first, and the only one, of its type.
LEMMA OneEntry ==
  ASSUME NEW x, IsSlot(x), Regular(x), NEW i \in DOMAIN x.fold.entries
  PROVE  FirstOf(x.fold, x.fold.entries[i].type) = {i}
<1>1. DOMAIN x.fold.entries \subseteq Nat
  BY TypesAssumption, LenProperties DEF IsSlot, FoldType
<1>2. \A j \in DOMAIN x.fold.entries :
        x.fold.entries[j].type = x.fold.entries[i].type => j = i
  BY DEF Regular
<1>3. i <= i
  BY <1>1
<1> QED
  BY <1>2, <1>3 DEF FirstOf

LEMMA AdmitsIsMatch ==
  ASSUME NEW x, IsSlot(x), Regular(x), NEW e
  PROVE  (\E entry \in EntriesOf(x.fold) : Admits(entry, x.binding, e))
           <=> matches_fold_query(x.fold, e, x.binding)
<1>1. ASSUME NEW i \in DOMAIN x.fold.entries, Admits(x.fold.entries[i], x.binding, e)
      PROVE  matches_fold_query(x.fold, e, x.binding)
  <2>1. i \in FirstOf(x.fold, e.type)
    BY <1>1, OneEntry DEF Admits
  <2>2. matchesFoldQuery(x.fold.entries[i], TagsOf(e), x.binding)
    BY <1>1, MatchIsAdmit DEF Admits
  <2> QED
    BY <2>1, <2>2 DEF matches_fold_query
<1> QED
  BY <1>1, MatchAdmits DEF EntriesOf

\* An event that matches has a variant, in Rust too, which is that entry's and admits
\* it: the data shows whatever fixed values the tags have.
LEMMA MatchHasVariant ==
  ASSUME NEW x, IsSlot(x), Regular(x), NEW e, matches_fold_query(x.fold, e, x.binding)
  PROVE  \E i \in DOMAIN x.fold.entries :
           /\ FirstOf(x.fold, e.type) = {i}
           /\ mode # "js" => from_event(x.fold, e) = {i}
           /\ Admits(x.fold.entries[i], x.binding, e)
<1> DEFINE t == x.fold
<1>1. PICK i \in FirstOf(t, e.type) : matchesFoldQuery(t.entries[i], TagsOf(e), x.binding)
  BY DEF matches_fold_query
<1>2. i \in DOMAIN t.entries /\ t.entries[i].type = e.type
  BY <1>1 DEF FirstOf
<1>3. FirstOf(t, e.type) = {i}
  BY <1>2, OneEntry
<1>4. \A j \in DOMAIN t.entries : t.entries[j].type = e.type => j = i
  BY <1>2 DEF Regular
<1>5. i \in Nat
  BY <1>2, TypesAssumption, LenProperties DEF IsSlot, FoldType
<1>6. Admits(t.entries[i], x.binding, e)
  BY <1>1, <1>2, MatchIsAdmit DEF Admits
<1>7. ASSUME mode # "js", t.entries[i].static = {} PROVE from_event(t, e) = {i}
  <2>1. Scoped(t, e) = {}
    BY <1>4, <1>7 DEF Scoped
  <2>2. Fallback(t, e) = {i}
    BY <1>2, <1>4, <1>7 DEF Fallback
  <2> QED
    BY <1>5, <2>1, <2>2 DEF from_event
<1>8. ASSUME mode # "js", t.entries[i].static # {} PROVE from_event(t, e) = {i}
  <2>1. t.entries[i].static \subseteq TagsOf(e)
    BY <1>1 DEF matchesFoldQuery
  <2>2. \A tag \in t.entries[i].static : tag[1] \in TEXT_FIELDS[e.type]
    BY <1>2, <1>8 DEF Regular, EntriesOf
  <2>3. t.entries[i].static \subseteq TextOf(e)
    BY <2>1, <2>2 DEF TextOf
  <2>4. Scoped(t, e) = {i}
    BY <1>2, <1>4, <1>8, <2>3 DEF Scoped
  <2> QED
    BY <1>5, <2>4 DEF from_event
<1> QED
  BY <1>2, <1>3, <1>6, <1>7, <1>8

\* A fold takes an event for its own and hands it to its state.
Takes(x, e) ==
  /\ e.fate # "shredded"
  /\ matches_fold_query(x.fold, e, x.binding)
  /\ mode = "js" \/ from_event(x.fold, e) # {}

LEMMA ApplyTakes ==
  ASSUME NEW x, NEW p, Takes(x, history[p])
  PROVE  Apply(x, history[p], p) = [x EXCEPT !.state =
           apply(x.fold.kind, x.state, [pos |-> p, variant |-> VariantAt(x, p)])]
<1>1. CASE mode = "js"
  BY <1>1 DEF Apply, slot_apply, Takes, VariantAt
<1>2. CASE mode # "js"
  BY <1>2 DEF Apply, box_apply, Takes, VariantAt
<1> QED
  BY <1>1, <1>2

LEMMA ApplySkips ==
  ASSUME NEW x, NEW e, NEW p, ~Takes(x, e)
  PROVE  Apply(x, e, p) = x
BY DEF Apply, slot_apply, box_apply, Takes

\* What a fold takes is among its events, and a regular fold takes them all.
LEMMA ReceivedGrows ==
  ASSUME NEW x, IsSlot(x), NEW c \in Nat
  PROVE  /\ Received(x, c) \subseteq Received(x, c + 1)
         /\ Takes(x, history[c + 1]) => c + 1 \in Received(x, c + 1)
         /\ Regular(x) =>
              Received(x, c + 1) =
                Received(x, c) \cup (IF Takes(x, history[c + 1]) THEN {c + 1} ELSE {})
<1>1. 1 .. c + 1 = (1 .. c) \cup {c + 1}
  OBVIOUS
<1> DEFINE Admitted(p) == \E entry \in EntriesOf(x.fold) : Admits(entry, x.binding, history[p])
           Own(p) == history[p].fate # "shredded" /\ Admitted(p)
<1>2. Takes(x, history[c + 1]) => Own(c + 1)
  BY MatchAdmits DEF Takes
<1>3. ASSUME Regular(x), Own(c + 1) PROVE Takes(x, history[c + 1])
  <2>1. matches_fold_query(x.fold, history[c + 1], x.binding)
    BY <1>3, AdmitsIsMatch
  <2>2. \E i \in DOMAIN x.fold.entries :
          mode # "js" => from_event(x.fold, history[c + 1]) = {i}
    BY <1>3, <2>1, MatchHasVariant
  <2> QED
    BY <1>3, <2>1, <2>2 DEF Takes
<1>4. \A n : Received(x, n) = {p \in 1 .. n : Own(p)}
  BY DEF Received
<1> HIDE DEF Own
<1> QED
  BY <1>1, <1>2, <1>3, <1>4

\* Each kind of fold keeps its meaning when it is handed the next event.
LEMMA MeansGrows ==
  ASSUME NEW x, IsSlot(x), NEW c \in Nat, NEW S \in SUBSET (1 .. c), Means(x, S),
         NEW y, y = [x EXCEPT !.state = apply(x.fold.kind, x.state,
                       [pos |-> c + 1, variant |-> VariantAt(x, c + 1)])]
  PROVE  Means(y, S \cup {c + 1})
<1> DEFINE at == [pos |-> c + 1, variant |-> VariantAt(x, c + 1)]
<1>1. y.fold = x.fold /\ y.state = apply(x.fold.kind, x.state, at)
  BY DEF IsSlot
<1>2. \A p : VariantAt(y, p) = VariantAt(x, p)
  BY <1>1 DEF VariantAt
<1>3. x.fold.kind \in FoldKinds
  BY TypesAssumption DEF IsSlot, FoldType
<1>4. CASE x.fold.kind = "EventFold"
  <2>1. x.state = {[pos |-> p, variant |-> VariantAt(x, p)] : p \in S}
    BY <1>4 DEF Means
  <2>2. y.state = x.state \cup {at}
    BY <1>1, <1>4 DEF apply, EventFold
  <2>3. y.state = {[pos |-> p, variant |-> VariantAt(x, p)] : p \in S \cup {c + 1}}
    BY <2>1, <2>2
  <2> QED
    BY <1>1, <1>2, <1>4, <2>3 DEF Means
<1>5. CASE x.fold.kind = "EventCounter"
  <2>1. IsFiniteSet(S)
    BY FS_Interval, FS_Subset
  <2>2. Cardinality(S \cup {c + 1}) = Cardinality(S) + 1
    <3>1. c + 1 \notin S
      OBVIOUS
    <3> HIDE DEF at
    <3> QED
      BY <2>1, <3>1, FS_AddElement
  <2>3. x.state = Cardinality(S)
    BY <1>5 DEF Means
  <2>4. y.state = x.state + 1
    BY <1>1, <1>5 DEF apply, EventCounter
  <2> QED
    BY <1>1, <1>5, <2>2, <2>3, <2>4 DEF Means
<1>6. CASE x.fold.kind \in {"LatestEvent", "EventToggle"}
  <2>1. y.state = at
    BY <1>1, <1>6 DEF apply, LatestEvent, EventToggle
  <2>2. \A q \in S \cup {c + 1} : q <= c + 1
    OBVIOUS
  <2>3. \E p \in S \cup {c + 1} : /\ \A q \in S \cup {c + 1} : q <= p
                                  /\ y.state = [pos |-> p, variant |-> VariantAt(y, p)]
    BY <1>2, <2>1, <2>2
  <2> QED
    BY <1>1, <1>6, <2>3 DEF Means
<1> QED
  BY <1>3, <1>4, <1>5, <1>6 DEF FoldKinds

\* An event that a regular fold would take is selected by the query it shares.
LEMMA TakenIsSelected ==
  ASSUME NEW i \in DOMAIN folds, NEW e, Regular(folds[i]), Takes(folds[i], e)
  PROVE  Selects(Query, e)
<1>1. PICK entry \in EntriesOf(folds[i].fold) : Admits(entry, folds[i].binding, e)
  BY MatchAdmits DEF Takes
<1>2. entry \in AllEntries
  BY <1>1 DEF AllEntries
<1>3. \E b \in ReadBindings : EntryTags(entry, b) \subseteq EntryTags(entry, folds[i].binding)
  <2>1. CASE mode = "query"
    BY <2>1 DEF ReadBindings
  <2>2. CASE mode # "query"
    BY <1>1, <2>2 DEF ReadBindings, Regular
  <2> QED
    BY <2>1, <2>2
<1>4. \E b \in ReadBindings : entry.type = e.type /\ EntryTags(entry, b) \subseteq TagsOf(e)
  BY <1>1, <1>3 DEF Admits
<1> QED
  BY <1>2, <1>4, SelectsMeaning DEF Query

\* The meaning of one fold, given the positions it took.
Told(x, S, n) ==
  /\ S \subseteq Received(x, n)
  /\ Means(x, S)
  /\ Regular(x) =>
       /\ S = Received(x, n)
       /\ \A p \in S : Admits(x.fold.entries[VariantAt(x, p)], x.binding, history[p])

LEMMA MeaningIsTold ==
  FoldMeaning <=> (phase # "failed" =>
                     \A i \in DOMAIN folds : \E S : Told(folds[i], S, cursor))
BY DEF FoldMeaning, Told

\* What folds mean in the next state is about the same log.
LEMMA SameLog ==
  ASSUME history' = history, mode' = mode, input' = input,
         \A i \in DOMAIN folds' : \E S : Told(folds'[i], S, cursor')
  PROVE  FoldMeaning'
<1> SUFFICES ASSUME NEW i \in DOMAIN folds'
             PROVE  \E S : Told(folds[i], S, cursor)'
  BY DEF FoldMeaning, Told
<1>1. PICK S : Told(folds'[i], S, cursor')
  OBVIOUS
<1>2. Received(folds[i], cursor)' = Received(folds'[i], cursor')
  BY DEF Received, Admits, EntryTags, EntriesOf, TagsOf
<1>3. \A p : VariantAt(folds[i], p)' = VariantAt(folds'[i], p)
  BY DEF VariantAt
<1>4. Regular(folds[i])' <=> Regular(folds'[i])
  BY DEF Regular, EntriesOf, EntryTags
<1>5. Means(folds[i], S)' <=> Means(folds'[i], S)
  BY <1>3 DEF Means
<1>6. \A p : Admits(folds[i].fold.entries[VariantAt(folds[i], p)], folds[i].binding, history[p])'
               <=> Admits(folds'[i].fold.entries[VariantAt(folds'[i], p)], folds'[i].binding,
                          history[p])
  BY <1>3 DEF Admits, EntryTags, TagsOf
<1> QED
  BY <1>1, <1>2, <1>4, <1>5, <1>6 DEF Told

LEMMA MeaningNext ==
  ASSUME PassInv, FoldMeaning, [PassNext]_passVars
  PROVE  FoldMeaning'
<1> SUFFICES ASSUME phase' # "failed" PROVE FoldMeaning'
  BY DEF FoldMeaning
<1>1. ASSUME NEW t \in FoldTypes, NEW b, Add(t, b) PROVE FoldMeaning'
  <2> DEFINE x == [fold |-> t, binding |-> b, state |-> Initial(t.kind)]
  <2>1. folds' = Append(folds, x) /\ cursor = 0 /\ phase # "failed"
        /\ UNCHANGED <<history, mode, input, cursor>>
    BY <1>1 DEF Add, PassInv
  <2>2. IsSlot(x) /\ x.fold = t /\ x.state = Initial(t.kind)
    BY DEF IsSlot
  <2> HIDE DEF x
  <2>3. Received(x, 0) = {}
    BY DEF Received
  <2>4. t.kind \in FoldKinds
    BY TypesAssumption DEF FoldType
  <2>5. Means(x, {})
    <3>1. CASE t.kind = "EventFold"
      BY <2>2, <3>1 DEF Means, Initial
    <3>2. CASE t.kind = "EventCounter"
      BY <2>2, <3>2, FS_EmptySet DEF Means, Initial
    <3>3. CASE t.kind \in {"LatestEvent", "EventToggle"}
      BY <2>2, <3>3 DEF Means, Initial
    <3> QED
      BY <2>4, <3>1, <3>2, <3>3 DEF FoldKinds
  <2>6. /\ Len(folds) \in Nat /\ DOMAIN folds = 1 .. Len(folds)
        /\ DOMAIN folds' = 1 .. Len(folds) + 1
        /\ \A i \in DOMAIN folds : folds'[i] = folds[i]
        /\ folds'[Len(folds) + 1] = x
    <3>1. \E S : folds \in Seq(S)
      BY DEF PassInv
    <3>2. /\ Len(folds) \in Nat /\ DOMAIN folds = 1 .. Len(folds)
          /\ DOMAIN Append(folds, x) = 1 .. Len(folds) + 1
          /\ \A i \in DOMAIN folds : Append(folds, x)[i] = folds[i]
          /\ Append(folds, x)[Len(folds) + 1] = x
      BY <3>1, AppendSlot, Zenon
    <3> QED
      BY <2>1, <3>2
  <2>7. \A i \in DOMAIN folds' : \E S : Told(folds'[i], S, cursor')
    <3>1. \A i \in DOMAIN folds : \E S : Told(folds[i], S, cursor)
      BY <2>1, MeaningIsTold
    <3>2. Told(x, {}, cursor)
      BY <2>1, <2>3, <2>5 DEF Told
    <3>3. \A i \in DOMAIN folds' : i \in DOMAIN folds \/ i = Len(folds) + 1
      BY <2>6
    <3> QED
      BY <2>1, <2>6, <3>1, <3>2, <3>3
  <2> QED
    BY <2>1, <2>7, SameLog
<1>2. ASSUME NEW e \in StoredEvent, emit_event(e) PROVE FoldMeaning'
  <2>1. DOMAIN folds' = {}
    BY <1>2, EmptySeq DEF emit_event, PassInv
  <2> QED
    BY <2>1 DEF FoldMeaning
<1>3. CASE run_folds \/ extract \/ UNCHANGED passVars
  <2>1. history' = history /\ mode' = mode /\ input' = input /\ cursor' = cursor
        /\ folds' = folds /\ phase # "failed"
    BY <1>3 DEF run_folds, extract, passVars
  <2>2. \A i \in DOMAIN folds' : \E S : Told(folds'[i], S, cursor')
    BY <2>1, MeaningIsTold
  <2> QED
    BY <2>1, <2>2, SameLog
<1>4. CASE next_event
  <2> DEFINE e == history[cursor + 1]
  <2>1. /\ history' = history /\ mode' = mode /\ input' = input /\ phase = "reading"
        /\ cursor \in Nat /\ cursor' = cursor + 1 /\ DOMAIN folds' = DOMAIN folds
    BY <1>4, PassStep DEF PassInv
  <2>2. \/ ~Selects(Query, e) /\ folds' = folds
        \/ folds' = [i \in DOMAIN folds |-> Apply(folds[i], e, cursor + 1)]
    BY <1>4 DEF next_event
  <2>3. ASSUME NEW i \in DOMAIN folds
        PROVE  \E S : Told(folds'[i], S, cursor + 1)
    <3> DEFINE x == folds[i]
    <3>1. IsSlot(x)
      BY DEF PassInv
    <3>2. PICK S : Told(x, S, cursor)
      BY <2>1, MeaningIsTold
    <3>3. folds'[i] = x \/ (Takes(x, e) /\ folds'[i] = Apply(x, e, cursor + 1))
      BY <2>2, ApplySkips
    <3>4. CASE folds'[i] = x /\ ~(Regular(x) /\ Takes(x, e))
      <4>1. S \subseteq Received(x, cursor + 1)
        BY <2>1, <3>1, <3>2, ReceivedGrows DEF Told
      <4>2. Regular(x) => Received(x, cursor + 1) = Received(x, cursor)
        BY <2>1, <3>1, <3>4, ReceivedGrows
      <4> QED
        BY <3>2, <3>4, <4>1, <4>2 DEF Told
    <3>5. CASE Takes(x, e) /\ folds'[i] = Apply(x, e, cursor + 1)
      <4> DEFINE y == [x EXCEPT !.state = apply(x.fold.kind, x.state,
                        [pos |-> cursor + 1, variant |-> VariantAt(x, cursor + 1)])]
                 R == S \cup {cursor + 1}
      <4>1. folds'[i] = y
        BY <3>5, ApplyTakes
      <4>2. y.fold = x.fold /\ y.binding = x.binding
        BY <3>1 DEF IsSlot
      <4>3. /\ \A n : Received(y, n) = Received(x, n)
            /\ Regular(y) <=> Regular(x)
            /\ \A p : VariantAt(y, p) = VariantAt(x, p)
        BY <4>2 DEF Received, Regular, VariantAt
      <4>4. S \in SUBSET (1 .. cursor)
        BY <3>2 DEF Told, Received
      <4>5. Means(y, R)
        BY <2>1, <3>1, <3>2, <4>4, MeansGrows DEF Told
      <4>6. R \subseteq Received(x, cursor + 1)
        BY <2>1, <3>1, <3>2, <3>5, ReceivedGrows DEF Told
      <4>7. ASSUME Regular(x) PROVE R = Received(x, cursor + 1)
        BY <2>1, <3>1, <3>2, <3>5, <4>7, ReceivedGrows DEF Told
      <4>8. ASSUME Regular(x), NEW p \in R
            PROVE  Admits(x.fold.entries[VariantAt(x, p)], x.binding, history[p])
        <5>1. CASE p \in S
          BY <3>2, <4>8, <5>1 DEF Told
        <5>2. CASE p = cursor + 1
          <6>1. matches_fold_query(x.fold, history[p], x.binding)
            BY <3>5, <5>2 DEF Takes
          <6>2. PICK j \in DOMAIN x.fold.entries :
                  /\ FirstOf(x.fold, history[p].type) = {j}
                  /\ mode # "js" => from_event(x.fold, history[p]) = {j}
                  /\ Admits(x.fold.entries[j], x.binding, history[p])
            BY <3>1, <4>8, <6>1, MatchHasVariant
          <6>3. VariantAt(x, p) = j
            BY <6>2 DEF VariantAt
          <6> QED
            BY <6>2, <6>3
        <5> QED
          BY <5>1, <5>2
      <4> HIDE DEF y, R
      <4>9. Told(y, R, cursor + 1)
        BY <4>2, <4>3, <4>5, <4>6, <4>7, <4>8 DEF Told
      <4> QED
        BY <4>1, <4>9
    <3>6. Regular(x) /\ Takes(x, e) => folds'[i] = Apply(x, e, cursor + 1)
      BY <2>2, TakenIsSelected
    <3> QED
      BY <3>3, <3>4, <3>5, <3>6
  <2>4. \A i \in DOMAIN folds' : \E S : Told(folds'[i], S, cursor')
    BY <2>1, <2>3
  <2> QED
    BY <2>1, <2>4, SameLog
<1> QED
  BY <1>1, <1>2, <1>3, <1>4 DEF PassNext, fold, fold_bound, defineFold

\* In every command and every fold query, whatever event sets and bindings it is built
\* from, no fold takes an event that is not its own, and the folds that keep to
\* Regular take all of theirs, each in the variant that admits it.
THEOREM FoldsMean == PassSpec => []FoldMeaning
<1>1. PassInit => FoldMeaning
  BY EmptySeq DEF PassInit, FoldMeaning
<1>2. PassInv /\ FoldMeaning /\ [PassNext]_passVars => FoldMeaning'
  BY MeaningNext
<1> QED
  BY <1>1, <1>2, PassInvariance, PTL DEF PassSpec
=============================================================================
