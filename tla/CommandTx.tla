------------------------------ MODULE CommandTx ------------------------------
(***************************************************************************)
(* Execution of commands: the SDK's Command::run in the guest              *)
(* (crates/umari/src/command.rs) over the host's transaction resource      *)
(* (crates/runtime/src/wit/command.rs), the event store and the module     *)
(* store's encryption keys.                                                *)
(*                                                                         *)
(* Every execution runs in a task of its own (CommandActor::execute spawns *)
(* it), so executions interleave at every call to a store: a transaction   *)
(* reads a snapshot, decrypts its events one lookup at a time, decides,    *)
(* obtains encryption keys one by one, and appends on the condition that   *)
(* no event matching its query has arrived since the snapshot.             *)
(***************************************************************************)
EXTENDS Integers, Sequences, FiniteSets

CONSTANTS
  Execs,       \* executions
  Kinds,       \* classes of events that queries tell apart (type and tags)
  Ikeys,       \* idempotency keys
  NoIkey,      \* a command called without one
  Requests,    \* the commands callers may send
  Scopes,      \* encryption scopes
  NoScope,     \* an event that is not encrypted
  ScopeOf,     \* the encryption scope of each kind of event
  MaxDeletes   \* bound: keys deleted

NoKeyId == 0
None    == -1   \* Option::None for a position

ASSUME RequestsAssumption ==
  Requests \subseteq
    [query : SUBSET Kinds, emits : Seq(Kinds), ikey : Ikeys \cup {NoIkey}]

ASSUME ScopeAssumption ==
  /\ ScopeOf \in [Kinds -> Scopes \cup {NoScope}]
  /\ NoScope \notin Scopes
  /\ MaxDeletes \in Nat

VARIABLES
  log,          \* the event store's log, with the history SerialCommands keeps
  key_ids,      \* encryption_key_id of each event of the log
  crypto_keys,  \* the module store's table of keys; a key's id is its index
  tx            \* the executions and their transactions

vars == <<log, key_ids, crypto_keys, tx>>

Serial == INSTANCE SerialCommands

Event     == [kind : Kinds, ikey : Ikeys \cup {NoIkey}, first : Nat,
              seen : SUBSET Nat]
CryptoKey == [scope : Scopes, deleted : BOOLEAN]

Phases  == {"idle", "reading", "committing",
            "ok", "duplicate", "conflict", "failed"}
Running == {"reading", "committing"}

Tx == [phase : Phases, request : Requests, head : Nat \cup {None},
       events : SUBSET Nat, todo : SUBSET Nat, folded : SUBSET Nat,
       keys : [Scopes -> Nat], position : Nat \cup {None}]

ScopesOf(r) == {ScopeOf[r.emits[i]] : i \in DOMAIN r.emits} \ {NoScope}

-----------------------------------------------------------------------------
(* The module store's keys *)

Live(k) == ~crypto_keys[k].deleted

\* Mutant: an event is decrypted with its scope's current key.
readable_by_scope(p) ==
  key_ids[p] # NoKeyId =>
    \E k \in DOMAIN crypto_keys :
      Live(k) /\ crypto_keys[k].scope = crypto_keys[key_ids[p]].scope

\* decrypt_event_data finds the key that encrypted the event.
readable(p) == key_ids[p] # NoKeyId => Live(key_ids[p])

delete_crypto_key(s) ==
  /\ Cardinality({k \in DOMAIN crypto_keys : crypto_keys[k].deleted})
       < MaxDeletes
  /\ crypto_keys' = [k \in DOMAIN crypto_keys |->
       IF crypto_keys[k].scope = s THEN [crypto_keys[k] EXCEPT !.deleted = TRUE]
                                   ELSE crypto_keys[k]]
  /\ UNCHANGED <<log, key_ids, tx>>

-----------------------------------------------------------------------------
Init ==
  /\ log = <<>>
  /\ key_ids = <<>>
  /\ crypto_keys = <<>>
  /\ \E r \in Requests :
       tx = [e \in Execs |->
         [phase |-> "idle", request |-> r, head |-> None, events |-> {},
          todo |-> {}, folded |-> {}, keys |-> [s \in Scopes |-> NoKeyId],
          position |-> None]]

\* Mutant: the append is fenced from position zero, not from the read's head.
transaction_new_unpinned(r) ==
  LET events == Serial!Matching(r.query, log)
  IN [phase |-> "reading", request |-> r,
      head |-> IF r.query = {} THEN None ELSE 0,
      events |-> events, todo |-> events, folded |-> {},
      keys |-> [s \in Scopes |-> NoKeyId], position |-> None]

(* Transaction::new: a command that folds nothing reads nothing; any other *)
(* one takes the matching events and the head of the log in one snapshot.  *)
transaction_new(r) ==
  LET events == Serial!Matching(r.query, log)
  IN [phase |-> "reading", request |-> r,
      head |-> IF r.query = {} THEN None ELSE Len(log),
      events |-> events, todo |-> events, folded |-> {},
      keys |-> [s \in Scopes |-> NoKeyId], position |-> None]

execute(e, r) ==
  /\ tx[e].phase = "idle"
  /\ tx' = [tx EXCEPT ![e] = transaction_new(r)]
  /\ UNCHANGED <<log, key_ids, crypto_keys>>

(* A request of the API may carry an idempotency key in a header; the form *)
(* of the web UI never does.                                               *)
api_execute(e) == \E r \in Requests : execute(e, r)
ui_execute(e)  == \E r \in Requests : r.ikey = NoIkey /\ execute(e, r)

(* The caller sends a command that met a conflict again.                   *)
retry(e) ==
  /\ tx[e].phase = "conflict"
  /\ tx' = [tx EXCEPT ![e] = transaction_new(tx[e].request)]
  /\ UNCHANGED <<log, key_ids, crypto_keys>>

(* next_batch: one key lookup per event, in the order of the log; an event *)
(* whose key is gone reads as Null, which the folds skip.                  *)
next_batch(e) ==
  \E p \in tx[e].todo :
    /\ tx[e].phase = "reading"
    /\ \A q \in tx[e].todo : p <= q
    /\ tx' = [tx EXCEPT
         ![e].todo = @ \ {p},
         ![e].folded = IF readable(p) THEN @ \cup {p} ELSE @]
    /\ UNCHANGED <<log, key_ids, crypto_keys>>

-----------------------------------------------------------------------------
(* Command::run, with the whole batch at hand *)

\* Mutant: only the newest event of the batch is compared.
is_idempotent_newest(t) ==
  Serial!Duplicate(t.request.ikey, log,
                   {p \in t.events : \A q \in t.events : q <= p})

is_idempotent(t) == Serial!Duplicate(t.request.ikey, log, t.events)

(* The key is on an event of the batch: commit nothing, answer with the    *)
(* position of the head.                                                   *)
duplicate(e) ==
  /\ tx[e].phase = "reading"
  /\ tx[e].todo = {}
  /\ is_idempotent(tx[e])
  /\ tx' = [tx EXCEPT ![e].phase = "duplicate", ![e].position = tx[e].head]
  /\ UNCHANGED <<log, key_ids, crypto_keys>>

(* The command's own code decides to emit its events ...                   *)
emit(e) ==
  /\ tx[e].phase = "reading"
  /\ tx[e].todo = {}
  /\ ~is_idempotent(tx[e])
  /\ tx[e].request.emits # <<>>
  /\ tx' = [tx EXCEPT ![e].phase = "committing"]
  /\ UNCHANGED <<log, key_ids, crypto_keys>>

(* ... or nothing, which commits without an append.                        *)
emit_nothing(e) ==
  /\ tx[e].phase = "reading"
  /\ tx[e].todo = {}
  /\ ~is_idempotent(tx[e])
  /\ tx' = [tx EXCEPT ![e].phase = "ok", ![e].position = tx[e].head]
  /\ UNCHANGED <<log, key_ids, crypto_keys>>

(* transaction_commit: the live key of each scope, created if there is     *)
(* none, in the order in which the events name the scopes ...              *)
NextScope(t, s) ==
  \E i \in DOMAIN t.request.emits :
    /\ ScopeOf[t.request.emits[i]] = s
    /\ s # NoScope /\ t.keys[s] = NoKeyId
    /\ \A j \in 1 .. i - 1 :
         LET earlier == ScopeOf[t.request.emits[j]]
         IN earlier # NoScope => t.keys[earlier] # NoKeyId

\* Mutant: a new key is answered but not stored.
create_crypto_key_unsaved(e, s) ==
  /\ tx[e].phase = "committing"
  /\ NextScope(tx[e], s)
  /\ \/ \E k \in DOMAIN crypto_keys :
          /\ Live(k) /\ crypto_keys[k].scope = s
          /\ tx' = [tx EXCEPT ![e].keys[s] = k]
     \/ /\ \A k \in DOMAIN crypto_keys : Live(k) => crypto_keys[k].scope # s
        /\ tx' = [tx EXCEPT ![e].keys[s] = Len(crypto_keys) + 1]
  /\ UNCHANGED <<log, key_ids, crypto_keys>>

create_crypto_key(e, s) ==
  /\ tx[e].phase = "committing"
  /\ NextScope(tx[e], s)
  /\ \/ \E k \in DOMAIN crypto_keys :
          /\ Live(k) /\ crypto_keys[k].scope = s
          /\ tx' = [tx EXCEPT ![e].keys[s] = k]
          /\ UNCHANGED crypto_keys
     \/ /\ \A k \in DOMAIN crypto_keys : Live(k) => crypto_keys[k].scope # s
        /\ crypto_keys' = Append(crypto_keys, [scope |-> s, deleted |-> FALSE])
        /\ tx' = [tx EXCEPT ![e].keys[s] = Len(crypto_keys) + 1]
  /\ UNCHANGED <<log, key_ids>>

\* Mutant: the condition misses the first event after the head.
conflicts_late(t) ==
  t.head # None /\ \E p \in t.head + 2 .. Len(log) : log[p].kind \in t.request.query

\* ... then the event store's check of the append condition: an event that
\* matches the query arrived after the head that the read was pinned to.
conflicts(t) ==
  t.head # None /\ \E p \in t.head + 1 .. Len(log) : log[p].kind \in t.request.query

KeysReady(e) ==
  tx[e].phase = "committing"
    /\ \A s \in ScopesOf(tx[e].request) : tx[e].keys[s] # NoKeyId

append(e) ==
  LET t == tx[e]
      r == t.request
  IN /\ KeysReady(e)
     /\ ~conflicts(t)
     /\ log' = log \o Serial!Batch(r, Len(log) + 1, t.events)
     /\ key_ids' = key_ids \o
          [i \in DOMAIN r.emits |->
             IF ScopeOf[r.emits[i]] = NoScope THEN NoKeyId
                                              ELSE t.keys[ScopeOf[r.emits[i]]]]
     /\ tx' = [tx EXCEPT ![e].phase = "ok",
                         ![e].position = Len(log) + Len(r.emits)]
     /\ UNCHANGED crypto_keys

append_conflict(e) ==
  /\ KeysReady(e)
  /\ conflicts(tx[e])
  /\ tx' = [tx EXCEPT ![e].phase = "conflict"]
  /\ UNCHANGED <<log, key_ids, crypto_keys>>

(* The command is not loaded or does not instantiate; its code refuses or  *)
(* traps, or a lookup fails; the runtime dies.                             *)
fail(e) ==
  /\ tx[e].phase \in Running \cup {"idle"}
  /\ tx' = [tx EXCEPT ![e].phase = "failed"]
  /\ UNCHANGED <<log, key_ids, crypto_keys>>

-----------------------------------------------------------------------------
(* What the guest does by itself ...                                       *)
run(e) ==
  \/ duplicate(e)
  \/ emit(e)
  \/ emit_nothing(e)

(* ... and what the host does for its transaction.  Transactions of        *)
(* projectors and effects go the same way, on the module's own thread.     *)
HostTransaction(e) ==
  \/ next_batch(e)
  \/ \E s \in Scopes : create_crypto_key(e, s)
  \/ append(e)
  \/ append_conflict(e)

Run(e) == run(e) \/ HostTransaction(e)

Next ==
  \/ \E s \in Scopes : delete_crypto_key(s)
  \/ \E e \in Execs : \/ api_execute(e)
                      \/ ui_execute(e)
                      \/ retry(e)
                      \/ Run(e)
                      \/ fail(e)

Spec == Init /\ [][Next]_vars

(* Fairness: a task that can run is run, and a caller that was told of a   *)
(* conflict retries.                                                       *)
FairSpec == Spec /\ \A e \in Execs : WF_vars(Run(e)) /\ WF_vars(retry(e))

-----------------------------------------------------------------------------
(* Properties *)

\* The shape of the state; every key an event or a transaction holds exists.
TypeOK ==
  /\ log \in Seq(Event)
  /\ key_ids \in Seq(0 .. Len(crypto_keys))
  /\ Len(key_ids) = Len(log)
  /\ crypto_keys \in Seq(CryptoKey)
  /\ tx \in [Execs -> Tx]
  /\ \A e \in Execs, s \in Scopes : tx[e].keys[s] \in 0 .. Len(crypto_keys)

\* Concurrent executions have the effect of running the successful ones one at a
\* time: each decided on exactly the events its query selected when its own were
\* appended (the transaction's snapshot, fenced by the append condition).
SerialSpec == Serial!Spec

\* What makes SerialSpec inductive: a running transaction holds exactly the
\* events its query selected below its head, and once it has decided to emit,
\* none of them carries its key.
TxInv(e) ==
  LET t == tx[e]
      r == t.request
  IN t.phase \in Running =>
       /\ r.query # {} => /\ t.head \in 0 .. Len(log)
                          /\ t.events = {p \in 1 .. t.head : log[p].kind \in r.query}
       /\ r.query = {} => t.events = {}
       /\ t.phase = "committing" => ~is_idempotent(t)

IInv == TypeOK /\ \A e \in Execs : TxInv(e)

\* A command retried with its idempotency key takes effect once, also when both
\* attempts run at the same time: the second is told of the duplicate, or loses
\* the race for the append (Command::run, AppendCondition).
OncePerKey == Serial!OncePerKey

\* A read that spans the deletion of a key folds a prefix of the events that
\* key encrypted: having missed one, it never folds a later one, even when the
\* scope has a new key by then (decrypt_event_data looks up the event's own key).
FoldsPrefixOfKey ==
  \A e \in Execs : tx[e].phase = "reading" =>
    \A p, q \in tx[e].events \ tx[e].todo :
      p < q /\ key_ids[p] = key_ids[q] /\ q \in tx[e].folded
        => p \in tx[e].folded

\* What makes FoldsPrefixOfKey inductive: a transaction reads its events in order, and
\* has left out only those whose key is gone, which no key comes back from.
ReadInv(e) ==
  LET t    == tx[e]
      done == t.events \ t.todo
  IN t.phase = "reading" =>
       /\ t.events \subseteq 1 .. Len(log)
       /\ t.todo \subseteq t.events /\ t.folded \subseteq done
       /\ \A p \in done, q \in t.todo : p < q
       /\ \A p \in done \ t.folded : key_ids[p] # NoKeyId /\ ~Live(key_ids[p])
       /\ \A p, q \in done :
            p < q /\ key_ids[p] = key_ids[q] /\ q \in t.folded => p \in t.folded

FoldInv == \A e \in Execs : ReadInv(e)

\* An event is appended under a key that has not been deleted.
NewEventsReadable ==
  [][\A p \in DOMAIN log' \ DOMAIN log :
       key_ids'[p] # NoKeyId => ~crypto_keys[key_ids'[p]].deleted]_vars

\* A caller that retries on conflict is answered: an execution loses the race
\* for the append only to one that won it, and the winners are finitely many.
EventuallyAnswered ==
  \A e \in Execs : tx[e].phase # "idle" ~>
    tx[e].phase \in {"ok", "duplicate", "failed"}
=============================================================================
