------------------------------ MODULE FoldPass ------------------------------
(***************************************************************************)
(* The folds of the SDKs: how a command or a fold query states which       *)
(* events it reads, and what each fold makes of the events that come       *)
(* (crates/umari/src/command.rs, folds.rs, fold_query.rs, the EventSet     *)
(* derive macro, and their ports in packages/js/src).                      *)
(*                                                                         *)
(* An event carries a tag field:value for each of its domain id fields,    *)
(* whatever the field is called in its data and however it is written      *)
(* there.                                                                  *)
(* All folds of one command share one query and one pass over the events   *)
(* it selects; each fold filters what it is handed.                        *)
(***************************************************************************)
EXTENDS Naturals, Sequences, FiniteSets

CONSTANTS
  Fields, Values,  \* of domain ids
  Types,           \* event types
  DOMAIN_ID_FIELDS,\* the domain id fields of each event type
  TEXT_FIELDS,     \* those that its data holds under their own name, as a string
  FoldTypes,       \* the fold types that commands and queries are built from
  Declared,        \* the domain ids a command may declare
  Inputs,          \* the data it is called with
  Given,           \* bindings a fold may be given of its own
  Modes,           \* kinds of readers
  MaxLog,          \* bound: events in the store
  MaxFolds         \* bound: folds of one reader

\* A map from some of the fields to values.
Bindings == UNION {[D -> Values] : D \in SUBSET Fields}
Tag      == Fields \X Values

\* EventDomainId: the fields bound at run time and the fixed tags of one variant.
Entry == [type : Types, dynamic : SUBSET Fields, static : SUBSET Tag]

FoldKinds == {"EventFold", "LatestEvent", "EventCounter", "EventToggle"}
FoldType == [kind : FoldKinds, fields : SUBSET Fields, entries : Seq(Entry),
             required : SUBSET Fields]

\* An entry is of a variant of an EventSet: without a scope it is bound to all domain
\* ids of its event.
event_domain_ids(type, scope) ==
  IF scope = {} THEN [type |-> type, dynamic |-> DOMAIN_ID_FIELDS[type], static |-> {}]
  ELSE [type |-> type, dynamic |-> {s[1] : s \in {x \in scope : Len(x) = 1}},
        static |-> {s \in scope : Len(s) = 2}]

\* What the derive macro checks: a scope names domain ids of the event.
Validated(entry) ==
  entry.dynamic \cup {tag[1] : tag \in entry.static} \subseteq DOMAIN_ID_FIELDS[entry.type]

\* An optional id may be missing. The data may have been shredded, or not be what
\* the reader's type of event expects.
StoredEvent ==
  UNION {[type : {t}, data : UNION {[D -> Values] : D \in SUBSET DOMAIN_ID_FIELDS[t]},
          fate : {"plain", "shredded", "broken"}] : t \in Types}

ASSUME TypesAssumption ==
  /\ DOMAIN_ID_FIELDS \in [Types -> SUBSET Fields]
  /\ TEXT_FIELDS \in [Types -> SUBSET Fields]
  /\ FoldTypes \subseteq FoldType
  /\ \A t \in FoldTypes : \A i \in DOMAIN t.entries : Validated(t.entries[i])
  /\ Declared \subseteq SUBSET Fields
  /\ Inputs \subseteq Bindings /\ Given \subseteq Bindings
  /\ Modes \subseteq {"command", "js", "query"}

ASSUME BoundsAssumption == MaxLog \in Nat /\ MaxFolds \in Nat

VARIABLES
  history, \* the events in the store
  phase,   \* what the reader is doing
  mode,    \* which kind of reader it is
  input,   \* the command's bindings
  folds,   \* the folds, each with its binding and its state
  cursor   \* the events it has got past

passVars == <<history, phase, mode, input, folds, cursor>>

-----------------------------------------------------------------------------
(* Selecting events *)

TagsOf(e) == {<<f, e.data[f]>> : f \in DOMAIN e.data}

\* A command's domain ids are bound to what its input has for them; a fold's, to what
\* of that is its own.
extractBindings(fields, data) == [f \in fields \cap DOMAIN data |-> data[f]]
pickBindings(b, fields) == [f \in DOMAIN b \cap fields |-> b[f]]

\* The tags an entry requires: those of its fields that are bound, and the fixed
\* ones.
EntryTags(entry, b) ==
  {<<f, b[f]>> : f \in entry.dynamic \cap DOMAIN b} \cup entry.static

\* Mutant: the fixed tags are left out.
query_without_static(entries, bindings) ==
  {[tags |-> {<<f, b[f]>> : f \in x.dynamic \cap DOMAIN b}, types |-> {x.type}] :
     x \in entries, b \in bindings}

\* Every entry under every binding, one item for each set of tags.
build_dcb_query(entries, bindings) ==
  LET groups == {EntryTags(x, b) : x \in entries, b \in bindings}
  IN {[tags |-> g, types |-> {x.type : x \in {y \in entries :
         \E b \in bindings : EntryTags(y, b) = g}}] : g \in groups}

\* What the event store does with a query.
Selects(query, e) ==
  \E item \in query : e.type \in item.types /\ item.tags \subseteq TagsOf(e)

EntriesOf(t) == {t.entries[i] : i \in DOMAIN t.entries}
AllEntries   == UNION {EntriesOf(folds[i].fold) : i \in DOMAIN folds}

\* A command reads with its own bindings, in both SDKs; a fold query with the
\* bindings of its folds.
ReadBindings ==
  IF mode = "query" THEN {folds[i].binding : i \in DOMAIN folds} ELSE {input}

\* A JavaScript command without folds reads nothing; Rust's has no entries either.
Query == build_dcb_query(AllEntries, ReadBindings)

-----------------------------------------------------------------------------
(* Applying events *)

FirstOf(t, type) ==
  {i \in DOMAIN t.entries :
     /\ t.entries[i].type = type
     /\ \A j \in DOMAIN t.entries : t.entries[j].type = type => i <= j}

\* Mutant: the bound fields are not compared.
matches_static_only(t, e, b) ==
  \E i \in FirstOf(t, e.type) : t.entries[i].static \subseteq TagsOf(e)

matchesFoldQuery(entry, tags, b) ==
  /\ \A f \in entry.dynamic \cap DOMAIN b : <<f, b[f]>> \in tags
  /\ entry.static \subseteq tags

\* The requirements are those of the first entry with the event's type.
matches_fold_query(t, e, b) ==
  \E i \in FirstOf(t, e.type) : matchesFoldQuery(t.entries[i], TagsOf(e), b)

\* What the data shows of the tags. A field that was renamed is not found under the
\* domain id's name, and a number is not the string that its tag has.
TextOf(e) == {tag \in TagsOf(e) : tag[1] \in TEXT_FIELDS[e.type]}

\* EventSet::from_event: the variants of the type with fixed values are tried in
\* order, on the data and not on the tags; one without is the last resort.
Scoped(t, e) ==
  {i \in DOMAIN t.entries :
     /\ t.entries[i].type = e.type
     /\ t.entries[i].static # {}
     /\ t.entries[i].static \subseteq TextOf(e)}
Fallback(t, e) ==
  {i \in DOMAIN t.entries : t.entries[i].type = e.type /\ t.entries[i].static = {}}

from_event(t, e) ==
  IF Scoped(t, e) # {}
    THEN {i \in Scoped(t, e) : \A j \in Scoped(t, e) : i <= j}
    ELSE {i \in Fallback(t, e) : \A j \in Fallback(t, e) : j <= i}

\* The built-in folds: every event, the last one, how many, the last of two types
\* (the variant is its side).
EventFold(state, at)    == state \cup {at}
LatestEvent(state, at)  == at
EventCounter(state, at) == state + 1
EventToggle(state, at)  == at

Nothing == [pos |-> 0, variant |-> 0]

Initial(kind) ==
  CASE kind = "EventFold" -> {}
    [] kind = "EventCounter" -> 0
    [] kind \in {"LatestEvent", "EventToggle"} -> Nothing

apply(kind, state, at) ==
  CASE kind = "EventFold" -> EventFold(state, at)
    [] kind = "LatestEvent" -> LatestEvent(state, at)
    [] kind = "EventCounter" -> EventCounter(state, at)
    [] kind = "EventToggle" -> EventToggle(state, at)

\* Mutant: the event is decoded before it is known to match.
fails_before_matching(x, e) ==
  /\ e.fate = "broken" /\ mode # "js"
  /\ from_event(x.fold, e) # {}

\* Decoding fails only an event that matches and has a variant, and only in Rust:
\* JavaScript takes the data as it is.
Fails(x, e) ==
  /\ e.fate = "broken" /\ mode # "js"
  /\ matches_fold_query(x.fold, e, x.binding)
  /\ from_event(x.fold, e) # {}

\* An event whose data was shredded is skipped before anything is decoded.
box_apply(x, e, pos) ==
  IF e.fate = "shredded" \/ ~matches_fold_query(x.fold, e, x.binding)
     \/ from_event(x.fold, e) = {}
    THEN x
    ELSE [x EXCEPT !.state = apply(x.fold.kind, x.state,
            [pos |-> pos, variant |-> CHOOSE i \in from_event(x.fold, e) : TRUE])]

\* In JavaScript an entry is its event's definition and the data needs no decoding.
slot_apply(x, e, pos) ==
  IF e.fate = "shredded" \/ ~matches_fold_query(x.fold, e, x.binding)
    THEN x
    ELSE [x EXCEPT !.state = apply(x.fold.kind, x.state,
            [pos |-> pos, variant |-> CHOOSE i \in FirstOf(x.fold, e.type) : TRUE])]

Apply(x, e, pos) == IF mode = "js" THEN slot_apply(x, e, pos) ELSE box_apply(x, e, pos)

-----------------------------------------------------------------------------
PassInit ==
  /\ history = <<>>
  /\ phase = "emitting"
  /\ mode \in Modes
  /\ input \in IF mode = "query" THEN {extractBindings({}, data) : data \in Inputs}
               ELSE {extractBindings(fields, data) : fields \in Declared, data \in Inputs}
  /\ folds = <<>>
  /\ cursor = 0

\* Some command emits an event; its tags are its domain ids (EmitEvent::new).
emit_event(e) ==
  /\ phase = "emitting"
  /\ Len(history) < MaxLog
  /\ history' = Append(history, e)
  /\ UNCHANGED <<phase, mode, input, folds, cursor>>

Add(t, b) ==
  /\ phase \in {"emitting", "building"}
  /\ Len(folds) < MaxFolds
  /\ phase' = "building"
  /\ folds' = Append(folds,
       [fold |-> t, binding |-> b, state |-> Initial(t.kind)])
  /\ UNCHANGED <<history, mode, input, cursor>>

\* Command::fold: the fold is bound to the fields of the input that are its own.
fold(t) ==
  /\ mode = "command"
  /\ Add(t, pickBindings(input, t.fields))

\* In a fold query the fold brings its bindings, whatever they are.
fold_bound(t, b) ==
  /\ mode = "query"
  /\ Add(t, b)

\* In JavaScript a fold is bound to those of the given ids that are its own, which
\* need not be the command's; its entries have no fixed values.
defineFold(t, b) ==
  /\ mode = "js"
  /\ \A i \in DOMAIN t.entries : t.entries[i].static = {}
  /\ Add(t, pickBindings(b, t.fields))

\* The folds of a Rust command are created from its bindings; one that is derived
\* insists on having all its fields, and the command traps.
from_domain_ids(x) == mode = "command" => x.fold.required \subseteq DOMAIN x.binding

\* The transaction is opened with the query.
run_folds ==
  /\ phase = "building"
  /\ phase' = IF \A i \in DOMAIN folds : from_domain_ids(folds[i])
                THEN "reading" ELSE "trapped"
  /\ UNCHANGED <<history, mode, input, folds, cursor>>

\* The next event, if the query selects it, goes through all folds; when one
\* cannot decode it the run fails.
next_event ==
  LET e == history[cursor + 1]
  IN /\ phase = "reading"
     /\ cursor < Len(history)
     /\ cursor' = cursor + 1
     /\ \/ /\ ~Selects(Query, e)
           /\ UNCHANGED <<phase, folds>>
        \/ /\ Selects(Query, e)
           /\ \A i \in DOMAIN folds : ~Fails(folds[i], e)
           /\ folds' = [i \in DOMAIN folds |-> Apply(folds[i], e, cursor + 1)]
           /\ UNCHANGED phase
        \/ /\ Selects(Query, e)
           /\ \E i \in DOMAIN folds : Fails(folds[i], e)
           /\ phase' = "failed"
           /\ UNCHANGED folds
     /\ UNCHANGED <<history, mode, input>>

\* All events read: the states go to the handler, or to the caller of the query.
extract ==
  /\ phase = "reading"
  /\ cursor = Len(history)
  /\ phase' = "done"
  /\ UNCHANGED <<history, mode, input, folds, cursor>>

PassNext ==
  \/ \E e \in StoredEvent : emit_event(e)
  \/ \E t \in FoldTypes :
       fold(t) \/ \E b \in Given : fold_bound(t, b) \/ defineFold(t, b)
  \/ run_folds
  \/ next_event
  \/ extract

PassSpec == PassInit /\ [][PassNext]_passVars

-----------------------------------------------------------------------------
(* Properties *)

\* The shape of the state.
PassTypeOK ==
  /\ history \in Seq(StoredEvent)
  /\ phase \in {"emitting", "building", "reading", "trapped", "failed", "done"}
  /\ mode \in Modes
  /\ input \in Bindings
  /\ cursor \in 0..Len(history)
  /\ \A i \in DOMAIN folds :
       /\ folds[i].fold \in FoldTypes
       /\ folds[i].binding \in Bindings

\* An entry of a fold admits an event: the documented meaning of #[scope].
Admits(entry, b, e) == entry.type = e.type /\ EntryTags(entry, b) \subseteq TagsOf(e)

\* The events among the first n that are the fold's.
Received(x, n) ==
  {p \in 1..n : /\ history[p].fate # "shredded"
                /\ \E entry \in EntriesOf(x.fold) : Admits(entry, x.binding, history[p])}

VariantAt(x, p) ==
  IF mode = "js" THEN CHOOSE i \in FirstOf(x.fold, history[p].type) : TRUE
                 ELSE CHOOSE i \in from_event(x.fold, history[p]) : TRUE

\* What a fold of each kind stands for, given the positions it received.
Means(x, S) ==
  /\ x.fold.kind = "EventFold" =>
       x.state = {[pos |-> p, variant |-> VariantAt(x, p)] : p \in S}
  /\ x.fold.kind = "EventCounter" => x.state = Cardinality(S)
  /\ x.fold.kind \in {"LatestEvent", "EventToggle"} =>
       \/ S = {} /\ x.state = Nothing
       \/ \E p \in S : /\ \A q \in S : q <= p
                       /\ x.state = [pos |-> p, variant |-> VariantAt(x, p)]

\* The folds whose documented meaning the SDKs keep: they have one entry for an event
\* type, what that entry fixes can be read in the event's data, and the query their
\* command reads with asks no more for the entry than the fold does.
Regular(x) ==
  /\ \A i, j \in DOMAIN x.fold.entries :
       x.fold.entries[i].type = x.fold.entries[j].type => i = j
  /\ \A entry \in EntriesOf(x.fold) :
       /\ \A tag \in entry.static : tag[1] \in TEXT_FIELDS[entry.type]
       /\ mode # "query" => EntryTags(entry, input) \subseteq EntryTags(entry, x.binding)

\* No fold ever takes an event that none of its entries admits under its binding,
\* whatever other folds share the query and the pass with it, and its state is what
\* its kind makes of the events it took. A regular fold takes all of its events, each
\* in the variant that admits it.
FoldMeaning ==
  phase # "failed" =>
    \A i \in DOMAIN folds :
      LET bound == folds[i]
      IN \E S \in SUBSET Received(bound, cursor) :
           /\ Means(bound, S)
           /\ Regular(bound) =>
                /\ S = Received(bound, cursor)
                /\ \A p \in S :
                     Admits(bound.fold.entries[VariantAt(bound, p)], bound.binding, history[p])

\* A run fails only at an event that one of its folds admits and cannot decode.
FailsOnOwnEvent ==
  phase = "failed" =>
    \E i \in DOMAIN folds : /\ history[cursor].fate = "broken"
                            /\ cursor \in Received(folds[i], cursor)

\* A command's query is no wider than its folds, so that it conflicts with no
\* append that none of them would have seen.
QueryIsTight ==
  phase = "reading" /\ mode = "command" =>
    \A p \in 1..Len(history) :
      Selects(Query, history[p]) =>
        \E i \in DOMAIN folds : \E entry \in EntriesOf(folds[i].fold) :
          Admits(entry, folds[i].binding, history[p])
=============================================================================
