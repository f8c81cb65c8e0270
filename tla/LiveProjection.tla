---------------------------- MODULE LiveProjection ----------------------------
(***************************************************************************)
(* A live projection (crates/ui/src/projection.rs): a script of the user   *)
(* folded over the events it names, once, and thrown away.                 *)
(*                                                                         *)
(* Three parties: a reader thread scans the event store and sends batches  *)
(* over a small channel; the request's task decodes each batch and passes  *)
(* it on; a thread with the JavaScript engine folds it.  Any of them can   *)
(* stop early, and a deadline stops all three.                             *)
(***************************************************************************)
EXTENDS Naturals, Sequences

CONSTANTS
  Histories,         \* what the store may hold: sequences of events that match the query
  Limits,            \* how many events a request may ask for
  READ_BATCH,        \* events of one batch
  RAW_CHANNEL_CAP,   \* batches between the reader and the task
  BATCH_CHANNEL_CAP  \* batches between the task and the script

Event == {"plain", "encrypted", "shredded", "broken"}

ASSUME HistoriesAssumption == Histories \subseteq Seq(Event) /\ Limits \subseteq Nat

ASSUME SizesAssumption ==
  /\ READ_BATCH \in Nat \ {0}
  /\ RAW_CHANNEL_CAP \in Nat \ {0}
  /\ BATCH_CHANNEL_CAP \in Nat \ {0}

VARIABLES
  history, limit,    \* the request
  reader, next, batch, \* the reader thread, the next position, and what it has gathered
  raw,               \* the batches between the reader and the task
  task, lifted,      \* the request's task and the batch it has decoded
  channel,           \* the batches between the task and the script
  worker, current,   \* the script's thread and the batch it folds
  state,             \* the events folded so far
  outcome,           \* what the script's thread sent back
  answer,            \* what the request was answered with
  late               \* whether the deadline has passed

request == <<history, limit>>
reading == <<reader, next, batch>>
tasking == <<task, lifted, answer>>
running == <<worker, current, state, outcome>>

vars == <<request, reading, raw, tasking, channel, running, late>>

None == [kind |-> "none"]
Ok(s) == [kind |-> "ok", state |-> s]
Err(kind) == [kind |-> kind]

-----------------------------------------------------------------------------
\* Whether the other end of a channel is still there.
TaskReceives   == task \in {"receiving", "sending"}
ReaderSends    == reader = "scanning"
Broken         == {"failed", "panicked"}
WorkerReceives == worker \in {"setup", "ready", "folding", "looping"}
TaskSends      == task \in {"waiting", "receiving", "sending"}

\* How many events the request is for; without a limit (0), all.
Wanted == IF limit = 0 \/ limit > Len(history) THEN Len(history) ELSE limit

Init ==
  /\ history \in Histories /\ limit \in Limits
  /\ reader = "none" /\ next = 1 /\ batch = <<>>
  /\ raw = <<>>
  /\ task = "waiting" /\ lifted = <<>>
  /\ channel = <<>>
  /\ worker = "setup" /\ current = <<>> /\ state = <<>>
  /\ outcome = None /\ answer = None
  /\ late = FALSE

-----------------------------------------------------------------------------
(* The script's thread *)

\* The script and its checks are evaluated; it may throw, or loop. When nobody
\* waits for what it declares the thread ends.
setup ==
  /\ worker = "setup"
  /\ \/ worker' = "looping" /\ UNCHANGED outcome
     \/ worker' = "done" /\ outcome' = Err("script")
     \/ worker' = (IF task = "waiting" THEN "ready" ELSE "done") /\ UNCHANGED outcome
  /\ UNCHANGED <<request, reading, raw, tasking, channel, current, state, late>>

\* The next batch is handed to the script.
blocking_recv ==
  /\ worker = "ready"
  /\ channel # <<>>
  /\ current' = Head(channel)
  /\ channel' = Tail(channel)
  /\ worker' = "folding"
  /\ UNCHANGED <<request, reading, raw, tasking, state, outcome, late>>

\* Mutant: the script sees only the first event of each batch.
runBatch_first ==
  /\ worker = "folding"
  /\ state' = state \o SubSeq(current, 1, 1)
  /\ worker' = "ready" /\ current' = <<>>
  /\ UNCHANGED <<request, reading, raw, tasking, channel, outcome, late>>

\* handle is called with each event of the batch.
runBatch ==
  /\ worker = "folding"
  /\ state' = state \o current
  /\ worker' = "ready" /\ current' = <<>>
  /\ UNCHANGED <<request, reading, raw, tasking, channel, outcome, late>>

\* handle throws at one of them, or never returns.
runBatch_fails ==
  /\ worker = "folding"
  /\ current' = <<>>
  /\ \/ worker' = "done" /\ outcome' = Err("script")
     \/ worker' = "looping" /\ UNCHANGED outcome
  /\ UNCHANGED <<request, reading, raw, tasking, channel, state, late>>

\* Mutant: an interrupted script leaves without a word.
interrupt_silent ==
  /\ late /\ worker \in {"setup", "folding", "looping"}
  /\ worker' = "done"
  /\ current' = <<>>
  /\ UNCHANGED <<request, reading, raw, tasking, channel, state, outcome, late>>

\* Mutant: no interrupt handler.
interrupt_never == FALSE /\ UNCHANGED vars

\* The engine asks the interrupt handler, which stops the script at the deadline.
interrupt ==
  /\ late /\ worker \in {"setup", "folding", "looping"}
  /\ worker' = "done"
  /\ outcome' = Err("script") /\ current' = <<>>
  /\ UNCHANGED <<request, reading, raw, tasking, channel, state, late>>

\* No more batches: select makes the view, throws, or never returns.
finalize ==
  /\ worker = "ready"
  /\ channel = <<>> /\ ~TaskSends
  /\ \/ worker' = "done" /\ outcome' \in {Ok(state), Err("script")}
     \/ worker' = "looping" /\ UNCHANGED outcome
  /\ UNCHANGED <<request, reading, raw, tasking, channel, current, state, late>>

-----------------------------------------------------------------------------
(* The reader thread *)

Send ==
  /\ raw' = Append(raw, batch)
  /\ batch' = <<>>

\* One more event is read; a full batch is sent, waiting for room.
reader_reads ==
  /\ reader = "scanning" /\ Len(batch) < READ_BATCH
  /\ next <= Wanted
  /\ batch' = Append(batch, next)
  /\ next' = next + 1
  /\ UNCHANGED <<request, reader, raw, tasking, channel, running, late>>

reader_sends ==
  /\ reader = "scanning" /\ Len(batch) = READ_BATCH
  /\ \/ /\ TaskReceives /\ Len(raw) < RAW_CHANNEL_CAP
        /\ Send
        /\ UNCHANGED reader
     \/ /\ ~TaskReceives
        /\ reader' = "ok"
        /\ UNCHANGED <<raw, batch>>
  /\ UNCHANGED <<request, next, tasking, channel, running, late>>

\* The store fails to read, or the thread panics; what was gathered is dropped.
reader_fails ==
  /\ reader = "scanning" /\ Len(batch) < READ_BATCH
  /\ reader' \in Broken
  /\ batch' = <<>>
  /\ UNCHANGED <<request, next, raw, tasking, channel, running, late>>

\* The end: the last batch is sent if there is one and anybody to take it.
reader_ends ==
  /\ reader = "scanning" /\ Len(batch) < READ_BATCH
  /\ next > Wanted
  /\ \/ /\ batch # <<>> /\ TaskReceives /\ Len(raw) < RAW_CHANNEL_CAP
        /\ Send
     \/ /\ batch = <<>> \/ ~TaskReceives
        /\ UNCHANGED <<raw, batch>>
  /\ reader' = "ok"
  /\ UNCHANGED <<request, next, tasking, channel, running, late>>

-----------------------------------------------------------------------------
(* The request's task *)

\* decrypt_event_data: an encrypted event whose key does not come in time looks the
\* same as one whose key is gone. Nothing comes of one that is not an event.
decrypt_event_data ==
  [plain |-> {"value"}, encrypted |-> {"value", "null"}, shredded |-> {"null"}, broken |-> {}]

lift_event(p) == {[pos |-> p, data |-> d] : d \in decrypt_event_data[history[p]]}

Positions(s) == {s[i].pos : i \in DOMAIN s}
InOrder(s)   == \A i, j \in DOMAIN s : i < j => s[i].pos < s[j].pos

\* All ways a batch can come out of decoding, event by event.
Liftings(b) ==
  LET events == UNION {lift_event(b[i]) : i \in DOMAIN b}
  IN {s \in UNION {[1..n -> events] : n \in 0..Len(b)} :
        InOrder(s) /\ Positions(s) = {e.pos : e \in events}}

\* There is no thread to be had for the script.
spawn_fails ==
  /\ task = "waiting" /\ worker = "setup"
  /\ task' = "returned" /\ answer' = Err("internal")
  /\ worker' = "done"
  /\ UNCHANGED <<request, reading, raw, lifted, channel, current, state, outcome, late>>

\* The script has declared its events, and the reader is started on their query.
setup_received ==
  /\ task = "waiting" /\ worker = "ready"
  /\ task' = "receiving" /\ reader' = "scanning"
  /\ UNCHANGED <<request, next, batch, raw, lifted, answer, channel, running, late>>

\* What it declared is not a list of events, or has a type or tag that cannot be.
build_query_fails ==
  /\ task = "waiting" /\ worker = "ready"
  /\ task' = "returned" /\ answer' = Err("script")
  /\ UNCHANGED <<request, reading, raw, lifted, channel, running, late>>

\* It failed before that.
setup_failed ==
  /\ task = "waiting" /\ worker = "done"
  /\ task' = "returned"
  /\ answer' = IF outcome = None THEN Err("exited") ELSE outcome
  /\ UNCHANGED <<request, reading, raw, lifted, channel, running, late>>

\* A batch is received and decoded.
task_decodes ==
  /\ task = "receiving" /\ raw # <<>>
  /\ lifted' \in Liftings(Head(raw))
  /\ raw' = Tail(raw)
  /\ task' = "sending"
  /\ UNCHANGED <<request, reading, answer, channel, running, late>>

\* Mutant: a finished script is not noticed.
task_sends_blindly ==
  /\ task = "sending"
  /\ Len(channel) < BATCH_CHANNEL_CAP
  /\ channel' = Append(channel, lifted)
  /\ task' = "receiving" /\ lifted' = <<>>
  /\ UNCHANGED <<request, reading, raw, answer, running, late>>

\* It goes to the script's thread; if that has finished, there is nothing to feed.
task_sends ==
  /\ task = "sending"
  /\ \/ /\ WorkerReceives /\ Len(channel) < BATCH_CHANNEL_CAP
        /\ channel' = Append(channel, lifted)
        /\ task' = "receiving"
     \/ /\ ~WorkerReceives
        /\ task' = "joining"
        /\ UNCHANGED channel
  /\ lifted' = <<>>
  /\ UNCHANGED <<request, reading, raw, answer, running, late>>

\* The batch cannot be written as JSON.
encode_fails ==
  /\ task = "sending"
  /\ task' = "returned" /\ answer' = Err("internal")
  /\ lifted' = <<>>
  /\ UNCHANGED <<request, reading, raw, channel, running, late>>

\* The reader has sent its last.
task_drained ==
  /\ task = "receiving" /\ raw = <<>> /\ ~ReaderSends
  /\ task' = "joining"
  /\ UNCHANGED <<request, reading, raw, lifted, answer, channel, running, late>>

\* Mutant: the reader's error is not looked at.
task_joins_any ==
  /\ task = "joining"
  /\ reader \in {"ok"} \cup Broken /\ task' = "finishing"
  /\ UNCHANGED <<request, reading, raw, lifted, answer, channel, running, late>>

\* The reader is waited for, and its error is the answer.
task_joins ==
  /\ task = "joining"
  /\ \/ reader = "ok" /\ task' = "finishing" /\ UNCHANGED answer
     \/ reader = "failed" /\ task' = "returned" /\ answer' = Err("store")
     \/ reader = "panicked" /\ task' = "returned" /\ answer' = Err("internal")
  /\ UNCHANGED <<request, reading, raw, lifted, channel, running, late>>

\* The script's result is the answer, if it can be read as JSON.
task_finishes ==
  /\ task = "finishing"
  /\ worker = "done"
  /\ task' = "returned"
  /\ \/ outcome = None /\ answer' = Err("exited")
     \/ outcome # None /\ answer' = outcome
     \/ outcome.kind = "ok" /\ answer' = Err("internal")
  /\ UNCHANGED <<request, reading, raw, lifted, channel, running, late>>

\* Time passes.
deadline ==
  /\ ~late
  /\ late' = TRUE
  /\ UNCHANGED <<request, reading, raw, tasking, channel, running>>

\* The task is dropped where it stands, and its ends of the channels with it.
timeout ==
  /\ late /\ task # "returned"
  /\ task' = "returned"
  /\ answer' = Err("timeout")
  /\ lifted' = <<>>
  /\ UNCHANGED <<request, reading, raw, channel, running, late>>

\* The client goes away and the server drops its request.
hang_up ==
  /\ task # "returned"
  /\ task' = "returned"
  /\ lifted' = <<>>
  /\ UNCHANGED <<request, reading, raw, answer, channel, running, late>>

-----------------------------------------------------------------------------
Worker ==
  setup \/ blocking_recv \/ runBatch \/ runBatch_fails \/ interrupt \/ finalize
Reader == reader_reads \/ reader_sends \/ reader_fails \/ reader_ends
Task   == \/ spawn_fails \/ setup_received \/ build_query_fails \/ setup_failed
          \/ task_decodes \/ encode_fails \/ task_sends \/ task_drained
          \/ task_joins \/ task_finishes

Next == Worker \/ Reader \/ Task \/ deadline \/ timeout \/ hang_up

Spec == Init /\ [][Next]_vars

\* Threads and tasks are scheduled, the clock advances, and a timer that is due
\* fires. No fairness is asked of the script: it may loop as long as it is let.
FairSpec ==
  /\ Spec
  /\ WF_vars(Worker) /\ WF_vars(Reader) /\ WF_vars(Task)
  /\ WF_vars(deadline) /\ WF_vars(timeout)

-----------------------------------------------------------------------------
(* Properties *)

LiftedEvent == [pos : Nat, data : {"value", "null"}]
Results(views, kinds) == [kind : {"ok"}, state : views] \cup [kind : kinds]

\* The shape of the state, and what the channels can hold at most: the run keeps no
\* more of the history in memory than that.
TypeOK ==
  /\ history \in Histories /\ limit \in Limits
  /\ reader \in {"none", "scanning", "ok"} \cup Broken
  /\ next \in 1..Wanted + 1
  /\ batch \in Seq(1..Wanted) /\ Len(batch) <= READ_BATCH
  /\ raw \in Seq(Seq(1..Wanted)) /\ Len(raw) <= RAW_CHANNEL_CAP
  /\ \A i \in DOMAIN raw : Len(raw[i]) \in 1..READ_BATCH
  /\ task \in {"waiting", "receiving", "sending", "joining", "finishing", "returned"}
  /\ lifted \in Seq(LiftedEvent) /\ Len(lifted) <= READ_BATCH
  /\ channel \in Seq(Seq(LiftedEvent)) /\ Len(channel) <= BATCH_CHANNEL_CAP
  /\ current \in Seq(LiftedEvent) /\ Len(current) <= READ_BATCH
  /\ \A i \in DOMAIN channel : Len(channel[i]) <= READ_BATCH
  /\ state \in Seq(LiftedEvent)
  /\ worker \in {"setup", "ready", "folding", "looping", "done"}
  /\ outcome \in Results(Seq(LiftedEvent), {"none", "script"})
  /\ answer \in Results(Seq(LiftedEvent), {"none", "script", "store", "timeout", "internal", "exited"})
  /\ late \in BOOLEAN

\* s is made of all the events of h from lo up to hi, each once and in the order of the
\* store; a plain event keeps its data.
Covers(h, s, lo, hi) ==
  /\ lo <= hi
  /\ InOrder(s)
  /\ Positions(s) = {p \in lo..hi - 1 : h[p] # "broken"}
  /\ \A i \in DOMAIN s : h[s[i].pos] = "plain" => s[i].data = "value"

\* A view that is shown as a success was made from all the events asked for; never
\* from those that had arrived when the reader, the script or the deadline gave up.
OkIsWhole == answer.kind = "ok" => Covers(history, answer.state, 1, Wanted + 1)

\* The store is blamed only when it failed, the deadline only when it has passed, and a
\* worker that goes away says why: "worker exited" is never the answer.
TrueAnswer ==
  /\ answer.kind = "store" => reader = "failed"
  /\ answer.kind = "timeout" => late
  /\ answer.kind # "exited"
  /\ answer.kind = "ok" => reader = "ok" /\ outcome = answer

\* Whatever the script and the store do, the request is answered and both threads
\* come to an end: none waits for ever for another to receive or to send.
Terminates == <>(task = "returned" /\ worker = "done" /\ reader # "scanning")

\* What the two are inductive with: the batches on their way are the history from
\* what was folded up to what was read, without a gap.
Gathered(b, lo, hi) == lo <= hi /\ b = [i \in 1..hi - lo |-> lo + i - 1]

Cuts(q, lo, hi) == {c \in [1..Len(q) + 1 -> 1..hi] : c[1] = lo /\ c[Len(q) + 1] = hi}
Raw(q, lo, hi) ==
  \E c \in Cuts(q, lo, hi) : \A i \in DOMAIN q : Gathered(q[i], c[i], c[i + 1])
Channel(h, q, lo, hi) ==
  \E c \in Cuts(q, lo, hi) : \A i \in DOMAIN q : Covers(h, q[i], c[i], c[i + 1])

\* Nobody has given up.
Flowing == task # "returned" /\ reader \notin Broken /\ worker \in {"setup", "ready", "folding"}

Pipeline ==
  Flowing =>
    \E k1, k2, k3, k4, k5 \in 1..next :
      /\ Covers(history, state, 1, k1)
      /\ Covers(history, current, k1, k2)
      /\ Channel(history, channel, k2, k3)
      /\ Covers(history, lifted, k3, k4)
      /\ Raw(raw, k4, k5)
      /\ Gathered(batch, k5, next)

Drained == next = Wanted + 1 /\ batch = <<>>

\* What each party has done when another goes on without it.
Stages ==
  /\ task = "waiting" => reader = "none"
  /\ task \in {"receiving", "sending", "joining", "finishing"} => reader # "none"
  /\ worker = "setup" => task \in {"waiting", "returned"}
  /\ worker # "folding" => current = <<>>
  /\ task # "sending" => lifted = <<>>
  /\ task \in {"receiving", "sending"} /\ reader = "ok" => Drained
  /\ task \in {"joining", "finishing"} /\ worker # "done" /\ reader \notin Broken =>
       reader = "ok" /\ Drained /\ raw = <<>>
  /\ task = "finishing" => reader = "ok"

\* What the script's thread can have left behind.
Outcomes ==
  /\ worker # "done" => outcome = None
  /\ worker = "done" /\ outcome = None => task = "returned"
  /\ TaskSends => outcome.kind # "ok"
  /\ outcome.kind = "ok" /\ task \in {"joining", "finishing"} /\ reader \notin Broken =>
       reader = "ok" /\ Covers(history, outcome.state, 1, Wanted + 1)
  /\ task # "returned" => answer = None

IInv == TypeOK /\ Pipeline /\ Stages /\ Outcomes /\ OkIsWhole /\ TrueAnswer
=============================================================================
