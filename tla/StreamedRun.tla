---------------------------- MODULE StreamedRun ----------------------------
(***************************************************************************)
(* A run and the task that drives it towards one client: a producer task   *)
(* iterates over the run's generator (src/app/engine/runner.py, execute)   *)
(* and puts its events into a bounded queue. The same producer serves the  *)
(* event stream of a completion (ChatStream) and a socket (WebSocket).     *)
(*                                                                         *)
(* A run advances only while its producer asks for the next event. It can  *)
(* be cut in three ways: a cancellation reaches it inside one of its       *)
(* awaits; its generator is closed between two events; or the deadline of  *)
(* the run, which lies over its yields, strikes its producer in the middle *)
(* of a put. Events are numbered in the order the run emits them; the      *)
(* queue and the client hold numbers, 0 is the end marker. Storage answers *)
(* here: what its failures do to a run is in ChatRequests.                 *)
(***************************************************************************)
EXTENDS Integers, Sequences, FiniteSets

CONSTANTS QueueEvents,   \* streamQueueEvents
          MaxEvents      \* bound of the model: events before the last ones

ASSUME RunAssumption == QueueEvents \in Nat \ {0} /\ MaxEvents \in Nat

VARIABLES
  state,      \* RunStateMachine of the run
  record,     \* the stored status of the run
  run,        \* where the run's generator is
  rest,       \* the events it still has to yield before it returns
  emitted,    \* kinds of the events so far
  queue,
  producer,   \* driving the run, putting an event, marking the end, cut, done
  slow,       \* slow_consumer
  struck,     \* the deadline ended the put of the last event
  consumer,   \* at: the next await of the task that serves the client
  sent,       \* the events the client was sent
  client,     \* reading, stalled, gone
  slot        \* of maxConcurrentRequests

runVars == <<state, record, run, rest, emitted>>
queueVars == <<queue, producer, slow, struck>>
clientVars == <<consumer, sent, client, slot>>

Marker == 0
Terminal == {"succeeded", "failed", "cancelled"}
Kinds == {"text", "tool", "approval", "error", "done"}
Count == Len(emitted)

-----------------------------------------------------------------------------
(* RunStateMachine (src/app/engine/events.py): exactly one terminal state wins. *)

\* Mutant: a run that ended may be failed after all.
FailedAnyway(s) == "failed"

Failed(s) == IF s \in {"created", "running", "cancelling"} THEN "failed" ELSE s
Cancelled(s) == IF s \in {"created", "running", "cancelling"} THEN "cancelled" ELSE s

-----------------------------------------------------------------------------
(* The run: it advances only while its producer asks for the next event. *)

Driven == producer = "driving"
Emit(kind) == emitted' = Append(emitted, kind) /\ producer' = "putting"

Admit ==
  /\ Driven /\ run = "admitting"
  /\ state' = "running" /\ record' = "created" /\ run' = "live"
  /\ Emit("tool")
  /\ UNCHANGED <<rest, queue, slow, struck, clientVars>>

Step(kind) ==
  /\ Driven /\ run = "live" /\ Count < MaxEvents
  /\ kind \in {"text", "tool"}
  /\ Emit(kind)
  /\ UNCHANGED <<state, record, run, rest, queue, slow, struck, clientVars>>

\* The model's answer is complete, the run failed, a tool needs approval, or retrieval
\* that is required is missing: only the last returns without a record.
Conclude ==
  /\ Driven /\ run = "live"
  /\ \/ state' = "succeeded" /\ rest' = <<"done">> /\ run' = "recording"
     \/ state' = Failed(state) /\ rest' = <<"error", "done">> /\ run' = "recording"
     \/ state' = "awaiting_approval" /\ rest' = <<"approval">> /\ run' = "recording"
     \/ rest' = <<"error">> /\ run' = "yielding" /\ UNCHANGED state
  /\ UNCHANGED <<record, emitted, queueVars, clientVars>>

Record ==
  /\ Driven /\ run = "recording"
  /\ record' = state /\ run' = "yielding"
  /\ UNCHANGED <<state, rest, emitted, queueVars, clientVars>>

Yield ==
  /\ Driven /\ run = "yielding" /\ rest # <<>>
  /\ Emit(Head(rest)) /\ rest' = Tail(rest)
  /\ UNCHANGED <<state, record, run, queue, slow, struck, clientVars>>

Exhaust ==
  /\ Driven /\ run = "yielding" /\ rest = <<>>
  /\ run' = "over" /\ producer' = "marking"
  /\ UNCHANGED <<state, record, rest, emitted, queue, slow, struck, clientVars>>

\* The run records its end after it was cut. A second cancellation of its task ends that
\* write too; a run cut while it was admitted may not know the session it would write to.
\* The record then stays for the sweep.
RecordCut ==
  /\ run \in {"cut", "unadmitted"}
  /\ run' = "over"
  /\ \/ record # "none" /\ record' = state
     \/ (consumer.aborted \/ run = "unadmitted") /\ UNCHANGED record
  /\ producer' = IF producer = "cut" THEN "marking" ELSE producer
  /\ UNCHANGED <<state, rest, emitted, queue, slow, struck, clientVars>>

-----------------------------------------------------------------------------
(* The producer *)

Put ==
  /\ producer = "putting" /\ Len(queue) < QueueEvents
  /\ queue' = Append(queue, Count)
  /\ producer' = "driving"
  /\ UNCHANGED <<runVars, slow, struck, clientVars>>

\* Mutant: the timeout is noted and the put goes on.
PutTimeoutGoesOn ==
  /\ producer = "putting" /\ Len(queue) = QueueEvents
  /\ slow' = TRUE
  /\ UNCHANGED <<runVars, queue, producer, struck, clientVars>>

\* The queue was full for slowConsumerSeconds: the run is no longer driven.
PutTimeout ==
  /\ producer = "putting" /\ Len(queue) = QueueEvents
  /\ slow' = TRUE /\ producer' = "marking"
  /\ UNCHANGED <<runVars, queue, struck, clientVars>>

\* The event in the producer's hand was yielded under the run's deadline: not the first one,
\* nor one that follows the end of the run.
UnderDeadline ==
  \/ run = "live" /\ Count > 1
  \/ run = "yielding" /\ rest = <<>> /\ emitted[Count] # "done"

\* The deadline cancels the task that drives the run, and that task is waiting in the put,
\* not in the run: the event is lost, slow_consumer is not set, and the run is not told.
DeadlineInPut ==
  /\ producer = "putting" /\ UnderDeadline
  /\ struck' = TRUE /\ producer' = "marking"
  /\ UNCHANGED <<runVars, queue, slow, clientVars>>

\* The marker does not wait: in a full queue it is lost.
Mark ==
  /\ producer = "marking"
  /\ queue' = IF Len(queue) < QueueEvents THEN Append(queue, Marker) ELSE queue
  /\ producer' = "done"
  /\ UNCHANGED <<runVars, slow, struck, clientVars>>

-----------------------------------------------------------------------------
(* Ways to cut a run *)

\* The run is awaiting inside its producer: the cancellation reaches the run itself.
Inside == producer = "driving" /\ run \in {"admitting", "live", "recording"}

\* producer.cancel()
Cancel ==
  \/ producer \in {"done", "cut"} /\ UNCHANGED <<runVars, producer>>
  \/ /\ Inside
     /\ state' = Cancelled(state) /\ producer' = "cut"
     /\ IF run = "admitting" THEN run' = "unadmitted" /\ record' \in {"none", "created"}
                             ELSE run' = "cut" /\ UNCHANGED record
     /\ UNCHANGED <<rest, emitted>>
  \/ /\ producer \in {"putting", "marking"}
     /\ producer' = "marking" /\ UNCHANGED runVars

\* gen.aclose(): a generator left between two events takes GeneratorExit. Whatever has
\* not ended fails, and its status is written again.
Suspended == run \notin {"over", "cut", "unadmitted"}
Close == state' = Failed(state) /\ run' = "cut"

RunNext ==
  \/ Admit \/ \E kind \in Kinds : Step(kind)
  \/ Conclude \/ Record \/ Yield \/ Exhaust \/ RecordCut
ProducerNext == Put \/ PutTimeout \/ DeadlineInPut \/ Mark

RunInit ==
  /\ state = "created" /\ record = "none" /\ run = "admitting" /\ rest = <<>>
  /\ emitted = <<>> /\ queue = <<>> /\ producer = "driving"
  /\ slow = FALSE /\ struck = FALSE
  /\ sent = <<>> /\ slot = "taken" /\ client = "reading"
=============================================================================
