------------------------------ MODULE Streams ------------------------------
(***************************************************************************)
(* A run served to its client by one of the two surfaces that stream:      *)
(* an event stream or a socket. What has to hold of the run holds on both; *)
(* what only the event stream promises is said of it alone.                *)
(***************************************************************************)
EXTENDS ChatStream, WebSocket

CONSTANT Surfaces   \* subset of {"sse", "ws"}

ASSUME SurfaceAssumption == Surfaces \subseteq {"sse", "ws"}

VARIABLE surface

vars == <<state, record, run, rest, emitted, queue, producer, slow, struck, consumer, sent, client,
          slot, cause, completed, told, key, inbox, messages, requested, ending, surface>>

Init ==
  /\ surface \in Surfaces
  /\ RunInit
  /\ IF surface = "sse"
     THEN StreamInit /\ inbox = <<>> /\ messages = 0 /\ requested = FALSE /\ ending = "none"
     ELSE SocketInit /\ cause = "none" /\ completed = FALSE /\ told = FALSE /\ key = "none"

streamOnly == <<cause, completed, told, key>>

\* A client stops reading, reads on, leaves.
ClientStep ==
  /\ \/ client = "reading" /\ client' \in {"stalled", "gone"}
     \/ client = "stalled" /\ client' \in {"reading", "gone"}
  /\ UNCHANGED <<runVars, queueVars, consumer, sent, slot>>

Driving == (RunNext \/ ProducerNext) /\ UNCHANGED <<streamOnly, socketVars, surface>>
Streaming == surface = "sse" /\ StreamNext /\ UNCHANGED <<socketVars, surface>>
Session == surface = "ws" /\ SocketNext /\ UNCHANGED <<streamOnly, surface>>
Receiving == surface = "ws" /\ ReceiveNext /\ UNCHANGED <<streamOnly, surface>>
Client == ClientStep /\ UNCHANGED <<streamOnly, socketVars, surface>>

Next == Driving \/ Streaming \/ Session \/ Receiving \/ Client

\* Tasks are scheduled, timeouts fire and the server notices a client that has gone; no
\* client has to read or to send.
Spec ==
  /\ Init /\ [][Next]_vars
  /\ WF_vars(Driving) /\ WF_vars(Streaming) /\ WF_vars(Session)

-----------------------------------------------------------------------------
\* The events the client is to see.
Visible == {i \in 1 .. Count : surface = "ws" \/ Shown(emitted[i])}

\* The client was sent the visible ones of the first n events, each once, in that order.
SentUpTo(n) ==
  /\ \A i, j \in DOMAIN sent : i < j => sent[i] < sent[j]
  /\ {sent[i] : i \in DOMAIN sent} = {i \in Visible : i <= n}

\* What the client was sent is what the run emitted, in that order and without a gap: the
\* timeouts of put and get, the messages of the client and the teardown lose nothing in
\* the middle.
InOrder == \E n \in 0 .. Count : SentUpTo(n)

\* The slot of an event stream comes back only when nothing of the run is going on any
\* more, however the stream ended: maxConcurrentRequests bounds the runs, not the responses.
SlotOutlivesRun == surface = "sse" /\ slot = "free" => run = "over" /\ producer = "done"

\* The events that got past the producer's hand: the deadline may have struck the last one.
Handed == IF struck THEN Count - 1 ELSE Count

\* A key is completed only for an answer of which the client was sent every event, but for
\* the one whose put the run's deadline ended.
KeyMeansAnswered == key = "completed" => told /\ cause = "none" /\ SentUpTo(Handed)

\* One outcome wins (ENG-05): a terminal status that was stored is never written over by
\* the cancellation, the closing or the failure that races with it; nor is a pause for an
\* approval, which outlives the stream and the socket: detaching is not a cancellation.
OneOutcome ==
  [][(record \in Terminal \cup {"awaiting_approval"}) => (record' = record)]_vars

\* A stream ends, unless its client stalls for ever without leaving. A session ends when
\* its client leaves.
StreamEnds ==
  \/ []<>(client = "stalled")
  \/ surface = "ws" /\ []<>(client = "reading")
  \/ <>(consumer.at = "ended")

\* No client holds a run: one that stalls, leaves or is told of a failure stops the producer
\* in the end, and so does one that reads.
ProducerStops == <>(producer = "done")

\* REQUIREMENTS.md, WS-01: a run of a socket consumes a slot of the replica, and a client
\* that leaves cancels the run. When the session is over its slot is free again.
SlotComesBack == consumer.at = "ended" => slot = "free"

-----------------------------------------------------------------------------
(* The inductive invariant behind the safety properties                    *)

SseSteps == {"poll", "get", "send", "detach", "cancel", "await", "close", "release", "expire",
             "finals", "finish", "ended"}
SocketSteps == {"start", "race", "push", "finish", "idle", "decide", "ended"}

RunType ==
  /\ state \in Terminal \cup {"created", "running", "awaiting_approval"}
  /\ record \in Terminal \cup {"none", "created", "running", "awaiting_approval"}
  /\ run \in {"admitting", "live", "recording", "yielding", "cut", "unadmitted", "over"}
  /\ rest \in Seq(Kinds) /\ emitted \in Seq(Kinds)

QueueType ==
  /\ queue \in Seq(Nat) /\ slow \in BOOLEAN /\ struck \in BOOLEAN
  /\ producer \in {"driving", "putting", "marking", "cut", "done"}

ClientType ==
  /\ consumer \in [at : SseSteps \cup SocketSteps, item : Nat, aborted : BOOLEAN, detached : BOOLEAN]
  /\ \/ surface = "sse" /\ consumer.at \in SseSteps
     \/ surface = "ws" /\ consumer.at \in SocketSteps
  /\ sent \in Seq(Nat) /\ client \in {"reading", "stalled", "gone"} /\ slot \in {"taken", "free"}

AnswerType ==
  /\ cause \in {"none", "client_disconnected", "slow_consumer"}
  /\ completed \in BOOLEAN /\ told \in BOOLEAN
  /\ key \in {"none", "in_progress", "completed", "expired"}

\* The variables hold what the code stores in them.
TypeOK == RunType /\ QueueType /\ ClientType /\ AnswerType /\ inbox \in Seq(Messages)

\* Until the run is recorded at its end nothing final is stored; from then on what is stored
\* is what the run ended with.
RecordFollows ==
  /\ run = "admitting" => record = "none"
  /\ run \in {"live", "recording"} => record = "created"
  /\ record \in Terminal \cup {"awaiting_approval"} => record = state

\* The queue goes on where the client, or the consumer's hand, is: t is the last event taken.
QueueFrom(t) ==
  /\ t \in 0 .. Count
  /\ \A i \in DOMAIN queue :
       \/ queue[i] = t + i /\ queue[i] <= Count
       \/ queue[i] = Marker /\ i = Len(queue) /\ producer = "done"
  /\ producer = "driving" => t + Len(queue) = Count
  /\ producer = "putting" => t + Len(queue) + 1 = Count

\* Nothing was lost on the way to the client of an event stream unless it was slow.
WholeFrom(t) ==
  surface = "sse" /\ ~slow =>
    /\ producer # "cut"
    /\ struck => producer \in {"marking", "done"}
    /\ producer = "marking" => t + Len(queue) = Handed
    /\ producer = "done" =>
         t + Len(queue) = (IF queue # <<>> /\ queue[Len(queue)] = Marker THEN Handed + 1 ELSE Handed)

Between == {"poll", "get", "start", "race", "decide"}
InHand == {"send", "push"}

\* A socket goes on without its client, and sends nothing any more.
Delivered ==
  surface = "sse" \/ client # "gone" =>
    /\ consumer.at \in Between => \E t \in 0 .. Count : SentUpTo(t) /\ QueueFrom(t) /\ WholeFrom(t)
    /\ consumer.at \in InHand =>
         /\ consumer.item \in Visible /\ SentUpTo(consumer.item - 1)
         /\ QueueFrom(consumer.item) /\ WholeFrom(consumer.item)

\* The teardown of an event stream goes from step to step, and each has its reason.
InOrderOfTeardown ==
  surface = "sse" =>
    /\ consumer.at \in {"close", "release", "expire", "finals", "finish", "ended"} => producer = "done"
    /\ consumer.at \in {"release", "expire", "finals", "finish", "ended"} => run = "over"
    /\ slot = "free" => consumer.at \in {"expire", "finals", "finish", "ended"}
    /\ consumer.at \in {"poll", "get", "send", "detach"} => cause = "none" /\ ~completed
    /\ consumer.at = "finish" => completed /\ told

Answered ==
  /\ completed => cause = "none" /\ producer = "done" /\ SentUpTo(Handed)
  /\ key = "completed" => completed /\ told
  /\ surface = "ws" => ~completed /\ key = "none"

StreamInv == RecordFollows /\ InOrder /\ Delivered /\ InOrderOfTeardown /\ Answered
=============================================================================
