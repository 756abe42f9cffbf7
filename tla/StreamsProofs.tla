--------------------------- MODULE StreamsProofs ---------------------------
(***************************************************************************)
(* Theorems about Streams: both surfaces, any bound of the queue, any      *)
(* number of events, any interleaving of the run, its producer, the task   *)
(* that serves the client, and the client.                                 *)
(***************************************************************************)
EXTENDS Streams, SequenceTheorems, TLAPS

-----------------------------------------------------------------------------
(* Types                                                                   *)

LEMMA RunTypes ==
  ASSUME TypeOK
  PROVE  /\ Failed(state) \in Terminal \cup {"created", "running", "awaiting_approval"}
         /\ Cancelled(state) \in Terminal \cup {"created", "running", "awaiting_approval"}
         /\ Count \in Nat /\ Len(queue) \in Nat
         /\ DOMAIN emitted = 1 .. Count /\ DOMAIN queue = 1 .. Len(queue)
BY DEF TypeOK, RunType, QueueType, Failed, Cancelled, Terminal, Count

LEMMA SequenceTypes ==
  ASSUME NEW S, NEW s \in Seq(S)
  PROVE  /\ \A e \in S : Append(s, e) \in Seq(S)
         /\ s # <<>> => Head(s) \in S /\ Tail(s) \in Seq(S)
OBVIOUS

LEMMA AppendFacts ==
  ASSUME NEW S, NEW s \in Seq(S), NEW e \in S
  PROVE  /\ Len(s) \in Nat /\ DOMAIN s = 1 .. Len(s)
         /\ Append(s, e) \in Seq(S) /\ Append(s, e) # <<>>
         /\ Len(Append(s, e)) = Len(s) + 1 /\ DOMAIN Append(s, e) = 1 .. Len(s) + 1
         /\ \A i \in 1 .. Len(s) : Append(s, e)[i] = s[i]
         /\ Append(s, e)[Len(s) + 1] = e
OBVIOUS

LEMMA TailProperties ==
  ASSUME NEW S, NEW s \in Seq(S), s # <<>>
  PROVE  /\ Len(s) \in Nat \ {0} /\ DOMAIN s = 1 .. Len(s)
         /\ Head(s) = s[1] /\ Tail(s) \in Seq(S)
         /\ Len(Tail(s)) = Len(s) - 1 /\ DOMAIN Tail(s) = 1 .. Len(s) - 1
         /\ \A i \in 1 .. Len(s) - 1 : Tail(s)[i] = s[i + 1]
         /\ Tail(s) = <<>> => Len(s) = 1
         /\ Tail(s) # <<>> => Len(s) > 1 /\ Tail(s)[Len(s) - 1] = s[Len(s)]
<1>1. /\ Len(s) \in Nat \ {0} /\ DOMAIN s = 1 .. Len(s)
      /\ Head(s) = s[1] /\ Tail(s) \in Seq(S)
      /\ Len(Tail(s)) = Len(s) - 1 /\ DOMAIN Tail(s) = 1 .. Len(s) - 1
      /\ \A i \in 1 .. Len(s) - 1 : Tail(s)[i] = s[i + 1]
  OBVIOUS
<1>2. Tail(s) = <<>> => Len(s) = 1
  <2>1. Tail(s) = <<>> => Len(Tail(s)) = 0
    BY <1>1, EmptySeq
  <2> QED BY <1>1, <2>1
<1>3. Tail(s) # <<>> => Len(s) - 1 \in 1 .. Len(s) - 1
  <2>1. Tail(s) # <<>> => Len(Tail(s)) # 0
    BY <1>1
  <2> QED BY <1>1, <2>1
<1>4. Tail(s) # <<>> => Tail(s)[Len(s) - 1] = s[(Len(s) - 1) + 1]
  BY <1>1, <1>3
<1>5. (Len(s) - 1) + 1 = Len(s)
  BY <1>1
<1> QED BY <1>1, <1>2, <1>3, <1>4, <1>5

LEMMA ShortSequences ==
  ASSUME NEW S, NEW a \in S, NEW b \in S
  PROVE  <<a>> \in Seq(S) /\ <<a, b>> \in Seq(S)
OBVIOUS

LEMMA EmitType ==
  ASSUME TypeOK, NEW kind \in Kinds, Emit(kind)
  PROVE  emitted' \in Seq(Kinds) /\ producer' = "putting"
BY DEF TypeOK, RunType, Emit

LEMMA RunStepType ==
  ASSUME TypeOK, RunNext, UNCHANGED <<streamOnly, socketVars, surface>>
  PROVE  TypeOK'
<1> USE DEF TypeOK
<1>1. UNCHANGED <<queue, slow, struck, clientVars>> /\ producer' \in {producer, "putting", "marking"}
  BY DEF RunNext, Admit, Step, Conclude, Record, Yield, Exhaust, RecordCut, Emit, queueVars
<1>2. RunType'
  <2>1. CASE Admit
    BY <2>1, EmitType DEF Admit, RunType, Kinds
  <2>2. ASSUME NEW kind \in Kinds, Step(kind)
        PROVE  RunType'
    BY <2>2, EmitType DEF Step, RunType
  <2>3. CASE Conclude
    <3>1. rest' \in Seq(Kinds)
      <4>1. /\ "done" \in Kinds /\ "error" \in Kinds /\ "approval" \in Kinds
            /\ rest' \in {<<"done">>, <<"error", "done">>, <<"approval">>, <<"error">>}
        BY <2>3 DEF Conclude, Kinds
      <4> QED BY <4>1, ShortSequences
    <3>2. state' \in {"succeeded", Failed(state), "awaiting_approval", state}
          /\ run' \in {"recording", "yielding"} /\ UNCHANGED <<record, emitted>>
      BY <2>3 DEF Conclude
    <3> QED BY <3>1, <3>2, RunTypes DEF RunType, Terminal
  <2>4. CASE Record
    BY <2>4 DEF Record, RunType
  <2>5. CASE Yield
    <3>1. Head(rest) \in Kinds /\ rest' \in Seq(Kinds)
      BY <2>5 DEF Yield, RunType
    <3> QED BY <2>5, <3>1, EmitType DEF Yield, RunType
  <2>6. CASE Exhaust
    BY <2>6 DEF Exhaust, RunType
  <2>7. CASE RecordCut
    BY <2>7 DEF RecordCut, RunType
  <2> QED BY <2>1, <2>2, <2>3, <2>4, <2>5, <2>6, <2>7 DEF RunNext
<1>3. QueueType'
  BY <1>1 DEF QueueType
<1>4. ClientType' /\ AnswerType' /\ inbox' \in Seq(Messages)
  BY <1>1 DEF clientVars, streamOnly, socketVars, ClientType, AnswerType
<1> QED BY <1>2, <1>3, <1>4

LEMMA ProducerStepType ==
  ASSUME TypeOK, ProducerNext, UNCHANGED <<streamOnly, socketVars, surface>>
  PROVE  TypeOK'
<1> USE DEF TypeOK
<1>1. UNCHANGED <<runVars, clientVars>>
  BY DEF ProducerNext, Put, PutTimeout, DeadlineInPut, Mark
<1>2. queue' \in Seq(Nat)
  <2>1. queue' \in {queue, Append(queue, Count), Append(queue, Marker)}
    BY DEF ProducerNext, Put, PutTimeout, DeadlineInPut, Mark
  <2>2. queue \in Seq(Nat) /\ Count \in Nat /\ Marker \in Nat
    BY RunTypes DEF QueueType, Marker
  <2> QED BY <2>1, <2>2, SequenceTypes
<1>3. slow' \in BOOLEAN /\ struck' \in BOOLEAN /\ producer' \in {"driving", "putting", "marking", "cut", "done"}
  BY DEF ProducerNext, Put, PutTimeout, DeadlineInPut, Mark, QueueType
<1>4. RunType' /\ ClientType' /\ AnswerType' /\ inbox' \in Seq(Messages)
  BY <1>1 DEF runVars, clientVars, streamOnly, socketVars, RunType, ClientType, AnswerType
<1> QED BY <1>2, <1>3, <1>4 DEF QueueType

LEMMA CancelType ==
  ASSUME TypeOK, Cancel
  PROVE  RunType' /\ producer' \in {"marking", "cut", "done"}
<1>1. CASE producer \in {"done", "cut"} /\ UNCHANGED <<runVars, producer>>
  BY <1>1 DEF TypeOK, RunType, runVars
<1>2. CASE Inside /\ state' = Cancelled(state) /\ producer' = "cut"
  BY <1>2, RunTypes DEF TypeOK, RunType, Cancel, Inside
<1>3. CASE producer' = "marking" /\ UNCHANGED runVars
  BY <1>3 DEF TypeOK, RunType, runVars
<1> QED BY <1>1, <1>2, <1>3 DEF Cancel

SseConsumers == [at : SseSteps, item : Nat, aborted : BOOLEAN, detached : BOOLEAN]
SocketConsumers == [at : SocketSteps, item : Nat, aborted : BOOLEAN, detached : BOOLEAN]

LEMMA StreamingType ==
  ASSUME TypeOK, Streaming
  PROVE  TypeOK'
<1> USE DEF TypeOK
<1>0. /\ consumer.at \in SseSteps /\ consumer.item \in Nat /\ surface = "sse" /\ surface' = surface
      /\ consumer.aborted \in BOOLEAN /\ consumer.detached \in BOOLEAN
      /\ UNCHANGED socketVars /\ StreamNext
  BY DEF Streaming, ClientType
<1>1. RunType'
  <2>1. CASE CancelProducer
    BY <2>1, CancelType DEF CancelProducer
  <2>2. CASE CloseRun
    BY <2>2, RunTypes DEF CloseRun, Close, RunType
  <2>3. CASE UNCHANGED runVars
    BY <2>3 DEF runVars, RunType
  <2> QED
    BY <1>0, <2>1, <2>2, <2>3
       DEF StreamNext, Poll, Get, GetTimeout, Send, Detach, Abort, AwaitProducer, Release, Expire,
           Finals, FinishKey
<1>2. QueueType'
  <2>1. CASE CancelProducer
    BY <2>1, CancelType DEF CancelProducer, QueueType
  <2>2. CASE Get
    <3>1. queue' \in Seq(Nat)
      BY <2>2 DEF Get, QueueType
    <3> QED BY <2>2, <3>1 DEF Get, QueueType
  <2>3. CASE UNCHANGED queueVars
    BY <2>3 DEF queueVars, QueueType
  <2> QED
    BY <1>0, <2>1, <2>2, <2>3
       DEF StreamNext, Poll, GetTimeout, Send, Detach, Abort, CloseRun, AwaitProducer, Release, Expire,
           Finals, FinishKey
<1>3. consumer' \in SseConsumers
  <2>0. consumer \in SseConsumers
    BY <1>0 DEF ClientType, SseConsumers
  <2>1. ASSUME NEW at \in SseSteps
        PROVE  /\ [consumer EXCEPT !.at = at] \in SseConsumers
               /\ [consumer EXCEPT !.at = at, !.detached = TRUE] \in SseConsumers
               /\ [consumer EXCEPT !.at = at, !.aborted = TRUE] \in SseConsumers
               /\ \A item \in Nat : [consumer EXCEPT !.at = at, !.item = item] \in SseConsumers
    BY <2>0 DEF SseConsumers
  <2>2. [consumer EXCEPT !.aborted = TRUE] \in SseConsumers
    BY <2>0 DEF SseConsumers
  <2>3. queue # <<>> => Head(queue) \in Nat
    BY DEF QueueType
  <2>4. CASE Poll \/ GetTimeout \/ Send
    BY <2>1, <2>4 DEF Poll, GetTimeout, Send, AfterItem, Move, SseSteps
  <2>5. CASE Get
    <3>1. CASE \E at \in {"cancel", "poll"} : Move(at)
      BY <2>1, <3>1 DEF Move, SseSteps
    <3>2. CASE consumer' = [consumer EXCEPT !.at = "send", !.item = Head(queue)]
      BY <2>1, <2>3, <2>5, <3>2 DEF Get, SseSteps
    <3> QED BY <2>5, <3>1, <3>2 DEF Get, Take, AfterItem
  <2>6. CASE Detach
    BY <2>1, <2>6 DEF Detach, SseSteps
  <2>7. CASE Abort
    BY <2>1, <2>2, <2>7 DEF Abort, SseSteps
  <2>8. CASE CancelProducer \/ AwaitProducer \/ Release
    BY <2>1, <2>8 DEF CancelProducer, AwaitProducer, Release, Move, SseSteps
  <2>9. CASE CloseRun
    BY <2>0, <2>1, <2>9 DEF CloseRun, Move, SseSteps
  <2>10. CASE Expire \/ Finals \/ FinishKey
    BY <2>1, <2>10 DEF Expire, Finals, FinishKey, Move, SseSteps
  <2> QED BY <1>0, <2>4, <2>5, <2>6, <2>7, <2>8, <2>9, <2>10 DEF StreamNext
<1>4. sent' \in Seq(Nat) /\ client' = client /\ slot' \in {slot, "free"}
  <2>1. sent' \in {sent, Append(sent, consumer.item)} /\ client' = client /\ slot' \in {slot, "free"}
    BY <1>0
       DEF StreamNext, Poll, Get, GetTimeout, Send, Detach, Abort, CancelProducer, AwaitProducer,
           CloseRun, Release, Expire, Finals, FinishKey
  <2>2. sent \in Seq(Nat)
    BY DEF ClientType
  <2> QED BY <1>0, <2>1, <2>2, SequenceTypes
<1>5. ClientType'
  <2>1. consumer' \in [at : SseSteps \cup SocketSteps, item : Nat, aborted : BOOLEAN, detached : BOOLEAN]
        /\ consumer'.at \in SseSteps
    BY <1>3 DEF SseConsumers
  <2> QED BY <1>0, <1>4, <2>1 DEF ClientType
<1>6. AnswerType'
  <2>1. /\ cause' \in {cause, "client_disconnected", "slow_consumer"}
        /\ key' \in {key, "completed", "expired"}
    BY <1>0
       DEF StreamNext, Poll, Get, Take, AfterItem, GetTimeout, Send, Detach, Abort, CancelProducer,
           AwaitProducer, CloseRun, Release, Expire, Finals, FinishKey
  <2>2. completed' \in BOOLEAN /\ told' \in BOOLEAN
    BY <1>0
       DEF StreamNext, Poll, Get, GetTimeout, Send, Detach, Abort, CancelProducer,
           AwaitProducer, CloseRun, Release, Expire, Finals, FinishKey, AnswerType, QueueType
  <2> QED BY <2>1, <2>2 DEF AnswerType
<1> QED BY <1>0, <1>1, <1>2, <1>5, <1>6 DEF socketVars

LEMMA CancelActiveType ==
  ASSUME TypeOK, CancelActive
  PROVE  RunType' /\ producer' \in {"driving", "putting", "marking", "cut", "done"}
BY CancelType DEF CancelActive, TypeOK, RunType, QueueType, runVars

LEMMA SessionType ==
  ASSUME TypeOK, Session
  PROVE  TypeOK'
<1> USE DEF TypeOK
<1>0. /\ consumer \in SocketConsumers /\ surface = "ws" /\ surface' = surface
      /\ UNCHANGED streamOnly /\ SocketNext
  <2>1. surface = "ws" /\ surface' = surface /\ UNCHANGED streamOnly /\ SocketNext
    BY DEF Session
  <2> QED BY <2>1 DEF ClientType, SocketConsumers
<1>1. RunType' /\ producer' \in {"driving", "putting", "marking", "cut", "done"}
  <2>1. CASE CancelActive
    BY <2>1, CancelActiveType
  <2>2. CASE Collect
    BY <2>2, RunTypes DEF Collect, Close, RunType, queueVars, QueueType
  <2>3. CASE UNCHANGED <<runVars, producer>>
    BY <2>3 DEF runVars, RunType, QueueType
  <2> QED
    BY <1>0, <2>1, <2>2, <2>3
       DEF SocketNext, Started, TakeEvent, Push, FinishRun, TakeMessage, Decided, IdleMessage, Leave,
           Fail, queueVars
<1>2. queue' \in Seq(Nat) /\ slow' \in BOOLEAN /\ struck' \in BOOLEAN /\ inbox' \in Seq(Messages)
  <2>1. /\ queue' = queue \/ (queue # <<>> /\ queue' = Tail(queue))
        /\ inbox' = inbox \/ (inbox # <<>> /\ inbox' = Tail(inbox))
        /\ slow' = slow /\ struck' = struck
    BY <1>0
       DEF SocketNext, Started, TakeEvent, Push, FinishRun, TakeMessage, Decided, IdleMessage, Leave,
           Fail, Collect, queueVars, socketVars
  <2>2. queue \in Seq(Nat) /\ inbox \in Seq(Messages) /\ slow \in BOOLEAN /\ struck \in BOOLEAN
    BY DEF QueueType
  <2> QED BY <2>1, <2>2, SequenceTypes
<1>3. consumer' \in SocketConsumers
  <2>1. ASSUME NEW at \in SocketSteps
        PROVE  /\ [consumer EXCEPT !.at = at] \in SocketConsumers
               /\ \A item \in Nat : [consumer EXCEPT !.at = at, !.item = item] \in SocketConsumers
    BY <1>0 DEF SocketConsumers
  <2>2. queue # <<>> => Head(queue) \in Nat
    BY DEF QueueType
  <2>3. CASE Started \/ Push \/ FinishRun
    BY <2>1, <2>3 DEF Started, Push, FinishRun, Wait, SocketSteps
  <2>4. CASE TakeEvent
    BY <2>1, <2>2, <2>4 DEF TakeEvent, SocketSteps
  <2>5. CASE TakeMessage
    BY <1>0, <2>1, <2>5 DEF TakeMessage, Wait, SocketSteps
  <2>6. CASE Decided \/ Leave \/ Fail
    BY <2>1, <2>6 DEF Decided, Leave, Fail, Wait, SocketSteps
  <2>7. CASE consumer' = consumer
    BY <1>0, <2>7
  <2> QED
    BY <1>0, <2>3, <2>4, <2>5, <2>6, <2>7 DEF SocketNext, IdleMessage, Collect, clientVars
<1>4. sent' \in Seq(Nat) /\ client' = client /\ slot' \in {slot, "free"}
  <2>1. sent' \in {sent, Append(sent, consumer.item)} /\ client' = client /\ slot' \in {slot, "free"}
    BY <1>0
       DEF SocketNext, Started, TakeEvent, Push, FinishRun, TakeMessage, Decided, IdleMessage, Leave,
           Fail, Collect, clientVars
  <2>2. sent \in Seq(Nat) /\ consumer.item \in Nat
    BY <1>0 DEF ClientType, SocketConsumers
  <2> QED BY <1>0, <2>1, <2>2, SequenceTypes
<1>5. ClientType'
  <2>1. consumer' \in [at : SseSteps \cup SocketSteps, item : Nat, aborted : BOOLEAN, detached : BOOLEAN]
        /\ consumer'.at \in SocketSteps
    BY <1>3 DEF SocketConsumers
  <2> QED BY <1>0, <1>4, <2>1 DEF ClientType
<1>6. AnswerType'
  BY <1>0 DEF streamOnly, AnswerType
<1> QED BY <1>1, <1>2, <1>5, <1>6 DEF QueueType

LEMMA ReceivingType ==
  ASSUME TypeOK, Receiving
  PROVE  TypeOK'
<1> USE DEF TypeOK
<1>1. /\ UNCHANGED <<runVars, queueVars, consumer, sent, slot, streamOnly, surface>>
      /\ client' \in {client, "gone"}
  BY DEF Receiving, ReceiveNext, ReceiveMessage, ReceiveOversize, clientVars
<1>2. inbox' \in Seq(Messages)
  BY DEF Receiving, ReceiveNext, ReceiveMessage, ReceiveOversize, socketVars
<1>3. RunType' /\ QueueType' /\ AnswerType'
  BY <1>1 DEF runVars, queueVars, streamOnly, RunType, QueueType, AnswerType
<1>4. ClientType'
  BY <1>1 DEF ClientType
<1> QED BY <1>2, <1>3, <1>4

LEMMA TypeStep ==
  ASSUME TypeOK, [Next]_vars
  PROVE  TypeOK'
<1>1. CASE Client
  <2>1. RunType' /\ QueueType' /\ AnswerType' /\ inbox' \in Seq(Messages)
    BY <1>1 DEF Client, ClientStep, streamOnly, socketVars, runVars, queueVars, TypeOK, RunType,
                QueueType, AnswerType
  <2>2. ClientType'
    BY <1>1 DEF Client, ClientStep, TypeOK, ClientType
  <2> QED BY <2>1, <2>2 DEF TypeOK
<1>2. CASE UNCHANGED vars
  BY <1>2 DEF vars, TypeOK, RunType, QueueType, ClientType, AnswerType
<1> QED
  BY <1>1, <1>2, RunStepType, ProducerStepType, StreamingType, SessionType, ReceivingType
     DEF Next, Driving

-----------------------------------------------------------------------------
(* One outcome                                                             *)

Final == Terminal \cup {"awaiting_approval"}

LEMMA FinalStays ==
  ASSUME state \in Final
  PROVE  Failed(state) = state
BY DEF Final, Terminal, Failed

\* A run that is cut in an await has not stored how it ended.
LEMMA CancelKeeps ==
  ASSUME TypeOK, RecordFollows, Cancel
  PROVE  RecordFollows' /\ (record \in Final => record' = record)
<1> USE DEF RecordFollows, Final, Terminal
<1>1. CASE UNCHANGED <<state, record, run>>
  BY <1>1
<1>2. CASE Inside /\ run = "admitting" /\ run' = "unadmitted" /\ record' \in {"none", "created"}
  BY <1>2
<1>3. CASE Inside /\ run # "admitting" /\ run' = "cut" /\ UNCHANGED record
  BY <1>3 DEF Inside
<1> QED BY <1>1, <1>2, <1>3 DEF Cancel, runVars

LEMMA CloseKeeps ==
  ASSUME RecordFollows, Suspended, Close, UNCHANGED record
  PROVE  RecordFollows'
BY FinalStays DEF RecordFollows, Close, Final

LEMMA RecordStep ==
  ASSUME TypeOK, RecordFollows, [Next]_vars
  PROVE  RecordFollows' /\ (record \in Final => record' = record)
<1> USE DEF RecordFollows, Final, Terminal
<1>1. CASE UNCHANGED <<state, record, run>>
  BY <1>1
<1>2. CASE RunNext
  <2>1. CASE Admit
    BY <2>1 DEF Admit
  <2>2. ASSUME NEW kind \in Kinds, Step(kind)
        PROVE  UNCHANGED <<state, record, run>>
    BY <2>2 DEF Step
  <2>3. CASE Conclude
    BY <2>3 DEF Conclude
  <2>4. CASE Record
    BY <2>4 DEF Record
  <2>5. CASE Yield
    BY <2>5 DEF Yield
  <2>6. CASE Exhaust
    BY <2>6 DEF Exhaust
  <2>7. CASE RecordCut
    BY <2>7 DEF RecordCut
  <2> QED BY <1>1, <1>2, <2>1, <2>2, <2>3, <2>4, <2>5, <2>6, <2>7 DEF RunNext
<1>3. CASE ProducerNext
  BY <1>1, <1>3 DEF ProducerNext, Put, PutTimeout, DeadlineInPut, Mark, runVars
<1>4. CASE StreamNext
  <2>1. CASE CancelProducer
    BY <2>1, CancelKeeps DEF CancelProducer
  <2>2. CASE CloseRun
    <3>1. CASE UNCHANGED <<state, run>>
      BY <1>1, <2>2, <3>1 DEF CloseRun
    <3>2. CASE Suspended /\ Close
      BY <2>2, <3>2, CloseKeeps DEF CloseRun
    <3> QED BY <2>2, <3>1, <3>2 DEF CloseRun
  <2> QED
    BY <1>1, <1>4, <2>1, <2>2
       DEF StreamNext, Poll, Get, GetTimeout, Send, Detach, Abort, AwaitProducer, Release, Expire,
           Finals, FinishKey, runVars
<1>5. CASE SocketNext
  <2>1. CASE CancelActive
    BY <1>1, <2>1, CancelKeeps DEF CancelActive, runVars
  <2>2. CASE Collect
    BY <2>2, CloseKeeps DEF Collect
  <2> QED
    BY <1>1, <1>5, <2>1, <2>2
       DEF SocketNext, Started, TakeEvent, Push, FinishRun, TakeMessage, Decided, IdleMessage, Leave,
           Fail, runVars
<1> QED
  BY <1>1, <1>2, <1>3, <1>4, <1>5
     DEF Next, vars, Driving, Streaming, Session, Receiving, ReceiveNext, ReceiveMessage,
         ReceiveOversize, Client, ClientStep, runVars

-----------------------------------------------------------------------------
(* The teardown of an event stream                                         *)

LEMMA CancelStops ==
  ASSUME TypeOK, Cancel
  PROVE  /\ producer = "done" => producer' = "done"
         /\ run = "over" => run' = "over"
         /\ UNCHANGED emitted
BY DEF Cancel, Inside, runVars

LEMMA TeardownStep ==
  ASSUME TypeOK, InOrderOfTeardown, TypeOK', [Next]_vars
  PROVE  InOrderOfTeardown'
<1> USE DEF InOrderOfTeardown
<1>0. surface' = surface /\ (surface = "sse" => consumer \in SseConsumers)
  <2>1. surface' = surface
    BY DEF Next, vars, Driving, Streaming, Session, Receiving, Client
  <2> QED BY <2>1 DEF TypeOK, ClientType, SseConsumers
<1> SUFFICES ASSUME surface = "sse"
             PROVE  InOrderOfTeardown'
  BY <1>0
<1>1. CASE Driving
  <2>1. /\ producer = "done" => producer' = "done"
        /\ run = "over" => run' = "over"
        /\ UNCHANGED <<consumer, slot, cause, completed, told>>
    BY <1>1
       DEF Driving, RunNext, Admit, Step, Conclude, Record, Yield, Exhaust, RecordCut, Emit,
           ProducerNext, Put, PutTimeout, DeadlineInPut, Mark, runVars, queueVars, clientVars, streamOnly, Driven
  <2> QED BY <1>0, <2>1
<1>2. CASE Streaming
  <2> USE <1>0 DEF SseConsumers
  <2>1. CASE Poll \/ Get \/ GetTimeout
    BY <2>1 DEF Poll, Get, GetTimeout, Take, AfterItem, Move, runVars, queueVars
  <2>2. CASE Send \/ Detach \/ Abort
    BY <2>2 DEF Send, Detach, Abort, AfterItem, Move, runVars, queueVars
  <2>3. CASE CancelProducer
    BY <2>3 DEF CancelProducer, Move
  <2>4. CASE AwaitProducer \/ CloseRun
    BY <2>4 DEF AwaitProducer, CloseRun, Move, Close, Suspended, runVars, queueVars
  <2>5. CASE Release \/ Expire
    BY <2>5 DEF Release, Expire, Move, runVars, queueVars
  <2>6. CASE Finals \/ FinishKey
    BY <2>6 DEF Finals, FinishKey, Move, runVars, queueVars
  <2> QED BY <1>2, <2>1, <2>2, <2>3, <2>4, <2>5, <2>6 DEF Streaming, StreamNext
<1>3. CASE Client \/ UNCHANGED vars
  BY <1>3 DEF Client, ClientStep, vars, runVars, queueVars, streamOnly
<1> QED BY <1>1, <1>2, <1>3 DEF Next, Session, Receiving

-----------------------------------------------------------------------------
(* What is sent                                                            *)

\* The events go on, those that were emitted stay what they are.
Continues == surface' = surface /\ (emitted' = emitted \/ \E kind \in Kinds : emitted' = Append(emitted, kind))

LEMMA VisibleStays ==
  ASSUME TypeOK, Continues
  PROVE  /\ Count' \in Nat /\ Count <= Count' /\ Count \in Nat
         /\ \A n \in 0 .. Count : {i \in Visible : i <= n}' = {i \in Visible : i <= n}
         /\ Visible \subseteq Visible'
<1>1. emitted \in Seq(Kinds) /\ Count \in Nat
  BY DEF TypeOK, RunType, Count
<1>2. /\ Count' \in Nat /\ Count <= Count'
      /\ \A i \in 1 .. Count : emitted'[i] = emitted[i]
  BY <1>1 DEF Continues, Count
<1> QED BY <1>1, <1>2 DEF Visible, Continues

LEMMA SentStays ==
  ASSUME TypeOK, Continues, sent' = sent, NEW n \in 0 .. Count, SentUpTo(n)
  PROVE  SentUpTo(n)' /\ n \in 0 .. Count'
BY VisibleStays DEF SentUpTo

LEMMA SentNext ==
  ASSUME TypeOK, UNCHANGED <<emitted, surface>>, NEW item \in Visible, SentUpTo(item - 1),
         sent' = Append(sent, item)
  PROVE  SentUpTo(item)'
<1>1. item \in Nat \ {0} /\ \A i \in Visible : i \in Nat
  BY RunTypes DEF Visible
<1>2. sent \in Seq(Nat) /\ Len(sent) \in Nat /\ DOMAIN sent = 1 .. Len(sent)
  BY DEF TypeOK, ClientType
<1>3. /\ DOMAIN sent' = 1 .. Len(sent) + 1 /\ sent'[Len(sent) + 1] = item
      /\ \A i \in DOMAIN sent : sent'[i] = sent[i]
  BY <1>2
<1>4. \A i \in DOMAIN sent : sent[i] \in Visible /\ sent[i] <= item - 1
  BY DEF SentUpTo
<1>5. \A i, j \in DOMAIN sent' : i < j => sent'[i] < sent'[j]
  BY <1>1, <1>2, <1>3, <1>4 DEF SentUpTo
<1>6. {sent'[i] : i \in DOMAIN sent'} = {sent[i] : i \in DOMAIN sent} \cup {item}
  BY <1>2, <1>3
<1>7. {i \in Visible : i <= item} = {i \in Visible : i <= item - 1} \cup {item}
  <2>1. \A i \in Visible : i <= item <=> i <= item - 1 \/ i = item
    BY <1>1
  <2> QED BY <2>1
<1>8. Visible' = Visible
  BY DEF Visible, Count
<1> QED BY <1>5, <1>6, <1>7, <1>8 DEF SentUpTo

LEMMA HiddenSkipped ==
  ASSUME TypeOK, NEW t \in Nat, t + 1 \notin Visible, SentUpTo(t)
  PROVE  SentUpTo(t + 1)
<1>1. \A i \in Visible : i \in Nat
  BY RunTypes DEF Visible
<1>2. {i \in Visible : i <= t + 1} = {i \in Visible : i <= t}
  BY <1>1
<1> QED BY <1>2 DEF SentUpTo

-----------------------------------------------------------------------------
(* What is queued                                                          *)

LEMMA DrivingQueue ==
  ASSUME TypeOK, Driving, NEW t \in Nat, QueueFrom(t), WholeFrom(t)
  PROVE  QueueFrom(t)' /\ WholeFrom(t)'
<1>0. /\ Count \in Nat /\ Len(queue) \in Nat /\ DOMAIN queue = 1 .. Len(queue)
      /\ queue \in Seq(Nat) /\ surface' = surface /\ emitted \in Seq(Kinds)
  BY RunTypes DEF Driving, TypeOK, QueueType, RunType
<1>1. CASE producer = "driving" /\ producer' = "putting" /\ UNCHANGED <<queue, slow, struck>>
           /\ \E kind \in Kinds : emitted' = Append(emitted, kind)
  <2>1. Count' = Count + 1
    BY <1>0, <1>1 DEF Count
  <2> QED BY <1>0, <1>1, <2>1 DEF QueueFrom, WholeFrom
<1>2. CASE UNCHANGED <<emitted, producer, queue, slow, struck>>
  BY <1>0, <1>2 DEF QueueFrom, WholeFrom, Handed, Count
<1>3. CASE producer = "driving" /\ producer' = "marking" /\ UNCHANGED <<emitted, queue, slow, struck>>
  BY <1>0, <1>3 DEF QueueFrom, WholeFrom, Handed, Count
<1>4. CASE producer = "cut" /\ producer' = "marking" /\ UNCHANGED <<emitted, queue, slow, struck>>
  BY <1>0, <1>4 DEF QueueFrom, WholeFrom, Handed, Count
<1>5. CASE Put
  <2>1. /\ producer = "putting" /\ producer' = "driving" /\ queue' = Append(queue, Count)
        /\ UNCHANGED <<emitted, slow, struck>>
    BY <1>5 DEF Put, runVars
  <2>2. /\ Len(queue') = Len(queue) + 1 /\ DOMAIN queue' = 1 .. Len(queue) + 1
        /\ \A i \in DOMAIN queue : queue'[i] = queue[i]
        /\ queue'[Len(queue) + 1] = Count
    BY <1>0, <2>1, AppendFacts
  <2>3. t + (Len(queue) + 1) = Count /\ Count' = Count
    BY <1>0, <2>1 DEF QueueFrom, Count
  <2>4. ASSUME NEW i \in DOMAIN queue'
        PROVE  queue'[i] = t + i /\ queue'[i] <= Count
    <3>1. CASE i \in DOMAIN queue
      BY <2>1, <2>2, <3>1 DEF QueueFrom
    <3>2. CASE i = Len(queue) + 1
      BY <1>0, <2>2, <2>3, <3>2
    <3> QED BY <1>0, <2>2, <3>1, <3>2
  <2> QED BY <1>0, <2>1, <2>2, <2>3, <2>4 DEF QueueFrom, WholeFrom
<1>6. CASE PutTimeout
  <2>1. /\ producer = "putting" /\ producer' = "marking" /\ slow' /\ UNCHANGED <<emitted, queue>>
    BY <1>6 DEF PutTimeout, runVars
  <2> QED BY <1>0, <2>1 DEF QueueFrom, WholeFrom, Handed, Count
<1>10. CASE DeadlineInPut
  <2>1. /\ producer = "putting" /\ producer' = "marking" /\ struck' /\ UNCHANGED <<emitted, queue, slow>>
    BY <1>10 DEF DeadlineInPut, runVars
  <2>2. t + Len(queue) = Count - 1
    BY <1>0, <2>1 DEF QueueFrom
  <2>3. Handed' = Count - 1
    BY <1>0, <2>1 DEF Handed, Count
  <2> QED BY <1>0, <2>1, <2>2, <2>3 DEF QueueFrom, WholeFrom, Handed, Count
<1>7. CASE Mark /\ Len(queue) < QueueEvents
  <2>1. /\ producer = "marking" /\ producer' = "done" /\ queue' = Append(queue, Marker)
        /\ UNCHANGED <<emitted, slow, struck>>
    BY <1>7 DEF Mark, runVars
  <2>2. /\ Len(queue') = Len(queue) + 1 /\ DOMAIN queue' = 1 .. Len(queue) + 1
        /\ \A i \in DOMAIN queue : queue'[i] = queue[i]
        /\ queue'[Len(queue) + 1] = Marker /\ queue' # <<>>
    <3>1. Marker \in Nat
      BY DEF Marker
    <3> QED BY <1>0, <2>1, <3>1, AppendFacts
  <2>3. Count' = Count /\ Handed' = Handed /\ Handed \in Int
    BY <1>0, <2>1 DEF Count, Handed
  <2>4. \A i \in DOMAIN queue' :
          \/ queue'[i] = t + i /\ queue'[i] <= Count
          \/ queue'[i] = Marker /\ i = Len(queue')
    BY <1>0, <2>1, <2>2 DEF QueueFrom
  <2>5. QueueFrom(t)'
    <3>1. t \in 0 .. Count'
      BY <2>3 DEF QueueFrom
    <3>2. \A i \in DOMAIN queue' :
            \/ queue'[i] = t + i /\ queue'[i] <= Count'
            \/ queue'[i] = Marker /\ i = Len(queue') /\ producer' = "done"
      BY <2>1, <2>3, <2>4
    <3> QED BY <2>1, <3>1, <3>2 DEF QueueFrom
  <2>6. surface = "sse" /\ ~slow => t + Len(queue) = Handed
    BY <2>1 DEF WholeFrom
  <2>7. surface = "sse" /\ ~slow => t + Len(queue') = Handed + 1
    BY <1>0, <2>2, <2>6
  <2>8. queue' # <<>> /\ queue'[Len(queue')] = Marker
    BY <2>2
  <2>9. WholeFrom(t)'
    BY <1>0, <2>1, <2>3, <2>7, <2>8 DEF WholeFrom
  <2> QED BY <2>5, <2>9
<1>8. CASE Mark /\ ~(Len(queue) < QueueEvents)
  <2>1. /\ producer = "marking" /\ producer' = "done" /\ UNCHANGED <<queue, emitted, slow, struck>>
    BY <1>8 DEF Mark, runVars
  <2>2. queue # <<>> => queue[Len(queue)] # Marker
    BY <1>0, <2>1 DEF QueueFrom, Marker
  <2> QED BY <1>0, <2>1, <2>2 DEF QueueFrom, WholeFrom, Handed, Count
<1>9. CASE RunNext
  <2>1. CASE Admit \/ \E kind \in Kinds : Step(kind)
    BY <1>1, <2>1 DEF Admit, Step, Emit, Driven, Kinds
  <2>2. CASE Yield
    <3>1. Head(rest) \in Kinds
      BY <2>2, SequenceTypes DEF Yield, TypeOK, RunType
    <3> QED BY <1>1, <2>2, <3>1 DEF Yield, Emit, Driven
  <2>3. CASE Conclude \/ Record
    BY <1>2, <2>3 DEF Conclude, Record, queueVars
  <2>4. CASE Exhaust
    BY <1>3, <2>4 DEF Exhaust, Driven
  <2>5. CASE RecordCut
    BY <1>2, <1>4, <2>5 DEF RecordCut
  <2> QED BY <1>9, <2>1, <2>2, <2>3, <2>4, <2>5 DEF RunNext
<1> QED BY <1>5, <1>6, <1>7, <1>8, <1>9, <1>10 DEF Driving, ProducerNext

\* What a queue is after its head was taken.
IsTail(r, s) ==
  /\ Len(s) \in Nat \ {0} /\ DOMAIN s = 1 .. Len(s) /\ Head(s) = s[1]
  /\ Len(r) = Len(s) - 1 /\ DOMAIN r = 1 .. Len(s) - 1
  /\ \A i \in 1 .. Len(s) - 1 : r[i] = s[i + 1]
  /\ r = <<>> => Len(s) = 1
  /\ r # <<>> => Len(s) > 1 /\ r[Len(s) - 1] = s[Len(s)]

LEMMA TailIsTail ==
  ASSUME TypeOK, queue # <<>>
  PROVE  IsTail(Tail(queue), queue)
BY TailProperties DEF TypeOK, QueueType, IsTail

LEMMA TakenFrom ==
  ASSUME TypeOK, NEW t \in Nat, QueueFrom(t), WholeFrom(t), queue # <<>>, IsTail(queue', queue),
         UNCHANGED <<emitted, producer, slow, struck, surface>>
  PROVE  /\ Head(queue) = Marker => producer = "done" /\ (surface = "sse" /\ ~slow => t = Handed)
         /\ Head(queue) # Marker =>
              Head(queue) = t + 1 /\ t + 1 <= Count /\ QueueFrom(t + 1)' /\ WholeFrom(t + 1)'
<1>0. /\ Count \in Nat /\ Len(queue) \in Nat \ {0} /\ DOMAIN queue = 1 .. Len(queue)
      /\ Head(queue) = queue[1] /\ Count' = Count
  BY RunTypes DEF Count, IsTail
<1>00. Handed' = Handed /\ Handed \in Int
  BY <1>0 DEF Handed
<1>1. /\ Len(queue') = Len(queue) - 1 /\ DOMAIN queue' = 1 .. Len(queue) - 1
      /\ \A i \in 1 .. Len(queue) - 1 : queue'[i] = queue[i + 1]
      /\ queue' = <<>> => Len(queue) = 1
      /\ queue' # <<>> => Len(queue) > 1 /\ queue'[Len(queue) - 1] = queue[Len(queue)]
  BY DEF IsTail
<1>2. ASSUME Head(queue) = Marker
      PROVE  producer = "done" /\ (surface = "sse" /\ ~slow => t = Handed)
  <2>1. producer = "done" /\ Len(queue) = 1
    BY <1>0, <1>2 DEF QueueFrom, Marker
  <2> QED BY <1>0, <1>00, <1>2, <2>1 DEF WholeFrom
<1>3. ASSUME Head(queue) # Marker
      PROVE  Head(queue) = t + 1 /\ t + 1 <= Count /\ QueueFrom(t + 1)' /\ WholeFrom(t + 1)'
  <2>1. Head(queue) = t + 1 /\ t + 1 <= Count
    BY <1>0, <1>3 DEF QueueFrom
  <2>2. ASSUME NEW i \in DOMAIN queue'
        PROVE  \/ queue'[i] = (t + 1) + i /\ queue'[i] <= Count
               \/ queue'[i] = Marker /\ i = Len(queue') /\ producer = "done"
    <3>1. i \in 1 .. Len(queue) - 1 /\ i + 1 \in DOMAIN queue /\ queue'[i] = queue[i + 1]
      BY <1>0, <1>1
    <3>2. \/ queue[i + 1] = t + (i + 1) /\ queue[i + 1] <= Count
          \/ queue[i + 1] = Marker /\ i + 1 = Len(queue) /\ producer = "done"
      BY <3>1 DEF QueueFrom
    <3>3. i \in Nat /\ (t + 1) + i = t + (i + 1)
      BY <3>1
    <3>4. i + 1 = Len(queue) => i = Len(queue')
      BY <1>0, <1>1, <3>1
    <3> QED BY <3>1, <3>2, <3>3, <3>4
  <2>3. /\ producer = "driving" => (t + 1) + Len(queue') = Count
        /\ producer = "putting" => (t + 1) + Len(queue') + 1 = Count
    <3>1. /\ producer = "driving" => t + Len(queue) = Count
          /\ producer = "putting" => t + Len(queue) + 1 = Count
      BY DEF QueueFrom
    <3>2. (t + 1) + Len(queue') = t + Len(queue)
      BY <1>0, <1>1
    <3> QED BY <3>1, <3>2
  <2>4. QueueFrom(t + 1)'
    <3>1. t + 1 \in 0 .. Count'
      BY <1>0, <2>1
    <3> QED BY <1>0, <2>2, <2>3, <3>1 DEF QueueFrom
  <2>5. (queue' # <<>> /\ queue'[Len(queue')] = Marker) <=> (queue # <<>> /\ queue[Len(queue)] = Marker)
    <3>1. CASE queue' = <<>>
      BY <1>0, <1>1, <1>3, <3>1
    <3>2. CASE queue' # <<>>
      BY <1>1, <3>2
    <3> QED BY <3>1, <3>2
  <2>6. (t + 1) + Len(queue') = t + Len(queue)
    BY <1>0, <1>1
  <2>7. WholeFrom(t + 1)'
    BY <1>0, <1>00, <2>5, <2>6 DEF WholeFrom
  <2> QED BY <2>1, <2>4, <2>7
<1> QED BY <1>2, <1>3

LEMMA QueueStays ==
  ASSUME NEW t, QueueFrom(t), UNCHANGED <<queue, emitted>>,
         \/ producer' \in {producer, "done"}
         \/ producer # "done" /\ producer' \in {"marking", "cut"}
  PROVE  QueueFrom(t)'
BY DEF QueueFrom, Count

LEMMA WholeStays ==
  ASSUME NEW t, WholeFrom(t), surface' = surface,
         surface = "ws" \/ UNCHANGED <<queue, emitted, producer, slow, struck>>
  PROVE  WholeFrom(t)'
<1>1. CASE surface = "ws"
  BY <1>1 DEF WholeFrom
<1>2. CASE UNCHANGED <<queue, emitted, producer, slow, struck, surface>>
  BY <1>2 DEF WholeFrom, Handed, Count
<1> QED BY <1>1, <1>2

-----------------------------------------------------------------------------
(* Between the queue and the client                                        *)

\* What the client was sent and what the queue holds, when t is the last event taken.
Meets(t) == t \in 0 .. Count /\ SentUpTo(t) /\ QueueFrom(t) /\ WholeFrom(t)
Holds(item) == item \in Visible /\ SentUpTo(item - 1) /\ QueueFrom(item) /\ WholeFrom(item)

\* The producer is as it was; that of a socket may be cancelled.
ProducerKept ==
  \/ producer' = producer
  \/ surface = "ws" /\ (producer' = "done" \/ (producer # "done" /\ producer' \in {"marking", "cut"}))

LEMMA MeetsStays ==
  ASSUME TypeOK, NEW t, Meets(t), UNCHANGED <<sent, queue, emitted, slow, struck, surface>>, ProducerKept
  PROVE  Meets(t)'
<1>1. Continues
  BY DEF Continues
<1>2. SentUpTo(t)' /\ t \in 0 .. Count'
  BY <1>1, SentStays DEF Meets
<1>3. QueueFrom(t)'
  BY QueueStays DEF Meets, ProducerKept
<1>4. WholeFrom(t)'
  <2>1. surface = "ws" \/ UNCHANGED <<queue, emitted, producer, slow, struck>>
    BY DEF ProducerKept
  <2> QED BY <2>1, WholeStays DEF Meets
<1> QED BY <1>2, <1>3, <1>4 DEF Meets

LEMMA MeetsSent ==
  ASSUME TypeOK, NEW item, Holds(item), sent' = Append(sent, item),
         UNCHANGED <<queue, producer, emitted, slow, struck, surface>>
  PROVE  Meets(item)'
<1>1. item \in Visible /\ SentUpTo(item - 1)
  BY DEF Holds
<1>2. SentUpTo(item)'
  BY <1>1, SentNext
<1>3. item \in 0 .. Count'
  BY <1>1, RunTypes DEF Visible, Count
<1>4. QueueFrom(item)' /\ WholeFrom(item)'
  BY QueueStays, WholeStays DEF Holds
<1> QED BY <1>2, <1>3, <1>4 DEF Meets

\* An event taken is sent next or, when the client is not to see it, already behind.
LEMMA MeetsTaken ==
  ASSUME TypeOK, NEW t, Meets(t), queue # <<>>, queue' = Tail(queue), Head(queue) # Marker,
         UNCHANGED <<sent, emitted, producer, slow, struck, surface>>
  PROVE  /\ Head(queue) = t + 1 /\ t + 1 \in 1 .. Count
         /\ t + 1 \in Visible => Holds(t + 1)'
         /\ t + 1 \notin Visible => Meets(t + 1)'
<1>1. t \in Nat /\ t \in 0 .. Count /\ SentUpTo(t) /\ QueueFrom(t) /\ WholeFrom(t)
  BY RunTypes DEF Meets
<1>2. /\ Head(queue) = t + 1 /\ t + 1 <= Count
      /\ QueueFrom(t + 1)' /\ WholeFrom(t + 1)'
  BY <1>1, TailIsTail, TakenFrom
<1>3. t + 1 \in 1 .. Count /\ (t + 1) - 1 = t
  BY <1>1, <1>2, RunTypes
<1>4. Continues
  BY DEF Continues
<1>5. SentUpTo(t)'
  BY <1>1, <1>4, SentStays
<1>6. Visible' = Visible /\ Count' = Count
  BY DEF Visible, Count
<1>7. ASSUME t + 1 \in Visible
      PROVE  Holds(t + 1)'
  <2>1. SentUpTo((t + 1) - 1)'
    BY <1>3, <1>5
  <2> QED BY <1>2, <1>6, <1>7, <2>1 DEF Holds
<1>8. ASSUME t + 1 \notin Visible
      PROVE  Meets(t + 1)'
  <2>1. SentUpTo(t + 1)
    BY <1>1, <1>8, HiddenSkipped
  <2>2. SentUpTo(t + 1)'
    BY <1>3, <1>4, <2>1, RunTypes, SentStays
  <2>3. t + 1 \in 0 .. Count'
    BY <1>1, <1>3, <1>6
  <2> QED BY <1>2, <2>2, <2>3 DEF Meets
<1> QED BY <1>2, <1>3, <1>7, <1>8

LEMMA DeliveredMeans ==
  ASSUME Delivered, surface = "sse" \/ client # "gone"
  PROVE  /\ consumer.at \in Between => \E t : Meets(t)
         /\ consumer.at \in InHand => \E item : consumer.item = item /\ Holds(item)
BY DEF Delivered, Meets, Holds

LEMMA DeliveredNext ==
  ASSUME surface' = "sse" \/ client' # "gone" =>
           /\ consumer'.at \in Between => \E t : Meets(t)'
           /\ consumer'.at \in InHand => \E item : consumer'.item = item /\ Holds(item)'
  PROVE  Delivered'
BY DEF Delivered, Meets, Holds

LEMMA DrivingContinues ==
  ASSUME TypeOK, Driving
  PROVE  Continues /\ UNCHANGED <<sent, consumer, client>>
<1>1. UNCHANGED <<sent, consumer, client, surface>>
  BY DEF Driving, RunNext, Admit, Step, Conclude, Record, Yield, Exhaust, RecordCut,
         ProducerNext, Put, PutTimeout, DeadlineInPut, Mark, clientVars
<1>2. emitted' = emitted \/ \E kind \in Kinds : emitted' = Append(emitted, kind)
  <2>1. CASE Yield
    <3>1. Head(rest) \in Kinds
      BY <2>1, SequenceTypes DEF Yield, TypeOK, RunType
    <3> QED BY <2>1, <3>1 DEF Yield, Emit
  <2>2. CASE Admit \/ \E kind \in Kinds : Step(kind)
    BY <2>2 DEF Admit, Step, Emit, Kinds
  <2> QED
    BY <2>1, <2>2
       DEF Driving, RunNext, Conclude, Record, Exhaust, RecordCut, ProducerNext, Put, PutTimeout, DeadlineInPut, Mark,
           runVars
<1> QED BY <1>1, <1>2 DEF Continues

LEMMA DrivingMeets ==
  ASSUME TypeOK, Driving, NEW t, Meets(t)
  PROVE  Meets(t)'
<1>1. t \in Nat /\ t \in 0 .. Count /\ SentUpTo(t)
  BY RunTypes DEF Meets
<1>2. QueueFrom(t)' /\ WholeFrom(t)'
  BY <1>1, DrivingQueue DEF Meets
<1>3. Continues /\ sent' = sent
  BY DrivingContinues
<1> QED BY <1>1, <1>2, <1>3, SentStays DEF Meets

LEMMA DrivingHolds ==
  ASSUME TypeOK, Driving, NEW item, Holds(item)
  PROVE  Holds(item)'
<1>1. item \in Nat /\ item - 1 \in 0 .. Count /\ SentUpTo(item - 1)
  BY RunTypes DEF Holds, Visible
<1>2. QueueFrom(item)' /\ WholeFrom(item)'
  BY <1>1, DrivingQueue DEF Holds
<1>3. Continues /\ sent' = sent
  BY DrivingContinues
<1>4. SentUpTo(item - 1)'
  BY <1>1, <1>3, SentStays
<1>5. item \in Visible'
  BY <1>3, VisibleStays DEF Holds
<1> QED BY <1>2, <1>4, <1>5 DEF Holds

\* The task that serves an event stream, at its awaits that still deliver.
LEMMA DeliveredStreaming ==
  ASSUME TypeOK, Delivered, Streaming
  PROVE  Delivered'
<1>0. /\ surface = "sse" /\ surface' = "sse" /\ consumer \in SseConsumers /\ StreamNext
  BY DEF Streaming, TypeOK, ClientType, SseConsumers
<1>1. /\ consumer.at \in Between => \E t : Meets(t)
      /\ consumer.at \in InHand => \E item : consumer.item = item /\ Holds(item)
  BY <1>0, DeliveredMeans
<1>2. ASSUME consumer.at \in Between, UNCHANGED <<sent, queue, emitted, slow, struck, producer>>
      PROVE  \E t : Meets(t)'
  BY <1>0, <1>1, <1>2, MeetsStays DEF ProducerKept
<1>3. CASE consumer'.at \notin Between \cup InHand
  BY <1>3, DeliveredNext
<1>4. CASE Poll \/ GetTimeout
  <2>1. consumer.at \in Between /\ consumer'.at \notin InHand
        /\ UNCHANGED <<sent, queue, emitted, slow, struck, producer>>
    BY <1>0, <1>4
       DEF Poll, GetTimeout, Move, Between, InHand, SseConsumers, runVars, queueVars
  <2> QED BY <1>2, <2>1, DeliveredNext
<1>5. CASE Get /\ Head(queue) = Marker
  <2>1. consumer'.at = "cancel"
    BY <1>0, <1>5 DEF Get, Move, SseConsumers, SseSteps
  <2> QED BY <1>3, <2>1 DEF Between, InHand
<1>6. CASE Get /\ Head(queue) # Marker
  <2>1. /\ consumer.at \in Between /\ queue # <<>> /\ queue' = Tail(queue) /\ Take(Head(queue))
        /\ UNCHANGED <<sent, emitted, producer, slow, struck, surface>>
    BY <1>0, <1>6 DEF Get, Between, runVars
  <2>2. PICK t : Meets(t)
    BY <1>1, <2>1
  <2>3. /\ Head(queue) = t + 1 /\ t + 1 \in 1 .. Count
        /\ t + 1 \in Visible => Holds(t + 1)'
        /\ t + 1 \notin Visible => Meets(t + 1)'
    BY <1>6, <2>1, <2>2, MeetsTaken
  <2>4. t + 1 \in Visible <=> Shown(emitted[t + 1])
    BY <1>0, <2>3 DEF Visible
  <2>5. CASE Shown(emitted[t + 1])
    <3>1. consumer'.at = "send" /\ consumer'.item = t + 1
      BY <1>0, <2>1, <2>3, <2>5 DEF Take, SseConsumers, SseSteps
    <3> QED BY <2>3, <2>4, <2>5, <3>1, DeliveredNext DEF Between, InHand
  <2>6. CASE ~Shown(emitted[t + 1])
    <3>1. consumer'.at \in {"poll", "cancel"}
      BY <1>0, <2>1, <2>3, <2>6 DEF Take, AfterItem, Move, SseConsumers, SseSteps
    <3> QED BY <2>3, <2>4, <2>6, <3>1, DeliveredNext DEF Between, InHand
  <2> QED BY <2>5, <2>6
<1>7. CASE Send
  <2>1. /\ consumer.at \in InHand /\ sent' = Append(sent, consumer.item)
        /\ consumer'.at \in {"detach", "cancel", "poll"}
        /\ UNCHANGED <<queue, producer, emitted, slow, struck, surface>>
    BY <1>0, <1>7
       DEF Send, AfterItem, Move, InHand, SseConsumers, SseSteps, runVars, queueVars
  <2>2. PICK item : consumer.item = item /\ Holds(item)
    BY <1>1, <2>1
  <2>3. Meets(item)'
    BY <2>1, <2>2, MeetsSent
  <2> QED BY <2>1, <2>3, DeliveredNext DEF InHand
<1>8. CASE Detach \/ Abort \/ CancelProducer \/ AwaitProducer
  <2>1. consumer'.at \in {"cancel", "await", "close", "release", "expire", "ended"}
    BY <1>0, <1>8
       DEF Detach, Abort, CancelProducer, AwaitProducer, Move, SseConsumers, SseSteps
  <2> QED BY <1>3, <2>1 DEF Between, InHand
<1>9. CASE CloseRun \/ Release \/ Expire \/ Finals \/ FinishKey
  <2>1. consumer'.at \in {"close", "release", "expire", "ended", "finals", "finish"}
    BY <1>0, <1>9
       DEF CloseRun, Release, Expire, Finals, FinishKey, Move, SseConsumers, SseSteps
  <2> QED BY <1>3, <2>1 DEF Between, InHand
<1> QED BY <1>0, <1>4, <1>5, <1>6, <1>7, <1>8, <1>9 DEF StreamNext

LEMMA CancelActiveKeeps ==
  ASSUME surface = "ws", CancelActive
  PROVE  ProducerKept /\ UNCHANGED emitted
BY DEF CancelActive, Cancel, Inside, ProducerKept, runVars

\* The session of a socket: it delivers until its client has gone.
LEMMA DeliveredSession ==
  ASSUME TypeOK, Delivered, Session
  PROVE  Delivered'
<1>0. /\ surface = "ws" /\ surface' = "ws" /\ consumer \in SocketConsumers /\ SocketNext
  <2>1. surface = "ws" /\ surface' = "ws" /\ SocketNext
    BY DEF Session
  <2> QED BY <2>1 DEF TypeOK, ClientType, SocketConsumers
<1>1. client' = client
  BY <1>0
     DEF SocketNext, Started, TakeEvent, Push, FinishRun, TakeMessage, Decided, IdleMessage, Leave,
         Fail, Collect, clientVars
<1>2. CASE client = "gone"
  BY <1>0, <1>1, <1>2, DeliveredNext
<1>3. ASSUME client # "gone"
      PROVE  Delivered'
  <2>1. /\ consumer.at \in Between => \E t : Meets(t)
        /\ consumer.at \in InHand => \E item : consumer.item = item /\ Holds(item)
    BY <1>3, DeliveredMeans
  <2>2. CASE /\ consumer.at \in Between /\ consumer'.at \in Between
             /\ ProducerKept /\ UNCHANGED <<sent, queue, emitted, slow, struck>>
    <3>1. \E t : Meets(t)'
      BY <1>0, <2>1, <2>2, MeetsStays
    <3> QED BY <2>2, <3>1, DeliveredNext DEF Between, InHand
  <2>3. CASE consumer'.at \notin Between \cup InHand
    BY <2>3, DeliveredNext
  <2>4. CASE Started
    <3>1. /\ consumer.at \in Between /\ consumer'.at = "race"
          /\ ProducerKept /\ UNCHANGED <<sent, queue, emitted, slow, struck>>
      BY <1>0, <1>3, <2>4
         DEF Started, Wait, Between, ProducerKept, runVars, queueVars, SocketConsumers, SocketSteps
    <3> QED BY <2>2, <3>1 DEF Between
  <2>5. CASE TakeEvent /\ Head(queue) = Marker
    <3>1. consumer'.at = "finish"
      BY <1>0, <2>5 DEF TakeEvent, SocketConsumers, SocketSteps
    <3> QED BY <2>3, <3>1 DEF Between, InHand
  <2>6. CASE TakeEvent /\ Head(queue) # Marker
    <3>1. /\ consumer.at \in Between /\ queue # <<>> /\ queue' = Tail(queue)
          /\ UNCHANGED <<sent, emitted, producer, slow, struck, surface>>
      BY <1>0, <2>6 DEF TakeEvent, Between, runVars
    <3>2. PICK t : Meets(t)
      BY <2>1, <3>1
    <3>3. /\ Head(queue) = t + 1 /\ t + 1 \in 1 .. Count
          /\ t + 1 \in Visible => Holds(t + 1)'
      BY <2>6, <3>1, <3>2, MeetsTaken
    <3>4. t + 1 \in Visible
      BY <1>0, <3>3 DEF Visible
    <3>5. consumer'.at = "push" /\ consumer'.item = t + 1
      BY <1>0, <2>6, <3>3 DEF TakeEvent, SocketConsumers, SocketSteps
    <3> QED BY <3>3, <3>4, <3>5, DeliveredNext DEF Between
  <2>7. CASE Push
    <3>1. /\ consumer.at \in InHand /\ sent' = Append(sent, consumer.item) /\ consumer'.at = "race"
          /\ UNCHANGED <<queue, producer, emitted, slow, struck, surface>>
      <4>1. client = "reading"
        BY <1>3, <2>7 DEF Push, TypeOK, ClientType
      <4> QED BY <1>0, <2>7, <4>1
                 DEF Push, Wait, InHand, SocketConsumers, SocketSteps, runVars, queueVars
    <3>2. PICK item : consumer.item = item /\ Holds(item)
      BY <2>1, <3>1
    <3>3. Meets(item)'
      BY <3>1, <3>2, MeetsSent
    <3> QED BY <3>1, <3>3, DeliveredNext DEF InHand
  <2>8. CASE TakeMessage
    <3>1. /\ consumer.at = "race" /\ consumer'.at \in {"race", "decide"}
          /\ UNCHANGED <<sent, queue, slow, struck>>
      BY <1>0, <2>8 DEF TakeMessage, Wait, SocketConsumers, SocketSteps
    <3>2. ProducerKept /\ UNCHANGED emitted
      <4>1. CancelActive \/ UNCHANGED <<runVars, producer>>
        BY <2>8 DEF TakeMessage
      <4> QED BY <1>0, <4>1, CancelActiveKeeps DEF ProducerKept, runVars
    <3> QED BY <2>2, <3>1, <3>2 DEF Between
  <2>9. CASE Decided
    <3>1. /\ consumer.at \in Between /\ consumer'.at = "race"
          /\ ProducerKept /\ UNCHANGED <<sent, queue, emitted, slow, struck>>
      BY <1>0, <2>9
         DEF Decided, Wait, Between, ProducerKept, runVars, queueVars, SocketConsumers, SocketSteps
    <3> QED BY <2>2, <3>1 DEF Between
  <2>10. CASE FinishRun \/ IdleMessage \/ Leave \/ Fail \/ Collect
    <3>1. consumer'.at \in {"idle", "ended"}
      BY <1>0, <2>10
         DEF FinishRun, IdleMessage, Leave, Fail, Collect, Wait, clientVars, SocketConsumers, SocketSteps
    <3> QED BY <2>3, <3>1 DEF Between, InHand
  <2> QED BY <1>0, <2>4, <2>5, <2>6, <2>7, <2>8, <2>9, <2>10 DEF SocketNext
<1> QED BY <1>2, <1>3

LEMMA DeliveredStep ==
  ASSUME TypeOK, Delivered, [Next]_vars
  PROVE  Delivered'
<1>1. CASE Driving
  <2>1. UNCHANGED <<consumer, client, surface>>
    BY <1>1, DrivingContinues DEF Continues
  <2>2. ASSUME surface = "sse" \/ client # "gone"
        PROVE  /\ consumer'.at \in Between => \E t : Meets(t)'
               /\ consumer'.at \in InHand => \E item : consumer'.item = item /\ Holds(item)'
    BY <1>1, <2>1, <2>2, DeliveredMeans, DrivingMeets, DrivingHolds
  <2> QED BY <2>1, <2>2, DeliveredNext
<1>2. CASE Receiving \/ Client \/ UNCHANGED vars
  <2>1. /\ UNCHANGED <<consumer, sent, queue, producer, slow, struck, emitted, surface>>
        /\ client' # "gone" => client # "gone"
    BY <1>2 DEF Receiving, ReceiveNext, ReceiveMessage, ReceiveOversize, Client, ClientStep, vars,
                runVars, queueVars, clientVars
  <2> QED BY <2>1 DEF Delivered, SentUpTo, QueueFrom, WholeFrom, Handed, Visible, Count
<1> QED BY <1>1, <1>2, DeliveredStreaming, DeliveredSession DEF Next

-----------------------------------------------------------------------------
(* What the client was sent, and what a completed key stands for           *)

LEMMA InOrderStep ==
  ASSUME TypeOK, InOrder, Delivered, [Next]_vars
  PROVE  InOrder'
<1>1. CASE Continues /\ sent' = sent
  BY <1>1, SentStays DEF InOrder
<1>2. ASSUME NEW item, Holds(item), sent' = Append(sent, item),
             UNCHANGED <<queue, producer, emitted, slow, struck, surface>>
      PROVE  InOrder'
  BY <1>2, MeetsSent DEF Meets, InOrder
<1>3. CASE Driving
  BY <1>1, <1>3, DrivingContinues
<1>4. CASE Streaming
  <2>1. surface' = surface /\ UNCHANGED emitted
    BY <1>4, CancelStops
       DEF Streaming, StreamNext, Poll, Get, GetTimeout, Send, Detach, Abort, CancelProducer,
           AwaitProducer, CloseRun, Release, Expire, Finals, FinishKey, runVars
  <2>2. CASE Send
    <3>1. /\ surface = "sse" /\ consumer.at \in InHand /\ sent' = Append(sent, consumer.item)
          /\ UNCHANGED <<queue, producer, slow, struck>>
      BY <1>4, <2>2 DEF Streaming, Send, InHand, queueVars
    <3>2. PICK item : consumer.item = item /\ Holds(item)
      BY <3>1, DeliveredMeans
    <3> QED BY <1>2, <2>1, <3>1, <3>2
  <2>3. CASE ~Send
    <3>1. sent' = sent
      BY <1>4, <2>3
         DEF Streaming, StreamNext, Poll, Get, GetTimeout, Detach, Abort, CancelProducer,
             AwaitProducer, CloseRun, Release, Expire, Finals, FinishKey
    <3> QED BY <1>1, <2>1, <3>1 DEF Continues
  <2> QED BY <2>2, <2>3
<1>5. CASE Session
  <2>1. /\ surface' = surface /\ UNCHANGED emitted
        /\ sent' = sent \/ (Push /\ client = "reading")
    <3>1. surface' = surface /\ surface = "ws" /\ SocketNext
      BY <1>5 DEF Session
    <3>2. CASE CancelActive /\ sent' = sent
      BY <3>1, <3>2, CancelActiveKeeps
    <3>3. CASE UNCHANGED emitted /\ (sent' = sent \/ (Push /\ client = "reading"))
      BY <3>1, <3>3
    <3> QED
      BY <3>1, <3>2, <3>3
         DEF SocketNext, Started, TakeEvent, Push, FinishRun, TakeMessage, Decided, IdleMessage, Leave,
             Fail, Collect, clientVars, runVars
  <2>2. CASE Push /\ client = "reading"
    <3>1. /\ consumer.at \in InHand /\ sent' = Append(sent, consumer.item)
          /\ UNCHANGED <<queue, producer, slow, struck>>
      BY <2>2 DEF Push, InHand, queueVars
    <3>2. PICK item : consumer.item = item /\ Holds(item)
      BY <2>2, <3>1, DeliveredMeans
    <3> QED BY <1>2, <2>1, <3>1, <3>2
  <2> QED BY <1>1, <2>1, <2>2 DEF Continues
<1>6. CASE Receiving \/ Client \/ UNCHANGED vars
  <2>1. UNCHANGED <<sent, emitted, surface>>
    BY <1>6 DEF Receiving, ReceiveNext, ReceiveMessage, ReceiveOversize, Client, ClientStep, vars,
                runVars, clientVars
  <2> QED BY <1>1, <2>1 DEF Continues
<1> QED BY <1>3, <1>4, <1>5, <1>6 DEF Next

\* A completed stream stays completed: its producer is done, so no event follows, and it is
\* past the awaits that send or give a cause.
LEMMA CompletedStays ==
  ASSUME TypeOK, InOrderOfTeardown, Answered, completed, [Next]_vars
  PROVE  /\ completed' /\ cause' = "none" /\ producer' = "done" /\ SentUpTo(Handed)'
         /\ told => told'
<1>0. /\ cause = "none" /\ producer = "done" /\ SentUpTo(Handed)
      /\ surface = "sse" /\ consumer.at \notin {"poll", "get", "send", "detach"}
  BY DEF Answered, InOrderOfTeardown, TypeOK, ClientType
<1>1. /\ UNCHANGED <<surface, sent, emitted, struck, completed, cause, producer>>
      /\ told' \in {told, TRUE}
  <2>1. CASE Driving
    BY <1>0, <2>1
       DEF Driving, Driven, RunNext, Admit, Step, Conclude, Record, Yield, Exhaust, RecordCut,
           ProducerNext, Put, PutTimeout, DeadlineInPut, Mark, streamOnly, clientVars
  <2>2. CASE Streaming
    <3>1. CASE CancelProducer
      BY <1>0, <2>2, <3>1 DEF Streaming, CancelProducer, Cancel, Inside, runVars
    <3> QED
      BY <1>0, <2>2, <3>1
         DEF Streaming, StreamNext, Poll, Get, GetTimeout, Send, Detach, Abort, AwaitProducer, CloseRun,
             Release, Expire, Finals, FinishKey, runVars, queueVars
  <2>3. CASE Client \/ UNCHANGED vars
    BY <2>3 DEF Client, ClientStep, vars, runVars, queueVars, streamOnly
  <2> QED BY <1>0, <2>1, <2>2, <2>3 DEF Next, Session, Receiving
<1>2. SentUpTo(Handed)'
  BY <1>0, <1>1 DEF SentUpTo, Handed, Visible, Count
<1>3. told => told'
  BY <1>1
<1> QED BY <1>0, <1>1, <1>2, <1>3

\* A stream completes at the end marker of a client that was not slow: t is then the last
\* event, and all that are visible up to t were sent.
LEMMA CompletesWhole ==
  ASSUME TypeOK, InOrderOfTeardown, Delivered, ~completed, completed', [Next]_vars
  PROVE  cause' = "none" /\ producer' = "done" /\ SentUpTo(Handed)'
<1>1. CASE Streaming
  <2>0. surface = "sse" /\ surface' = surface /\ StreamNext
    BY <1>1 DEF Streaming
  <2>1. Get /\ Head(queue) = Marker
    BY <2>0
       DEF StreamNext, Poll, Get, GetTimeout, Send, Detach, Abort, CancelProducer, AwaitProducer,
           CloseRun, Release, Expire, Finals, FinishKey
  <2>2. /\ consumer.at = "get" /\ queue # <<>> /\ queue' = Tail(queue) /\ ~slow /\ cause' = cause
        /\ UNCHANGED <<sent, emitted, producer, slow, struck, surface>>
    BY <2>0, <2>1 DEF Get, runVars
  <2>3. PICK t : Meets(t)
    BY <2>0, <2>2, DeliveredMeans DEF Between
  <2>4. t \in Nat /\ SentUpTo(t) /\ QueueFrom(t) /\ WholeFrom(t)
    BY <2>3, RunTypes DEF Meets
  <2>5. producer = "done" /\ t = Handed
    BY <2>0, <2>1, <2>2, <2>4, TailIsTail, TakenFrom
  <2>6. SentUpTo(Handed)'
    BY <2>2, <2>4, <2>5 DEF SentUpTo, Handed, Visible, Count
  <2> QED BY <2>0, <2>2, <2>5, <2>6 DEF InOrderOfTeardown
<1>2. CASE ~Streaming
  BY <1>2 DEF Next, vars, Driving, Session, Receiving, Client, streamOnly
<1> QED BY <1>1, <1>2

LEMMA AnsweredStep ==
  ASSUME TypeOK, InOrderOfTeardown, Delivered, Answered, TypeOK', [Next]_vars
  PROVE  Answered'
<1>1. completed' => cause' = "none" /\ producer' = "done" /\ SentUpTo(Handed)'
  BY CompletedStays, CompletesWhole
<1>2. key' = "completed" => completed' /\ told'
  <2>1. CASE key = "completed"
    BY <2>1, CompletedStays DEF Answered
  <2>2. CASE key # "completed" /\ key' = "completed"
    <3>1. Streaming
      BY <2>2 DEF Next, vars, Driving, Session, Receiving, Client, streamOnly
    <3>2. FinishKey /\ surface = "sse"
      BY <2>2, <3>1
         DEF Streaming, StreamNext, Poll, Get, GetTimeout, Send, Detach, Abort, CancelProducer,
             AwaitProducer, CloseRun, Release, Expire, Finals, FinishKey
    <3>3. completed /\ told
      BY <3>2 DEF FinishKey, InOrderOfTeardown
    <3> QED BY <3>2, <3>3 DEF FinishKey
  <2> QED BY <2>1, <2>2
<1>3. surface' = "ws" => ~completed' /\ key' = "none"
  <2>1. surface' = surface /\ (surface = "ws" => UNCHANGED <<completed, key>>)
    BY DEF Next, vars, Driving, Streaming, Session, Receiving, Client, streamOnly
  <2> QED BY <2>1 DEF Answered
<1> QED BY <1>1, <1>2, <1>3 DEF Answered

-----------------------------------------------------------------------------
(* Theorems                                                                *)

LEMMA Initially ==
  ASSUME Init
  PROVE  TypeOK /\ StreamInv
<1>1. /\ emitted = <<>> /\ queue = <<>> /\ sent = <<>> /\ rest = <<>> /\ inbox = <<>>
      /\ state = "created" /\ record = "none" /\ run = "admitting" /\ producer = "driving"
      /\ slow = FALSE /\ struck = FALSE /\ slot = "taken" /\ client = "reading"
      /\ cause = "none" /\ completed = FALSE /\ told = FALSE /\ key \in {"none", "in_progress"}
  BY DEF Init, RunInit, StreamInit, SocketInit
<1>2. \/ surface = "sse" /\ consumer = [at |-> "poll", item |-> 0, aborted |-> FALSE, detached |-> FALSE]
      \/ /\ surface = "ws" /\ key = "none"
         /\ consumer = [at |-> "start", item |-> 0, aborted |-> FALSE, detached |-> FALSE]
  BY SurfaceAssumption DEF Init, StreamInit, SocketInit
<1>3. Count = 0 /\ Len(queue) = 0 /\ DOMAIN sent = {} /\ DOMAIN queue = {}
  BY <1>1 DEF Count
<1>4. Visible = {}
  BY <1>3 DEF Visible
<1>5. SentUpTo(0)
  BY <1>3, <1>4 DEF SentUpTo
<1>6. QueueFrom(0) /\ WholeFrom(0) /\ 0 \in 0 .. Count
  BY <1>1, <1>3 DEF QueueFrom, WholeFrom, Handed
<1>7. RunType /\ QueueType /\ AnswerType /\ inbox \in Seq(Messages)
  <2>1. \A S : <<>> \in Seq(S)
    BY EmptySeq
  <2>2. rest \in Seq(Kinds) /\ emitted \in Seq(Kinds) /\ queue \in Seq(Nat) /\ inbox \in Seq(Messages)
    BY <1>1, <2>1
  <2> QED BY <1>1, <2>2 DEF RunType, QueueType, AnswerType
<1>8. ClientType
  <2>1. sent \in Seq(Nat)
    BY <1>1, EmptySeq
  <2>2. consumer \in [at : SseSteps \cup SocketSteps, item : Nat, aborted : BOOLEAN, detached : BOOLEAN]
    <3>1. 0 \in Nat /\ "poll" \in SseSteps /\ "start" \in SocketSteps
      BY DEF SseSteps, SocketSteps
    <3>2. ASSUME NEW at \in SseSteps \cup SocketSteps
          PROVE  [at |-> at, item |-> 0, aborted |-> FALSE, detached |-> FALSE]
                   \in [at : SseSteps \cup SocketSteps, item : Nat, aborted : BOOLEAN, detached : BOOLEAN]
      BY <3>1
    <3> QED BY <1>2, <3>1, <3>2
  <2>3. \/ surface = "sse" /\ consumer.at \in SseSteps
        \/ surface = "ws" /\ consumer.at \in SocketSteps
    BY <1>2 DEF SseSteps, SocketSteps
  <2> QED BY <1>1, <2>1, <2>2, <2>3 DEF ClientType
<1>9. RecordFollows /\ InOrder
  BY <1>1, <1>5, <1>6 DEF RecordFollows, InOrder, Terminal
<1>10. Delivered
  BY <1>2, <1>5, <1>6 DEF Delivered, InHand
<1>11. InOrderOfTeardown /\ Answered
  BY <1>1, <1>2 DEF InOrderOfTeardown, Answered
<1> QED BY <1>7, <1>8, <1>9, <1>10, <1>11 DEF TypeOK, StreamInv

LEMMA Inductive ==
  ASSUME TypeOK, StreamInv, [Next]_vars
  PROVE  (TypeOK /\ StreamInv)'
<1>1. TypeOK'
  BY TypeStep
<1>2. RecordFollows' /\ InOrder' /\ Delivered' /\ InOrderOfTeardown' /\ Answered'
  BY <1>1, RecordStep, InOrderStep, DeliveredStep, TeardownStep, AnsweredStep DEF StreamInv
<1> QED BY <1>1, <1>2 DEF StreamInv

\* The variables keep their types and the queue, the hand of the consumer and the client
\* stay three pieces of one sequence, whatever the producer, the server and the client do.
THEOREM StreamsKept == Spec => [](TypeOK /\ StreamInv)
<1>1. Init => TypeOK /\ StreamInv
  BY Initially
<1>2. (TypeOK /\ StreamInv) /\ [Next]_vars => (TypeOK /\ StreamInv)'
  BY Inductive
<1> QED BY <1>1, <1>2, PTL DEF Spec

\* No timeout of put or get, message or teardown loses an event in the middle.
THEOREM SentInOrder == Spec => []InOrder
<1>1. TypeOK /\ StreamInv => InOrder
  BY DEF StreamInv
<1> QED BY <1>1, StreamsKept, PTL

\* The slot of an event stream bounds the runs: when it comes back the run is over.
THEOREM SlotBoundsRuns == Spec => []SlotOutlivesRun
<1>1. TypeOK /\ StreamInv => SlotOutlivesRun
  BY DEF StreamInv, InOrderOfTeardown, SlotOutlivesRun
<1> QED BY <1>1, StreamsKept, PTL

\* An idempotency key is completed only for an answer the client was sent whole.
THEOREM KeysAreAnswered == Spec => []KeyMeansAnswered
<1>1. TypeOK /\ StreamInv => KeyMeansAnswered
  BY DEF StreamInv, Answered, KeyMeansAnswered
<1> QED BY <1>1, StreamsKept, PTL

\* What was stored of a run that ended or paused is never written over.
THEOREM OutcomesStay == Spec => OneOutcome
<1>1. ASSUME TypeOK /\ StreamInv, [Next]_vars
      PROVE  [(record \in Terminal \cup {"awaiting_approval"}) => (record' = record)]_vars
  BY <1>1, RecordStep DEF StreamInv, Final
<1> QED BY <1>1, StreamsKept, PTL DEF Spec, OneOutcome
=============================================================================
