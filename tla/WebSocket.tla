----------------------------- MODULE WebSocket -----------------------------
(***************************************************************************)
(* One run over a socket (src/app/protocol/routes/websocket.py). A receive *)
(* loop puts the client's messages into a bounded queue; the session task  *)
(* waits for the next event of the run, the next message or the end of the *)
(* receive loop, whichever comes first, and works on it before it waits    *)
(* again. It takes the run's slot when the run starts; the runs that may   *)
(* follow on the same socket are not modelled.                             *)
(***************************************************************************)
EXTENDS StreamedRun

CONSTANTS InboxSize,     \* maxsize of the inbound queue
          MaxMessages    \* bound of the model: messages the client sends during the run

ASSUME SocketAssumption == InboxSize \in Nat \ {0} /\ MaxMessages \in Nat

VARIABLES
  inbox,      \* messages received and not looked at
  messages,   \* how many the client has sent
  requested,  \* active["cancelled"], by a request of the session
  ending      \* what the client was told the run ended with

socketVars == <<inbox, messages, requested, ending>>

\* run.start during a run, ping and unknown types are answered and change nothing.
Messages == {"cancel", "decide", "other"}

Wait(at) == consumer' = [consumer EXCEPT !.at = at]
Stopped == requested \/ slow

-----------------------------------------------------------------------------
(* The receive loop: a full queue blocks it. *)

ReceiveMessage(kind) ==
  /\ consumer.at # "ended" /\ client = "reading"
  /\ messages < MaxMessages /\ Len(inbox) < InboxSize
  /\ inbox' = Append(inbox, kind) /\ messages' = messages + 1
  /\ UNCHANGED <<runVars, queueVars, clientVars, requested, ending>>

\* An oversize message closes the socket and ends the receive loop.
ReceiveOversize ==
  /\ consumer.at # "ended" /\ client = "reading"
  /\ client' = "gone"
  /\ UNCHANGED <<runVars, queueVars, consumer, sent, slot, socketVars>>

-----------------------------------------------------------------------------
(* The session *)

\* run.started; the socket may be closed under this send, and the start is then undone: the
\* slot comes back, while the producer that was created goes on without a session.
Started ==
  /\ consumer.at = "start"
  /\ \/ Wait("race") /\ UNCHANGED slot
     \/ client = "gone" /\ Wait("ended") /\ slot' = "free"
  /\ UNCHANGED <<runVars, queueVars, sent, client, socketVars>>

TakeEvent ==
  /\ consumer.at = "race" /\ queue # <<>>
  /\ queue' = Tail(queue)
  /\ consumer' = IF Head(queue) = Marker
                 THEN [consumer EXCEPT !.at = "finish"]
                 ELSE [consumer EXCEPT !.at = "push", !.item = Head(queue)]
  /\ UNCHANGED <<runVars, producer, slow, struck, sent, client, slot, socketVars>>

\* Mutant: an event that cannot be sent at once is dropped.
PushOrDrop ==
  /\ consumer.at = "push"
  /\ sent' = IF client = "reading" THEN Append(sent, consumer.item) ELSE sent
  /\ Wait("race")
  /\ UNCHANGED <<runVars, queueVars, client, slot, socketVars>>

\* A send to a client that has gone is suppressed.
Push ==
  /\ consumer.at = "push" /\ client # "stalled"
  /\ sent' = IF client = "reading" THEN Append(sent, consumer.item) ELSE sent
  /\ Wait("race")
  /\ UNCHANGED <<runVars, queueVars, client, slot, socketVars>>

\* The producer was cancelled and nobody in the session had asked for it.
Unasked == struck /\ ~Stopped

\* The end marker: the client is told of a cancellation or of a producer that failed, the
\* slot comes back, the socket is idle again.
FinishRun ==
  /\ consumer.at = "finish" /\ client # "stalled" /\ ~Unasked
  /\ ending' = IF Stopped THEN "cancelled" ELSE "done"
  /\ slot' = "free"
  /\ Wait("idle")
  /\ UNCHANGED <<runVars, queueVars, sent, client, inbox, messages, requested>>

CancelActive ==
  IF Stopped THEN UNCHANGED <<runVars, producer, requested>>
                ELSE requested' = TRUE /\ Cancel

TakeMessage ==
  /\ consumer.at = "race" /\ inbox # <<>>
  /\ inbox' = Tail(inbox)
  /\ CASE Head(inbox) = "cancel" -> CancelActive /\ UNCHANGED consumer
       [] Head(inbox) = "decide" -> Wait("decide") /\ UNCHANGED <<runVars, producer, requested>>
       [] OTHER -> UNCHANGED <<consumer, runVars, producer, requested>>
  /\ UNCHANGED <<queue, slow, struck, sent, client, slot, messages, ending>>

\* resume_approval returned and its events were sent; the run's own events waited.
Decided ==
  /\ consumer.at = "decide" /\ client # "stalled"
  /\ Wait("race")
  /\ UNCHANGED <<runVars, queueVars, sent, client, slot, socketVars>>

\* The idle socket answers messages.
IdleMessage ==
  /\ consumer.at = "idle" /\ inbox # <<>> /\ client # "stalled"
  /\ inbox' = Tail(inbox)
  /\ UNCHANGED <<runVars, queueVars, clientVars, messages, requested, ending>>

\* The receive loop has ended: the run is cancelled, messages and events that wait are
\* dropped, and the slot is not given back.
Leave ==
  /\ consumer.at \in {"race", "idle"} /\ client = "gone"
  /\ Wait("ended")
  /\ IF consumer.at = "race" THEN CancelActive ELSE UNCHANGED <<runVars, producer, requested>>
  /\ UNCHANGED <<queue, slow, struck, sent, client, slot, inbox, messages, ending>>

\* The send of an event failed with something other than a disconnect, or the look for the
\* exception of a producer that the deadline cancelled raised: the session's finally block
\* cancels the run and gives the slot back, without waiting for the producer.
Fail ==
  /\ \/ consumer.at \in {"push", "decide", "finish"} /\ client = "gone"
     \/ consumer.at = "finish" /\ Unasked
  /\ Wait("ended")
  /\ CancelActive
  /\ slot' = "free"
  /\ UNCHANGED <<queue, slow, struck, sent, client, inbox, messages, ending>>

\* Nobody refers to the run's generator any more: the event loop closes it.
Collect ==
  /\ producer = "done" /\ consumer.at \in {"idle", "ended"} /\ Suspended
  /\ Close
  /\ UNCHANGED <<record, rest, emitted, queueVars, clientVars, socketVars>>

SocketInit ==
  /\ consumer = [at |-> "start", item |-> 0, aborted |-> FALSE, detached |-> FALSE]
  /\ inbox = <<>> /\ messages = 0 /\ requested = FALSE /\ ending = "none"

SocketNext ==
  \/ Started \/ TakeEvent \/ Push \/ FinishRun \/ TakeMessage \/ Decided \/ IdleMessage
  \/ Leave \/ Fail \/ Collect
ReceiveNext == (\E kind \in Messages : ReceiveMessage(kind)) \/ ReceiveOversize
=============================================================================
