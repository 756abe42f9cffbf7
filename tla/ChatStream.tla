----------------------------- MODULE ChatStream -----------------------------
(***************************************************************************)
(* The event stream of one completion (src/app/protocol/routes/chat.py,    *)
(* _stream; the ACP route uses it too): the response generator takes the   *)
(* events of the run and writes them to the client, and tears the run down *)
(* however the stream ends.                                                *)
(***************************************************************************)
EXTENDS StreamedRun

CONSTANTS Keyed,         \* the request carries an idempotency key
          ShowTools      \* stream mode events or debug, not text

ASSUME StreamAssumption == Keyed \in BOOLEAN /\ ShowTools \in BOOLEAN

VARIABLES
  cause,      \* mid_stream_cancel
  completed,  \* stream_completed: the end marker was taken
  told,       \* the client was sent [DONE]
  key

answerVars == <<consumer, sent, cause, completed, told>>

Shown(kind) == kind \in {"text", "approval", "error"} \/ (kind = "tool" /\ ShowTools)

-----------------------------------------------------------------------------
(* The consumer. at: its next await; aborted: the response task was cancelled. *)

Move(at) == consumer' = [consumer EXCEPT !.at = at]
AfterItem == IF slow THEN Move("cancel") /\ cause' = "slow_consumer"
                     ELSE Move("poll") /\ UNCHANGED cause

Poll ==
  /\ consumer.at = "poll"
  /\ IF client = "gone" THEN Move("cancel") /\ cause' = "client_disconnected"
                        ELSE Move("get") /\ UNCHANGED cause
  /\ UNCHANGED <<runVars, queueVars, sent, completed, told, client, slot, key>>

\* A hidden event goes back to the poll without a look at slow_consumer; a result and the
\* end of the run are looked at after it.
Take(item) ==
  LET kind == emitted[item] IN
  IF Shown(kind) THEN consumer' = [consumer EXCEPT !.at = "send", !.item = item]
                      /\ UNCHANGED cause
  ELSE \/ AfterItem
       \/ kind = "tool" /\ Move("poll") /\ UNCHANGED cause

\* Mutant: the end marker completes the stream, whatever cut the producer.
GetCompletes ==
  /\ consumer.at = "get" /\ queue # <<>>
  /\ queue' = Tail(queue)
  /\ IF Head(queue) = Marker THEN Move("cancel") /\ completed' = TRUE /\ UNCHANGED cause
                             ELSE Take(Head(queue)) /\ UNCHANGED completed
  /\ UNCHANGED <<runVars, producer, slow, struck, sent, told, client, slot, key>>

Get ==
  /\ consumer.at = "get" /\ queue # <<>>
  /\ queue' = Tail(queue)
  /\ IF Head(queue) = Marker
     THEN /\ Move("cancel")
          /\ completed' = ~slow
          /\ cause' = IF slow THEN "slow_consumer" ELSE cause
     ELSE Take(Head(queue)) /\ UNCHANGED completed
  /\ UNCHANGED <<runVars, producer, slow, struck, sent, told, client, slot, key>>

\* Mutant: only the end marker ends a stream.
GetTimeoutAgain ==
  /\ consumer.at = "get" /\ queue = <<>>
  /\ Move("poll")
  /\ UNCHANGED <<runVars, queueVars, sent, cause, completed, told, client, slot, key>>

\* A second without an event.
GetTimeout ==
  /\ consumer.at = "get" /\ queue = <<>>
  /\ IF producer = "done"
     THEN Move("cancel") /\ cause' = IF slow THEN "slow_consumer" ELSE cause
     ELSE Move("poll") /\ UNCHANGED cause
  /\ UNCHANGED <<runVars, queueVars, sent, completed, told, client, slot, key>>

Send ==
  /\ consumer.at = "send" /\ client = "reading"
  /\ sent' = Append(sent, consumer.item)
  /\ IF emitted[consumer.item] = "approval" THEN Move("detach") /\ UNCHANGED cause
                                            ELSE AfterItem
  /\ UNCHANGED <<runVars, queueVars, completed, told, client, slot, key>>

\* After an approval the stream ends at once; the run is left paused.
Detach ==
  /\ consumer.at = "detach" /\ client = "reading"
  /\ told' = TRUE
  /\ consumer' = [consumer EXCEPT !.at = "cancel", !.detached = TRUE]
  /\ UNCHANGED <<runVars, queueVars, sent, cause, completed, client, slot, key>>

\* The server cancels the response of a client that has gone, wherever it waits.
Abort ==
  /\ client = "gone" /\ ~consumer.aborted
  /\ \/ /\ consumer.at \in {"get", "send", "detach"}
        /\ consumer' = [consumer EXCEPT !.at = "cancel", !.aborted = TRUE]
     \/ /\ consumer.at \in {"await", "close", "release", "expire"}
        /\ consumer' = [consumer EXCEPT !.aborted = TRUE]
     \/ /\ consumer.at \in {"finals", "finish"}
        /\ consumer' = [consumer EXCEPT !.at = "ended", !.aborted = TRUE]
  /\ UNCHANGED <<runVars, queueVars, sent, cause, completed, told, client, slot, key>>

\* The finally block: cancel the producer, wait for it, close the run's generator, give
\* the slot back, release the key of a stream that was not completed.
CancelProducer ==
  /\ consumer.at = "cancel"
  /\ Move("await")
  /\ Cancel
  /\ UNCHANGED <<queue, slow, struck, sent, cause, completed, told, client, slot, key>>

\* Mutant: the generator is closed without waiting for the producer.
AwaitNobody ==
  /\ consumer.at = "await"
  /\ Move("close")
  /\ UNCHANGED <<runVars, queueVars, sent, cause, completed, told, client, slot, key>>

AwaitProducer ==
  /\ consumer.at = "await" /\ producer = "done"
  /\ Move("close")
  /\ UNCHANGED <<runVars, queueVars, sent, cause, completed, told, client, slot, key>>

CloseRun ==
  /\ consumer.at = "close"
  /\ \/ run = "over" /\ Move("release") /\ UNCHANGED <<state, run>>
     \/ Suspended /\ Close /\ UNCHANGED consumer
  /\ UNCHANGED <<record, rest, emitted, queueVars, sent, cause, completed, told, client, slot, key>>

Release ==
  /\ consumer.at = "release"
  /\ slot' = "free"
  /\ Move("expire")
  /\ UNCHANGED <<runVars, queueVars, sent, cause, completed, told, client, key>>

Expire ==
  /\ consumer.at = "expire"
  /\ IF Keyed /\ ~completed
     THEN key' = "expired" \/ (consumer.aborted /\ UNCHANGED key)
     ELSE UNCHANGED key
  /\ Move(IF consumer.aborted \/ consumer.detached THEN "ended" ELSE "finals")
  /\ UNCHANGED <<runVars, queueVars, sent, cause, completed, told, client, slot>>

\* The error of a cut stream, the finish chunk, the usage and [DONE].
Finals ==
  /\ consumer.at = "finals" /\ client = "reading"
  /\ told' = TRUE
  /\ Move(IF Keyed /\ completed THEN "finish" ELSE "ended")
  /\ UNCHANGED <<runVars, queueVars, sent, cause, completed, client, slot, key>>

FinishKey ==
  /\ consumer.at = "finish"
  /\ key' = "completed"
  /\ Move("ended")
  /\ UNCHANGED <<runVars, queueVars, sent, cause, completed, told, client, slot>>

StreamInit ==
  /\ consumer = [at |-> "poll", item |-> 0, aborted |-> FALSE, detached |-> FALSE]
  /\ cause = "none" /\ completed = FALSE /\ told = FALSE
  /\ key = IF Keyed THEN "in_progress" ELSE "none"

StreamNext ==
  \/ Poll \/ Get \/ GetTimeout \/ Send \/ Detach \/ Abort
  \/ CancelProducer \/ AwaitProducer \/ CloseRun \/ Release \/ Expire \/ Finals \/ FinishKey
=============================================================================
