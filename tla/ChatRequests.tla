---------------------------- MODULE ChatRequests ----------------------------
(***************************************************************************)
(* POST /v1/chat/completions and POST /acp/runs in one process: admission  *)
(* (drain check, idempotency key, run slot), the run a request drives, how *)
(* its record, its turn and its key are written, and the graceful shutdown *)
(* that cancels what is in flight before the storage closes.  A request is *)
(* one asyncio task, and each await in it is the boundary of an action. A  *)
(* streamed run is driven by a producer task of its own, which the         *)
(* request's generator cancels and waits for when it ends.                 *)
(***************************************************************************)
EXTENDS Naturals, FiniteSets

CONSTANTS
  Request,      \* the requests, each handled by one task
  Key,          \* idempotency keys, already scoped to principal and session
  NoKey,        \* the request has no idempotency key
  MaxLimit,     \* bound on server.maxConcurrentRequests
  MaxRestarts   \* bound on process crashes

ASSUME ChatAssumption ==
  /\ IsFiniteSet(Request)
  /\ NoKey \notin Key
  /\ MaxLimit \in Nat \ {0}
  /\ MaxRestarts \in Nat

VARIABLES
  \* the storage backend: run records, committed turns, idempotency records
  run, turn, idem, owner,
  \* the process: shutdown phase, slot gate, run registry
  phase, limit, inFlight, registry, caught, restarts,
  \* the requests
  pc, key, mode, verdict, result, reply,
  \* requests whose task was cancelled by the shutdown and has not noticed yet
  doomed,
  \* streams whose task ended while their generator waited at a yield for the client
  detached

storage == <<run, turn, idem, owner>>
process == <<phase, limit, inFlight, registry, caught, detached, restarts>>
request == <<key, mode, verdict, result, reply>>
vars == <<storage, process, pc, request, doomed>>

Phase   == {"serving", "grace", "cancelling", "closed"}
Stage   == {"idle", "body", "lookup", "slot", "create", "admit", "work", "commit", "store",
            "leave", "finish", "release", "done"}
Terminal  == {"succeeded", "failed", "cancelled"}
RunStatus == {"absent", "created", "awaiting_approval"} \cup Terminal
\* How a run ended for its request; "lost" is cancelled, with no last write in storage, and
\* "struck" paused, with the deadline cutting off the event that says so.
Result  == {"none", "answer", "error", "paused", "struck", "silent", "cancelled", "lost"}
Reply   == {"none", "refused", "replayed", "conflict", "overloaded", "storage_error",
            "answered", "streamed", "accepted", "error"}

\* Stages in which a request holds a run slot.
Holding == {"create", "admit", "work", "commit", "store", "leave"}

\* Stages in which a run is being driven and can be cancelled.
Driving == {"admit", "work", "commit", "store"}

Init ==
  /\ run = [r \in Request |-> "absent"]
  /\ turn = [r \in Request |-> FALSE]
  /\ idem = [k \in Key |-> "absent"]
  /\ owner = [k \in Key |-> {}]
  /\ phase = "serving"
  /\ limit = MaxLimit
  /\ inFlight = 0
  /\ registry = {} /\ caught = {} /\ doomed = {} /\ detached = {}
  /\ restarts = 0
  /\ pc = [r \in Request |-> "idle"]
  /\ key = [r \in Request |-> NoKey]
  /\ mode = [r \in Request |-> "json"]
  /\ verdict = [r \in Request |-> "failed"]
  /\ result = [r \in Request |-> "none"]
  /\ reply = [r \in Request |-> "none"]

-----------------------------------------------------------------------------
(* Steps of a request                                                      *)

\* The task of r goes on from one await to the next; a cancelled one does not.
At(r, stage) == pc[r] = stage /\ r \notin doomed
Goto(r, stage) == pc' = [pc EXCEPT ![r] = stage]

Answer(r, answer) ==
  /\ Goto(r, "done")
  /\ reply' = [reply EXCEPT ![r] = answer]

\* Mutant: the slot is kept when the run ends.
KeepSlot == UNCHANGED inFlight

\* RunSlotGate.release.
ReleaseSlot == inFlight' = IF inFlight = 0 THEN 0 ELSE inFlight - 1

Arrive(r) ==
  /\ pc[r] = "idle"
  /\ IF phase = "serving" THEN Goto(r, "body") /\ UNCHANGED reply
     ELSE Answer(r, "refused")
  /\ UNCHANGED <<storage, process, key, mode, verdict, result, doomed>>

\* The body is read, however long the client takes to send it, and validated; it has the
\* key, and says whether the answer is streamed.
ReadBody(r) ==
  /\ At(r, "body")
  /\ \/ Answer(r, "refused") /\ UNCHANGED <<key, mode>>
     \/ \E k \in Key \cup {NoKey}, m \in {"json", "sse"} :
          /\ key' = [key EXCEPT ![r] = k]
          /\ mode' = [mode EXCEPT ![r] = m]
          /\ Goto(r, IF k = NoKey THEN "slot" ELSE "lookup")
          /\ UNCHANGED reply
  /\ UNCHANGED <<storage, process, verdict, result, doomed>>

LookUpKey(r) ==
  /\ At(r, "lookup")
  /\ \/ phase = "closed" /\ Answer(r, "storage_error")
     \/ /\ phase # "closed" /\ idem[key[r]] = "completed"
        /\ Answer(r, "replayed")
     \/ /\ phase # "closed" /\ idem[key[r]] = "in_progress"
        /\ Answer(r, "conflict")
     \/ /\ phase # "closed" /\ idem[key[r]] = "absent"
        /\ Goto(r, "slot") /\ UNCHANGED reply
  /\ UNCHANGED <<storage, process, key, mode, verdict, result, doomed>>

\* RunSlotGate.try_acquire; without a key the task is registered in the same step.
AcquireSlot(r) ==
  /\ At(r, "slot")
  /\ \/ /\ inFlight >= limit
        /\ Answer(r, "overloaded")
        /\ UNCHANGED <<inFlight, registry>>
     \/ /\ inFlight < limit
        /\ inFlight' = inFlight + 1
        /\ registry' = IF key[r] = NoKey THEN registry \cup {r} ELSE registry
        /\ Goto(r, IF key[r] = NoKey THEN "admit" ELSE "create")
        /\ UNCHANGED reply
  /\ UNCHANGED <<storage, phase, limit, caught, detached, restarts, key, mode, verdict, result,
                 doomed>>

\* create_idempotency leaves an existing record as it is, and does not say so.
CreateKey(r) ==
  /\ At(r, "create") /\ phase # "closed"
  /\ idem' = [idem EXCEPT ![key[r]] = IF @ = "absent" THEN "in_progress" ELSE @]
  /\ registry' = registry \cup {r}
  /\ Goto(r, "admit")
  /\ UNCHANGED <<run, turn, owner, phase, limit, inFlight, caught, detached, restarts, request,
                 doomed>>

\* Capacity reached, or storage unavailable: the slot goes back before the answer.
CreateKeyFails(r) ==
  /\ At(r, "create")
  /\ ReleaseSlot
  /\ Answer(r, "storage_error")
  /\ UNCHANGED <<storage, phase, limit, registry, caught, detached, restarts, key, mode, verdict,
                 result, doomed>>

-----------------------------------------------------------------------------
(* The run: AgentRunner.execute                                            *)

\* update_run does nothing when it finds no record, and raises on a closed storage.
UpdateRun(r, s) ==
  run' = [run EXCEPT ![r] = IF @ = "absent" \/ phase = "closed" THEN @ ELSE s]

Admit(r) ==
  /\ At(r, "admit") /\ phase # "closed"
  /\ run' = [run EXCEPT ![r] = "created"]
  /\ Goto(r, "work")
  /\ UNCHANGED <<turn, idem, owner, process, request, doomed>>

\* No budget, no capacity, or no storage: error events, and no run record is found.
AdmitFails(r) ==
  /\ At(r, "admit")
  /\ result' = [result EXCEPT ![r] = "error"]
  /\ Goto(r, "leave")
  /\ UNCHANGED <<storage, process, key, mode, verdict, reply, doomed>>

\* The model and its tools are done; the state machine says succeeded from here on.
Succeed(r) ==
  /\ At(r, "work")
  /\ verdict' = [verdict EXCEPT ![r] = "succeeded"]
  /\ result' = [result EXCEPT ![r] = "answer"]
  /\ Goto(r, "commit")
  /\ UNCHANGED <<storage, process, key, mode, reply, doomed>>

\* A provider error, an exhausted budget, an exception or the deadline; of a stream also
\* the deadline inside the put of an event, whose end marker follows as after any other.
Fail(r) ==
  /\ At(r, "work")
  /\ verdict' = [verdict EXCEPT ![r] = "failed"]
  /\ result' = [result EXCEPT ![r] = "error"]
  /\ Goto(r, "store")
  /\ UNCHANGED <<storage, process, key, mode, reply, doomed>>

\* A gated tool call pauses the run; a failed update of the record is suppressed. In a
\* stream the deadline may cut off the put of the event that tells the client.
PauseRun(r) ==
  /\ At(r, "work")
  /\ UpdateRun(r, "awaiting_approval") \/ UNCHANGED run
  /\ \E end \in {"paused"} \cup (IF mode[r] = "sse" THEN {"struck"} ELSE {}) :
       result' = [result EXCEPT ![r] = end]
  /\ Goto(r, "leave")
  /\ UNCHANGED <<turn, idem, owner, process, key, mode, verdict, reply, doomed>>

\* Retrieval is required and unavailable: an error event and no terminal record.
RagUnavailable(r) ==
  /\ At(r, "work")
  /\ result' = [result EXCEPT ![r] = "silent"]
  /\ Goto(r, "leave")
  /\ UNCHANGED <<storage, process, key, mode, verdict, reply, doomed>>

CommitTurn(r) ==
  /\ At(r, "commit") /\ phase # "closed"
  /\ turn' = [turn EXCEPT ![r] = TRUE]
  /\ Goto(r, "store")
  /\ UNCHANGED <<run, idem, owner, process, request, doomed>>

\* Another run moved the session's revision, or storage is gone; its answer may be
\* all that was lost.
CommitConflicts(r) ==
  /\ At(r, "commit")
  /\ \/ UNCHANGED turn
     \/ phase # "closed" /\ turn' = [turn EXCEPT ![r] = TRUE]
  /\ result' = [result EXCEPT ![r] = "error"]
  /\ Goto(r, "store")
  /\ UNCHANGED <<run, idem, owner, process, key, mode, verdict, reply, doomed>>

\* The run's last write; one whose session is not known finds no record.
WriteVerdict(r) == IF result[r] = "lost" THEN UNCHANGED run ELSE UpdateRun(r, verdict[r])

StoreVerdict(r) ==
  /\ At(r, "store")
  /\ WriteVerdict(r)
  /\ result' = [result EXCEPT ![r] =
                  IF phase = "closed" /\ @ = "answer" THEN "error" ELSE @]
  /\ Goto(r, "leave")
  /\ UNCHANGED <<turn, idem, owner, process, key, mode, verdict, reply, doomed>>

\* Mutant: a cancelled run is marked cancelled whatever it had become.
MarkCancelledAlways(r, v) == v

\* _mark_cancelled leaves a terminal state alone.
MarkCancelled(r, v) == IF pc[r] = "commit" THEN verdict[r] ELSE v

\* The state a run has when it is interrupted: cancelled, still waiting when it had
\* just paused, failed when a slow stream closed its generator at a yield.
Interrupted(r) ==
  {"cancelled"} \cup (IF pc[r] # "work" THEN {}
                      ELSE {"awaiting_approval"} \cup (IF mode[r] = "sse" THEN {"failed"} ELSE {}))

\* CancelledError or GeneratorExit in the run.  The storage call it interrupts may have
\* been carried out; an admission's then never told the run the session it minted.
InterruptRun(r) ==
  /\ pc[r] \in {"admit", "work", "commit"}
  /\ \E v \in Interrupted(r) : verdict' = [verdict EXCEPT ![r] = MarkCancelled(r, v)]
  /\ \/ /\ result' = [result EXCEPT ![r] = "cancelled"]
        /\ UNCHANGED <<run, turn>>
     \/ /\ pc[r] = "admit" /\ phase # "closed"
        /\ run' = [run EXCEPT ![r] = "created"]
        /\ \E end \in {"cancelled", "lost"} : result' = [result EXCEPT ![r] = end]
        /\ UNCHANGED turn
     \/ /\ pc[r] = "commit" /\ phase # "closed"
        /\ turn' = [turn EXCEPT ![r] = TRUE]
        /\ result' = [result EXCEPT ![r] = "cancelled"]
        /\ UNCHANGED run
  /\ Goto(r, "store")

\* A stream's consumer ends on it; a request without one goes on to its error answer.
Swallowed(r, end) ==
  result' = IF mode[r] = "sse" THEN [result EXCEPT ![r] = end] ELSE result

\* The same while the verdict is being stored: in the body of execute it is stored
\* again; in one of its handlers the interruption is swallowed and the write may be lost.
InterruptStore(r) ==
  /\ pc[r] = "store"
  /\ \/ /\ result[r] = "answer" \/ (result[r] = "error" /\ verdict[r] = "failed")
        /\ result' = [result EXCEPT ![r] = "cancelled"]
        /\ UNCHANGED <<run, pc>>
     \/ /\ result[r] # "answer"
        /\ \/ WriteVerdict(r) /\ Swallowed(r, IF result[r] = "lost" THEN "lost" ELSE "cancelled")
           \/ UNCHANGED run /\ Swallowed(r, "lost")
        /\ Goto(r, "leave")
  /\ UNCHANGED <<turn, verdict>>

\* A stream whose run has ended is interrupted while the client takes its last events.
InterruptTail(r) ==
  /\ pc[r] = "leave" /\ mode[r] = "sse"
  /\ result' = [result EXCEPT ![r] = IF run[r] = "created" THEN "lost" ELSE "cancelled"]
  /\ UNCHANGED <<run, turn, verdict, pc>>

Interrupt(r) == InterruptRun(r) \/ InterruptStore(r) \/ InterruptTail(r)

\* The task of a stream ends while its generator waits at a yield for the client: nothing
\* of _stream's finally is done, and the producer goes on with the run.
Detach(r) ==
  /\ mode[r] = "sse" /\ pc[r] \in {"work", "commit", "store", "leave"}
  /\ detached' = detached \cup {r}
  /\ UNCHANGED <<run, turn, verdict, result, pc>>

\* The client of a stream left, or its queue stayed full too long.
Disconnect(r) ==
  /\ mode[r] = "sse" /\ r \notin doomed \cup detached
  /\ result[r] \notin {"cancelled", "lost"}
  /\ (Interrupt(r) /\ UNCHANGED detached) \/ Detach(r)
  /\ UNCHANGED <<idem, owner, phase, limit, inFlight, registry, caught, restarts, key, mode,
                 reply, doomed>>

\* The event loop closes the generator of a detached stream, in a task nobody waits for:
\* now the producer is cancelled and the finally goes on.
Finalize(r) ==
  /\ r \in detached /\ result[r] \notin {"cancelled", "lost"}
  /\ Interrupt(r)
  /\ UNCHANGED <<idem, owner, process, key, mode, reply, doomed>>

-----------------------------------------------------------------------------
(* The end of a request                                                    *)

\* Answer of a non-streaming request that stores nothing under its key.
Unstored(r) ==
  IF result[r] = "paused" THEN "accepted"
  ELSE IF result[r] \in {"answer", "error"} THEN "answered" ELSE "error"

\* The finally blocks: slot and registration go back, then the key is dealt with.
LeaveJson(r) ==
  /\ At(r, "leave") /\ mode[r] = "json"
  /\ ReleaseSlot
  /\ registry' = registry \ {r}
  /\ IF key[r] # NoKey /\ result[r] \in {"answer", "error"}
     THEN Goto(r, "finish") /\ UNCHANGED reply
     ELSE Answer(r, Unstored(r))
  /\ UNCHANGED <<storage, phase, limit, caught, detached, restarts, key, mode, verdict, result,
                 doomed>>

\* Mutant: every stream that ends counts as completed.
AnyCompleted(r) == TRUE

\* A stream is completed when its end marker arrived before the client went; a paused
\* one returns early, and a full queue can lose the marker.
Completed(r) == result[r] \notin {"paused", "cancelled", "lost"}

LeaveStream(r) ==
  /\ At(r, "leave") /\ mode[r] = "sse"
  /\ (r \in detached) => result[r] \in {"cancelled", "lost"}
  /\ ReleaseSlot
  /\ registry' = registry \ {r}
  /\ IF key[r] = NoKey THEN Answer(r, "streamed")
     ELSE /\ \/ Completed(r) /\ Goto(r, "finish")
             \/ Goto(r, "release")
          /\ UNCHANGED reply
  /\ UNCHANGED <<storage, phase, limit, caught, detached, restarts, key, mode, verdict, result,
                 doomed>>

\* finish_idempotency overwrites the record if there is one, whoever created it.
FinishKey(r) ==
  /\ At(r, "finish")
  /\ IF phase # "closed" /\ idem[key[r]] # "absent"
     THEN /\ idem' = [idem EXCEPT ![key[r]] = "completed"]
          /\ owner' = [owner EXCEPT ![key[r]] = {r}]
     ELSE UNCHANGED <<idem, owner>>
  /\ Answer(r, IF mode[r] = "sse" THEN "streamed"
               ELSE IF phase = "closed" THEN "error" ELSE "answered")
  /\ UNCHANGED <<run, turn, process, key, mode, verdict, result, doomed>>

\* expire_idempotency deletes the record, whoever created it; its failure is suppressed.
ReleaseKey(r) ==
  /\ At(r, "release")
  /\ \/ /\ phase # "closed"
        /\ idem' = [idem EXCEPT ![key[r]] = "absent"]
        /\ owner' = [owner EXCEPT ![key[r]] = {}]
     \/ UNCHANGED <<idem, owner>>
  /\ Answer(r, "streamed")
  /\ UNCHANGED <<run, turn, process, key, mode, verdict, result, doomed>>

Step(r) ==
  \/ ReadBody(r) \/ LookUpKey(r) \/ AcquireSlot(r) \/ CreateKey(r) \/ CreateKeyFails(r)
  \/ Admit(r) \/ AdmitFails(r) \/ Succeed(r) \/ Fail(r) \/ PauseRun(r) \/ RagUnavailable(r)
  \/ CommitTurn(r) \/ CommitConflicts(r) \/ StoreVerdict(r)
  \/ LeaveJson(r) \/ LeaveStream(r) \/ FinishKey(r) \/ ReleaseKey(r)

-----------------------------------------------------------------------------
(* Shutdown, restart, reload and retention                                 *)

\* SIGTERM: readiness fails and new requests are refused from here on.
Signal ==
  /\ phase = "serving"
  /\ phase' = "grace"
  /\ UNCHANGED <<storage, limit, inFlight, registry, caught, detached, restarts, pc, request, doomed>>

\* Mutant: the tasks are waited for and not cancelled.
GraceEndsWaiting ==
  /\ phase = "grace"
  /\ phase' = "cancelling"
  /\ caught' = registry \ detached
  /\ UNCHANGED <<storage, limit, inFlight, registry, detached, restarts, pc, request, doomed>>

\* The grace is over, early when nothing is in flight: the registered tasks that have not
\* ended are cancelled, and only these are waited for.
GraceEnds ==
  /\ phase = "grace"
  /\ phase' = "cancelling"
  /\ caught' = registry \ detached /\ doomed' = registry \ detached
  /\ UNCHANGED <<storage, limit, inFlight, registry, detached, restarts, pc, request>>

\* A cancelled task takes notice at its next await, in the run, the generator or the send
\* of what the generator yielded.
Deliver(r) ==
  /\ r \in doomed
  /\ doomed' = doomed \ {r}
  /\ \/ Interrupt(r) /\ UNCHANGED detached
     \/ Detach(r)
     \/ /\ pc[r] \notin Driving /\ ~(pc[r] = "leave" /\ mode[r] = "sse")
        /\ UNCHANGED <<run, turn, verdict, result, pc, detached>>
  /\ UNCHANGED <<idem, owner, phase, limit, inFlight, registry, caught, restarts, key, mode,
                 reply>>

\* Mutant: the storage is closed without waiting for the cancelled tasks.
CloseAtOnce ==
  /\ phase = "cancelling"
  /\ phase' = "closed"
  /\ UNCHANGED <<storage, limit, inFlight, registry, caught, detached, restarts, pc, request, doomed>>

\* asyncio.gather returned, and the components are closed. The task of a detached stream has
\* ended, its run may go on.
CloseStorage ==
  /\ phase = "cancelling" /\ doomed = {}
  /\ \A r \in caught : pc[r] = "done" \/ r \in detached
  /\ phase' = "closed"
  /\ UNCHANGED <<storage, limit, inFlight, registry, caught, detached, restarts, pc, request, doomed>>

\* A second signal, a crash, or the end of the process; the next one serves again. A process
\* that had no request yet is not counted.
Restart ==
  /\ restarts < MaxRestarts
  /\ restarts' = IF \A r \in Request : pc[r] = "idle" THEN restarts ELSE restarts + 1
  /\ phase' = "serving" /\ inFlight' = 0
  /\ registry' = {} /\ caught' = {} /\ doomed' = {} /\ detached' = {}
  /\ pc' = [r \in Request |-> IF pc[r] = "idle" THEN "idle" ELSE "done"]
  /\ UNCHANGED <<storage, limit, request>>

\* Mutant: the new limit is taken as it is.
SetLimitUnchecked ==
  /\ phase = "serving"
  /\ limit' \in 0..MaxLimit
  /\ UNCHANGED <<storage, phase, inFlight, registry, caught, detached, restarts, pc, request, doomed>>

\* A live reload of server.maxConcurrentRequests moves the ceiling only.
SetLimit ==
  /\ phase = "serving"
  /\ limit' \in 1..MaxLimit
  /\ UNCHANGED <<storage, phase, inFlight, registry, caught, detached, restarts, pc, request, doomed>>

\* The retention sweep; its TTLs are longer than a request, so it finds ended ones.
SweepRun(r) ==
  /\ phase \in {"serving", "grace"} /\ pc[r] = "done"
  /\ run[r] \in {"created", "awaiting_approval"}
  /\ run' = [run EXCEPT ![r] = "failed"]
  /\ UNCHANGED <<turn, idem, owner, process, pc, request, doomed>>

SweepKey(k) ==
  /\ phase \in {"serving", "grace"} /\ idem[k] # "absent"
  /\ \A r \in Request : key[r] = k => pc[r] \in {"idle", "done"}
  /\ idem' = [idem EXCEPT ![k] = "absent"]
  /\ owner' = [owner EXCEPT ![k] = {}]
  /\ UNCHANGED <<run, turn, process, pc, request, doomed>>

Next ==
  \/ \E r \in Request : Arrive(r) \/ Step(r) \/ Disconnect(r) \/ Deliver(r)
                        \/ Finalize(r) \/ SweepRun(r)
  \/ \E k \in Key : SweepKey(k)
  \/ Signal \/ GraceEnds \/ CloseStorage \/ Restart \/ SetLimit

Spec == Init /\ [][Next]_vars

\* Steps that need nothing from a client: a cancellation is delivered, and until then the
\* task does not move.  A live stream goes at its client's pace.
OwnStep(r) ==
  \/ Deliver(r)
  \/ /\ pc[r] # "body"
     /\ ~(pc[r] = "leave" /\ mode[r] = "sse" /\ result[r] \notin {"cancelled", "lost"})
     /\ Step(r)

Fairness ==
  /\ \A r \in Request : WF_vars(OwnStep(r))
  /\ WF_vars(GraceEnds) /\ WF_vars(CloseStorage)

FairSpec == Spec /\ Fairness

-----------------------------------------------------------------------------
(* Properties                                                              *)

\* Every variable keeps to the states the code can put it in, and only tasks that a
\* shutdown caught have a cancellation under way (RunSlotGate.set_limit, lifecycle.py).
TypeOK ==
  /\ run \in [Request -> RunStatus] /\ turn \in [Request -> BOOLEAN]
  /\ idem \in [Key -> {"absent", "in_progress", "completed"}]
  /\ owner \in [Key -> SUBSET Request]
  /\ phase \in Phase /\ limit \in 1..MaxLimit /\ inFlight \in Nat
  /\ registry \subseteq Request /\ caught \subseteq Request /\ doomed \subseteq caught
  /\ detached \subseteq Request \ doomed
  /\ restarts \in 0..MaxRestarts
  /\ pc \in [Request -> Stage] /\ key \in [Request -> Key \cup {NoKey}]
  /\ mode \in [Request -> {"json", "sse"}]
  /\ verdict \in [Request -> Terminal \cup {"awaiting_approval"}]
  /\ result \in [Request -> Result] /\ reply \in [Request -> Reply]

\* The slot gate counts exactly the requests that are between their acquisition and
\* their release, on every path out of a request: an answer, a failed key, a pause, an
\* error, a disconnect, a cancellation.  A leak would lower the cap for good
\* (RunSlotGate; R-30 in chat.py:202-205).
SlotsAccounted == inFlight = Cardinality({r \in Request : pc[r] \in Holding})

\* A key that replays does so for a request that had this key and ended with an
\* outcome: never for a run that was cancelled or whose client left, nor for one that is
\* paused, unless the deadline cut off the event that says so (chat.py:705-720, API-06a).
KeyHoldsAnOutcome ==
  \A k \in Key :
    /\ (idem[k] = "completed") <=> (owner[k] # {})
    /\ \A r \in owner[k] : /\ key[r] = k
                           /\ result[r] \in {"answer", "error", "silent", "struck"}
                           /\ run[r] # "cancelled"
                           /\ (run[r] = "awaiting_approval") => (result[r] = "struck")

\* A turn in the session's history is never that of a run recorded as cancelled, nor
\* of one that its own request recorded as failed: only the sweep can do that, once
\* the request is over and its last write was lost (ENG-06; runner.py:233-246, 381-384).
CommittedTurnStands ==
  \A r \in Request : turn[r] => /\ run[r] # "cancelled"
                                /\ (run[r] = "failed") => (pc[r] = "done")

\* When the storage is closed, a run the shutdown cancelled is no longer in the state it
\* was admitted in, unless a write of its end was itself cut off or suppressed, or its
\* stream was waiting for the client: the task that is awaited then is not the one that
\* stores the end (lifecycle.py:142-145, 170-181).
CaughtRunsAreRecorded ==
  phase = "closed" =>
    \A r \in caught \ detached :
      (run[r] = "created") => (result[r] \in {"lost", "silent", "error", "paused", "struck"})

\* A shutdown that has begun ends with the storage closed, or the process dies first:
\* no client, however slow, holds it up.
ShutdownCompletes ==
  (phase \in {"grace", "cancelling"}) ~> (phase \notin {"grace", "cancelling"})
=============================================================================
