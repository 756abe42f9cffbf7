------------------------- MODULE ChatRequestsProofs -------------------------
(***************************************************************************)
(* Theorems about ChatRequests, for any finite set of requests, any keys   *)
(* and any bounds.                                                         *)
(***************************************************************************)
EXTENDS ChatRequests, TLAPS, FiniteSetTheorems

-----------------------------------------------------------------------------
(* Type correctness *)

LEMMA InitType == Init => TypeOK
BY ChatAssumption DEF ChatAssumption, Init, TypeOK, RunStatus, Terminal, Phase, Stage, Result, Reply

LEMMA AnswerType ==
  ASSUME TypeOK, NEW r \in Request, NEW answer \in Reply, Answer(r, answer)
  PROVE  pc' \in [Request -> Stage] /\ reply' \in [Request -> Reply]
BY DEF TypeOK, Answer, Goto, Stage

LEMMA GotoType ==
  ASSUME TypeOK, NEW r \in Request, NEW stage \in Stage, Goto(r, stage)
  PROVE  pc' \in [Request -> Stage]
BY DEF TypeOK, Goto

LEMMA ReleaseType ==
  ASSUME TypeOK, ReleaseSlot
  PROVE  inFlight' \in Nat
BY DEF TypeOK, ReleaseSlot

LEMMA WriteType ==
  ASSUME TypeOK, NEW r \in Request
  PROVE  /\ \A s \in RunStatus : UpdateRun(r, s) => run' \in [Request -> RunStatus]
         /\ WriteVerdict(r) => run' \in [Request -> RunStatus]
<1>1. ASSUME NEW s \in RunStatus, UpdateRun(r, s) PROVE run' \in [Request -> RunStatus]
  BY <1>1 DEF TypeOK, UpdateRun
<1>2. ASSUME WriteVerdict(r) PROVE run' \in [Request -> RunStatus]
  <2>1. verdict[r] \in RunStatus
    BY DEF TypeOK, RunStatus
  <2> QED BY <1>1, <1>2, <2>1 DEF WriteVerdict, TypeOK
<1> QED BY <1>1, <1>2

LEMMA InterruptType ==
  ASSUME TypeOK, NEW r \in Request, Interrupt(r)
  PROVE  /\ run' \in [Request -> RunStatus]
         /\ turn' \in [Request -> BOOLEAN]
         /\ verdict' \in [Request -> Terminal \cup {"awaiting_approval"}]
         /\ result' \in [Request -> Result]
         /\ pc' \in [Request -> Stage]
<1>1. CASE InterruptRun(r)
  <2>1. PICK v \in Interrupted(r) : verdict' = [verdict EXCEPT ![r] = MarkCancelled(r, v)]
    BY <1>1 DEF InterruptRun
  <2>2. MarkCancelled(r, v) \in Terminal \cup {"awaiting_approval"}
    BY DEF MarkCancelled, Interrupted, Terminal, TypeOK
  <2>3. /\ run' \in [Request -> RunStatus]
        /\ turn' \in [Request -> BOOLEAN]
        /\ result' \in [Request -> Result]
        /\ pc' \in [Request -> Stage]
    <3>1. "created" \in RunStatus /\ {"cancelled", "lost"} \subseteq Result /\ "store" \in Stage
      BY DEF RunStatus, Result, Stage
    <3>2. pc' \in [Request -> Stage] /\ turn' \in [Request -> BOOLEAN]
      BY <1>1, <3>1 DEF InterruptRun, Goto, TypeOK
    <3>3. result' \in [Request -> Result]
      BY <1>1, <3>1 DEF InterruptRun, TypeOK
    <3>4. run' \in [Request -> RunStatus]
      BY <1>1, <3>1 DEF InterruptRun, TypeOK
    <3> QED BY <3>2, <3>3, <3>4
  <2> QED BY <2>1, <2>2, <2>3 DEF TypeOK
<1>2. CASE InterruptStore(r)
  <2>1. run' \in [Request -> RunStatus]
    BY <1>2, WriteType DEF InterruptStore, TypeOK
  <2> QED BY <1>2, <2>1 DEF InterruptStore, Swallowed, Goto, TypeOK, Result, Stage
<1>3. CASE InterruptTail(r)
  BY <1>3 DEF InterruptTail, TypeOK, Result
<1> QED BY <1>1, <1>2, <1>3 DEF Interrupt

LEMMA StepType ==
  ASSUME TypeOK, NEW r \in Request, Step(r)
  PROVE  TypeOK'
<1> USE DEF storage, process, request
<1>0. /\ Stage = {"idle", "body", "lookup", "slot", "create", "admit", "work", "commit",
                  "store", "leave", "finish", "release", "done"}
      /\ Result = {"none", "answer", "error", "paused", "struck", "silent", "cancelled", "lost"}
      /\ Reply = {"none", "refused", "replayed", "conflict", "overloaded", "storage_error",
                  "answered", "streamed", "accepted", "error"}
      /\ RunStatus = {"absent", "created", "awaiting_approval", "succeeded", "failed", "cancelled"}
  BY DEF Stage, Result, Reply, RunStatus, Terminal
<1>1. CASE ReadBody(r)
  BY <1>0, <1>1 DEF ReadBody, Answer, Goto, TypeOK
<1>2. CASE LookUpKey(r)
  BY <1>0, <1>2 DEF LookUpKey, Answer, Goto, TypeOK
<1>3. CASE AcquireSlot(r)
  BY <1>0, <1>3 DEF AcquireSlot, Answer, Goto, TypeOK
<1>4. CASE CreateKey(r)
  BY <1>0, <1>4 DEF CreateKey, Goto, TypeOK
<1>5. CASE CreateKeyFails(r)
  BY <1>0, <1>5, ReleaseType DEF CreateKeyFails, Answer, Goto, TypeOK
<1>6. CASE Admit(r)
  BY <1>0, <1>6 DEF Admit, Goto, TypeOK
<1>7. CASE AdmitFails(r)
  BY <1>0, <1>7 DEF AdmitFails, Goto, TypeOK
<1>8. CASE Succeed(r)
  BY <1>0, <1>8 DEF Succeed, Goto, TypeOK, Terminal
<1>9. CASE Fail(r)
  BY <1>0, <1>9 DEF Fail, Goto, TypeOK, Terminal
<1>10. CASE PauseRun(r)
  <2>1. run' \in [Request -> RunStatus]
    BY <1>0, <1>10, WriteType DEF PauseRun, TypeOK
  <2>2. result' \in [Request -> Result]
    <3>1. PICK end \in {"paused"} \cup (IF mode[r] = "sse" THEN {"struck"} ELSE {}) :
            result' = [result EXCEPT ![r] = end]
      BY <1>10 DEF PauseRun
    <3>2. end \in Result
      BY <1>0, <3>1
    <3> QED BY <3>1, <3>2 DEF TypeOK
  <2>3. pc' \in [Request -> Stage]
    BY <1>0, <1>10 DEF PauseRun, Goto, TypeOK
  <2>4. UNCHANGED <<turn, idem, owner, process, key, mode, verdict, reply, doomed>>
    BY <1>10 DEF PauseRun
  <2> QED BY <2>1, <2>2, <2>3, <2>4 DEF TypeOK
<1>11. CASE RagUnavailable(r)
  BY <1>0, <1>11 DEF RagUnavailable, Goto, TypeOK
<1>12. CASE CommitTurn(r)
  BY <1>0, <1>12 DEF CommitTurn, Goto, TypeOK
<1>13. CASE CommitConflicts(r)
  BY <1>0, <1>13 DEF CommitConflicts, Goto, TypeOK
<1>14. CASE StoreVerdict(r)
  <2>1. run' \in [Request -> RunStatus]
    BY <1>14, WriteType DEF StoreVerdict
  <2> QED BY <1>0, <1>14, <2>1 DEF StoreVerdict, Goto, TypeOK
<1>15. CASE LeaveJson(r)
  BY <1>0, <1>15, ReleaseType DEF LeaveJson, Unstored, Answer, Goto, TypeOK
<1>16. CASE LeaveStream(r)
  BY <1>0, <1>16, ReleaseType DEF LeaveStream, Answer, Goto, TypeOK
<1>17. CASE FinishKey(r)
  BY <1>0, <1>17 DEF FinishKey, Answer, Goto, TypeOK
<1>18. CASE ReleaseKey(r)
  BY <1>0, <1>18 DEF ReleaseKey, Answer, Goto, TypeOK
<1> QED
  BY <1>1, <1>2, <1>3, <1>4, <1>5, <1>6, <1>7, <1>8, <1>9, <1>10, <1>11, <1>12, <1>13,
     <1>14, <1>15, <1>16, <1>17, <1>18 DEF Step

\* A disconnect, a cancellation and the end of a generator interrupt the run, or nothing of it.
LEMMA CutOffOrNot ==
  ASSUME NEW r \in Request, Disconnect(r) \/ Deliver(r) \/ Finalize(r)
  PROVE  Interrupt(r) \/ UNCHANGED <<run, turn, verdict, result, pc>>
BY DEF Disconnect, Deliver, Finalize, Detach

LEMMA NextType == TypeOK /\ [Next]_vars => TypeOK'
<1> SUFFICES ASSUME TypeOK, [Next]_vars PROVE TypeOK'
  OBVIOUS
<1> USE DEF storage, process, request
<1>1. ASSUME NEW r \in Request, Arrive(r) PROVE TypeOK'
  BY <1>1 DEF Arrive, Answer, Goto, TypeOK, Stage, Reply
<1>2. ASSUME NEW r \in Request, Step(r) PROVE TypeOK'
  BY <1>2, StepType
<1>3. ASSUME NEW r \in Request, Disconnect(r) \/ Deliver(r) \/ Finalize(r) PROVE TypeOK'
  <2>1. Interrupt(r) \/ UNCHANGED <<run, turn, verdict, result, pc>>
    BY <1>3, CutOffOrNot
  <2>2. /\ run' \in [Request -> RunStatus]
        /\ turn' \in [Request -> BOOLEAN]
        /\ verdict' \in [Request -> Terminal \cup {"awaiting_approval"}]
        /\ result' \in [Request -> Result]
        /\ pc' \in [Request -> Stage]
    BY <2>1, InterruptType DEF TypeOK
  <2>3. doomed' \subseteq caught /\ detached' \subseteq Request \ doomed'
    BY <1>3 DEF Disconnect, Deliver, Finalize, Detach, TypeOK
  <2>4. UNCHANGED <<idem, owner, phase, limit, inFlight, registry, caught, restarts, key, mode, reply>>
    BY <1>3 DEF Disconnect, Deliver, Finalize
  <2> QED BY <2>2, <2>3, <2>4 DEF TypeOK
<1>5. ASSUME NEW r \in Request, SweepRun(r) PROVE TypeOK'
  BY <1>5 DEF SweepRun, TypeOK, RunStatus, Terminal
<1>6. ASSUME NEW k \in Key, SweepKey(k) PROVE TypeOK'
  BY <1>6 DEF SweepKey, TypeOK
<1>7. CASE Signal
  BY <1>7 DEF Signal, TypeOK, Phase
<1>8. CASE GraceEnds
  BY <1>8 DEF GraceEnds, TypeOK, Phase
<1>9. CASE CloseStorage
  BY <1>9 DEF CloseStorage, TypeOK, Phase
<1>10. CASE Restart
  BY <1>10, ChatAssumption DEF ChatAssumption, Restart, TypeOK, Phase, Stage
<1>11. CASE SetLimit
  BY <1>11 DEF SetLimit, TypeOK
<1>12. CASE UNCHANGED vars
  BY <1>12 DEF vars, TypeOK
<1> QED
  BY <1>1, <1>2, <1>3, <1>5, <1>6, <1>7, <1>8, <1>9, <1>10, <1>11, <1>12 DEF Next

\* The type invariant holds of every behaviour.
THEOREM TypeCorrect == Spec => []TypeOK
BY InitType, NextType, PTL DEF Spec

-----------------------------------------------------------------------------
(* The slot gate                                                           *)

Holders == {r \in Request : pc[r] \in Holding}

\* A step that leaves every request on its side of the gate moves no slot.
LEMMA SlotsKept ==
  ASSUME SlotsAccounted, UNCHANGED inFlight,
         \A r \in Request : (pc'[r] \in Holding) <=> (pc[r] \in Holding)
  PROVE  SlotsAccounted'
<1>1. Holders' = Holders
  BY DEF Holders
<1> QED BY <1>1 DEF SlotsAccounted, Holders

LEMMA SlotTaken ==
  ASSUME TypeOK, SlotsAccounted, NEW r \in Request, NEW stage \in Holding,
         pc[r] \notin Holding, Goto(r, stage), inFlight' = inFlight + 1
  PROVE  SlotsAccounted'
<1>1. IsFiniteSet(Holders) /\ r \notin Holders
  BY ChatAssumption, FS_Subset DEF ChatAssumption, Holders
<1>2. Holders' = Holders \cup {r}
  BY DEF Holders, Goto, TypeOK
<1>3. Cardinality(Holders \cup {r}) = Cardinality(Holders) + 1
  BY <1>1, FS_AddElement
<1> QED BY <1>2, <1>3 DEF SlotsAccounted, Holders

LEMMA SlotReturned ==
  ASSUME TypeOK, SlotsAccounted, NEW r \in Request, NEW stage \in Stage \ Holding,
         pc[r] \in Holding, Goto(r, stage), ReleaseSlot
  PROVE  SlotsAccounted'
<1>1. IsFiniteSet(Holders) /\ r \in Holders
  BY ChatAssumption, FS_Subset DEF ChatAssumption, Holders
<1>2. Holders' = Holders \ {r}
  BY DEF Holders, Goto, TypeOK
<1>3. Cardinality(Holders \ {r}) = Cardinality(Holders) - 1
  BY <1>1, FS_RemoveElement
<1>4. inFlight # 0
  <2>1. Holders # {}
    BY <1>1
  <2> QED BY <1>1, <2>1, FS_EmptySet DEF SlotsAccounted, Holders
<1> QED BY <1>2, <1>3, <1>4 DEF SlotsAccounted, Holders, ReleaseSlot

LEMMA InterruptKeepsSlot ==
  ASSUME TypeOK, NEW r \in Request, Interrupt(r)
  PROVE  \A q \in Request : (pc'[q] \in Holding) <=> (pc[q] \in Holding)
BY DEF Interrupt, InterruptRun, InterruptStore, InterruptTail, Goto, TypeOK, Holding

LEMMA StepSlots ==
  ASSUME TypeOK, SlotsAccounted, NEW r \in Request, Step(r)
  PROVE  SlotsAccounted'
<1> USE DEF process, Holding
<1>0. {"done", "finish", "release"} \subseteq Stage \ Holding
  BY DEF Stage
<1>1. CASE ReadBody(r) \/ LookUpKey(r)
  BY <1>1, SlotsKept DEF ReadBody, LookUpKey, At, Answer, Goto, TypeOK
<1>2. CASE AcquireSlot(r)
  <2>1. CASE inFlight >= limit
    BY <1>2, <2>1, SlotsKept DEF AcquireSlot, At, Answer, Goto, TypeOK
  <2>2. CASE ~(inFlight >= limit)
    <3> DEFINE stage == IF key[r] = NoKey THEN "admit" ELSE "create"
    <3>1. pc[r] \notin Holding /\ Goto(r, stage) /\ inFlight' = inFlight + 1
      BY <1>2, <2>2 DEF AcquireSlot, At
    <3>2. stage \in Holding
      OBVIOUS
    <3> HIDE DEF stage, Holding
    <3> QED BY <3>1, <3>2, SlotTaken
  <2> QED BY <2>1, <2>2
<1>3. CASE CreateKeyFails(r)
  BY <1>0, <1>3, SlotReturned DEF CreateKeyFails, At, Answer
<1>4. CASE CreateKey(r) \/ Admit(r) \/ AdmitFails(r) \/ Succeed(r) \/ Fail(r)
  BY <1>4, SlotsKept DEF CreateKey, Admit, AdmitFails, Succeed, Fail, At, Goto, TypeOK
<1>5. CASE PauseRun(r) \/ RagUnavailable(r)
  BY <1>5, SlotsKept DEF PauseRun, RagUnavailable, At, Goto, TypeOK
<1>6. CASE CommitTurn(r) \/ CommitConflicts(r) \/ StoreVerdict(r)
  BY <1>6, SlotsKept DEF CommitTurn, CommitConflicts, StoreVerdict, At, Goto, TypeOK
<1>7. CASE LeaveJson(r)
  <2>1. PICK stage \in {"done", "finish"} : Goto(r, stage)
    BY <1>7 DEF LeaveJson, Answer
  <2> QED BY <1>0, <1>7, <2>1, SlotReturned DEF LeaveJson, At
<1>8. CASE LeaveStream(r)
  <2>1. PICK stage \in {"done", "finish", "release"} : Goto(r, stage)
    BY <1>8 DEF LeaveStream, Answer
  <2> QED BY <1>0, <1>8, <2>1, SlotReturned DEF LeaveStream, At
<1>9. CASE FinishKey(r) \/ ReleaseKey(r)
  BY <1>9, SlotsKept DEF FinishKey, ReleaseKey, At, Answer, Goto, TypeOK
<1> QED
  BY <1>1, <1>2, <1>3, <1>4, <1>5, <1>6, <1>7, <1>8, <1>9 DEF Step

LEMMA InitSlots == Init => SlotsAccounted
<1> SUFFICES ASSUME Init PROVE SlotsAccounted
  OBVIOUS
<1>1. {r \in Request : pc[r] \in Holding} = {}
  BY DEF Init, Holding
<1> QED BY <1>1, FS_EmptySet DEF Init, SlotsAccounted

LEMMA NextSlots == TypeOK /\ SlotsAccounted /\ [Next]_vars => SlotsAccounted'
<1> SUFFICES ASSUME TypeOK, SlotsAccounted, [Next]_vars PROVE SlotsAccounted'
  OBVIOUS
<1> USE DEF process
<1>1. ASSUME NEW r \in Request, Arrive(r) PROVE SlotsAccounted'
  BY <1>1, SlotsKept DEF Arrive, Answer, Goto, TypeOK, Holding
<1>2. ASSUME NEW r \in Request, Step(r) PROVE SlotsAccounted'
  BY <1>2, StepSlots
<1>3. ASSUME NEW r \in Request, Disconnect(r) \/ Deliver(r) \/ Finalize(r) PROVE SlotsAccounted'
  <2>1. UNCHANGED inFlight
    BY <1>3 DEF Disconnect, Deliver, Finalize
  <2>2. \A q \in Request : (pc'[q] \in Holding) <=> (pc[q] \in Holding)
    BY <1>3, CutOffOrNot, InterruptKeepsSlot
  <2> QED BY <2>1, <2>2, SlotsKept
<1>4. ASSUME NEW r \in Request, SweepRun(r) PROVE SlotsAccounted'
  BY <1>4, SlotsKept DEF SweepRun
<1>5. ASSUME NEW k \in Key, SweepKey(k) PROVE SlotsAccounted'
  BY <1>5, SlotsKept DEF SweepKey
<1>6. CASE Signal \/ GraceEnds \/ CloseStorage \/ SetLimit \/ UNCHANGED vars
  BY <1>6, SlotsKept DEF Signal, GraceEnds, CloseStorage, SetLimit, vars
<1>7. CASE Restart
  <2>1. {r \in Request : pc[r] \in Holding}' = {}
    BY <1>7 DEF Restart, Holding
  <2> QED BY <1>7, <2>1, FS_EmptySet DEF Restart, SlotsAccounted
<1> QED
  BY <1>1, <1>2, <1>3, <1>4, <1>5, <1>6, <1>7 DEF Next

\* On every path the slot of a request is returned once and only once, so the gate
\* always counts the requests it let in and never drifts (RunSlotGate).
THEOREM NoSlotLeaks == Spec => []SlotsAccounted
BY TypeCorrect, InitSlots, NextSlots, PTL DEF Spec
-----------------------------------------------------------------------------
(* Runs, their turns and their keys                                        *)

Outcome == {"answer", "error", "silent"}

\* What the properties below rest on: until its verdict is stored a run is as it was
\* admitted; the verdict of a run that has its turn is settled before it is stored; and
\* a request that is about to complete its key has an outcome to replay.
RunOk(r) ==
  /\ pc[r] \notin {"leave", "finish", "release", "done"} => run[r] \in {"absent", "created"}
  /\ turn[r] => /\ pc[r] \in {"store", "leave", "finish", "release", "done"}
                /\ run[r] # "cancelled"
                /\ (run[r] = "failed") => (pc[r] = "done")
  /\ pc[r] = "commit" => verdict[r] = "succeeded" /\ result[r] = "answer"
  /\ pc[r] = "store" => /\ result[r] \in {"answer", "error", "cancelled", "lost"}
                        /\ turn[r] => verdict[r] = "succeeded"
                        /\ result[r] \in {"answer", "error"} => verdict[r] \in {"succeeded", "failed"}
  /\ pc[r] \in {"leave", "finish"} =>
       /\ result[r] # "none"
       /\ result[r] \in Outcome => run[r] \notin {"cancelled", "awaiting_approval"}
       /\ result[r] = "struck" => run[r] # "cancelled"
  /\ pc[r] = "finish" => result[r] \in Outcome \cup {"struck"} /\ key[r] \in Key

RunInv == \A r \in Request : RunOk(r)

KeyInv ==
  /\ KeyHoldsAnOutcome
  /\ \A k \in Key : \A r \in owner[k] : pc[r] = "done"

\* A request that a step does not move is as it was.
LEMMA OthersOk ==
  ASSUME NEW q \in Request, RunOk(q),
         pc'[q] = pc[q], run'[q] = run[q], turn'[q] = turn[q],
         verdict'[q] = verdict[q], result'[q] = result[q], key'[q] = key[q]
  PROVE  RunOk(q)'
BY DEF RunOk

LEMMA WriteEffect ==
  ASSUME TypeOK, NEW r \in Request, WriteVerdict(r)
  PROVE  /\ \A q \in Request : q # r => run'[q] = run[q]
         /\ run'[r] = run[r] \/ (run'[r] = verdict[r] /\ result[r] # "lost")
BY DEF WriteVerdict, UpdateRun, TypeOK

LEMMA InterruptOk ==
  ASSUME TypeOK, RunInv, NEW r \in Request, Interrupt(r), UNCHANGED key
  PROVE  RunInv'
<1> SUFFICES ASSUME NEW q \in Request PROVE RunOk(q)'
  BY DEF RunInv
<1>0. RunOk(q) /\ RunOk(r)
  BY DEF RunInv
<1>1. CASE InterruptRun(r)
  <2>1. CASE q # r
    BY <1>0, <1>1, <2>1, OthersOk DEF InterruptRun, Goto, TypeOK
  <2>2. CASE q = r
    BY <1>0, <1>1, <2>2 DEF RunOk, InterruptRun, MarkCancelled, Goto, TypeOK
  <2> QED BY <2>1, <2>2
<1>2. CASE InterruptStore(r)
  <2>1. CASE q # r
    BY <1>0, <1>2, <2>1, OthersOk, WriteEffect DEF InterruptStore, Swallowed, Goto, TypeOK
  <2>2. CASE q = r
    BY <1>0, <1>2, <2>2, WriteEffect DEF RunOk, InterruptStore, Swallowed, Goto, TypeOK, Outcome
  <2> QED BY <2>1, <2>2
<1>3. CASE InterruptTail(r)
  BY <1>0, <1>3 DEF RunOk, InterruptTail, TypeOK, Outcome
<1> QED BY <1>1, <1>2, <1>3 DEF Interrupt

LEMMA StepOk ==
  ASSUME TypeOK, RunInv, NEW r \in Request, Step(r)
  PROVE  RunInv'
<1> SUFFICES ASSUME NEW q \in Request PROVE RunOk(q)'
  BY DEF RunInv
<1>0. RunOk(q) /\ RunOk(r)
  BY DEF RunInv
<1> USE DEF storage, process, request, At, Goto
<1>1. CASE ReadBody(r)
  BY <1>0, <1>1 DEF ReadBody, Answer, RunOk, TypeOK
<1>2. CASE LookUpKey(r)
  BY <1>0, <1>2 DEF LookUpKey, Answer, RunOk, TypeOK
<1>3. CASE AcquireSlot(r)
  BY <1>0, <1>3 DEF AcquireSlot, Answer, RunOk, TypeOK
<1>4. CASE CreateKey(r)
  BY <1>0, <1>4 DEF CreateKey, RunOk, TypeOK
<1>5. CASE CreateKeyFails(r)
  BY <1>0, <1>5 DEF CreateKeyFails, Answer, RunOk, TypeOK
<1>6. CASE Admit(r)
  BY <1>0, <1>6 DEF Admit, RunOk, TypeOK
<1>7. CASE AdmitFails(r)
  BY <1>0, <1>7 DEF AdmitFails, RunOk, TypeOK, Outcome
<1>8. CASE Succeed(r)
  BY <1>0, <1>8 DEF Succeed, RunOk, TypeOK
<1>9. CASE Fail(r)
  BY <1>0, <1>9 DEF Fail, RunOk, TypeOK
<1>10. CASE PauseRun(r)
  BY <1>0, <1>10 DEF PauseRun, UpdateRun, RunOk, TypeOK, Outcome
<1>11. CASE RagUnavailable(r)
  BY <1>0, <1>11 DEF RagUnavailable, RunOk, TypeOK, Outcome
<1>12. CASE CommitTurn(r)
  BY <1>0, <1>12 DEF CommitTurn, RunOk, TypeOK
<1>13. CASE CommitConflicts(r)
  BY <1>0, <1>13 DEF CommitConflicts, RunOk, TypeOK
<1>14. CASE StoreVerdict(r)
  <2>1. CASE q # r
    BY <1>0, <1>14, <2>1, OthersOk, WriteEffect DEF StoreVerdict, TypeOK
  <2>2. CASE q = r
    BY <1>0, <1>14, <2>2, WriteEffect DEF StoreVerdict, RunOk, TypeOK, Outcome
  <2> QED BY <2>1, <2>2
<1>15. CASE LeaveJson(r)
  BY <1>0, <1>15 DEF LeaveJson, Answer, RunOk, TypeOK, Outcome
<1>16. CASE LeaveStream(r)
  BY <1>0, <1>16 DEF LeaveStream, Completed, Answer, RunOk, TypeOK, Result, Outcome
<1>17. CASE FinishKey(r)
  BY <1>0, <1>17 DEF FinishKey, Answer, RunOk, TypeOK
<1>18. CASE ReleaseKey(r)
  BY <1>0, <1>18 DEF ReleaseKey, Answer, RunOk, TypeOK
<1> QED
  BY <1>1, <1>2, <1>3, <1>4, <1>5, <1>6, <1>7, <1>8, <1>9, <1>10, <1>11, <1>12, <1>13,
     <1>14, <1>15, <1>16, <1>17, <1>18 DEF Step

LEMMA InitRuns == Init => RunInv /\ KeyInv
BY DEF Init, RunInv, RunOk, KeyInv, KeyHoldsAnOutcome

LEMMA NextRuns == TypeOK /\ RunInv /\ [Next]_vars => RunInv'
<1> SUFFICES ASSUME TypeOK, RunInv, [Next]_vars PROVE RunInv'
  OBVIOUS
<1> USE DEF storage, process, request
<1>1. ASSUME NEW r \in Request, Arrive(r) PROVE RunInv'
  BY <1>1 DEF Arrive, Answer, Goto, RunInv, RunOk, TypeOK
<1>2. ASSUME NEW r \in Request, Step(r) PROVE RunInv'
  BY <1>2, StepOk
<1>3. ASSUME NEW r \in Request, Disconnect(r) \/ Deliver(r) \/ Finalize(r) PROVE RunInv'
  <2>1. UNCHANGED key
    BY <1>3 DEF Disconnect, Deliver, Finalize
  <2>2. CASE Interrupt(r)
    BY <2>1, <2>2, InterruptOk
  <2>3. CASE UNCHANGED <<run, turn, verdict, result, pc>>
    BY <2>1, <2>3 DEF RunInv, RunOk
  <2> QED BY <1>3, <2>2, <2>3, CutOffOrNot
<1>5. ASSUME NEW r \in Request, SweepRun(r) PROVE RunInv'
  BY <1>5 DEF SweepRun, RunInv, RunOk, TypeOK
<1>6. ASSUME NEW k \in Key, SweepKey(k) PROVE RunInv'
  BY <1>6 DEF SweepKey, RunInv, RunOk
<1>7. CASE Signal \/ GraceEnds \/ CloseStorage \/ SetLimit \/ UNCHANGED vars
  BY <1>7 DEF Signal, GraceEnds, CloseStorage, SetLimit, vars, RunInv, RunOk
<1>8. CASE Restart
  BY <1>8 DEF Restart, RunInv, RunOk, TypeOK
<1> QED
  BY <1>1, <1>2, <1>3, <1>5, <1>6, <1>7, <1>8 DEF Next

\* Whatever interrupts a request and whenever the process dies, a turn in the history
\* is never that of a run recorded as cancelled, nor of one its request failed.
THEOREM TurnsStand == Spec => []CommittedTurnStands
<1>1. RunInv => CommittedTurnStands
  BY DEF RunInv, RunOk, CommittedTurnStands
<1> QED BY <1>1, TypeCorrect, InitRuns, NextRuns, PTL DEF Spec

-----------------------------------------------------------------------------
(* What a key replays                                                      *)

\* Steps that leave the keys alone, and the requests that own one.
LEMMA KeysKept ==
  ASSUME TypeOK, KeyInv, UNCHANGED <<idem, owner>>,
         \A q \in Request : pc[q] = "done" =>
           /\ pc'[q] = "done" /\ key'[q] = key[q] /\ result'[q] = result[q]
           /\ run'[q] \in {run[q], "failed"}
  PROVE  KeyInv'
<1>1. \A k \in Key : owner[k] \subseteq Request
  BY DEF TypeOK
<1> QED BY <1>1 DEF KeyInv, KeyHoldsAnOutcome

LEMMA InterruptKeys ==
  ASSUME TypeOK, NEW r \in Request, Interrupt(r)
  PROVE  \A q \in Request : pc[q] = "done" =>
           pc'[q] = "done" /\ result'[q] = result[q] /\ run'[q] = run[q]
<1> SUFFICES ASSUME NEW q \in Request, pc[q] = "done"
             PROVE  pc'[q] = "done" /\ result'[q] = result[q] /\ run'[q] = run[q]
  OBVIOUS
<1>1. CASE InterruptRun(r)
  BY <1>1 DEF InterruptRun, Goto, TypeOK
<1>2. CASE InterruptStore(r)
  BY <1>2, WriteEffect DEF InterruptStore, Swallowed, Goto, TypeOK
<1>3. CASE InterruptTail(r)
  BY <1>3 DEF InterruptTail, TypeOK
<1> QED BY <1>1, <1>2, <1>3 DEF Interrupt

LEMMA StepKeys ==
  ASSUME TypeOK, RunInv, KeyInv, NEW r \in Request, Step(r)
  PROVE  KeyInv'
<1> USE DEF storage, process, request, At, Goto
<1>1. CASE ReadBody(r) \/ LookUpKey(r) \/ AcquireSlot(r)
  BY <1>1, KeysKept DEF ReadBody, LookUpKey, AcquireSlot, Answer, TypeOK
<1>2. CASE CreateKey(r)
  BY <1>2 DEF CreateKey, KeyInv, KeyHoldsAnOutcome, TypeOK
<1>3. CASE CreateKeyFails(r) \/ Admit(r) \/ AdmitFails(r)
  BY <1>3, KeysKept DEF CreateKeyFails, Admit, AdmitFails, Answer, TypeOK
<1>4. CASE Succeed(r) \/ Fail(r) \/ RagUnavailable(r)
  BY <1>4, KeysKept DEF Succeed, Fail, RagUnavailable, TypeOK
<1>5. CASE PauseRun(r)
  BY <1>5, KeysKept DEF PauseRun, UpdateRun, TypeOK
<1>6. CASE CommitTurn(r) \/ CommitConflicts(r)
  BY <1>6, KeysKept DEF CommitTurn, CommitConflicts, TypeOK
<1>7. CASE StoreVerdict(r)
  BY <1>7, WriteEffect, KeysKept DEF StoreVerdict, TypeOK
<1>8. CASE LeaveJson(r) \/ LeaveStream(r)
  BY <1>8, KeysKept DEF LeaveJson, LeaveStream, Answer, TypeOK
<1>9. CASE FinishKey(r)
  <2>1. /\ key[r] \in Key /\ result[r] \in {"answer", "error", "silent", "struck"}
        /\ run[r] # "cancelled"
        /\ (run[r] = "awaiting_approval") => (result[r] = "struck")
    BY <1>9 DEF FinishKey, RunInv, RunOk, Outcome
  <2>2. \A q \in Request : pc[q] = "done" => pc'[q] = "done"
    BY <1>9 DEF FinishKey, Answer, TypeOK
  <2>3. pc'[r] = "done" /\ UNCHANGED <<run, key, result>>
    BY <1>9 DEF FinishKey, Answer, TypeOK
  <2>4. CASE UNCHANGED <<idem, owner>>
    BY <2>2, <2>3, <2>4, KeysKept
  <2>5. CASE /\ idem' = [idem EXCEPT ![key[r]] = "completed"]
             /\ owner' = [owner EXCEPT ![key[r]] = {r}]
    BY <2>1, <2>2, <2>3, <2>5 DEF KeyInv, KeyHoldsAnOutcome, TypeOK
  <2> QED BY <1>9, <2>4, <2>5 DEF FinishKey
<1>10. CASE ReleaseKey(r)
  <2>1. CASE UNCHANGED <<idem, owner>>
    BY <1>10, <2>1, KeysKept DEF ReleaseKey, Answer, TypeOK
  <2>2. CASE /\ idem' = [idem EXCEPT ![key[r]] = "absent"]
             /\ owner' = [owner EXCEPT ![key[r]] = {}]
    BY <1>10, <2>2 DEF ReleaseKey, Answer, KeyInv, KeyHoldsAnOutcome, TypeOK
  <2> QED BY <1>10, <2>1, <2>2 DEF ReleaseKey
<1> QED
  BY <1>1, <1>2, <1>3, <1>4, <1>5, <1>6, <1>7, <1>8, <1>9, <1>10 DEF Step

LEMMA NextKeys == TypeOK /\ RunInv /\ KeyInv /\ [Next]_vars => KeyInv'
<1> SUFFICES ASSUME TypeOK, RunInv, KeyInv, [Next]_vars PROVE KeyInv'
  OBVIOUS
<1> USE DEF storage, process, request
<1>1. ASSUME NEW r \in Request, Arrive(r) PROVE KeyInv'
  BY <1>1, KeysKept DEF Arrive, Answer, Goto, TypeOK
<1>2. ASSUME NEW r \in Request, Step(r) PROVE KeyInv'
  BY <1>2, StepKeys
<1>3. ASSUME NEW r \in Request, Disconnect(r) \/ Deliver(r) \/ Finalize(r) PROVE KeyInv'
  <2>1. UNCHANGED <<idem, owner, key>>
    BY <1>3 DEF Disconnect, Deliver, Finalize
  <2>2. \A q \in Request : pc[q] = "done" =>
          pc'[q] = "done" /\ result'[q] = result[q] /\ run'[q] = run[q]
    BY <1>3, CutOffOrNot, InterruptKeys
  <2> QED BY <2>1, <2>2, KeysKept
<1>4. ASSUME NEW r \in Request, SweepRun(r) PROVE KeyInv'
  BY <1>4, KeysKept DEF SweepRun, TypeOK
<1>5. ASSUME NEW k \in Key, SweepKey(k) PROVE KeyInv'
  BY <1>5 DEF SweepKey, KeyInv, KeyHoldsAnOutcome, TypeOK
<1>6. CASE Signal \/ GraceEnds \/ CloseStorage \/ SetLimit \/ UNCHANGED vars
  BY <1>6, KeysKept DEF Signal, GraceEnds, CloseStorage, SetLimit, vars
<1>7. CASE Restart
  BY <1>7, KeysKept DEF Restart, TypeOK
<1> QED
  BY <1>1, <1>2, <1>3, <1>4, <1>5, <1>6, <1>7 DEF Next

\* A key only ever replays for a request that bore it and ended with an outcome, never
\* for one that is paused, was cancelled or whose client left.
THEOREM KeysReplayOutcomes == Spec => []KeyHoldsAnOutcome
<1>1. KeyInv => KeyHoldsAnOutcome
  BY DEF KeyInv
<1> QED BY <1>1, TypeCorrect, InitRuns, NextRuns, NextKeys, PTL DEF Spec
-----------------------------------------------------------------------------
(* The runs a shutdown cancels                                             *)

Accounted(r) ==
  (run[r] = "created") => (result[r] \in {"lost", "silent", "error", "paused", "struck"})

\* The parts of the shutdown's invariant: only requests that were let in are registered
\* and caught; a cancellation is delivered once, before the storage closes; and a
\* request that leaves its run before that, or that is waited for, leaves its record
\* accounted for; only a stream is ever detached.
Registered ==
  /\ \A r \in registry : pc[r] \in Driving \cup {"leave"}
  /\ \A r \in caught : pc[r] \in Driving \cup {"leave", "finish", "release", "done"}
  /\ \A r \in detached : mode[r] = "sse" /\ pc[r] \in Driving \cup {"leave", "finish", "release", "done"}

DeliveredOnce ==
  /\ (doomed # {}) => (phase = "cancelling")
  /\ \A r \in Request :
       mode[r] = "json" /\ pc[r] = "store" /\ result[r] \in {"cancelled", "lost"} =>
         phase \in {"cancelling", "closed"} /\ r \notin doomed

LeftAccounted ==
  /\ phase # "closed" =>
       \A r \in Request : pc[r] \in {"leave", "finish", "release"} => Accounted(r)
  /\ \A r \in caught \ detached : pc[r] = "done" => Accounted(r)
  /\ phase = "closed" => \A r \in caught \ detached : pc[r] = "done"

ShutdownInv == Registered /\ DeliveredOnce /\ LeftAccounted

LEMMA InitShutdown == Init => ShutdownInv
BY DEF Init, ShutdownInv, Registered, DeliveredOnce, LeftAccounted

LEMMA InterruptShutdown ==
  ASSUME TypeOK, RunInv, ShutdownInv, NEW r \in Request, Interrupt(r),
         UNCHANGED <<phase, registry, caught, mode, detached>>, doomed' = doomed \ {r},
         r \in doomed \/ mode[r] = "sse"
  PROVE  ShutdownInv'
<1> USE DEF ShutdownInv
<1>1. Registered'
  BY DEF Registered, Driving, Interrupt, InterruptRun, InterruptStore, InterruptTail, Goto, TypeOK
<1>2. DeliveredOnce'
  <2>1. \A q \in Request : q # r => pc'[q] = pc[q] /\ result'[q] = result[q]
    BY DEF Interrupt, InterruptRun, InterruptStore, InterruptTail, Swallowed, Goto, TypeOK
  <2>2. mode[r] = "json" => phase = "cancelling"
    BY DEF DeliveredOnce
  <2> QED BY <2>1, <2>2 DEF DeliveredOnce
<1>3. LeftAccounted'
  <2>1. CASE InterruptRun(r)
    BY <2>1 DEF LeftAccounted, Accounted, InterruptRun, Goto, TypeOK
  <2>2. CASE InterruptStore(r)
    <3>1. \A q \in Request : q # r =>
            /\ pc'[q] = pc[q] /\ run'[q] = run[q] /\ result'[q] = result[q]
      BY <2>2, WriteEffect DEF InterruptStore, Swallowed, Goto, TypeOK
    <3>2. phase # "closed" => Accounted(r)' \/ pc'[r] = "store"
      <4> SUFFICES ASSUME phase # "closed", pc'[r] # "store"
                   PROVE  Accounted(r)'
        OBVIOUS
      <4>1. pc[r] = "store" /\ result[r] # "answer"
        BY <2>2 DEF InterruptStore
      <4>2. result[r] \in {"error", "cancelled", "lost"}
        BY <4>1 DEF RunInv, RunOk
      <4>3. CASE mode[r] = "json"
        <5>1. result[r] = "error"
          BY <4>1, <4>2, <4>3 DEF DeliveredOnce
        <5>2. result' = result
          BY <2>2, <4>1, <4>3, pc'[r] # "store" DEF InterruptStore, Swallowed, TypeOK
        <5> QED BY <5>1, <5>2 DEF Accounted
      <4>4. CASE mode[r] = "sse"
        <5>1. CASE UNCHANGED run /\ Swallowed(r, "lost")
          BY <4>4, <5>1 DEF Swallowed, Accounted, TypeOK
        <5>2. CASE WriteVerdict(r) /\ Swallowed(r, IF result[r] = "lost" THEN "lost" ELSE "cancelled")
          <6>1. CASE result[r] = "lost"
            BY <4>4, <5>2, <6>1 DEF Swallowed, Accounted, TypeOK
          <6>2. CASE result[r] # "lost"
            BY <4>1, <5>2, <6>2 DEF WriteVerdict, UpdateRun, Accounted, TypeOK, Terminal
          <6> QED BY <6>1, <6>2
        <5> QED BY <2>2, <5>1, <5>2, pc'[r] # "store" DEF InterruptStore, TypeOK
      <4> QED BY <4>3, <4>4 DEF TypeOK
    <3>3. pc'[r] \in {"store", "leave"} /\ pc[r] = "store"
      BY <2>2 DEF InterruptStore, Goto, TypeOK
    <3> QED BY <3>1, <3>2, <3>3 DEF LeftAccounted, Accounted, TypeOK
  <2>3. CASE InterruptTail(r)
    BY <2>3 DEF LeftAccounted, Accounted, InterruptTail, TypeOK
  <2> QED BY <2>1, <2>2, <2>3 DEF Interrupt
<1> QED BY <1>1, <1>2, <1>3

LEMMA StepShutdown ==
  ASSUME TypeOK, RunInv, ShutdownInv, NEW r \in Request, Step(r)
  PROVE  ShutdownInv'
<1> USE DEF ShutdownInv, storage, process, request, At, Goto
<1>1. CASE ReadBody(r) \/ LookUpKey(r)
  BY <1>1 DEF ReadBody, LookUpKey, Answer, Registered, DeliveredOnce, LeftAccounted, Accounted,
              Driving, TypeOK
<1>2. CASE AcquireSlot(r)
  BY <1>2 DEF AcquireSlot, Answer, Registered, DeliveredOnce, LeftAccounted, Accounted,
              Driving, TypeOK
<1>3. CASE CreateKey(r) \/ CreateKeyFails(r)
  BY <1>3 DEF CreateKey, CreateKeyFails, Answer, Registered, DeliveredOnce, LeftAccounted,
              Accounted, Driving, TypeOK
<1>4. CASE Admit(r) \/ AdmitFails(r)
  BY <1>4 DEF Admit, AdmitFails, Registered, DeliveredOnce, LeftAccounted, Accounted,
              Driving, TypeOK
<1>5. CASE Succeed(r) \/ Fail(r) \/ RagUnavailable(r)
  BY <1>5 DEF Succeed, Fail, RagUnavailable, Registered, DeliveredOnce, LeftAccounted,
              Accounted, Driving, TypeOK
<1>6. CASE PauseRun(r)
  BY <1>6 DEF PauseRun, UpdateRun, Registered, DeliveredOnce, LeftAccounted, Accounted,
              Driving, TypeOK
<1>7. CASE CommitTurn(r) \/ CommitConflicts(r)
  BY <1>7 DEF CommitTurn, CommitConflicts, RunInv, RunOk, Registered, DeliveredOnce,
              LeftAccounted, Accounted, Driving, TypeOK
<1>8. CASE StoreVerdict(r)
  <2>1. \A q \in Request : q # r =>
          /\ pc'[q] = pc[q] /\ run'[q] = run[q] /\ result'[q] = result[q]
    BY <1>8, WriteEffect DEF StoreVerdict, TypeOK
  <2>2. pc[r] = "store" /\ pc'[r] = "leave"
    BY <1>8 DEF StoreVerdict, TypeOK
  <2>3. phase # "closed" => Accounted(r)'
    BY <1>8 DEF StoreVerdict, WriteVerdict, UpdateRun, Accounted, TypeOK, Terminal
  <2>4. UNCHANGED <<phase, registry, caught, detached, mode, doomed>>
    BY <1>8 DEF StoreVerdict
  <2>5. Registered'
    BY <2>1, <2>2, <2>4 DEF Registered, Driving, TypeOK
  <2>6. DeliveredOnce'
    BY <2>1, <2>2, <2>4 DEF DeliveredOnce
  <2>7. LeftAccounted'
    BY <2>1, <2>2, <2>3, <2>4 DEF LeftAccounted, Accounted, TypeOK
  <2> QED BY <2>5, <2>6, <2>7
<1>9. CASE LeaveJson(r) \/ LeaveStream(r)
  BY <1>9 DEF LeaveJson, LeaveStream, Answer, Registered, DeliveredOnce, LeftAccounted,
              Accounted, Driving, TypeOK
<1>10. CASE FinishKey(r) \/ ReleaseKey(r)
  BY <1>10 DEF FinishKey, ReleaseKey, Answer, Registered, DeliveredOnce, LeftAccounted,
               Accounted, Driving, TypeOK
<1> QED
  BY <1>1, <1>2, <1>3, <1>4, <1>5, <1>6, <1>7, <1>8, <1>9, <1>10 DEF Step

LEMMA NextShutdown == TypeOK /\ RunInv /\ ShutdownInv /\ [Next]_vars => ShutdownInv'
<1> SUFFICES ASSUME TypeOK, RunInv, ShutdownInv, [Next]_vars PROVE ShutdownInv'
  OBVIOUS
<1> USE DEF storage, process, request
<1>1. ASSUME NEW r \in Request, Arrive(r) PROVE ShutdownInv'
  BY <1>1 DEF ShutdownInv, Arrive, Answer, Goto, Registered, DeliveredOnce, LeftAccounted,
              Accounted, Driving, TypeOK
<1>2. ASSUME NEW r \in Request, Step(r) PROVE ShutdownInv'
  BY <1>2, StepShutdown
<1>3. ASSUME NEW r \in Request, Disconnect(r) \/ Deliver(r) \/ Finalize(r) PROVE ShutdownInv'
  <2>1. UNCHANGED <<phase, registry, caught, mode>> /\ doomed' = doomed \ {r}
    <3>1. CASE Disconnect(r)
      BY <3>1 DEF Disconnect
    <3>2. CASE Deliver(r)
      BY <3>2 DEF Deliver
    <3>3. CASE Finalize(r)
      <4>1. r \notin doomed
        BY <3>3 DEF Finalize, TypeOK
      <4> QED BY <3>3, <4>1 DEF Finalize
    <3> QED BY <1>3, <3>1, <3>2, <3>3
  <2>2. CASE Interrupt(r) /\ UNCHANGED detached
    <3>1. r \in doomed \/ mode[r] = "sse"
      <4>1. \A q \in detached : mode[q] = "sse"
        BY DEF ShutdownInv, Registered
      <4> QED BY <1>3, <4>1 DEF Disconnect, Deliver, Finalize
    <3> QED BY <2>1, <2>2, <3>1, InterruptShutdown
  <2>3. CASE Detach(r)
    BY <2>1, <2>3 DEF Detach, ShutdownInv, Registered, DeliveredOnce, LeftAccounted, Accounted,
                      Driving, TypeOK
  <2>4. CASE UNCHANGED <<run, turn, verdict, result, pc, detached>>
    BY <2>1, <2>4 DEF ShutdownInv, Registered, DeliveredOnce, LeftAccounted, Accounted, TypeOK
  <2> QED BY <1>3, <2>2, <2>3, <2>4 DEF Disconnect, Deliver, Finalize, process
<1>5. ASSUME NEW r \in Request, SweepRun(r) PROVE ShutdownInv'
  BY <1>5 DEF SweepRun, ShutdownInv, Registered, DeliveredOnce, LeftAccounted, Accounted, TypeOK
<1>6. ASSUME NEW k \in Key, SweepKey(k) PROVE ShutdownInv'
  BY <1>6 DEF SweepKey, ShutdownInv, Registered, DeliveredOnce, LeftAccounted, Accounted
<1>7. CASE Signal \/ SetLimit \/ UNCHANGED vars
  BY <1>7 DEF Signal, SetLimit, vars, ShutdownInv, Registered, DeliveredOnce, LeftAccounted,
              Accounted
<1>8. CASE GraceEnds
  BY <1>8 DEF GraceEnds, ShutdownInv, Registered, DeliveredOnce, LeftAccounted, Accounted,
              Driving, TypeOK
<1>9. CASE CloseStorage
  BY <1>9 DEF CloseStorage, ShutdownInv, Registered, DeliveredOnce, LeftAccounted, Accounted,
              TypeOK
<1>10. CASE Restart
  BY <1>10 DEF Restart, ShutdownInv, Registered, DeliveredOnce, LeftAccounted, Accounted, TypeOK
<1> QED
  BY <1>1, <1>2, <1>3, <1>5, <1>6, <1>7, <1>8, <1>9, <1>10 DEF Next

\* The shutdown waits for what it cancelled: when the storage is closed those runs have
\* left the state they were admitted in, but for ends whose own write was cut off and for
\* streams that waited for their client, whose task is not the one that stores the end.
THEOREM ShutdownRecords == Spec => []CaughtRunsAreRecorded
<1>1. TypeOK /\ ShutdownInv => CaughtRunsAreRecorded
  BY DEF TypeOK, ShutdownInv, LeftAccounted, Accounted, CaughtRunsAreRecorded
<1> QED BY <1>1, TypeCorrect, InitRuns, NextRuns, InitShutdown, NextShutdown, PTL DEF Spec
=============================================================================
