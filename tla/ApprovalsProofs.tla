--------------------------- MODULE ApprovalsProofs ---------------------------
(***************************************************************************)
(* Theorems about Approvals, for any number of approvals, processes and    *)
(* requests and any bounds.                                                *)
(***************************************************************************)
EXTENDS Approvals, TLAPS

-----------------------------------------------------------------------------
(* Type correctness *)

LEMMA ReturnType ==
  ASSUME TypeOK, NEW t \in Thread, NEW outcome \in Reply, Return(t, outcome)
  PROVE  pc' \in [Thread -> Label] /\ reply' \in [Decider -> Reply]
<1>1. CASE t \in Decider
  BY <1>1 DEF TypeOK, Return, Goto, Label
<1>2. CASE t \in Replica
  <2>1. t \notin Decider
    BY <1>2, ApprovalsAssumption DEF ApprovalsAssumption
  <2>2. phase[t] \in Label
    BY <1>2 DEF TypeOK, Label
  <2>3. pc' = [pc EXCEPT ![t] = phase[t]] /\ reply' = reply
    BY <2>1 DEF Return, Goto
  <2> QED BY <2>2, <2>3 DEF TypeOK
<1> QED BY <1>1, <1>2 DEF Thread

LEMMA RaiseType ==
  ASSUME TypeOK, NEW t \in Thread, Raise(t)
  PROVE  pc' \in [Thread -> Label] /\ reply' \in [Decider -> Reply]
<1>1. CASE t \in Decider
  BY <1>1 DEF TypeOK, Raise, Goto, Label, Reply
<1>2. CASE t \notin Decider
  BY <1>2 DEF TypeOK, Raise, Goto, Label
<1> QED BY <1>1, <1>2

LEMMA GotoType ==
  ASSUME TypeOK, NEW t \in Thread, NEW label \in Label, Goto(t, label)
  PROVE  pc' \in [Thread -> Label]
BY DEF TypeOK, Goto

LEMMA DecidedType ==
  ASSUME TypeOK, NEW a \in Approval, NEW decision \in Status
  PROVE  Decided(a, decision) \in [Approval -> Status]
BY DEF TypeOK, Decided

LEMMA UpdateRunType ==
  ASSUME TypeOK, NEW a \in Approval, NEW s \in RunState
  PROVE  UpdateRun(a, s) \in [Approval -> RunState]
BY DEF TypeOK, UpdateRun

\* Many steps change no more than where a thread is and what it answered.
LEMMA ControlOnly ==
  ASSUME TypeOK, pc' \in [Thread -> Label], reply' \in [Decider -> Reply],
         UNCHANGED <<store, process, pausing, Scratch, cancels, executions, ungated>>
  PROVE  TypeOK'
BY DEF TypeOK, store, process, Scratch, ticks, cancels

LEMMA InitType == Init => TypeOK
<1> SUFFICES ASSUME Init PROVE TypeOK
  OBVIOUS
<1> USE ApprovalsAssumption DEF Init, ApprovalsAssumption
<1>1. /\ status \in [Approval -> Status]
      /\ gen \in [Approval -> Gen]
      /\ run \in [Approval -> RunState]
      /\ resume \in [Approval -> [Thread -> {"absent", "live", "terminal"}]]
  BY DEF Status, L!Final, Gen, RunState
<1>2. /\ expired \in [Approval -> BOOLEAN]
      /\ session \in [Approval -> BOOLEAN]
      /\ pausing \in [Approval -> BOOLEAN]
      /\ ungated \in [Approval -> BOOLEAN]
  OBVIOUS
<1>3. /\ generation \in [Replica -> Gen]
      /\ mcpOpen \in [Replica -> Gen]
      /\ runner \in [Thread -> Gen]
      /\ restarts \in 0 .. MaxRestarts
      /\ executions \in [Approval -> 0 .. MaxExecutions]
  BY DEF Gen
<1>4. pc \in [Thread -> Label]
  BY DEF Label
<1>5. at \in [Thread -> Approval] /\ cat \in [Canceller -> Approval]
  OBVIOUS
<1>6. host \in [Thread -> Replica]
  BY DEF Thread
<1>7. /\ choice \in [Decider -> {"approve", "deny"}]
      /\ reply \in [Decider -> Reply]
      /\ cpc \in [Canceller -> {"idle", "approvals", "run", "done"}]
      /\ cseen \in [Canceller -> RunState]
  BY DEF Reply, RunState
<1>8. /\ todo \in [Replica -> SUBSET Approval]
      /\ won \in [Replica -> SUBSET Approval]
      /\ phase \in [Replica -> {"expired", "scan"}]
      /\ snap \in [Replica -> [Approval -> Status]]
  BY DEF Status
<1> QED
  BY ONLY <1>1, <1>2, <1>3, <1>4, <1>5, <1>6, <1>7, <1>8 DEF TypeOK

LEMMA ResumeType ==
  ASSUME TypeOK, NEW t \in Thread, ExecuteResume(t)
  PROVE  TypeOK'
<1>0. {"approved", "tool_unavailable", "session_missing"} \subseteq Reply
      /\ {"session", "tool", "admit", "resumed"} \subseteq Label
  BY DEF Reply, Label
<1>1. CASE AlreadyResumed(t)
  BY <1>0, <1>1, ReturnType, ControlOnly DEF AlreadyResumed
<1>2. CASE ToolUnavailable(t)
  BY <1>0, <1>2, ReturnType, ControlOnly DEF ToolUnavailable
<1>3. CASE ToolFound(t)
  <2>1. reply' \in [Decider -> Reply]
    BY <1>3 DEF ToolFound, TypeOK
  <2> QED BY <1>0, <1>3, <2>1, GotoType, ControlOnly DEF ToolFound
<1>4. CASE SessionMissing(t)
  BY <1>0, <1>4, ReturnType, ControlOnly DEF SessionMissing
<1>5. CASE StartTool(t)
  <2>1. executions' \in [Approval -> 0 .. MaxExecutions]
    BY <1>5, ApprovalsAssumption DEF StartTool, TypeOK
  <2>2. pc' \in [Thread -> Label]
    BY <1>0, <1>5, GotoType DEF StartTool
  <2> QED BY <1>5, <2>1, <2>2 DEF StartTool, TypeOK, store, process, Scratch, ticks, cancels
<1>6. CASE ToolReturns(t)
  <2>1. reply' \in [Decider -> Reply]
    BY <1>6 DEF ToolReturns, TypeOK
  <2> QED BY <1>0, <1>6, <2>1, GotoType, ControlOnly DEF ToolReturns
<1>7. CASE ToolRaises(t)
  BY <1>7, RaiseType, ControlOnly DEF ToolRaises
<1>8. CASE AdmitResume(t)
  <2>1. pc' \in [Thread -> Label]
    BY <1>0, <1>8, GotoType DEF AdmitResume
  <2>2. /\ resume' \in [Approval -> [Thread -> {"absent", "live", "terminal"}]]
        /\ session' \in [Approval -> BOOLEAN]
    BY <1>8 DEF AdmitResume, TypeOK
  <2> QED BY <1>8, <2>1, <2>2 DEF AdmitResume, TypeOK, process, Scratch, ticks, cancels
<1>9. CASE AdmitRefused(t)
  BY <1>0, <1>9, ReturnType, ControlOnly DEF AdmitRefused
<1>10. CASE FinishResume(t)
  <2>1. pc' \in [Thread -> Label] /\ reply' \in [Decider -> Reply]
    BY <1>0, <1>10, ReturnType DEF FinishResume
  <2>2. resume' \in [Approval -> [Thread -> {"absent", "live", "terminal"}]]
    BY <1>10 DEF FinishResume, TypeOK
  <2> QED BY <1>10, <2>1, <2>2 DEF FinishResume, TypeOK, process, Scratch, ticks, cancels
<1> QED
  BY <1>1, <1>2, <1>3, <1>4, <1>5, <1>6, <1>7, <1>8, <1>9, <1>10 DEF ExecuteResume

LEMMA DecisionType ==
  ASSUME TypeOK, NEW d \in Decider, ReadApproval(d) \/ DecisionStep(d)
  PROVE  TypeOK'
<1>0. d \in Thread
  BY DEF Thread
<1>1. CASE ReadApproval(d)
  <2>1. PICK a \in Approval, r \in Replica, dec \in {"approve", "deny"} :
          /\ at' = [at EXCEPT ![d] = a]
          /\ host' = [host EXCEPT ![d] = r]
          /\ choice' = [choice EXCEPT ![d] = dec]
          /\ IF status[a] = "pending"
             THEN Goto(d, "check") /\ UNCHANGED reply
             ELSE Return(d, IF status[a] = "absent" THEN "not_found"
                            ELSE IF status[a] = Internal(dec) THEN "stored" ELSE "conflict")
    BY <1>1 DEF ReadApproval
  <2>2. /\ at' \in [Thread -> Approval]
        /\ host' \in [Thread -> Replica]
        /\ choice' \in [Decider -> {"approve", "deny"}]
    BY <1>0, <2>1 DEF TypeOK
  <2>3. pc' \in [Thread -> Label] /\ reply' \in [Decider -> Reply]
    <3>1. CASE status[a] = "pending"
      BY <1>0, <2>1, <3>1, GotoType DEF Label, TypeOK
    <3>2. CASE status[a] # "pending"
      <4>1. (IF status[a] = "absent" THEN "not_found"
             ELSE IF status[a] = Internal(dec) THEN "stored" ELSE "conflict") \in Reply
        BY DEF Reply
      <4> QED BY <1>0, <2>1, <3>2, <4>1, ReturnType
    <3> QED BY <3>1, <3>2
  <2> QED BY <1>1, <2>2, <2>3 DEF ReadApproval, TypeOK, store, process, ticks, cancels
<1>2. CASE CheckGeneration(d)
  <2>1. runner' \in [Thread -> Gen]
    BY <1>0, <1>2 DEF CheckGeneration, TypeOK
  <2>2. pc' \in [Thread -> Label]
    BY <1>0, <1>2 DEF CheckGeneration, TypeOK, Goto, Label
  <2> QED BY <1>2, <2>1, <2>2 DEF CheckGeneration, TypeOK, store, process, ticks, cancels
<1>3. CASE RetireApproval(d)
  <2>1. status' \in [Approval -> Status]
    <3>1. "stale_approval" \in Status /\ at[d] \in Approval
      BY <1>0 DEF Status, L!Final, TypeOK
    <3> QED BY <1>3, <3>1, DecidedType DEF RetireApproval
  <2>2. pc' \in [Thread -> Label] /\ reply' \in [Decider -> Reply]
    <3>1. "stale_approval" \in Reply
      BY DEF Reply
    <3> QED BY <1>0, <1>3, <3>1, ReturnType DEF RetireApproval
  <2> QED BY <1>3, <2>1, <2>2 DEF RetireApproval, TypeOK, process, Scratch, ticks, cancels
<1>4. CASE Decide(d)
  <2> DEFINE decision == Internal(choice[d])
  <2>1. decision \in Status /\ decision \in Reply /\ at[d] \in Approval
    BY <1>0 DEF Internal, Status, L!Final, Reply, TypeOK
  <2>2. status' \in [Approval -> Status]
    BY <1>4, <2>1, DecidedType DEF Decide
  <2>3. pc' \in [Thread -> Label] /\ reply' \in [Decider -> Reply]
    <3>1. CASE Goto(d, "guard") /\ UNCHANGED reply
      BY <1>0, <3>1, GotoType DEF Label, TypeOK
    <3>2. CASE Return(d, decision)
      BY <1>0, <2>1, <3>2, ReturnType
    <3>3. CASE Goto(d, "reread") /\ UNCHANGED reply
      BY <1>0, <3>3, GotoType DEF Label, TypeOK
    <3> QED BY <1>4, <3>1, <3>2, <3>3 DEF Decide
  <2> QED BY <1>4, <2>2, <2>3 DEF Decide, TypeOK, process, Scratch, ticks, cancels
<1>5. CASE Reread(d)
  <2>1. (IF status[at[d]] = choice[d] THEN "stored" ELSE "conflict") \in Reply
    BY DEF Reply
  <2> QED BY <1>0, <1>5, <2>1, ReturnType, ControlOnly DEF Reread
<1>6. CASE ExecuteResume(d)
  BY <1>0, <1>6, ResumeType
<1> QED
  BY <1>1, <1>2, <1>3, <1>4, <1>5, <1>6 DEF DecisionStep

LEMMA ReconcileType ==
  ASSUME TypeOK, NEW r \in Replica, ReconcileStep(r)
  PROVE  TypeOK'
<1>0. r \in Thread /\ Listed \subseteq Approval
  BY DEF Thread, Listed
<1>1. CASE Capture(r)
  <2>1. runner' \in [Thread -> Gen] /\ pc' \in [Thread -> Label]
    BY <1>0, <1>1 DEF Capture, Goto, Label, TypeOK
  <2> QED BY <1>1, <2>1 DEF Capture, TypeOK, store, process, ticks, cancels
<1>2. CASE BeginTick(r)
  <2>1. /\ todo' \in [Replica -> SUBSET Approval]
        /\ won' \in [Replica -> SUBSET Approval]
    BY <1>0, <1>2 DEF BeginTick, TypeOK
  <2>2. pc' \in [Thread -> Label]
    BY <1>0, <1>2, GotoType DEF BeginTick, Label
  <2> QED BY <1>2, <2>1, <2>2 DEF BeginTick, TypeOK, store, process, cancels
<1>3. CASE ExpireOne(r)
  <2>1. PICK a \in todo[r] :
          /\ todo' = [todo EXCEPT ![r] = @ \ {a}]
          /\ status' = Decided(a, "timed_out")
          /\ won' = [won EXCEPT ![r] = IF Decidable(a, "timed_out") THEN @ \cup {a} ELSE @]
    BY <1>3 DEF ExpireOne
  <2>2. a \in Approval /\ "timed_out" \in Status
    BY DEF TypeOK, Status, L!Final
  <2>3. /\ todo' \in [Replica -> SUBSET Approval]
        /\ won' \in [Replica -> SUBSET Approval]
    BY <2>1, <2>2 DEF TypeOK
  <2>4. status' \in [Approval -> Status]
    BY <2>1, <2>2, DecidedType
  <2> QED BY <1>3, <2>3, <2>4 DEF ExpireOne, TypeOK, process, cancels
<1>4. CASE ExpireDone(r)
  <2>1. phase' \in [Replica -> {"expired", "scan"}] /\ pc' \in [Thread -> Label]
    BY <1>0, <1>4 DEF ExpireDone, Goto, Label, TypeOK
  <2> QED BY <1>4, <2>1 DEF ExpireDone, TypeOK, store, process, cancels
<1>5. CASE RejectTimedOut(r)
  <2>1. PICK a \in won[r] :
          run' = UpdateRun(a, "failed") /\ won' = [won EXCEPT ![r] = @ \ {a}]
    BY <1>5 DEF RejectTimedOut
  <2>2. a \in Approval /\ "failed" \in RunState
    BY DEF TypeOK, RunState, Terminal
  <2>3. run' \in [Approval -> RunState] /\ won' \in [Replica -> SUBSET Approval]
    BY <2>1, <2>2, UpdateRunType DEF TypeOK
  <2> QED BY <1>5, <2>3 DEF RejectTimedOut, TypeOK, process, cancels
<1>6. CASE ResumeTimedOut(r)
  <2>1. PICK a \in won[r] :
          at' = [at EXCEPT ![r] = a] /\ won' = [won EXCEPT ![r] = @ \ {a}]
    BY <1>6 DEF ResumeTimedOut
  <2>2. at' \in [Thread -> Approval] /\ won' \in [Replica -> SUBSET Approval]
    BY <1>0, <2>1 DEF TypeOK
  <2>3. pc' \in [Thread -> Label]
    BY <1>0, <1>6, GotoType DEF ResumeTimedOut, Label
  <2> QED BY <1>6, <2>2, <2>3 DEF ResumeTimedOut, TypeOK, store, process, cancels
<1>7. CASE ListApprovals(r)
  <2>1. /\ snap' \in [Replica -> [Approval -> Status]]
        /\ todo' \in [Replica -> SUBSET Approval]
        /\ phase' \in [Replica -> {"expired", "scan"}]
    BY <1>0, <1>7 DEF ListApprovals, TypeOK
  <2>2. pc' \in [Thread -> Label]
    BY <1>0, <1>7, GotoType DEF ListApprovals, Label
  <2> QED BY <1>7, <2>1, <2>2 DEF ListApprovals, TypeOK, store, process, cancels
<1>8. CASE Skip(r)
  <2>1. todo' \in [Replica -> SUBSET Approval]
    BY <1>8 DEF Skip, TypeOK
  <2> QED BY <1>8, <2>1 DEF Skip, TypeOK, store, process, cancels
<1>9. CASE ScanStale(r)
  <2>1. PICK a \in todo[r] :
          /\ todo' = [todo EXCEPT ![r] = @ \ {a}]
          /\ status' = Decided(a, "stale_approval")
          /\ at' = [at EXCEPT ![r] = a]
          /\ Goto(r, IF Decidable(a, "stale_approval") THEN "finish" ELSE "scan")
    BY <1>9 DEF ScanStale
  <2>2. a \in Approval /\ "stale_approval" \in Status
    BY DEF TypeOK, Status, L!Final
  <2>3. /\ todo' \in [Replica -> SUBSET Approval]
        /\ at' \in [Thread -> Approval]
        /\ pc' \in [Thread -> Label]
    BY <1>0, <2>1, <2>2 DEF TypeOK, Goto, Label
  <2>4. status' \in [Approval -> Status]
    BY <2>1, <2>2, DecidedType
  <2> QED BY <1>9, <2>3, <2>4 DEF ScanStale, TypeOK, process, cancels
<1>10. CASE FinishStale(r)
  <2>1. at[r] \in Approval /\ "failed" \in RunState
    BY <1>0 DEF TypeOK, RunState, Terminal
  <2>2. run' \in [Approval -> RunState] /\ pc' \in [Thread -> Label]
    BY <1>0, <1>10, <2>1, UpdateRunType, GotoType DEF FinishStale, Label
  <2> QED BY <1>10, <2>2 DEF FinishStale, TypeOK, process, ticks, cancels
<1>11. CASE ScanApproved(r)
  <2>1. PICK a \in todo[r] :
          todo' = [todo EXCEPT ![r] = @ \ {a}] /\ at' = [at EXCEPT ![r] = a]
    BY <1>11 DEF ScanApproved
  <2>2. at' \in [Thread -> Approval] /\ todo' \in [Replica -> SUBSET Approval]
    BY <1>0, <2>1 DEF TypeOK
  <2>3. pc' \in [Thread -> Label]
    BY <1>0, <1>11, GotoType DEF ScanApproved, Label
  <2> QED BY <1>11, <2>2, <2>3 DEF ScanApproved, TypeOK, store, process, cancels
<1>12. CASE FinishRejected(r)
  <2>1. PICK a \in todo[r] :
          /\ todo' = [todo EXCEPT ![r] = @ \ {a}]
          /\ run' = UpdateRun(a, IF snap[r][a] = "cancelled" THEN "cancelled" ELSE "failed")
    BY <1>12 DEF FinishRejected
  <2>2. /\ a \in Approval
        /\ (IF snap[r][a] = "cancelled" THEN "cancelled" ELSE "failed") \in RunState
    BY DEF TypeOK, RunState, Terminal
  <2>3. run' \in [Approval -> RunState] /\ todo' \in [Replica -> SUBSET Approval]
    BY <2>1, <2>2, UpdateRunType DEF TypeOK
  <2> QED BY <1>12, <2>3 DEF FinishRejected, TypeOK, process, cancels
<1>13. CASE EndTick(r)
  <2>1. pc' \in [Thread -> Label] /\ reply' \in [Decider -> Reply]
    BY <1>0, <1>13 DEF EndTick, Goto, Label, TypeOK
  <2> QED BY <1>13, <2>1, ControlOnly DEF EndTick
<1>14. CASE ExecuteResume(r)
  BY <1>0, <1>14, ResumeType
<1> QED
  BY <1>1, <1>2, <1>3, <1>4, <1>5, <1>6, <1>7, <1>8, <1>9, <1>10, <1>11, <1>12, <1>13,
     <1>14 DEF ReconcileStep

LEMMA CancelType ==
  ASSUME TypeOK, NEW c \in Canceller, CancelStep(c)
  PROVE  TypeOK'
<1>1. CASE FindRun(c)
  <2>1. /\ cat' \in [Canceller -> Approval]
        /\ cseen' \in [Canceller -> RunState]
        /\ cpc' \in [Canceller -> {"idle", "approvals", "run", "done"}]
    BY <1>1 DEF FindRun, TypeOK
  <2> QED BY <1>1, <2>1 DEF FindRun, TypeOK, store, process, Scratch, ticks
<1>2. CASE CancelApproval(c)
  <2>1. "cancelled" \in Status /\ cat[c] \in Approval
    BY DEF Status, L!Final, TypeOK
  <2>2. /\ status' \in [Approval -> Status]
        /\ cpc' \in [Canceller -> {"idle", "approvals", "run", "done"}]
    BY <1>2, <2>1, DecidedType DEF CancelApproval, TypeOK
  <2> QED BY <1>2, <2>2 DEF CancelApproval, TypeOK, process, Scratch, ticks
<1>3. CASE CancelRun(c)
  <2>1. "cancelled" \in RunState /\ cat[c] \in Approval
    BY DEF RunState, Terminal, TypeOK
  <2>2. UpdateRun(cat[c], "cancelled") \in [Approval -> RunState]
    BY <2>1, UpdateRunType
  <2>3. /\ run' \in [Approval -> RunState]
        /\ cpc' \in [Canceller -> {"idle", "approvals", "run", "done"}]
    BY <1>3, <2>2 DEF CancelRun, TypeOK
  <2> QED BY <1>3, <2>3 DEF CancelRun, TypeOK, process, Scratch, ticks
<1> QED
  BY <1>1, <1>2, <1>3 DEF CancelStep

LEMMA ProcessType ==
  ASSUME TypeOK, NEW r \in Replica, Rebuild(r) \/ CloseRetired(r) \/ Crash(r)
  PROVE  TypeOK'
<1> USE ApprovalsAssumption DEF ApprovalsAssumption
<1>1. CASE Rebuild(r)
  <2>1. generation' \in [Replica -> Gen]
    BY <1>1 DEF Rebuild, Gen, TypeOK
  <2> QED BY <1>1, <2>1 DEF Rebuild, TypeOK, store, Scratch, ticks, cancels
<1>2. CASE CloseRetired(r)
  <2>1. mcpOpen' \in [Replica -> Gen]
    BY <1>2 DEF CloseRetired, TypeOK
  <2> QED BY <1>2, <2>1 DEF CloseRetired, TypeOK, store, Scratch, ticks, cancels
<1>3. CASE Crash(r)
  <2>1. /\ restarts' \in 0 .. MaxRestarts
        /\ generation' \in [Replica -> Gen]
        /\ mcpOpen' \in [Replica -> Gen]
    BY <1>3 DEF Crash, Gen, TypeOK
  <2>2. pc' \in [Thread -> Label]
    BY <1>3 DEF Crash, Label, TypeOK
  <2>3. /\ todo' \in [Replica -> SUBSET Approval]
        /\ won' \in [Replica -> SUBSET Approval]
    BY <1>3 DEF Crash, TypeOK
  <2> QED BY <1>3, <2>1, <2>2, <2>3 DEF Crash, TypeOK, store, cancels
<1> QED
  BY <1>1, <1>2, <1>3

LEMMA RecordType ==
  ASSUME TypeOK, NEW a \in Approval,
         \/ CallAgain(a) \/ Pause(a) \/ CommitAwaiting(a) \/ Expire(a)
         \/ SweepRun(a) \/ DeleteSession(a)
         \/ \E t \in Thread : SweepResume(a, t)
  PROVE  TypeOK'
<1>1. CASE Pause(a)
  <2>1. status' \in [Approval -> Status] /\ pausing' \in [Approval -> BOOLEAN]
    BY <1>1 DEF Pause, Status, TypeOK
  <2>2. gen' \in [Approval -> Gen]
    BY <1>1, ApprovalsAssumption DEF ApprovalsAssumption, Pause, Gen, TypeOK
  <2> QED BY <1>1, <2>1, <2>2 DEF Pause, TypeOK, process, ticks, cancels
<1>2. CASE CommitAwaiting(a)
  <2>1. UpdateRun(a, "awaiting_approval") \in [Approval -> RunState]
    BY UpdateRunType DEF RunState
  <2>2. run' \in [Approval -> RunState] /\ pausing' \in [Approval -> BOOLEAN]
    BY <1>2, <2>1 DEF CommitAwaiting, TypeOK
  <2> QED BY <1>2, <2>2 DEF CommitAwaiting, TypeOK, process, ticks, cancels
<1>3. CASE Expire(a)
  <2>1. expired' \in [Approval -> BOOLEAN]
    BY <1>3 DEF Expire, TypeOK
  <2> QED BY <1>3, <2>1 DEF Expire, TypeOK, process, ticks, cancels
<1>4. CASE SweepRun(a)
  <2>1. run' \in [Approval -> RunState]
    BY <1>4 DEF SweepRun, RunState, Terminal, TypeOK
  <2> QED BY <1>4, <2>1 DEF SweepRun, TypeOK, process, Scratch, ticks, cancels
<1>5. CASE DeleteSession(a)
  <2>1. /\ session' \in [Approval -> BOOLEAN]
        /\ run' \in [Approval -> RunState]
        /\ resume' \in [Approval -> [Thread -> {"absent", "live", "terminal"}]]
    BY <1>5 DEF DeleteSession, RunState, TypeOK
  <2> QED BY <1>5, <2>1 DEF DeleteSession, TypeOK, process, Scratch, ticks, cancels
<1>6. ASSUME NEW t \in Thread, SweepResume(a, t)
      PROVE  TypeOK'
  <2>1. resume' \in [Approval -> [Thread -> {"absent", "live", "terminal"}]]
    BY <1>6 DEF SweepResume, TypeOK
  <2> QED BY <1>6, <2>1 DEF SweepResume, TypeOK, process, Scratch, ticks, cancels
<1>7. CASE CallAgain(a)
  <2>1. session' \in [Approval -> BOOLEAN] /\ ungated' \in [Approval -> BOOLEAN]
    BY <1>7 DEF CallAgain, TypeOK
  <2> QED BY <1>7, <2>1 DEF CallAgain, TypeOK, process, ticks, cancels
<1> QED
  BY <1>1, <1>2, <1>3, <1>4, <1>5, <1>6, <1>7

LEMMA StepType ==
  ASSUME TypeOK, [Next]_vars
  PROVE  TypeOK'
<1>1. CASE UNCHANGED vars
  BY <1>1 DEF vars, store, process, ticks, cancels, TypeOK
<1>2. CASE Next
  BY <1>2, RecordType, DecisionType, ReconcileType, ProcessType, CancelType DEF Next
<1> QED BY <1>1, <1>2

(***************************************************************************)
(* Every variable always holds a value the code can store in it.           *)
(***************************************************************************)
THEOREM TypeCorrect == Spec => []TypeOK
BY InitType, StepType, PTL DEF Spec

-----------------------------------------------------------------------------
(* What a step may do to the decisions, to a thread and to the counters     *)

LEMMA ReturnMoves ==
  ASSUME TypeOK, NEW t \in Thread, NEW outcome, Return(t, outcome)
  PROVE  /\ pc'[t] \in {"done", "expired", "scan"}
         /\ \A u \in Thread \ {t} : pc'[u] = pc[u]
<1>1. CASE t \in Decider
  BY <1>1 DEF TypeOK, Return, Goto
<1>2. CASE t \notin Decider
  <2>1. phase[t] \in {"expired", "scan"}
    BY <1>2 DEF TypeOK, Thread
  <2>2. pc' = [pc EXCEPT ![t] = phase[t]]
    BY <1>2 DEF Return, Goto
  <2> QED BY <2>1, <2>2 DEF TypeOK
<1> QED BY <1>1, <1>2

LEMMA RaiseMoves ==
  ASSUME TypeOK, NEW t \in Thread, Raise(t)
  PROVE  /\ pc'[t] \in {"done", "idle"}
         /\ \A u \in Thread \ {t} : pc'[u] = pc[u]
BY DEF TypeOK, Raise, Goto

LEMMA GotoMoves ==
  ASSUME TypeOK, NEW t \in Thread, NEW label, Goto(t, label)
  PROVE  pc'[t] = label /\ \A u \in Thread \ {t} : pc'[u] = pc[u]
BY DEF TypeOK, Goto

\* A step inside _execute_resume leaves the decisions alone, moves no other thread
\* and keeps working on the same approval.
LEMMA ResumeMoves ==
  ASSUME TypeOK, NEW t \in Thread, ExecuteResume(t)
  PROVE  /\ Resuming(t)
         /\ status' = status /\ at' = at /\ snap' = snap /\ won' = won
         /\ \A u \in Thread \ {t} : pc'[u] = pc[u]
<1> USE DEF Resuming, store, Scratch, ticks
<1>1. CASE AlreadyResumed(t)
  BY <1>1, ReturnMoves DEF AlreadyResumed
<1>2. CASE ToolUnavailable(t)
  BY <1>2, ReturnMoves DEF ToolUnavailable
<1>3. CASE ToolFound(t)
  BY <1>3, GotoMoves DEF ToolFound
<1>4. CASE SessionMissing(t)
  BY <1>4, ReturnMoves DEF SessionMissing
<1>5. CASE StartTool(t)
  BY <1>5, GotoMoves DEF StartTool
<1>6. CASE ToolReturns(t)
  BY <1>6, GotoMoves DEF ToolReturns
<1>7. CASE ToolRaises(t)
  BY <1>7, RaiseMoves DEF ToolRaises
<1>8. CASE AdmitResume(t)
  BY <1>8, GotoMoves DEF AdmitResume
<1>9. CASE AdmitRefused(t)
  BY <1>9, ReturnMoves DEF AdmitRefused
<1>10. CASE FinishResume(t)
  BY <1>10, ReturnMoves DEF FinishResume
<1> QED
  BY <1>1, <1>2, <1>3, <1>4, <1>5, <1>6, <1>7, <1>8, <1>9, <1>10 DEF ExecuteResume

\* The rest of a decision request: it enters _execute_resume only by winning.
LEMMA DecisionMoves ==
  ASSUME TypeOK, NEW d \in Decider,
         \/ ReadApproval(d) \/ CheckGeneration(d) \/ RetireApproval(d) \/ Decide(d) \/ Reread(d)
  PROVE  /\ executions' = executions /\ snap' = snap /\ won' = won /\ resume' = resume
         /\ ~Resuming(d)
         /\ \A u \in Thread \ {d} : pc'[u] = pc[u] /\ at'[u] = at[u]
         /\ \/ status' = status
            \/ \E e \in L!Final : status' = Decided(at[d], e)
         /\ Resuming(d)' =>
              /\ status[at[d]] = "pending" /\ status' = Decided(at[d], "approved")
              /\ Decidable(at[d], "approved")
              /\ at' = at /\ pc'[d] = "guard"
<1> USE DEF Resuming, store, Scratch, ticks
<1>0. d \in Thread
  BY DEF Thread
<1>1. CASE ReadApproval(d)
  <2>1. PICK a \in Approval, r \in Replica, dec \in {"approve", "deny"} :
          /\ at' = [at EXCEPT ![d] = a]
          /\ IF status[a] = "pending"
             THEN Goto(d, "check") /\ UNCHANGED reply
             ELSE Return(d, IF status[a] = "absent" THEN "not_found"
                            ELSE IF status[a] = Internal(dec) THEN "stored" ELSE "conflict")
    BY <1>1 DEF ReadApproval
  <2>2. /\ pc'[d] \in {"check", "done", "expired", "scan"}
        /\ \A u \in Thread \ {d} : pc'[u] = pc[u]
    <3>1. CASE status[a] = "pending"
      BY <1>0, <2>1, <3>1, GotoMoves
    <3>2. CASE status[a] # "pending"
      BY <1>0, <2>1, <3>2, ReturnMoves
    <3> QED BY <3>1, <3>2
  <2>3. \A u \in Thread \ {d} : at'[u] = at[u]
    BY <1>0, <2>1 DEF TypeOK
  <2> QED BY <1>1, <2>2, <2>3 DEF ReadApproval
<1>2. CASE CheckGeneration(d)
  <2>1. PICK label \in {"decide", "retire"} : Goto(d, label)
    BY <1>2 DEF CheckGeneration
  <2> QED BY <1>0, <1>2, <2>1, GotoMoves DEF CheckGeneration
<1>3. CASE RetireApproval(d)
  <2>1. "stale_approval" \in L!Final
    BY DEF L!Final
  <2> QED BY <1>0, <1>3, <2>1, ReturnMoves DEF RetireApproval
<1>4. CASE Decide(d)
  <2> DEFINE decision == Internal(choice[d])
  <2>1. decision \in L!Final
    BY DEF Internal, L!Final
  <2>2. status' = Decided(at[d], decision)
    BY <1>4 DEF Decide
  <2>3. CASE Decidable(at[d], decision) /\ decision = "approved" /\ Goto(d, "guard")
    BY <1>0, <1>4, <2>1, <2>2, <2>3, GotoMoves DEF Decide, Decidable
  <2>4. CASE Return(d, decision)
    BY <1>0, <1>4, <2>1, <2>2, <2>4, ReturnMoves DEF Decide
  <2>5. CASE Goto(d, "reread")
    BY <1>0, <1>4, <2>1, <2>2, <2>5, GotoMoves DEF Decide
  <2> QED BY <1>4, <2>3, <2>4, <2>5 DEF Decide
<1>5. CASE Reread(d)
  BY <1>0, <1>5, ReturnMoves DEF Reread
<1> QED
  BY <1>1, <1>2, <1>3, <1>4, <1>5

\* The rest of a reconciler's tick: it enters _execute_resume for a timeout it won or
\* for a record its listing shows as approved.
LEMMA ReconcileMoves ==
  ASSUME TypeOK, NEW r \in Replica, ReconcileStep(r), ~ExecuteResume(r)
  PROVE  /\ executions' = executions /\ resume' = resume
         /\ ~Resuming(r)
         /\ \A u \in Thread \ {r} : pc'[u] = pc[u] /\ at'[u] = at[u]
         /\ \/ status' = status
            \/ \E a \in Approval, e \in L!Final : status' = Decided(a, e)
         /\ Resuming(r)' =>
              /\ pc'[r] = "guard" /\ status' = status
              /\ \/ OnTimeout = "allow" /\ at'[r] \in won[r]
                 \/ snap[r][at'[r]] = "approved" /\ at'[r] \in Approval
         /\ \/ won' = won
            \/ \E a \in won[r] : won' = [won EXCEPT ![r] = @ \ {a}]
            \/ won' = [won EXCEPT ![r] = {}]
            \/ \E a \in Approval :
                 /\ Decidable(a, "timed_out") /\ status' = Decided(a, "timed_out")
                 /\ won' = [won EXCEPT ![r] = @ \cup {a}]
         /\ \/ snap' = snap
            \/ snap' = [snap EXCEPT ![r] = status] /\ status' = status
<1> USE DEF Resuming, store, ticks
<1>0. r \in Thread /\ {"timed_out", "stale_approval"} \subseteq L!Final
  BY DEF Thread, L!Final
<1>1. CASE Capture(r)
  BY <1>0, <1>1, GotoMoves DEF Capture
<1>2. CASE BeginTick(r)
  BY <1>0, <1>2, GotoMoves DEF BeginTick
<1>3. CASE ExpireOne(r)
  <2>1. PICK a \in todo[r] :
          /\ status' = Decided(a, "timed_out")
          /\ won' = [won EXCEPT ![r] = IF Decidable(a, "timed_out") THEN @ \cup {a} ELSE @]
    BY <1>3 DEF ExpireOne
  <2>2. a \in Approval
    BY DEF TypeOK
  <2>3. CASE Decidable(a, "timed_out")
    BY <1>0, <1>3, <2>1, <2>2, <2>3 DEF ExpireOne
  <2>4. CASE ~Decidable(a, "timed_out")
    <3>1. won' = won
      BY <2>1, <2>4 DEF TypeOK
    <3> QED BY <1>0, <1>3, <2>1, <2>2, <3>1 DEF ExpireOne
  <2> QED BY <2>3, <2>4
<1>4. CASE ExpireDone(r)
  BY <1>0, <1>4, GotoMoves DEF ExpireDone
<1>5. CASE RejectTimedOut(r)
  BY <1>0, <1>5 DEF RejectTimedOut
<1>6. CASE ResumeTimedOut(r)
  <2>1. PICK a \in won[r] :
          at' = [at EXCEPT ![r] = a] /\ won' = [won EXCEPT ![r] = @ \ {a}]
    BY <1>6 DEF ResumeTimedOut
  <2>2. at'[r] = a /\ \A u \in Thread \ {r} : at'[u] = at[u]
    BY <1>0, <2>1 DEF TypeOK
  <2> QED BY <1>0, <1>6, <2>1, <2>2, GotoMoves DEF ResumeTimedOut
<1>7. CASE ListApprovals(r)
  BY <1>0, <1>7, GotoMoves DEF ListApprovals
<1>8. CASE Skip(r)
  BY <1>0, <1>8 DEF Skip
<1>9. CASE ScanStale(r)
  <2>1. PICK a \in todo[r] :
          /\ status' = Decided(a, "stale_approval")
          /\ at' = [at EXCEPT ![r] = a]
          /\ Goto(r, IF Decidable(a, "stale_approval") THEN "finish" ELSE "scan")
    BY <1>9 DEF ScanStale
  <2>2. a \in Approval /\ \A u \in Thread \ {r} : at'[u] = at[u]
    BY <1>0, <2>1 DEF TypeOK
  <2>3. PICK label \in {"finish", "scan"} : Goto(r, label)
    BY <2>1
  <2> QED BY <1>0, <1>9, <2>1, <2>2, <2>3, GotoMoves DEF ScanStale
<1>10. CASE FinishStale(r)
  BY <1>0, <1>10, GotoMoves DEF FinishStale
<1>11. CASE ScanApproved(r)
  <2>1. PICK a \in todo[r] : snap[r][a] = "approved" /\ at' = [at EXCEPT ![r] = a]
    BY <1>11 DEF ScanApproved, ToResume
  <2>2. /\ a \in Approval /\ at'[r] = a
        /\ \A u \in Thread \ {r} : at'[u] = at[u]
    BY <1>0, <2>1 DEF TypeOK
  <2> QED BY <1>0, <1>11, <2>1, <2>2, GotoMoves DEF ScanApproved
<1>12. CASE FinishRejected(r)
  BY <1>0, <1>12 DEF FinishRejected
<1>13. CASE EndTick(r)
  BY <1>0, <1>13, GotoMoves DEF EndTick, Scratch
<1> QED
  BY <1>1, <1>2, <1>3, <1>4, <1>5, <1>6, <1>7, <1>8, <1>9, <1>10, <1>11, <1>12, <1>13
     DEF ReconcileStep

\* Every other step moves no thread into _execute_resume.
LEMMA OtherMoves ==
  ASSUME TypeOK,
         \/ \E c \in Canceller : CancelStep(c)
         \/ \E r \in Replica : Rebuild(r) \/ CloseRetired(r) \/ Crash(r)
         \/ \E a \in Approval :
              \/ CallAgain(a) \/ Pause(a) \/ CommitAwaiting(a) \/ Expire(a)
              \/ SweepRun(a) \/ DeleteSession(a)
              \/ \E t \in Thread : SweepResume(a, t)
  PROVE  /\ executions' = executions /\ at' = at /\ snap' = snap
         /\ \A t \in Thread : pc'[t] \in {pc[t], "booting", "done"}
         /\ \A r \in Replica : won'[r] \subseteq won[r]
         /\ \/ status' = status
            \/ \E a \in Approval : Pause(a)
            \/ \E a \in Approval, e \in L!Final : status' = Decided(a, e)
         /\ \A a \in Approval, t \in Thread : resume[a][t] = "absent" => resume'[a][t] = "absent"
<1> USE DEF store, Scratch, ticks
<1>1. ASSUME NEW c \in Canceller, CancelStep(c)
      PROVE  /\ UNCHANGED <<executions, at, snap, won, pc, resume>>
             /\ \/ status' = status
                \/ \E a \in Approval, e \in L!Final : status' = Decided(a, e)
  <2>1. CASE FindRun(c)
    BY <2>1 DEF FindRun
  <2>2. CASE CancelApproval(c)
    <3>1. cat[c] \in Approval /\ "cancelled" \in L!Final
      BY DEF TypeOK, L!Final
    <3> QED BY <2>2, <3>1 DEF CancelApproval
  <2>3. CASE CancelRun(c)
    BY <2>3 DEF CancelRun
  <2> QED BY <1>1, <2>1, <2>2, <2>3 DEF CancelStep
<1>2. ASSUME NEW r \in Replica, Rebuild(r) \/ CloseRetired(r)
      PROVE  UNCHANGED <<executions, at, snap, won, pc, resume, status>>
  BY <1>2 DEF Rebuild, CloseRetired
<1>3. ASSUME NEW r \in Replica, Crash(r)
      PROVE  /\ UNCHANGED <<executions, at, snap, resume, status>>
             /\ \A t \in Thread : pc'[t] \in {pc[t], "booting", "done"}
             /\ \A s \in Replica : won'[s] \subseteq won[s]
  BY <1>3 DEF Crash, TypeOK
<1>4. ASSUME NEW a \in Approval,
             CallAgain(a) \/ Pause(a) \/ CommitAwaiting(a) \/ Expire(a) \/ SweepRun(a)
      PROVE  /\ UNCHANGED <<executions, at, snap, won, pc, resume>>
             /\ status' = status \/ Pause(a)
  BY <1>4 DEF CallAgain, Pause, CommitAwaiting, Expire, SweepRun
<1>5. ASSUME NEW a \in Approval, DeleteSession(a)
      PROVE  /\ UNCHANGED <<executions, at, snap, won, pc, status>>
             /\ \A b \in Approval, t \in Thread :
                  resume[b][t] = "absent" => resume'[b][t] = "absent"
  BY <1>5 DEF DeleteSession, TypeOK
<1>6. ASSUME NEW a \in Approval, NEW t \in Thread, SweepResume(a, t)
      PROVE  /\ UNCHANGED <<executions, at, snap, won, pc, status>>
             /\ \A b \in Approval, u \in Thread :
                  resume[b][u] = "absent" => resume'[b][u] = "absent"
  BY <1>6 DEF SweepResume, TypeOK
<1> QED
  BY <1>1, <1>2, <1>3, <1>4, <1>5, <1>6

-----------------------------------------------------------------------------
(* The gate                                                                *)

LEMMA DecidedKeeps ==
  ASSUME TypeOK, NEW a \in Approval, NEW b \in Approval, NEW e, status[b] # "pending"
  PROVE  Decided(a, e)[b] = status[b]
BY DEF TypeOK, Decided, Decidable

LEMMA DecidedWins ==
  ASSUME TypeOK, NEW a \in Approval, NEW e, Decidable(a, e)
  PROVE  Decided(a, e)[a] = e
BY DEF TypeOK, Decided

LEMMA StatusMoves ==
  ASSUME TypeOK, [Next]_vars
  PROVE  \/ status' = status
         \/ executions' = executions /\ \E a \in Approval : Pause(a)
         \/ executions' = executions /\ \E a \in Approval, e \in L!Final : status' = Decided(a, e)
<1>1. CASE UNCHANGED vars
  BY <1>1 DEF vars, store
<1>2. ASSUME NEW d \in Decider, ReadApproval(d) \/ DecisionStep(d)
      PROVE  \/ status' = status
             \/ executions' = executions /\ \E a \in Approval, e \in L!Final : status' = Decided(a, e)
  <2>1. d \in Thread /\ at[d] \in Approval
    BY DEF Thread, TypeOK
  <2> QED BY <1>2, <2>1, ResumeMoves, DecisionMoves DEF DecisionStep
<1>3. ASSUME NEW r \in Replica, ReconcileStep(r)
      PROVE  \/ status' = status
             \/ executions' = executions /\ \E a \in Approval, e \in L!Final : status' = Decided(a, e)
  <2>1. r \in Thread
    BY DEF Thread
  <2> QED BY <1>3, <2>1, ResumeMoves, ReconcileMoves
<1> QED
  BY <1>1, <1>2, <1>3, OtherMoves DEF Next

\* The first decision stands: no later handler replaces it.
LEMMA FinalStays ==
  ASSUME TypeOK, [Next]_vars, NEW a \in Approval, status[a] \in L!Final
  PROVE  status'[a] = status[a]
<1>0. status[a] # "pending" /\ status[a] # "absent"
  BY DEF L!Final
<1>1. ASSUME NEW b \in Approval, Pause(b)
      PROVE  status'[a] = status[a]
  BY <1>0, <1>1 DEF Pause, TypeOK
<1>2. ASSUME NEW b \in Approval, NEW e \in L!Final, status' = Decided(b, e)
      PROVE  status'[a] = status[a]
  BY <1>0, <1>2, DecidedKeeps
<1> QED
  BY <1>1, <1>2, StatusMoves

\* A thread is inside _execute_resume because it was, or because it won a decision, or
\* because it is a reconciler that found one.
LEMMA ResumeOrigin ==
  ASSUME TypeOK, [Next]_vars, NEW t \in Thread, Resuming(t)'
  PROVE  \/ Resuming(t) /\ at'[t] = at[t]
         \/ /\ t \in Decider /\ at' = at
            /\ status[at[t]] = "pending" /\ status' = Decided(at[t], "approved")
            /\ Decidable(at[t], "approved")
            /\ \A u \in Thread \ {t} : pc'[u] = pc[u]
         \/ /\ t \in Replica /\ status' = status
            /\ \/ OnTimeout = "allow" /\ at'[t] \in won[t]
               \/ snap[t][at'[t]] = "approved" /\ at'[t] \in Approval
<1>1. CASE UNCHANGED vars
  BY <1>1 DEF vars, Resuming, Scratch, ticks
<1>2. ASSUME NEW u \in Thread, ExecuteResume(u)
      PROVE  Resuming(t) /\ at'[t] = at[t]
  BY <1>2, ResumeMoves DEF Resuming
<1>3. ASSUME NEW d \in Decider, ReadApproval(d) \/ DecisionStep(d), ~ExecuteResume(d)
      PROVE  \/ Resuming(t) /\ at'[t] = at[t]
             \/ /\ t \in Decider /\ at' = at
                /\ status[at[t]] = "pending" /\ status' = Decided(at[t], "approved")
                /\ Decidable(at[t], "approved")
                /\ \A u \in Thread \ {t} : pc'[u] = pc[u]
  BY <1>3, DecisionMoves DEF DecisionStep, Resuming
<1>4. ASSUME NEW r \in Replica, ReconcileStep(r), ~ExecuteResume(r)
      PROVE  \/ Resuming(t) /\ at'[t] = at[t]
             \/ /\ t \in Replica /\ status' = status
                /\ \/ OnTimeout = "allow" /\ at'[t] \in won[t]
                   \/ snap[t][at'[t]] = "approved" /\ at'[t] \in Approval
  <2>1. CASE t = r
    BY <1>4, <2>1, ReconcileMoves
  <2>2. CASE t # r
    BY <1>4, <2>2, ReconcileMoves DEF Resuming
  <2> QED BY <2>1, <2>2
<1>5. CASE \/ \E c \in Canceller : CancelStep(c)
           \/ \E r \in Replica : Rebuild(r) \/ CloseRetired(r) \/ Crash(r)
           \/ \E a \in Approval :
                \/ CallAgain(a) \/ Pause(a) \/ CommitAwaiting(a) \/ Expire(a)
                \/ SweepRun(a) \/ DeleteSession(a)
                \/ \E u \in Thread : SweepResume(a, u)
  BY <1>5, OtherMoves DEF Resuming
<1> QED
  BY <1>1, <1>2, <1>3, <1>4, <1>5 DEF Next, Thread

\* Only the start of a tool moves the counters.
LEMMA OnlyStartTool ==
  ASSUME TypeOK, [Next]_vars, executions' # executions
  PROVE  \E t \in Thread : StartTool(t)
<1>0. Decider \subseteq Thread /\ Replica \subseteq Thread
  BY DEF Thread
<1>1. CASE UNCHANGED vars
  BY <1>1 DEF vars
<1>2. ASSUME NEW t \in Thread, ExecuteResume(t)
      PROVE  StartTool(t)
  BY <1>2 DEF ExecuteResume, AlreadyResumed, ToolUnavailable, ToolFound,
     SessionMissing, ToolReturns, ToolRaises, AdmitResume, AdmitRefused, FinishResume
<1>3. ASSUME NEW d \in Decider, ReadApproval(d) \/ DecisionStep(d)
      PROVE  ExecuteResume(d)
  BY <1>3, DecisionMoves DEF DecisionStep
<1>4. ASSUME NEW r \in Replica, ReconcileStep(r)
      PROVE  ExecuteResume(r)
  BY <1>4, ReconcileMoves
<1>5. CASE \/ \E c \in Canceller : CancelStep(c)
           \/ \E r \in Replica : Rebuild(r) \/ CloseRetired(r) \/ Crash(r)
           \/ \E b \in Approval :
                \/ CallAgain(b) \/ Pause(b) \/ CommitAwaiting(b) \/ Expire(b)
                \/ SweepRun(b) \/ DeleteSession(b)
                \/ \E u \in Thread : SweepResume(b, u)
  BY <1>5, OtherMoves
<1> QED
  BY <1>0, <1>1, <1>2, <1>3, <1>4, <1>5 DEF Next

\* Only a call made again passes the gate.
LEMMA OnlyCallAgain ==
  ASSUME [Next]_vars, ungated' # ungated
  PROVE  \E a \in Approval : CallAgain(a)
<1>1. CASE UNCHANGED vars
  BY <1>1 DEF vars
<1>2. ASSUME NEW t \in Thread, ExecuteResume(t)
      PROVE  FALSE
  BY <1>2 DEF ExecuteResume, AlreadyResumed, ToolUnavailable, ToolFound, SessionMissing,
     StartTool, ToolReturns, ToolRaises, AdmitResume, AdmitRefused, FinishResume
<1>3. ASSUME NEW d \in Decider, ReadApproval(d) \/ DecisionStep(d)
      PROVE  FALSE
  <2>1. ~ExecuteResume(d)
    BY <1>2 DEF Thread
  <2> QED BY <1>3, <2>1 DEF DecisionStep, ReadApproval, CheckGeneration, RetireApproval,
             Decide, Reread
<1>4. ASSUME NEW r \in Replica, ReconcileStep(r)
      PROVE  FALSE
  <2>1. ~ExecuteResume(r)
    BY <1>2 DEF Thread
  <2> QED BY <1>4, <2>1 DEF ReconcileStep, Capture, BeginTick, ExpireOne, ExpireDone,
             RejectTimedOut, ResumeTimedOut, ListApprovals, Skip, ScanStale, FinishStale,
             ScanApproved, FinishRejected, EndTick
<1>5. ASSUME NEW c \in Canceller, CancelStep(c)
      PROVE  FALSE
  BY <1>5 DEF CancelStep, FindRun, CancelApproval, CancelRun
<1>6. ASSUME NEW r \in Replica, Rebuild(r) \/ CloseRetired(r) \/ Crash(r)
      PROVE  FALSE
  BY <1>6 DEF Rebuild, CloseRetired, Crash
<1>7. ASSUME NEW a \in Approval,
             \/ Pause(a) \/ CommitAwaiting(a) \/ Expire(a) \/ SweepRun(a) \/ DeleteSession(a)
             \/ \E t \in Thread : SweepResume(a, t)
      PROVE  FALSE
  BY <1>7 DEF Pause, CommitAwaiting, Expire, SweepRun, DeleteSession, SweepResume
<1> QED
  BY <1>1, <1>3, <1>4, <1>5, <1>6, <1>7 DEF Next

LEMMA GateInit == Init => GateInv
<1> SUFFICES ASSUME Init PROVE GateInv
  OBVIOUS
<1>1. \A t \in Thread : ~Resuming(t)
  BY DEF Init, Resuming
<1>2. DecidersApproved /\ ReconcilersPermitted /\ OneDeciderResumes
  BY <1>1 DEF DecidersApproved, ReconcilersPermitted, OneDeciderResumes, Thread
<1>3. WonTimedOut /\ SnapStillTrue /\ ToolNeedsApproval
  BY DEF Init, WonTimedOut, SnapStillTrue, ToolNeedsApproval, L!Final
<1> QED
  BY <1>2, <1>3 DEF GateInv

LEMMA PermittingIsFinal == L!Permitting \subseteq L!Final /\ "approved" \in L!Permitting
BY DEF L!Permitting, L!Final

LEMMA GateStep ==
  ASSUME TypeOK, GateInv, [Next]_vars
  PROVE  GateInv'
<1> USE DEF GateInv
<1>0. Decider \subseteq Thread /\ Replica \subseteq Thread /\ Decider \cap Replica = {}
  BY ApprovalsAssumption DEF ApprovalsAssumption, Thread
<1>1. DecidersApproved'
  <2> SUFFICES ASSUME NEW d \in Decider, Resuming(d)'
               PROVE  status'[at'[d]] = "approved"
    BY DEF DecidersApproved
  <2>1. CASE Resuming(d) /\ at'[d] = at[d]
    BY <1>0, <2>1, FinalStays, PermittingIsFinal DEF DecidersApproved, TypeOK
  <2>2. CASE at' = at /\ status' = Decided(at[d], "approved") /\ Decidable(at[d], "approved")
    BY <1>0, <2>2, DecidedWins DEF TypeOK
  <2> QED BY <1>0, <2>1, <2>2, ResumeOrigin
<1>2. ReconcilersPermitted'
  <2> SUFFICES ASSUME NEW r \in Replica, Resuming(r)'
               PROVE  status'[at'[r]] \in L!Permitting
    BY DEF ReconcilersPermitted
  <2>1. CASE Resuming(r) /\ at'[r] = at[r]
    BY <1>0, <2>1, FinalStays, PermittingIsFinal DEF ReconcilersPermitted, TypeOK
  <2>2. CASE status' = status /\ OnTimeout = "allow" /\ at'[r] \in won[r]
    BY <2>2 DEF WonTimedOut, L!Permitting
  <2>3. CASE status' = status /\ snap[r][at'[r]] = "approved" /\ at'[r] \in Approval
    BY <2>3, PermittingIsFinal DEF SnapStillTrue
  <2> QED BY <1>0, <2>1, <2>2, <2>3, ResumeOrigin
<1>3. OneDeciderResumes'
  <2> SUFFICES ASSUME NEW d \in Decider, NEW e \in Decider, d # e,
                      Resuming(d)', Resuming(e)', at'[d] = at'[e]
               PROVE  FALSE
    BY DEF OneDeciderResumes
  <2>1. CASE Resuming(d) /\ at'[d] = at[d] /\ Resuming(e) /\ at'[e] = at[e]
    BY <2>1 DEF OneDeciderResumes
  <2>2. ASSUME NEW x \in Decider, NEW y \in Decider, x # y, at'[x] = at'[y],
               Resuming(y)', at' = at, status[at[x]] = "pending",
               \A u \in Thread \ {x} : pc'[u] = pc[u]
        PROVE  FALSE
    <3>1. Resuming(y)
      BY <1>0, <2>2 DEF Resuming
    <3> QED BY <2>2, <3>1 DEF DecidersApproved
  <2> QED BY <1>0, <2>1, <2>2, ResumeOrigin
<1>4. WonTimedOut'
  <2> SUFFICES ASSUME NEW s \in Replica, NEW a \in won'[s]
               PROVE  status'[a] = "timed_out"
    BY DEF WonTimedOut
  <2>0. ASSUME NEW b \in Approval, b \in won[s]
        PROVE  status'[b] = "timed_out"
    BY <2>0, FinalStays DEF WonTimedOut, L!Final
  <2>1. CASE a \in won[s]
    BY <2>0, <2>1 DEF TypeOK
  <2>2. CASE a \notin won[s]
    <3>1. CASE UNCHANGED vars
      BY <2>2, <3>1 DEF vars, ticks
    <3>2. ASSUME NEW u \in Thread, ExecuteResume(u)
          PROVE  FALSE
      BY <2>2, <3>2, ResumeMoves
    <3>3. ASSUME NEW d \in Decider, ReadApproval(d) \/ DecisionStep(d)
          PROVE  FALSE
      BY <1>0, <2>2, <3>2, <3>3, DecisionMoves DEF DecisionStep
    <3>4. ASSUME NEW r \in Replica, ReconcileStep(r), ~ExecuteResume(r)
          PROVE  status'[a] = "timed_out"
      <4>1. PICK b \in Approval :
              /\ Decidable(b, "timed_out") /\ status' = Decided(b, "timed_out")
              /\ won' = [won EXCEPT ![r] = @ \cup {b}]
        <5>1. won' # won
          BY <2>2
        <5>2. ASSUME NEW w \in SUBSET won[r], won' = [won EXCEPT ![r] = w]
              PROVE  FALSE
          BY <2>2, <5>2 DEF TypeOK
        <5>3. /\ ~ \E b \in won[r] : won' = [won EXCEPT ![r] = @ \ {b}]
              /\ won' # [won EXCEPT ![r] = {}]
          BY <5>2
        <5> QED BY <3>4, <5>1, <5>3, ReconcileMoves
      <4>2. a = b
        BY <2>2, <4>1 DEF TypeOK
      <4> QED BY <4>1, <4>2, DecidedWins
    <3>5. CASE \/ \E c \in Canceller : CancelStep(c)
               \/ \E r \in Replica : Rebuild(r) \/ CloseRetired(r) \/ Crash(r)
               \/ \E b \in Approval :
                    \/ CallAgain(b) \/ Pause(b) \/ CommitAwaiting(b) \/ Expire(b) \/ SweepRun(b)
                    \/ DeleteSession(b)
                    \/ \E u \in Thread : SweepResume(b, u)
      <4>1. won'[s] \subseteq won[s]
        BY <3>5, OtherMoves
      <4> QED BY <2>2, <4>1
    <3> QED BY <1>0, <3>1, <3>2, <3>3, <3>4, <3>5 DEF Next
  <2> QED BY <2>1, <2>2
<1>5. SnapStillTrue'
  <2>1. \/ snap' = snap
        \/ \E r \in Replica : snap' = [snap EXCEPT ![r] = status] /\ status' = status
    <3>1. CASE UNCHANGED vars
      BY <3>1 DEF vars, ticks
    <3>2. ASSUME NEW u \in Thread, ExecuteResume(u)
          PROVE  snap' = snap
      BY <3>2, ResumeMoves
    <3>3. ASSUME NEW d \in Decider, ReadApproval(d) \/ DecisionStep(d)
          PROVE  snap' = snap
      BY <1>0, <3>2, <3>3, DecisionMoves DEF DecisionStep
    <3>4. ASSUME NEW r \in Replica, ReconcileStep(r)
          PROVE  \/ snap' = snap
                 \/ snap' = [snap EXCEPT ![r] = status] /\ status' = status
      BY <1>0, <3>2, <3>4, ReconcileMoves
    <3> QED BY <3>1, <3>3, <3>4, OtherMoves DEF Next
  <2> SUFFICES ASSUME NEW r \in Replica, NEW a \in Approval, snap'[r][a] \in L!Final
               PROVE  status'[a] = snap'[r][a]
    BY DEF SnapStillTrue
  <2>2. CASE snap'[r] = snap[r]
    BY <2>2, FinalStays DEF SnapStillTrue
  <2>3. CASE snap'[r] = status /\ status' = status
    BY <2>3
  <2> QED BY <2>1, <2>2, <2>3 DEF TypeOK
<1>6. ToolNeedsApproval'
  <2>3. ASSUME NEW a \in Approval, ungated'[a]
        PROVE  status'[a] \in L!Final
    <3>1. CASE ungated[a]
      BY <3>1, FinalStays DEF ToolNeedsApproval
    <3>2. CASE ~ungated[a]
      <4>1. PICK b \in Approval : CallAgain(b)
        BY <2>3, <3>2, OnlyCallAgain
      <4> QED BY <2>3, <3>2, <4>1 DEF CallAgain, LetsPass, TypeOK
    <3> QED BY <3>1, <3>2
  <2> SUFFICES ASSUME NEW a \in Approval, executions'[a] > 0
               PROVE  status'[a] \in L!Permitting
    BY <2>3 DEF ToolNeedsApproval
  <2>1. CASE executions'[a] = executions[a]
    BY <2>1, FinalStays, PermittingIsFinal DEF ToolNeedsApproval
  <2>2. CASE executions'[a] # executions[a]
    <3>1. PICK t \in Thread : StartTool(t)
      BY <2>2, OnlyStartTool
    <3>2. a = at[t] /\ status' = status /\ Resuming(t)
      BY <2>2, <3>1 DEF StartTool, TypeOK, store, Resuming
    <3>3. status[at[t]] \in L!Permitting
      BY <3>2, PermittingIsFinal DEF DecidersApproved, ReconcilersPermitted, Thread
    <3> QED BY <3>2, <3>3
  <2> QED BY <2>1, <2>2
<1> QED
  BY <1>1, <1>2, <1>3, <1>4, <1>5, <1>6

LEMMA GateHolds == Spec => []GateInv
<1>1. Init => GateInv
  BY GateInit
<1>2. TypeOK /\ GateInv /\ [Next]_vars => GateInv'
  BY GateStep
<1> QED
  BY <1>1, <1>2, TypeCorrect, PTL DEF Spec

(***************************************************************************)
(* HITL-02/04: a gated tool is never started from its checkpoint before a  *)
(* decision that permits it has been stored, and no call passes the gate   *)
(* on an approval that is still open.                                      *)
(***************************************************************************)
THEOREM ToolIsGated == Spec => []ToolNeedsApproval
<1>1. GateInv => ToolNeedsApproval
  BY DEF GateInv
<1> QED
  BY <1>1, GateHolds, PTL

(***************************************************************************)
(* HITL-04: of the decision requests for one approval, at most one goes on *)
(* to resume it.                                                           *)
(***************************************************************************)
THEOREM OneDecisionWins == Spec => []OneDeciderResumes
<1>1. GateInv => OneDeciderResumes
  BY DEF GateInv
<1> QED
  BY <1>1, GateHolds, PTL

-----------------------------------------------------------------------------
(* The refinement                                                          *)

\* Who starts a tool holds a decision that permits it.
LEMMA StartIsPermitted ==
  ASSUME TypeOK, GateInv, NEW t \in Thread, StartTool(t)
  PROVE  at[t] \in Approval /\ status[at[t]] \in L!Permitting
<1>1. Resuming(t) /\ at[t] \in Approval
  BY DEF StartTool, Resuming, TypeOK
<1> QED
  BY <1>1, PermittingIsFinal DEF GateInv, DecidersApproved, ReconcilersPermitted, Thread

LEMMA LedgerStep ==
  ASSUME TypeOK, GateInv, [Next]_vars
  PROVE  [L!LedgerNext]_(L!ledgerVars)
<1>0. CASE ungated' # ungated
  <2>1. PICK a \in Approval : CallAgain(a)
    BY <1>0, OnlyCallAgain
  <2>2. L!Repeat(a)
    BY <2>1 DEF CallAgain, LetsPass, L!Repeat
  <2> QED BY <2>2 DEF L!LedgerNext
<1>1. CASE status' = status /\ executions' = executions /\ ungated' = ungated
  BY <1>1 DEF L!ledgerVars
<1>2. CASE status' = status /\ executions' # executions /\ ungated' = ungated
  <2>1. PICK t \in Thread : StartTool(t)
    BY <1>2, OnlyStartTool
  <2>2. executions[at[t]] < MaxExecutions /\ executions' = [executions EXCEPT ![at[t]] = @ + 1]
    BY <1>2, <2>1 DEF StartTool, TypeOK
  <2>3. L!Execute(at[t])
    BY <1>2, <2>1, <2>2, StartIsPermitted DEF L!Execute
  <2> QED BY <2>1, <2>3, StartIsPermitted DEF L!LedgerNext
<1>3. ASSUME executions' = executions, NEW a \in Approval, Pause(a)
      PROVE  L!LedgerNext
  BY <1>3 DEF Pause, L!Request, L!LedgerNext
<1>4. ASSUME executions' = executions, ungated' = ungated,
             NEW a \in Approval, NEW e \in L!Final, status' = Decided(a, e)
      PROVE  L!LedgerNext \/ UNCHANGED L!ledgerVars
  <2>1. CASE Decidable(a, e)
    BY <1>4, <2>1 DEF Decided, Decidable, L!Settle, L!LedgerNext
  <2>2. CASE ~Decidable(a, e)
    BY <1>4, <2>2 DEF Decided, L!ledgerVars
  <2> QED BY <2>1, <2>2
<1> QED
  BY <1>0, <1>1, <1>2, <1>3, <1>4, StatusMoves

(***************************************************************************)
(* The handlers, reconcilers and their failures implement the ledger:      *)
(* requested once, decided once and for all, run only if permitted.        *)
(***************************************************************************)
THEOREM ApprovalsImplementsLedger == Spec => LedgerRefined
<1>1. Init => L!LedgerInit
  BY DEF Init, L!LedgerInit
<1>2. TypeOK /\ GateInv /\ [Next]_vars => [L!LedgerNext]_(L!ledgerVars)
  BY LedgerStep
<1> QED
  BY <1>1, <1>2, TypeCorrect, GateHolds, PTL DEF Spec, LedgerRefined, L!LedgerSpec

-----------------------------------------------------------------------------
(* The continuation                                                        *)

LEMMA ExecutionsGrow ==
  ASSUME TypeOK, [Next]_vars, NEW a \in Approval, executions[a] > 0
  PROVE  executions'[a] > 0
<1>1. ASSUME NEW t \in Thread, StartTool(t)
      PROVE  executions'[a] > 0
  BY <1>1, ApprovalsAssumption DEF ApprovalsAssumption, StartTool, TypeOK
<1> QED
  BY <1>1, OnlyStartTool

LEMMA ToolStep ==
  ASSUME TypeOK, ToolInv, [Next]_vars
  PROVE  ToolInv'
<1>0. Decider \subseteq Thread /\ Replica \subseteq Thread
  BY DEF Thread
<1>1. ToolBehind'
  <2> SUFFICES ASSUME NEW t \in Thread, pc'[t] \in {"tool", "admit", "resumed"}
               PROVE  executions'[at'[t]] > 0
    BY DEF ToolBehind
  <2>1. CASE pc[t] \in {"tool", "admit", "resumed"} /\ at'[t] = at[t]
    BY <2>1, ExecutionsGrow DEF ToolInv, ToolBehind, TypeOK
  <2>2. CASE StartTool(t)
    BY <2>2, ApprovalsAssumption DEF ApprovalsAssumption, StartTool, TypeOK, Scratch
  <2>3. ASSUME NEW u \in Thread, ExecuteResume(u), ~StartTool(t)
        PROVE  pc[t] \in {"tool", "admit", "resumed"} /\ at'[t] = at[t]
    <3>1. CASE t # u
      BY <2>3, <3>1, ResumeMoves
    <3>2. CASE t = u
      <4>1. at'[t] = at[t]
        BY <2>3, <3>2, ResumeMoves
      <4>2. CASE AlreadyResumed(t)
        BY <4>2, ReturnMoves DEF AlreadyResumed
      <4>3. CASE ToolUnavailable(t)
        BY <4>3, ReturnMoves DEF ToolUnavailable
      <4>4. CASE ToolFound(t)
        BY <4>4, GotoMoves DEF ToolFound
      <4>5. CASE SessionMissing(t)
        BY <4>5, ReturnMoves DEF SessionMissing
      <4>6. CASE ToolReturns(t) \/ ToolRaises(t) \/ AdmitResume(t) \/ AdmitRefused(t)
                 \/ FinishResume(t)
        BY <4>1, <4>6 DEF ToolReturns, ToolRaises, AdmitResume, AdmitRefused, FinishResume
      <4> QED
        BY <2>3, <3>2, <4>2, <4>3, <4>4, <4>5, <4>1, <4>6 DEF ExecuteResume
    <3> QED BY <3>1, <3>2
  <2>4. ASSUME NEW d \in Decider, ReadApproval(d) \/ DecisionStep(d), ~ExecuteResume(d)
        PROVE  pc[t] \in {"tool", "admit", "resumed"} /\ at'[t] = at[t]
    BY <2>4, DecisionMoves DEF DecisionStep, Resuming
  <2>5. ASSUME NEW r \in Replica, ReconcileStep(r), ~ExecuteResume(r)
        PROVE  pc[t] \in {"tool", "admit", "resumed"} /\ at'[t] = at[t]
    <3>1. CASE t = r
      <4>1. Resuming(r)'
        BY <3>1 DEF Resuming
      <4> QED BY <2>5, <3>1, <4>1, ReconcileMoves
    <3>2. CASE t # r
      BY <2>5, <3>2, ReconcileMoves
    <3> QED BY <3>1, <3>2
  <2>6. CASE UNCHANGED vars
    BY <2>1, <2>6 DEF vars, Scratch
  <2>7. CASE \/ \E c \in Canceller : CancelStep(c)
             \/ \E r \in Replica : Rebuild(r) \/ CloseRetired(r) \/ Crash(r)
             \/ \E b \in Approval :
                  \/ CallAgain(b) \/ Pause(b) \/ CommitAwaiting(b) \/ Expire(b)
                  \/ SweepRun(b) \/ DeleteSession(b)
                  \/ \E u \in Thread : SweepResume(b, u)
    <3>1. pc[t] \in {"tool", "admit", "resumed"} /\ at'[t] = at[t]
      BY <2>7, OtherMoves
    <3> QED BY <2>1, <3>1
  <2> QED BY <1>0, <2>1, <2>2, <2>3, <2>4, <2>5, <2>6, <2>7 DEF Next
<1>2. ResumeFollowsTool'
  <2> SUFFICES ASSUME NEW a \in Approval, NEW v \in Thread, resume'[a][v] # "absent"
               PROVE  executions'[a] > 0
    BY DEF ResumeFollowsTool, Resumed
  <2>1. CASE resume[a][v] # "absent"
    BY <2>1, ExecutionsGrow DEF ToolInv, ResumeFollowsTool, Resumed
  <2>2. ASSUME NEW t \in Thread, AdmitResume(t)
        PROVE  resume[a][v] # "absent" \/ executions'[a] > 0
    <3>1. CASE a = at[t]
      BY <2>2, <3>1 DEF AdmitResume, ToolInv, ToolBehind
    <3>2. CASE a # at[t]
      BY <2>2, <3>2 DEF AdmitResume, TypeOK
    <3> QED BY <3>1, <3>2
  <2>3. ASSUME NEW t \in Thread, FinishResume(t)
        PROVE  resume[a][v] # "absent"
    BY <2>3 DEF FinishResume, TypeOK
  <2>4. ASSUME NEW t \in Thread, ExecuteResume(t), ~AdmitResume(t), ~FinishResume(t)
        PROVE  resume' = resume
    BY <2>4 DEF ExecuteResume, AlreadyResumed, ToolUnavailable, ToolFound, SessionMissing,
       StartTool, ToolReturns, ToolRaises, AdmitRefused, store
  <2>5. ASSUME NEW d \in Decider, ReadApproval(d) \/ DecisionStep(d), ~ExecuteResume(d)
        PROVE  resume' = resume
    BY <2>5, DecisionMoves DEF DecisionStep
  <2>6. ASSUME NEW r \in Replica, ReconcileStep(r), ~ExecuteResume(r)
        PROVE  resume' = resume
    BY <2>6, ReconcileMoves
  <2>7. CASE UNCHANGED vars
    BY <2>1, <2>7 DEF vars, store
  <2>8. CASE \/ \E c \in Canceller : CancelStep(c)
             \/ \E r \in Replica : Rebuild(r) \/ CloseRetired(r) \/ Crash(r)
             \/ \E b \in Approval :
                  \/ CallAgain(b) \/ Pause(b) \/ CommitAwaiting(b) \/ Expire(b)
                  \/ SweepRun(b) \/ DeleteSession(b)
                  \/ \E u \in Thread : SweepResume(b, u)
    BY <2>1, <2>8, OtherMoves
  <2> QED BY <1>0, <2>1, <2>2, <2>3, <2>4, <2>5, <2>6, <2>7, <2>8 DEF Next
<1> QED
  BY <1>1, <1>2 DEF ToolInv

(***************************************************************************)
(* HITL-04: a run that carries the conversation on after an approval       *)
(* exists only once the approved tool has been started.                    *)
(***************************************************************************)
THEOREM ContinuationFollowsTool == Spec => []ResumeFollowsTool
<1>1. Init => ToolInv
  BY DEF Init, ToolInv, ToolBehind, ResumeFollowsTool, Resumed
<1>2. TypeOK /\ ToolInv /\ [Next]_vars => ToolInv'
  BY ToolStep
<1>3. ToolInv => ResumeFollowsTool
  BY DEF ToolInv
<1> QED
  BY <1>1, <1>2, <1>3, TypeCorrect, PTL DEF Spec
-----------------------------------------------------------------------------
(* Timeouts                                                                *)

\* A reconciler turns to the tool of an approval only from these two of its steps.
LEMMA EntersResume ==
  ASSUME TypeOK, NEW r \in Replica, ReconcileStep(r), ~ExecuteResume(r), Resuming(r)'
  PROVE  ResumeTimedOut(r) \/ ScanApproved(r)
<1> USE DEF Resuming
<1>0. r \in Thread /\ ~Resuming(r)
  BY ReconcileMoves DEF Thread
<1>1. CASE Capture(r)
  BY <1>0, <1>1, GotoMoves DEF Capture
<1>2. CASE BeginTick(r)
  BY <1>0, <1>2, GotoMoves DEF BeginTick
<1>3. CASE ExpireOne(r) \/ RejectTimedOut(r) \/ Skip(r) \/ FinishRejected(r)
  BY <1>0, <1>3 DEF ExpireOne, RejectTimedOut, Skip, FinishRejected
<1>4. CASE ExpireDone(r)
  BY <1>0, <1>4, GotoMoves DEF ExpireDone
<1>5. CASE ListApprovals(r)
  BY <1>0, <1>5, GotoMoves DEF ListApprovals
<1>6. CASE ScanStale(r)
  <2>1. PICK label \in {"finish", "scan"} : Goto(r, label)
    BY <1>6 DEF ScanStale
  <2> QED BY <1>0, <2>1, GotoMoves
<1>7. CASE FinishStale(r)
  BY <1>0, <1>7, GotoMoves DEF FinishStale
<1>8. CASE EndTick(r)
  BY <1>0, <1>8, GotoMoves DEF EndTick
<1> QED
  BY <1>1, <1>2, <1>3, <1>4, <1>5, <1>6, <1>7, <1>8 DEF ReconcileStep

\* Inside _execute_resume the way leads away from the tool once it was started.
LEMMA WayToTool ==
  ASSUME TypeOK, NEW t \in Thread, ExecuteResume(t), pc'[t] \in {"guard", "session"}
  PROVE  pc[t] \in {"guard", "session"} /\ ~StartTool(t)
<1>1. CASE StartTool(t)
  BY <1>1, GotoMoves DEF StartTool
<1>2. CASE ToolReturns(t)
  BY <1>2, GotoMoves DEF ToolReturns
<1>3. CASE ToolRaises(t)
  BY <1>3, RaiseMoves DEF ToolRaises
<1>4. CASE AdmitResume(t)
  BY <1>4, GotoMoves DEF AdmitResume
<1>5. CASE AdmitRefused(t)
  BY <1>5, ReturnMoves DEF AdmitRefused
<1>6. CASE FinishResume(t)
  BY <1>6, ReturnMoves DEF FinishResume
<1>7. CASE \/ AlreadyResumed(t) \/ ToolUnavailable(t) \/ ToolFound(t) \/ SessionMissing(t)
  <2>1. pc[t] \in {"guard", "session"}
    BY <1>7 DEF AlreadyResumed, ToolUnavailable, ToolFound, SessionMissing
  <2> QED BY <1>1, <2>1
<1> QED
  BY <1>1, <1>2, <1>3, <1>4, <1>5, <1>6, <1>7 DEF ExecuteResume

\* A title to an approval that had timed out before is an old one, or was that of the same
\* reconciler until this step; one to an approval that times out in this step is of the sweep.
LEMMA WonMoves ==
  ASSUME TypeOK, [Next]_vars, NEW a \in Approval, NEW r \in Replica, a \in won'[r], a \notin won[r]
  PROVE  /\ status[a] = "pending"
         /\ \A s \in Replica \ {r} : won'[s] = won[s]
<1>0. Decider \subseteq Thread /\ Replica \subseteq Thread
  BY DEF Thread
<1>1. ASSUME NEW u \in Thread, ExecuteResume(u)
      PROVE  FALSE
  BY <1>1, ResumeMoves
<1>2. ASSUME NEW d \in Decider, ReadApproval(d) \/ DecisionStep(d)
      PROVE  FALSE
  BY <1>0, <1>1, <1>2, DecisionMoves DEF DecisionStep
<1>3. ASSUME NEW s \in Replica, ReconcileStep(s)
      PROVE  /\ status[a] = "pending"
             /\ \A q \in Replica \ {r} : won'[q] = won[q]
  <2>1. ~ExecuteResume(s)
    BY <1>0, <1>1, <1>3
  <2>2. ASSUME NEW w \in SUBSET won[s], won' = [won EXCEPT ![s] = w]
        PROVE  FALSE
    BY <2>2 DEF TypeOK
  <2>3. PICK b \in Approval : /\ Decidable(b, "timed_out")
                              /\ won' = [won EXCEPT ![s] = @ \cup {b}]
    <3>1. /\ won' # won
          /\ ~ \E b \in won[s] : won' = [won EXCEPT ![s] = @ \ {b}]
          /\ won' # [won EXCEPT ![s] = {}]
      BY <2>2
    <3> QED BY <1>3, <2>1, <3>1, ReconcileMoves
  <2> QED BY <2>3 DEF TypeOK, Decidable
<1>4. CASE UNCHANGED vars
  BY <1>4 DEF vars, ticks
<1> QED
  BY <1>0, <1>2, <1>3, <1>4, OtherMoves DEF Next

LEMMA ToToolMoves ==
  ASSUME TypeOK, GateInv, [Next]_vars, NEW a \in Approval, NEW t \in Thread,
         status'[a] = "timed_out", ToTool(t, a)', ~ToTool(t, a)
  PROVE  /\ t \in Replica /\ a \in won[t] /\ a \notin won'[t]
         /\ \A s \in Replica \ {t} : won'[s] = won[s]
         /\ \A u \in Thread \ {t} : pc'[u] = pc[u] /\ at'[u] = at[u]
         /\ executions' = executions
<1> USE DEF ToTool
<1>0. Decider \subseteq Thread /\ Replica \subseteq Thread /\ Resuming(t)'
  BY DEF Thread, Resuming
<1>1. ASSUME NEW u \in Thread, ExecuteResume(u)
      PROVE  FALSE
  <2>1. t = u
    BY <1>1, ResumeMoves
  <2> QED BY <1>1, <2>1, ResumeMoves, WayToTool
<1>2. ASSUME NEW d \in Decider, ReadApproval(d) \/ DecisionStep(d)
      PROVE  FALSE
  <2>1. ~ExecuteResume(d)
    BY <1>0, <1>1
  <2>2. t = d /\ status' = Decided(at[d], "approved") /\ Decidable(at[d], "approved") /\ at' = at
    BY <1>0, <1>2, <2>1, DecisionMoves DEF DecisionStep
  <2> QED BY <2>2, DecidedWins
<1>3. ASSUME NEW r \in Replica, ReconcileStep(r)
      PROVE  /\ t \in Replica /\ a \in won[t] /\ a \notin won'[t]
             /\ \A s \in Replica \ {t} : won'[s] = won[s]
             /\ \A u \in Thread \ {t} : pc'[u] = pc[u] /\ at'[u] = at[u]
             /\ executions' = executions
  <2>1. ~ExecuteResume(r)
    BY <1>0, <1>1
  <2>2. t = r
    BY <1>3, <2>1, ReconcileMoves
  <2>3. CASE ResumeTimedOut(r)
    <3>1. PICK b \in won[r] : at' = [at EXCEPT ![r] = b] /\ won' = [won EXCEPT ![r] = @ \ {b}]
      BY <2>3 DEF ResumeTimedOut
    <3>2. a = b
      BY <1>0, <2>2, <3>1 DEF TypeOK
    <3>3. executions' = executions /\ \A u \in Thread \ {r} : pc'[u] = pc[u] /\ at'[u] = at[u]
      BY <1>3, <2>1, ReconcileMoves
    <3>4. won'[r] = won[r] \ {a} /\ \A s \in Replica \ {r} : won'[s] = won[s]
      BY <3>1, <3>2 DEF TypeOK
    <3> QED BY <1>3, <2>2, <3>1, <3>2, <3>3, <3>4
  <2>4. CASE ScanApproved(r)
    <3>1. PICK b \in todo[r] : snap[r][b] = "approved" /\ at' = [at EXCEPT ![r] = b]
      BY <2>4 DEF ScanApproved, ToResume
    <3>2. a = b
      BY <1>0, <2>2, <3>1 DEF TypeOK
    <3>3. status[a] = "approved" /\ status' = status
      BY <2>4, <3>1, <3>2, PermittingIsFinal DEF GateInv, SnapStillTrue, ScanApproved, store
    <3> QED BY <3>3
  <2> QED BY <1>0, <1>3, <2>1, <2>2, <2>3, <2>4, EntersResume
<1>4. CASE UNCHANGED vars
  BY <1>4 DEF vars, Scratch
<1> QED
  BY <1>0, <1>2, <1>3, <1>4, OtherMoves DEF Next

LEMMA TitleStep ==
  ASSUME TypeOK, GateInv, TitleInv, [Next]_vars
  PROVE  TitleInv'
<1>0. Decider \subseteq Thread /\ Replica \subseteq Thread
  BY DEF Thread
<1> SUFFICES ASSUME NEW a \in Approval, status'[a] = "timed_out"
             PROVE  /\ \A r, s \in Replica : a \in won'[r] /\ a \in won'[s] => r = s
                    /\ \A r \in Replica, t \in Thread : a \in won'[r] => ~ToTool(t, a)'
                    /\ \A t, u \in Thread : ToTool(t, a)' /\ ToTool(u, a)' => t = u
                    /\ \A r \in Replica : a \in won'[r] => executions'[a] = 0
                    /\ \A t \in Thread : ToTool(t, a)' => executions'[a] = 0
                    /\ executions'[a] <= 1
  BY DEF TitleInv, OneTitle, TimeoutResumesOnce
<1>1. CASE status[a] = "timed_out"
  <2>1. \A r \in Replica : a \in won'[r] => a \in won[r]
    BY <1>1, WonMoves
  <2>2. CASE executions'[a] = executions[a]
    BY <1>0, <1>1, <2>1, <2>2, ToToolMoves DEF TitleInv, OneTitle, TimeoutResumesOnce, ToTool
  <2>3. CASE executions'[a] # executions[a]
    <3>1. PICK u \in Thread : StartTool(u)
      BY <2>3, OnlyStartTool
    <3>2. /\ at[u] = a /\ pc[u] = "session" /\ pc'[u] = "tool"
          /\ executions'[a] = IF executions[a] < MaxExecutions THEN executions[a] + 1
                              ELSE executions[a]
      BY <2>3, <3>1, GotoMoves DEF StartTool, TypeOK
    <3>3. executions[a] = 0 /\ executions'[a] = 1
      BY <1>1, <2>3, <3>2 DEF TitleInv, OneTitle, ToTool
    <3>4. \A r \in Replica : a \notin won'[r]
      BY <1>1, <2>1, <3>2 DEF TitleInv, OneTitle, ToTool
    <3>5. ASSUME NEW t \in Thread, ToTool(t, a)'
          PROVE  FALSE
      <4>1. ToTool(t, a)
        BY <2>3, <3>5, ToToolMoves
      <4> QED BY <1>1, <3>2, <3>5, <4>1 DEF TitleInv, OneTitle, ToTool
    <3> QED BY <3>3, <3>4, <3>5
  <2> QED BY <2>2, <2>3
<1>2. CASE status[a] # "timed_out"
  <2>1. status[a] \notin L!Permitting /\ executions' = executions
    <3>1. executions' = executions
      BY <1>2, StatusMoves DEF TypeOK
    <3> QED BY <1>2, <3>1, FinalStays, PermittingIsFinal
  <2>2. executions'[a] = 0
    BY <2>1, ApprovalsAssumption DEF GateInv, ToolNeedsApproval, TypeOK, ApprovalsAssumption
  <2>3. \A r \in Replica : a \notin won[r]
    BY <1>2 DEF GateInv, WonTimedOut
  <2>4. \A t \in Thread : ~ToTool(t, a)
    BY <2>1, PermittingIsFinal
       DEF GateInv, DecidersApproved, ReconcilersPermitted, Thread, Resuming, ToTool
  <2> QED BY <1>0, <2>2, <2>3, <2>4, WonMoves, ToToolMoves
<1> QED
  BY <1>1, <1>2

(***************************************************************************)
(* HITL-05: the tool of an approval that timed out is started from its     *)
(* checkpoint at most once, however many reconcilers sweep and whenever    *)
(* they crash.                                                             *)
(***************************************************************************)
THEOREM TimeoutsResumeOnce == Spec => []TimeoutResumesOnce
<1>1. Init => TitleInv
  BY ApprovalsAssumption DEF Init, TitleInv, OneTitle, TimeoutResumesOnce, ApprovalsAssumption
<1>2. TypeOK /\ GateInv /\ TitleInv /\ [Next]_vars => TitleInv'
  BY TitleStep
<1>3. TitleInv => TimeoutResumesOnce
  BY DEF TitleInv
<1> QED
  BY <1>1, <1>2, <1>3, TypeCorrect, GateHolds, PTL DEF Spec
-----------------------------------------------------------------------------
(* Answers                                                                 *)

\* What _execute_resume answers a decision request.
LEMMA ResumeAnswers ==
  ASSUME TypeOK, NEW t \in Thread, ExecuteResume(t)
  PROVE  /\ choice' = choice
         /\ \A d \in Decider \ {t} : reply'[d] = reply[d]
         /\ t \in Decider =>
              \/ reply' = reply
              \/ /\ pc'[t] = "done"
                 /\ reply'[t] \in {"approved", "tool_unavailable", "session_missing", "error"}
<1>1. ASSUME NEW outcome \in {"approved", "tool_unavailable", "session_missing"}, Return(t, outcome)
      PROVE  /\ \A d \in Decider \ {t} : reply'[d] = reply[d]
             /\ t \in Decider => pc'[t] = "done" /\ reply'[t] = outcome
  BY <1>1 DEF Return, Goto, TypeOK
<1>2. ASSUME Raise(t)
      PROVE  /\ \A d \in Decider \ {t} : reply'[d] = reply[d]
             /\ t \in Decider => pc'[t] = "done" /\ reply'[t] = "error"
  BY <1>2 DEF Raise, Goto, TypeOK
<1>3. CASE \/ AlreadyResumed(t) \/ AdmitRefused(t) \/ FinishResume(t)
  BY <1>1, <1>3 DEF AlreadyResumed, AdmitRefused, FinishResume, Scratch
<1>4. CASE ToolUnavailable(t) \/ SessionMissing(t)
  BY <1>1, <1>4 DEF ToolUnavailable, SessionMissing, Scratch
<1>5. CASE ToolRaises(t)
  BY <1>2, <1>5 DEF ToolRaises, Scratch
<1>6. CASE ToolFound(t) \/ StartTool(t) \/ ToolReturns(t) \/ AdmitResume(t)
  BY <1>6 DEF ToolFound, StartTool, ToolReturns, AdmitResume, Scratch
<1> QED
  BY <1>3, <1>4, <1>5, <1>6 DEF ExecuteResume

\* The steps of others leave a request where it is, except that its process may die.
LEMMA OthersKeepAnswer ==
  ASSUME TypeOK, [Next]_vars, NEW d \in Decider, ~ReadApproval(d), ~DecisionStep(d)
  PROVE  /\ reply'[d] = reply[d] /\ choice'[d] = choice[d] /\ at'[d] = at[d]
         /\ pc'[d] \in {pc[d], "done"}
<1>0. Decider \subseteq Thread /\ Replica \subseteq Thread /\ Decider \cap Replica = {}
  BY ApprovalsAssumption DEF ApprovalsAssumption, Thread
<1>1. ASSUME NEW e \in Decider, e # d, ReadApproval(e)
      PROVE  reply'[d] = reply[d] /\ choice'[d] = choice[d] /\ at'[d] = at[d] /\ pc'[d] = pc[d]
  <2>1. reply'[d] = reply[d] /\ choice'[d] = choice[d]
    BY <1>1 DEF ReadApproval, Return, Goto, TypeOK
  <2> QED BY <1>0, <1>1, <2>1, DecisionMoves
<1>2. ASSUME NEW t \in Thread, t # d, ExecuteResume(t)
      PROVE  reply'[d] = reply[d] /\ choice'[d] = choice[d] /\ at'[d] = at[d] /\ pc'[d] = pc[d]
  BY <1>0, <1>2, ResumeMoves, ResumeAnswers
<1>3. ASSUME NEW e \in Decider, e # d,
             CheckGeneration(e) \/ RetireApproval(e) \/ Decide(e) \/ Reread(e)
      PROVE  reply'[d] = reply[d] /\ choice'[d] = choice[d] /\ at'[d] = at[d] /\ pc'[d] = pc[d]
  <2>1. CASE CheckGeneration(e)
    BY <1>0, <1>3, <2>1, DecisionMoves DEF CheckGeneration
  <2>2. CASE RetireApproval(e)
    BY <1>0, <1>3, <2>2, DecisionMoves DEF RetireApproval, Return, Goto, Scratch, TypeOK
  <2>3. CASE Decide(e)
    BY <1>0, <1>3, <2>3, DecisionMoves DEF Decide, Return, Goto, Scratch, TypeOK
  <2>4. CASE Reread(e)
    BY <1>0, <1>3, <2>4, DecisionMoves DEF Reread, Return, Goto, Scratch, TypeOK
  <2> QED BY <1>3, <2>1, <2>2, <2>3, <2>4
<1>4. ASSUME NEW r \in Replica, ReconcileStep(r), ~ExecuteResume(r)
      PROVE  reply'[d] = reply[d] /\ choice'[d] = choice[d] /\ at'[d] = at[d] /\ pc'[d] = pc[d]
  <2>1. UNCHANGED <<reply, choice>>
    BY <1>4 DEF ReconcileStep, Capture, BeginTick, ExpireOne, ExpireDone, RejectTimedOut,
       ResumeTimedOut, ListApprovals, Skip, ScanStale, FinishStale, ScanApproved,
       FinishRejected, EndTick, Scratch
  <2> QED BY <1>0, <1>4, <2>1, ReconcileMoves
<1>5. ASSUME NEW r \in Replica, Rebuild(r) \/ CloseRetired(r) \/ Crash(r)
      PROVE  /\ UNCHANGED <<reply, choice, at>>
             /\ pc'[d] \in {pc[d], "done"}
  <2>1. CASE Rebuild(r) \/ CloseRetired(r)
    BY <2>1 DEF Rebuild, CloseRetired, Scratch
  <2>2. CASE Crash(r)
    BY <1>0, <2>2 DEF Crash, Scratch, TypeOK
  <2> QED BY <1>5, <2>1, <2>2
<1>6. ASSUME NEW c \in Canceller, CancelStep(c)
      PROVE  UNCHANGED <<reply, choice, at, pc>>
  BY <1>6 DEF CancelStep, FindRun, CancelApproval, CancelRun, Scratch
<1>7. ASSUME NEW a \in Approval,
             \/ CallAgain(a) \/ Pause(a) \/ CommitAwaiting(a) \/ Expire(a)
             \/ SweepRun(a) \/ DeleteSession(a)
             \/ \E t \in Thread : SweepResume(a, t)
      PROVE  UNCHANGED <<reply, choice, at, pc>>
  BY <1>7 DEF CallAgain, Pause, CommitAwaiting, Expire, SweepRun, DeleteSession, SweepResume, Scratch
<1>8. CASE UNCHANGED vars
  BY <1>8 DEF vars, Scratch
<1>9. ASSUME NEW e \in Decider, ReadApproval(e) \/ DecisionStep(e)
      PROVE  reply'[d] = reply[d] /\ choice'[d] = choice[d] /\ at'[d] = at[d] /\ pc'[d] = pc[d]
  BY <1>0, <1>1, <1>2, <1>3, <1>9 DEF DecisionStep
<1>10. ASSUME NEW r \in Replica, ReconcileStep(r)
       PROVE  reply'[d] = reply[d] /\ choice'[d] = choice[d] /\ at'[d] = at[d] /\ pc'[d] = pc[d]
  BY <1>0, <1>2, <1>4, <1>10
<1> QED
  BY <1>5, <1>6, <1>7, <1>8, <1>9, <1>10 DEF Next

LEMMA ReplyStep ==
  ASSUME TypeOK, GateInv, ReplyInv, [Next]_vars
  PROVE  ReplyInv'
<1> DEFINE Backed(d) ==
      /\ reply[d] \in {"approved", "tool_unavailable", "session_missing"}
           => status[at[d]] = "approved"
      /\ reply[d] = "denied" => status[at[d]] = "denied"
      /\ reply[d] = "stored" => status[at[d]] = Internal(choice[d])
<1> SUFFICES ASSUME NEW d \in Decider
             PROVE  (reply'[d] # "none" => pc'[d] = "done") /\ Backed(d)'
  BY DEF ReplyInv, AnswersLast, ReplyIsBacked
<1>0. /\ d \in Thread /\ at[d] \in Approval
      /\ reply[d] # "none" => pc[d] = "done"
      /\ Backed(d)
      /\ \A dec : Internal(dec) \in L!Final
  BY DEF ReplyInv, AnswersLast, ReplyIsBacked, TypeOK, Thread, Internal, L!Final
<1>1. CASE ~ReadApproval(d) /\ ~DecisionStep(d)
  <2>1. status[at[d]] \in L!Final => status'[at[d]] = status[at[d]]
    BY <1>0, FinalStays
  <2>2. "approved" \in L!Final /\ "denied" \in L!Final
    BY DEF L!Final
  <2> HIDE DEF Backed
  <2>3. reply'[d] = reply[d] /\ choice'[d] = choice[d] /\ at'[d] = at[d] /\ pc'[d] \in {pc[d], "done"}
    BY <1>1, OthersKeepAnswer
  <2>4. reply'[d] # "none" => pc'[d] = "done"
    BY <1>0, <2>3
  <2> QED BY <1>0, <2>1, <2>2, <2>3, <2>4 DEF Backed, Internal
<1>2. CASE ReadApproval(d)
  <2>1. PICK a \in Approval, dec \in {"approve", "deny"} :
          /\ at' = [at EXCEPT ![d] = a] /\ choice' = [choice EXCEPT ![d] = dec]
          /\ IF status[a] = "pending"
             THEN Goto(d, "check") /\ UNCHANGED reply
             ELSE Return(d, IF status[a] = "absent" THEN "not_found"
                            ELSE IF status[a] = Internal(dec) THEN "stored" ELSE "conflict")
    BY <1>2 DEF ReadApproval
  <2>2. at'[d] = a /\ choice'[d] = dec /\ status' = status /\ reply[d] = "none"
    BY <1>0, <1>2, <2>1 DEF ReadApproval, TypeOK, store
  <2>3. CASE status[a] = "pending"
    BY <2>1, <2>2, <2>3
  <2>4. CASE status[a] # "pending"
    <3>1. PICK outcome \in {"not_found", "stored", "conflict"} :
            Return(d, outcome) /\ (outcome = "stored" => status[a] = Internal(dec))
      BY <2>1, <2>4
    <3>2. reply'[d] = outcome /\ pc'[d] = "done"
      BY <1>0, <3>1 DEF Return, Goto, TypeOK
    <3> QED BY <2>2, <3>1, <3>2
  <2> QED BY <2>3, <2>4
<1>3. CASE CheckGeneration(d)
  BY <1>0, <1>3 DEF CheckGeneration
<1>4. CASE RetireApproval(d)
  BY <1>0, <1>4 DEF RetireApproval, Return, Goto, TypeOK
<1>5. CASE Decide(d)
  <2> DEFINE decision == Internal(choice[d])
  <2>0. reply[d] = "none" /\ at' = at
    BY <1>0, <1>5 DEF Decide, Scratch
  <2>1. CASE UNCHANGED reply
    BY <2>0, <2>1
  <2>2. CASE Decidable(at[d], decision) /\ decision # "approved" /\ Return(d, decision)
    <3>1. decision = "denied" /\ status'[at[d]] = "denied"
      BY <1>0, <1>5, <2>2, DecidedWins DEF Decide, Internal
    <3>2. reply'[d] = "denied" /\ pc'[d] = "done"
      BY <1>0, <2>2, <3>1 DEF Return, Goto, TypeOK
    <3> QED BY <2>0, <3>1, <3>2
  <2> QED BY <1>5, <2>1, <2>2 DEF Decide
<1>6. CASE Reread(d)
  <2>1. status[at[d]] # choice[d]
    BY <1>0 DEF TypeOK, Status, L!Final
  <2>2. Return(d, "conflict")
    BY <1>6, <2>1 DEF Reread
  <2>3. reply'[d] = "conflict" /\ pc'[d] = "done"
    BY <1>0, <2>2 DEF Return, Goto, TypeOK
  <2> QED BY <2>3
<1>7. CASE ExecuteResume(d)
  <2>1. status'[at'[d]] = "approved" /\ reply[d] = "none"
    BY <1>0, <1>7, ResumeMoves DEF GateInv, DecidersApproved, Resuming
  <2> QED BY <1>0, <1>7, <2>1, ResumeAnswers
<1> QED
  BY <1>1, <1>2, <1>3, <1>4, <1>5, <1>6, <1>7 DEF DecisionStep

(***************************************************************************)
(* HITL-04: what a decision request is answered never contradicts the      *)
(* decision that is stored, then or later.                                 *)
(***************************************************************************)
THEOREM AnswersAreBacked == Spec => []ReplyIsBacked
<1>1. Init => ReplyInv
  BY DEF Init, ReplyInv, AnswersLast, ReplyIsBacked
<1>2. TypeOK /\ GateInv /\ ReplyInv /\ [Next]_vars => ReplyInv'
  BY ReplyStep
<1>3. ReplyInv => ReplyIsBacked
  BY DEF ReplyInv
<1> QED
  BY <1>1, <1>2, <1>3, TypeCorrect, GateHolds, PTL DEF Spec
=============================================================================
