----------------------------- MODULE MCApprovals -----------------------------
(***************************************************************************)
(* Small instance of Approvals for TLC, with a view that leaves out what   *)
(* no later step reads: a handler's runner and host before it starts and   *)
(* after it has answered, and the listing of a reconciler between ticks.   *)
(***************************************************************************)
EXTENDS Approvals, TLC

CONSTANTS a1, a2, r1, d1, d2, c1

Busy(t) == pc[t] \notin {"idle", "done"}

MCView ==
  <<store, process, pausing, pc, reply, todo, won, cpc, executions, ungated,
    [c \in Canceller |-> IF cpc[c] \in {"approvals", "run"} THEN <<cat[c], cseen[c] = "cancelled", cpc[c]>> ELSE "none"],
    [t \in Thread |-> IF t \in Replica \/ Busy(t) THEN runner[t] ELSE 0],
    [d \in Decider |-> IF pc[d] = "idle" THEN "none" ELSE <<at[d], choice[d]>>],
    [d \in Decider |-> IF Busy(d) THEN host[d] ELSE "none"],
    [r \in Replica |-> IF Busy(r) THEN <<at[r], phase[r]>> ELSE "none"],
    [r \in Replica |-> IF Busy(r) THEN [a \in todo[r] |-> snap[r][a]] ELSE "none"]>>

(* The run of the liveness properties has two approvals, so that the tool of one can stand    *)
(* in the way of the other, with one process, one generation and onTimeout deny.  There no    *)
(* step reads a reconciler's `at' outside a resumption, nor a decision before or after it.    *)
LiveView ==
  <<status, [a \in Approval |-> status[a] \in {"absent", "pending"} /\ expired[a]],
    run, [a \in Approval |-> Resumed(a)], restarts, pausing, pc, won, cpc,
    [d \in Decider |-> IF Busy(d) THEN at[d] ELSE "none"],
    [d \in Decider |-> IF pc[d] \in {"check", "decide"} THEN choice[d] ELSE "none"],
    [r \in Replica |-> IF Resuming(r) \/ pc[r] = "finish" THEN <<at[r], phase[r]>> ELSE "none"],
    [r \in Replica |-> IF pc[r] = "expire" THEN todo[r]
                       ELSE IF Busy(r) THEN [a \in todo[r] |-> snap[r][a]] ELSE "none"]>>

(* Its environment: no retention and no second call (both take days, a tick seconds); both    *)
(* calls are asked for, and the second has its run awaiting, before the first decision; none   *)
(* arrives after a crash; and the tools' server is not connected for the second decider.      *)
LiveEnvironment ==
  /\ ~\E a \in Approval : CallAgain(a) \/ SweepRun(a) \/ DeleteSession(a)
  /\ ~\E a \in Approval, t \in Thread : SweepResume(a, t)
  /\ \A d \in Decider : ReadApproval(d) =>
       /\ \A a \in Approval : status[a] # "absent"
       /\ ~pausing[a2] /\ restarts = 0
  /\ ~ToolFound(d2)

MCSymmetry == Permutations(Decider) \cup Permutations(Replica)
==============================================================================
