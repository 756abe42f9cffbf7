------------------------------ MODULE Approvals ------------------------------
(***************************************************************************)
(* Human approval of gated tool calls: the paused run and its approval     *)
(* record in the shared backend, the decision and cancellation handlers,   *)
(* and one reconciler per agent process.  Every await is the boundary of   *)
(* an action; what one process reads before it may be old when it is used. *)
(*                                                                         *)
(* Each approval a has one paused run and one session, written run[a] and  *)
(* session[a].  The runs that continue it after the decision are           *)
(* resume[a][t], indexed by the thread t that executed them.               *)
(***************************************************************************)
EXTENDS Naturals

CONSTANTS
  Approval,       \* approval ids
  Replica,        \* agent processes over one backend; also names the reconciler of each
  Decider,        \* POST /v1/approvals/{id} requests
  Canceller,      \* DELETE /v1/runs/{id} requests
  Backend,        \* the shared store, "postgres" or "redis"; no other may be configured
  OnTimeout,      \* approval.onTimeout, "deny" or "allow"
  MaxGeneration,  \* bound on component rebuilds of one process
  MaxRestarts,    \* bound on process crashes
  MaxExecutions   \* where the execution counter saturates

ASSUME ApprovalsAssumption ==
  /\ Approval # {} /\ Replica # {}
  /\ Backend \in {"postgres", "redis"}
  /\ OnTimeout \in {"deny", "allow"}
  /\ MaxGeneration \in Nat \ {0}
  /\ MaxRestarts \in Nat
  /\ MaxExecutions \in Nat \ {0}
  /\ Decider \cap Replica = {}

VARIABLES
  \* the shared backend
  status, gen, expired, run, session, resume,
  \* the agent processes
  generation, mcpOpen, restarts, pausing,
  \* decision handlers and reconcilers
  pc, at, runner, host, choice, reply, todo, won, snap, phase,
  \* cancellation handlers
  cpc, cat, cseen,
  \* history: how often each gated tool was started for its approval, and whether it was
  \* started by a later call that passed the gate on the strength of it
  executions, ungated

store   == <<status, gen, expired, run, session, resume>>
process == <<generation, mcpOpen, restarts>>
ticks   == <<todo, won, snap, phase>>
cancels == <<cpc, cat, cseen>>
vars == <<store, process, pausing, pc, at, runner, host, choice, reply, ticks,
          cancels, executions, ungated>>

L == INSTANCE ApprovalLedger WITH
       Approval <- Approval, OnTimeout <- OnTimeout, MaxExecutions <- MaxExecutions,
       status <- status, executions <- executions, ungated <- ungated

Thread   == Decider \cup Replica
Status   == {"absent", "pending"} \cup L!Final
Rejected == {"denied", "cancelled", "stale_approval"}
Terminal == {"succeeded", "failed", "cancelled"}
RunState == {"absent", "created", "awaiting_approval"} \cup Terminal
Gen      == 1 .. MaxGeneration
Label    == {"idle", "check", "retire", "decide", "reread", "done",
             "booting", "expire", "expired", "scan", "finish",
             "guard", "session", "tool", "admit", "resumed"}
Reply    == {"none", "not_found", "stored", "conflict", "stale_approval", "denied",
             "approved", "tool_unavailable", "session_missing", "error"}

\* Mutant: the word of the request body is stored as it came.
InternalAsSent(decision) == decision

Internal(decision) == IF decision = "approve" THEN "approved" ELSE "denied"

-----------------------------------------------------------------------------
(* Storage operations *)

\* "apikey:<digest>" or "jwt:<digest>"; approvals need one of these auth modes.
PrincipalParts == 2

\* The records the list operations return.  Redis keeps them in a set of entries
\* "agent:principal:approval" and skips those that do not split in three.
Listed == IF Backend = "redis" /\ 1 + PrincipalParts + 1 # 3 THEN {} ELSE Approval

\* find_run; on Redis it enumerates a key no operation writes.
Findable(a) == Backend = "postgres" /\ run[a] # "absent"

\* Mutants of the compare: without the pending test, and refusing whatever has expired.
DecidableAgain(a, decision) ==
  /\ status[a] # "absent"
  /\ expired[a] => decision = "timed_out"

DecidableFresh(a, decision) == status[a] = "pending" /\ ~expired[a]

\* The compare of decide_approval: only a pending record, and once it has
\* expired only the sweep's own timed_out.
Decidable(a, decision) ==
  /\ status[a] = "pending"
  /\ expired[a] => decision = "timed_out"

\* Mutant: the write of the compare-and-swap without the compare.
DecidedAlways(a, decision) == [status EXCEPT ![a] = decision]

Decided(a, decision) ==
  IF Decidable(a, decision) THEN [status EXCEPT ![a] = decision] ELSE status

\* Mutant: only a run that is known to be waiting is updated.
UpdateRunAwaiting(a, s) == [run EXCEPT ![a] = IF @ # "awaiting_approval" THEN @ ELSE s]

\* update_run writes whatever status it is given over whatever is there.
UpdateRun(a, s) == [run EXCEPT ![a] = IF @ = "absent" THEN @ ELSE s]

Resumed(a) == \E t \in Thread : resume[a][t] # "absent"

-----------------------------------------------------------------------------
Init ==
  /\ status = [a \in Approval |-> "absent"]
  /\ gen = [a \in Approval |-> 1]
  /\ expired = [a \in Approval |-> FALSE]
  /\ run = [a \in Approval |-> "created"]
  /\ session = [a \in Approval |-> TRUE]
  /\ resume = [a \in Approval |-> [t \in Thread |-> "absent"]]
  /\ generation = [r \in Replica |-> 1]
  /\ mcpOpen = [r \in Replica |-> 1]
  /\ restarts = 0
  /\ pausing = [a \in Approval |-> FALSE]
  /\ pc = [t \in Thread |-> IF t \in Replica THEN "booting" ELSE "idle"]
  /\ at = [t \in Thread |-> CHOOSE a \in Approval : TRUE]
  /\ runner = [t \in Thread |-> 1]
  /\ host = [t \in Thread |-> IF t \in Replica THEN t ELSE CHOOSE r \in Replica : TRUE]
  /\ choice = [d \in Decider |-> "deny"]
  /\ reply = [d \in Decider |-> "none"]
  /\ todo = [r \in Replica |-> {}]
  /\ won = [r \in Replica |-> {}]
  /\ snap = [r \in Replica |-> [a \in Approval |-> "absent"]]
  /\ phase = [r \in Replica |-> "scan"]
  /\ cpc = [c \in Canceller |-> "idle"]
  /\ cat = [c \in Canceller |-> CHOOSE a \in Approval : TRUE]
  /\ cseen = [c \in Canceller |-> "absent"]
  /\ executions = [a \in Approval |-> 0]
  /\ ungated = [a \in Approval |-> FALSE]
-----------------------------------------------------------------------------
(* The gate: it looks for a decided approval of the session with the id of *)
(* the call, and lets the call pass when there is one.  Otherwise it       *)
(* creates the approval record and pauses the run, which then, best        *)
(* effort, moves its record to awaiting_approval.                          *)

\* Mutant: an approval that is still open lets the call pass too.
LetsPassAny(a) == status[a] # "absent"

\* Whatever the decision was.
LetsPass(a) == status[a] \in L!Final

\* A run of the session, admitted for it if need be, makes the call of the approval again,
\* and the tool is executed without a pause.
CallAgain(a) ==
  /\ a \in Listed /\ LetsPass(a)
  /\ session' = [session EXCEPT ![a] = TRUE]
  /\ ungated' = [ungated EXCEPT ![a] = TRUE]
  /\ UNCHANGED <<status, gen, expired, run, resume, process, pausing, pc, at, runner, host,
                 choice, reply, ticks, cancels, executions>>

\* No record lets the call pass: a new one is created for it.
Pause(a) ==
  /\ status[a] = "absent" /\ run[a] = "created"
  /\ status' = [status EXCEPT ![a] = "pending"]
  /\ \E r \in Replica : \E g \in 1 .. generation[r] : gen' = [gen EXCEPT ![a] = g]
  /\ pausing' = [pausing EXCEPT ![a] = TRUE]
  /\ UNCHANGED <<expired, run, session, resume, process, pc, at, runner, host, choice,
                 reply, ticks, cancels, executions, ungated>>

\* The second disjunct is the suppressed exception, or the process dying first.
CommitAwaiting(a) ==
  /\ pausing[a]
  /\ \/ run' = UpdateRun(a, "awaiting_approval")
     \/ UNCHANGED run
  /\ pausing' = [pausing EXCEPT ![a] = FALSE]
  /\ UNCHANGED <<status, gen, expired, session, resume, process, pc, at, runner, host,
                 choice, reply, ticks, cancels, executions, ungated>>

\* The approval's own timeout passes.
Expire(a) ==
  /\ status[a] = "pending" /\ ~expired[a]
  /\ expired' = [expired EXCEPT ![a] = TRUE]
  /\ UNCHANGED <<status, gen, run, session, resume, process, pausing, pc, at, runner, host,
                 choice, reply, ticks, cancels, executions, ungated>>

-----------------------------------------------------------------------------
(* The steps a thread takes, whichever handler it is                       *)

Goto(t, label) == pc' = [pc EXCEPT ![t] = label]

\* A decision handler answers and is done; a reconciler goes on with its loop.
Return(t, outcome) ==
  IF t \in Decider
  THEN Goto(t, "done") /\ reply' = [reply EXCEPT ![t] = outcome]
  ELSE Goto(t, phase[t]) /\ UNCHANGED reply

\* Mutant: the exception is swallowed and the request never answered.
RaiseSilently(t) == Goto(t, "idle") /\ UNCHANGED reply

\* An exception ends the request with an error, and ends the reconciler's tick.
Raise(t) ==
  IF t \in Decider
  THEN Goto(t, "done") /\ reply' = [reply EXCEPT ![t] = "error"]
  ELSE Goto(t, "idle") /\ UNCHANGED reply

Scratch == <<at, runner, host, choice, ticks>>

-----------------------------------------------------------------------------
(* _execute_resume: guard, tool lookup, session, tool, then the run that   *)
(* continues the conversation.                                             *)

AlreadyResumed(t) ==
  /\ pc[t] = "guard" /\ Resumed(at[t])
  /\ Return(t, "approved")
  /\ UNCHANGED <<store, process, pausing, Scratch, cancels, executions, ungated>>

\* The server may be disconnected, and a retired runner's servers are closed.
ToolUnavailable(t) ==
  /\ pc[t] = "guard" /\ ~Resumed(at[t])
  /\ Return(t, "tool_unavailable")
  /\ UNCHANGED <<store, process, pausing, Scratch, cancels, executions, ungated>>

\* Mutant: the continuation is admitted first and the tool forgotten.
ToolSkipped(t) ==
  /\ pc[t] = "guard" /\ ~Resumed(at[t])
  /\ runner[t] >= mcpOpen[host[t]]
  /\ Goto(t, "admit")
  /\ UNCHANGED <<store, process, pausing, Scratch, reply, cancels, executions, ungated>>

ToolFound(t) ==
  /\ pc[t] = "guard" /\ ~Resumed(at[t])
  /\ runner[t] >= mcpOpen[host[t]]
  /\ Goto(t, "session")
  /\ UNCHANGED <<store, process, pausing, Scratch, reply, cancels, executions, ungated>>

SessionMissing(t) ==
  /\ pc[t] = "session" /\ ~session[at[t]]
  /\ Return(t, "session_missing")
  /\ UNCHANGED <<store, process, pausing, Scratch, cancels, executions, ungated>>

StartTool(t) ==
  /\ pc[t] = "session" /\ session[at[t]]
  /\ executions' = [executions EXCEPT ![at[t]] = IF @ < MaxExecutions THEN @ + 1 ELSE @]
  /\ Goto(t, "tool")
  /\ UNCHANGED <<store, process, pausing, Scratch, reply, cancels, ungated>>

\* The tool returned and its response is in the session.
ToolReturns(t) ==
  /\ pc[t] = "tool"
  /\ Goto(t, "admit")
  /\ UNCHANGED <<store, process, pausing, Scratch, reply, cancels, executions, ungated>>

\* The tool, or storing its response, raised.
ToolRaises(t) ==
  /\ pc[t] = "tool"
  /\ Raise(t)
  /\ UNCHANGED <<store, process, pausing, Scratch, cancels, executions, ungated>>

\* Only now does a run record with request id resume-{approval_id} exist.
AdmitResume(t) ==
  /\ pc[t] = "admit"
  /\ resume' = [resume EXCEPT ![at[t]][t] = "live"]
  /\ session' = [session EXCEPT ![at[t]] = TRUE]
  /\ Goto(t, "resumed")
  /\ UNCHANGED <<status, gen, expired, run, process, pausing, Scratch, reply, cancels,
                 executions, ungated>>

\* Admission over maxRunsPerSession ends the run as error events, with no record.
AdmitRefused(t) ==
  /\ pc[t] = "admit"
  /\ Return(t, "approved")
  /\ UNCHANGED <<store, process, pausing, Scratch, cancels, executions, ungated>>

\* The continued run ends, or stays nonterminal on an approval of its own.
FinishResume(t) ==
  /\ pc[t] = "resumed"
  /\ \E s \in {"live", "terminal"} :
       resume' = [resume EXCEPT ![at[t]][t] = IF @ = "absent" THEN @ ELSE s]
  /\ Return(t, "approved")
  /\ UNCHANGED <<status, gen, expired, run, session, process, pausing, Scratch, cancels,
                 executions, ungated>>

ExecuteResume(t) ==
  \/ AlreadyResumed(t) \/ ToolUnavailable(t) \/ ToolFound(t)
  \/ SessionMissing(t) \/ StartTool(t) \/ ToolReturns(t) \/ ToolRaises(t)
  \/ AdmitResume(t) \/ AdmitRefused(t) \/ FinishResume(t)

-----------------------------------------------------------------------------
(* POST /v1/approvals/{approval_id}                                        *)

ReadApproval(d) ==
  /\ pc[d] = "idle"
  /\ \E a \in Approval, r \in Replica, dec \in {"approve", "deny"} :
       /\ pc[r] # "booting"
       /\ at' = [at EXCEPT ![d] = a]
       /\ host' = [host EXCEPT ![d] = r]
       /\ choice' = [choice EXCEPT ![d] = dec]
       /\ IF status[a] = "pending"
          THEN Goto(d, "check") /\ UNCHANGED reply
          ELSE Return(d, IF status[a] = "absent" THEN "not_found"
                         ELSE IF status[a] = Internal(dec) THEN "stored" ELSE "conflict")
  /\ UNCHANGED <<store, process, pausing, runner, ticks, cancels, executions, ungated>>

\* The handler picks up the current runner, whose generation decides staleness.
CheckGeneration(d) ==
  /\ pc[d] = "check"
  /\ runner' = [runner EXCEPT ![d] = generation[host[d]]]
  /\ Goto(d, IF gen[at[d]] = generation[host[d]] THEN "decide" ELSE "retire")
  /\ UNCHANGED <<store, process, pausing, at, host, choice, reply, ticks, cancels,
                 executions, ungated>>

\* Answered stale_approval whether or not the decision was won.
RetireApproval(d) ==
  /\ pc[d] = "retire"
  /\ status' = Decided(at[d], "stale_approval")
  /\ Return(d, "stale_approval")
  /\ UNCHANGED <<gen, expired, run, session, resume, process, pausing, Scratch, cancels,
                 executions, ungated>>

Decide(d) ==
  /\ pc[d] = "decide"
  /\ LET decision == Internal(choice[d]) IN
       /\ status' = Decided(at[d], decision)
       /\ \/ Decidable(at[d], decision) /\ decision = "approved"
             /\ Goto(d, "guard") /\ UNCHANGED reply
          \/ Decidable(at[d], decision) /\ decision # "approved"
             /\ Return(d, decision)
          \/ ~Decidable(at[d], decision)
             /\ Goto(d, "reread") /\ UNCHANGED reply
  /\ UNCHANGED <<gen, expired, run, session, resume, process, pausing, Scratch, cancels,
                 executions, ungated>>

\* The loser compares the stored status with the word in the request body.
Reread(d) ==
  /\ pc[d] = "reread"
  /\ Return(d, IF status[at[d]] = choice[d] THEN "stored" ELSE "conflict")
  /\ UNCHANGED <<store, process, pausing, Scratch, cancels, executions, ungated>>

DecisionStep(d) ==
  \/ CheckGeneration(d) \/ RetireApproval(d) \/ Decide(d) \/ Reread(d) \/ ExecuteResume(d)

-----------------------------------------------------------------------------
(* reconcile_pending, at startup and then every five seconds.  The runner  *)
(* it belongs to is the one the process had when the loop was started.     *)

Capture(r) ==
  /\ pc[r] = "booting"
  /\ runner' = [runner EXCEPT ![r] = generation[r]]
  /\ Goto(r, "idle")
  /\ UNCHANGED <<store, process, pausing, at, host, choice, reply, ticks, cancels,
                 executions, ungated>>

BeginTick(r) ==
  /\ pc[r] = "idle"
  /\ todo' = [todo EXCEPT ![r] = {a \in Listed : status[a] = "pending" /\ expired[a]}]
  /\ won' = [won EXCEPT ![r] = {}]
  /\ Goto(r, "expire")
  /\ UNCHANGED <<store, process, pausing, at, runner, host, choice, reply, snap, phase,
                 cancels, executions, ungated>>

\* expire_approvals decides one expired record after the other.
ExpireOne(r) ==
  /\ pc[r] = "expire"
  /\ \E a \in todo[r] :
       /\ todo' = [todo EXCEPT ![r] = @ \ {a}]
       /\ status' = Decided(a, "timed_out")
       /\ won' = [won EXCEPT ![r] = IF Decidable(a, "timed_out") THEN @ \cup {a} ELSE @]
  /\ UNCHANGED <<gen, expired, run, session, resume, process, pausing, pc, at, runner, host,
                 choice, reply, snap, phase, cancels, executions, ungated>>

ExpireDone(r) ==
  /\ pc[r] = "expire" /\ todo[r] = {}
  /\ phase' = [phase EXCEPT ![r] = "expired"]
  /\ Goto(r, "expired")
  /\ UNCHANGED <<store, process, pausing, at, runner, host, choice, reply, todo, won, snap,
                 cancels, executions, ungated>>

\* A timeout finishes the run, or with onTimeout allow resumes it unless stale.
RejectTimedOut(r) ==
  /\ pc[r] = "expired"
  /\ \E a \in won[r] :
       /\ OnTimeout = "allow" => gen[a] # runner[r]
       /\ run' = UpdateRun(a, "failed")
       /\ won' = [won EXCEPT ![r] = @ \ {a}]
  /\ UNCHANGED <<status, gen, expired, session, resume, process, pausing, pc, at, runner,
                 host, choice, reply, todo, snap, phase, cancels, executions, ungated>>

ResumeTimedOut(r) ==
  /\ pc[r] = "expired" /\ OnTimeout = "allow"
  /\ \E a \in won[r] :
       /\ gen[a] = runner[r]
       /\ at' = [at EXCEPT ![r] = a]
       /\ won' = [won EXCEPT ![r] = @ \ {a}]
  /\ Goto(r, "guard")
  /\ UNCHANGED <<store, process, pausing, runner, host, choice, reply, todo, snap, phase,
                 cancels, executions, ungated>>

\* The second half works on one listing of the records, read here.
ListApprovals(r) ==
  /\ pc[r] = "expired" /\ won[r] = {}
  /\ snap' = [snap EXCEPT ![r] = status]
  /\ todo' = [todo EXCEPT ![r] = {a \in Listed : status[a] # "absent"}]
  /\ phase' = [phase EXCEPT ![r] = "scan"]
  /\ Goto(r, "scan")
  /\ UNCHANGED <<store, process, pausing, at, runner, host, choice, reply, won, cancels,
                 executions, ungated>>

Stale(r, a) == snap[r][a] = "pending" /\ gen[a] # runner[r]

\* Mutants: a timeout that permits the tool is resumed like an approval; approvals whose run
\* does not say that it waits are left alone.
ToResumePermitted(r, a) == snap[r][a] \in L!Permitting
ToResumePaused(r, a) == snap[r][a] = "approved" /\ run[a] = "awaiting_approval"

ToResume(r, a) == snap[r][a] = "approved"

ToReject(r, a) == snap[r][a] \in Rejected

\* Nothing is done for a fresh pending record, nor for one that timed out.
Skip(r) ==
  /\ pc[r] = "scan"
  /\ \E a \in todo[r] :
       /\ ~Stale(r, a) /\ ~ToResume(r, a) /\ ~ToReject(r, a)
       /\ todo' = [todo EXCEPT ![r] = @ \ {a}]
  /\ UNCHANGED <<store, process, pausing, pc, at, runner, host, choice, reply, won, snap,
                 phase, cancels, executions, ungated>>

ScanStale(r) ==
  /\ pc[r] = "scan"
  /\ \E a \in todo[r] :
       /\ Stale(r, a)
       /\ todo' = [todo EXCEPT ![r] = @ \ {a}]
       /\ status' = Decided(a, "stale_approval")
       /\ at' = [at EXCEPT ![r] = a]
       /\ Goto(r, IF Decidable(a, "stale_approval") THEN "finish" ELSE "scan")
  /\ UNCHANGED <<gen, expired, run, session, resume, process, pausing, runner, host, choice,
                 reply, won, snap, phase, cancels, executions, ungated>>

FinishStale(r) ==
  /\ pc[r] = "finish"
  /\ run' = UpdateRun(at[r], "failed")
  /\ Goto(r, "scan")
  /\ UNCHANGED <<status, gen, expired, session, resume, process, pausing, at, runner, host,
                 choice, reply, ticks, cancels, executions, ungated>>

ScanApproved(r) ==
  /\ pc[r] = "scan"
  /\ \E a \in todo[r] :
       /\ ToResume(r, a)
       /\ todo' = [todo EXCEPT ![r] = @ \ {a}]
       /\ at' = [at EXCEPT ![r] = a]
  /\ Goto(r, "guard")
  /\ UNCHANGED <<store, process, pausing, runner, host, choice, reply, won, snap, phase,
                 cancels, executions, ungated>>

\* Written again on every tick, over whatever the run has become meanwhile.
FinishRejected(r) ==
  /\ pc[r] = "scan"
  /\ \E a \in todo[r] :
       /\ ToReject(r, a)
       /\ todo' = [todo EXCEPT ![r] = @ \ {a}]
       /\ run' = UpdateRun(a, IF snap[r][a] = "cancelled" THEN "cancelled" ELSE "failed")
  /\ UNCHANGED <<status, gen, expired, session, resume, process, pausing, pc, at, runner,
                 host, choice, reply, won, snap, phase, cancels, executions, ungated>>

EndTick(r) ==
  /\ pc[r] = "scan" /\ todo[r] = {}
  /\ Goto(r, "idle")
  /\ UNCHANGED <<store, process, pausing, Scratch, reply, cancels, executions, ungated>>

ReconcileStep(r) ==
  \/ Capture(r) \/ BeginTick(r) \/ ExpireOne(r) \/ ExpireDone(r)
  \/ RejectTimedOut(r) \/ ResumeTimedOut(r) \/ ListApprovals(r)
  \/ Skip(r) \/ ScanStale(r) \/ FinishStale(r) \/ ScanApproved(r) \/ FinishRejected(r)
  \/ EndTick(r) \/ ExecuteResume(r)

-----------------------------------------------------------------------------
(* DELETE /v1/runs/{run_id}                                                *)

FindRun(c) ==
  /\ cpc[c] = "idle"
  /\ \E a \in Approval :
       /\ Findable(a)
       /\ cat' = [cat EXCEPT ![c] = a]
       /\ cseen' = [cseen EXCEPT ![c] = run[a]]
  /\ cpc' = [cpc EXCEPT ![c] = "approvals"]
  /\ UNCHANGED <<store, process, pausing, pc, Scratch, reply, executions, ungated>>

CancelApproval(c) ==
  /\ cpc[c] = "approvals"
  /\ status' = Decided(cat[c], "cancelled")
  /\ cpc' = [cpc EXCEPT ![c] = "run"]
  /\ UNCHANGED <<gen, expired, run, session, resume, process, pausing, pc, Scratch, reply,
                 cat, cseen, executions, ungated>>

\* The status compared is the one the first read returned.
CancelRun(c) ==
  /\ cpc[c] = "run"
  /\ run' = IF cseen[c] = "cancelled" THEN run ELSE UpdateRun(cat[c], "cancelled")
  /\ cpc' = [cpc EXCEPT ![c] = "done"]
  /\ UNCHANGED <<status, gen, expired, session, resume, process, pausing, pc, Scratch,
                 reply, cat, cseen, executions, ungated>>

CancelStep(c) == FindRun(c) \/ CancelApproval(c) \/ CancelRun(c)

-----------------------------------------------------------------------------
(* Reload, crash, retention and session deletion                           *)

\* A component rebuild swaps in a runner of the next generation ...
Rebuild(r) ==
  /\ generation[r] < MaxGeneration /\ mcpOpen[r] = generation[r]
  /\ generation' = [generation EXCEPT ![r] = @ + 1]
  /\ UNCHANGED <<store, mcpOpen, restarts, pausing, pc, Scratch, reply, cancels, executions,
                 ungated>>

\* ... and then closes the MCP servers of the retired one.
CloseRetired(r) ==
  /\ mcpOpen[r] < generation[r]
  /\ mcpOpen' = [mcpOpen EXCEPT ![r] = generation[r]]
  /\ UNCHANGED <<store, generation, restarts, pausing, pc, Scratch, reply, cancels,
                 executions, ungated>>

\* A process dies with its requests; the next one starts at generation 1.
Crash(r) ==
  /\ restarts < MaxRestarts
  /\ restarts' = restarts + 1
  /\ generation' = [generation EXCEPT ![r] = 1]
  /\ mcpOpen' = [mcpOpen EXCEPT ![r] = 1]
  /\ pc' = [t \in Thread |->
              IF t = r THEN "booting"
              ELSE IF t \in Decider /\ host[t] = r /\ pc[t] # "idle" THEN "done"
              ELSE pc[t]]
  /\ todo' = [todo EXCEPT ![r] = {}]
  /\ won' = [won EXCEPT ![r] = {}]
  /\ UNCHANGED <<store, pausing, at, runner, host, choice, reply, snap, phase, cancels,
                 executions, ungated>>

\* runTtl has passed: a terminal run goes, a nonterminal one was interrupted.
SweepRun(a) ==
  /\ run[a] # "absent" /\ status[a] # "absent"
  /\ run' = [run EXCEPT ![a] = IF @ \in Terminal THEN "absent" ELSE "failed"]
  /\ UNCHANGED <<status, gen, expired, session, resume, process, pausing, pc, Scratch,
                 reply, cancels, executions, ungated>>

SweepResume(a, t) ==
  /\ resume[a][t] # "absent"
  /\ ~(pc[t] = "resumed" /\ at[t] = a)
  /\ resume' = [resume EXCEPT ![a][t] = IF @ = "live" THEN "terminal" ELSE "absent"]
  /\ UNCHANGED <<status, gen, expired, run, session, process, pausing, pc, Scratch, reply,
                 cancels, executions, ungated>>

\* Refused while a run of the session is nonterminal; the approval stays.
DeleteSession(a) ==
  /\ session[a]
  /\ run[a] \in Terminal \cup {"absent"}
  /\ \A t \in Thread : resume[a][t] # "live"
  /\ session' = [session EXCEPT ![a] = FALSE]
  /\ run' = [run EXCEPT ![a] = "absent"]
  /\ resume' = [resume EXCEPT ![a] = [t \in Thread |-> "absent"]]
  /\ UNCHANGED <<status, gen, expired, process, pausing, pc, Scratch, reply, cancels,
                 executions, ungated>>

-----------------------------------------------------------------------------
Next ==
  \/ \E a \in Approval :
       \/ CallAgain(a) \/ Pause(a) \/ CommitAwaiting(a) \/ Expire(a) \/ SweepRun(a) \/ DeleteSession(a)
       \/ \E t \in Thread : SweepResume(a, t)
  \/ \E d \in Decider : ReadApproval(d) \/ DecisionStep(d)
  \/ \E r \in Replica : ReconcileStep(r) \/ Rebuild(r) \/ CloseRetired(r) \/ Crash(r)
  \/ \E c \in Canceller : CancelStep(c)

\* Clients, reloads, crashes and retention are free to happen or not.  The event
\* loop runs every started handler and the reconcile loop, timeouts pass.
Fairness ==
  /\ \A a \in Approval : WF_vars(Expire(a))
  /\ \A d \in Decider : WF_vars(DecisionStep(d))
  /\ \A r \in Replica : WF_vars(ReconcileStep(r)) /\ WF_vars(CloseRetired(r))

Spec == Init /\ [][Next]_vars
FairSpec == Spec /\ Fairness

-----------------------------------------------------------------------------
(* Properties *)

\* Threads inside _execute_resume.
Resuming(t) == pc[t] \in {"guard", "session", "tool", "admit", "resumed"}

\* The variables hold what the code stores in them.
TypeOK ==
  /\ status \in [Approval -> Status]
  /\ gen \in [Approval -> Gen]
  /\ expired \in [Approval -> BOOLEAN]
  /\ run \in [Approval -> RunState]
  /\ session \in [Approval -> BOOLEAN]
  /\ resume \in [Approval -> [Thread -> {"absent", "live", "terminal"}]]
  /\ generation \in [Replica -> Gen]
  /\ mcpOpen \in [Replica -> Gen]
  /\ restarts \in 0 .. MaxRestarts
  /\ pausing \in [Approval -> BOOLEAN]
  /\ pc \in [Thread -> Label]
  /\ at \in [Thread -> Approval]
  /\ runner \in [Thread -> Gen]
  /\ host \in [Thread -> Replica]
  /\ choice \in [Decider -> {"approve", "deny"}]
  /\ reply \in [Decider -> Reply]
  /\ todo \in [Replica -> SUBSET Approval]
  /\ won \in [Replica -> SUBSET Approval]
  /\ snap \in [Replica -> [Approval -> Status]]
  /\ phase \in [Replica -> {"expired", "scan"}]
  /\ cpc \in [Canceller -> {"idle", "approvals", "run", "done"}]
  /\ cat \in [Canceller -> Approval]
  /\ cseen \in [Canceller -> RunState]
  /\ executions \in [Approval -> 0 .. MaxExecutions]
  /\ ungated \in [Approval -> BOOLEAN]

\* HITL-02/04: the tool of an approval is started from its checkpoint only after a stored
\* decision that permits it, however decisions, sweeps, cancellations, reloads and crashes
\* interleave; and a call passes the gate only on an approval that was decided, never on
\* an open one. What the decision was the gate does not ask (runner.py:513-515).
ToolNeedsApproval ==
  \A a \in Approval : /\ executions[a] > 0 => status[a] \in L!Permitting
                      /\ ungated[a] => status[a] \in L!Final

\* HITL-04: at most one decision request goes on to resume an approval.
OneDeciderResumes ==
  \A d, e \in Decider :
    Resuming(d) /\ Resuming(e) /\ at[d] = at[e] => d = e

\* The answer to a decision request never contradicts the stored decision (stale
\* and conflict answers say nothing of which decision is stored).
ReplyIsBacked ==
  \A d \in Decider :
    LET stored == status[at[d]] IN
    /\ reply[d] \in {"approved", "tool_unavailable", "session_missing"} => stored = "approved"
    /\ reply[d] = "denied" => stored = "denied"
    /\ reply[d] = "stored" => stored = Internal(choice[d])

\* HITL-05: an approval that timed out is resumed by the one reconciler that won the sweep,
\* so unlike a manual decision it starts the tool from its checkpoint at most once.
TimeoutResumesOnce ==
  \A a \in Approval : status[a] = "timed_out" => executions[a] <= 1

\* The run that carries the conversation on exists only after the tool was started.
ResumeFollowsTool ==
  \A a \in Approval : Resumed(a) => executions[a] > 0

\* The handlers together behave as one approval ledger.
LedgerRefined == L!LedgerSpec

\* HITL-05: the sweep decides every approval whose time is up, crashes or not.
ExpiredIsDecided ==
  \A a \in Approval : status[a] = "pending" /\ expired[a] ~> status[a] # "pending"

\* A tool raises, or the storing of its response does, again and again: each time the tick of
\* the reconciler ends with it, before the records listed later were looked at.
TicksKeepFailing == []<><<\E r \in Replica : ToolRaises(r)>>_vars

\* HITL-05: an approved call nobody has resumed is taken up by a reconciler, unless the
\* tools of others keep ending its ticks.
ApprovedIsTakenUp ==
  TicksKeepFailing \/
  \A a \in Approval :
    status[a] = "approved" /\ ~Resumed(a)
      ~> Resumed(a) \/ \E r \in Replica : pc[r] = "guard" /\ at[r] = a

\* HITL-05: the run of a rejected approval reaches a terminal state, with the same exception.
RejectedRunFinishes ==
  TicksKeepFailing \/
  \A a \in Approval :
    status[a] \in Rejected ~> run[a] \in Terminal \cup {"absent"}

\* Every decision request that passed its first read is answered.
DecisionsAreAnswered ==
  \A d \in Decider : pc[d] = "check" ~> pc[d] = "done"

-----------------------------------------------------------------------------
(* The inductive invariant behind the safety properties: what a thread      *)
(* remembers of a decision is still what the store holds.                   *)

DecidersApproved == \A d \in Decider : Resuming(d) => status[at[d]] = "approved"

ReconcilersPermitted ==
  \A r \in Replica : Resuming(r) => status[at[r]] \in L!Permitting

WonTimedOut == \A r \in Replica : \A a \in won[r] : status[a] = "timed_out"

SnapStillTrue ==
  \A r \in Replica, a \in Approval : snap[r][a] \in L!Final => status[a] = snap[r][a]

\* Past the session check the tool was started.
ToolBehind ==
  \A t \in Thread : pc[t] \in {"tool", "admit", "resumed"} => executions[at[t]] > 0

GateInv ==
  /\ DecidersApproved /\ ReconcilersPermitted /\ WonTimedOut /\ SnapStillTrue
  /\ ToolNeedsApproval /\ OneDeciderResumes

ToolInv == ToolBehind /\ ResumeFollowsTool

\* A request is answered once, at its end.
AnswersLast == \A d \in Decider : reply[d] # "none" => pc[d] = "done"

ReplyInv == AnswersLast /\ ReplyIsBacked

\* What entitles a thread to start the tool of an approval that timed out: a reconciler won
\* the sweep and has yet to act on it, or is on the way to the tool.  There is one such title,
\* and it goes with the start of the tool.
ToTool(t, a) == at[t] = a /\ pc[t] \in {"guard", "session"}

OneTitle ==
  \A a \in Approval : status[a] = "timed_out" =>
    /\ \A r, s \in Replica : a \in won[r] /\ a \in won[s] => r = s
    /\ \A r \in Replica, t \in Thread : a \in won[r] => ~ToTool(t, a)
    /\ \A t, u \in Thread : ToTool(t, a) /\ ToTool(u, a) => t = u
    /\ \A r \in Replica : a \in won[r] => executions[a] = 0
    /\ \A t \in Thread : ToTool(t, a) => executions[a] = 0

TitleInv == OneTitle /\ TimeoutResumesOnce

=============================================================================
