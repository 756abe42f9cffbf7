# Agentbase in TLA+

A model of the concurrent core of Agentbase (`src/`, a Python asyncio agent runtime and
its Kubernetes operator): TLA+ modules, the TLC runs that check them on small instances,
and proofs checked by TLAPS for every instance. Every definition is translated from the
source; `PROJECT.json` maps each one to its lines. Paths below are relative to `src/`,
and paths without a directory of their own to `src/app/`.

    cd tla
    tlc -workers 2 -config Approvals.cfg MCApprovals.tla   # likewise the other .cfg files
    tlapm ApprovalsProofs.tla                              # likewise the other ...Proofs modules

## The system

One process is one asyncio loop; every `await` is a point where other tasks run.
Several processes may share one storage backend (Redis or PostgreSQL).

| Component | State it keeps | Operations | What is hard |
|---|---|---|---|
| **Tool approvals** (`protocol/routes/approvals.py`, `engine/runner.py:497-802`) | approval and run records; the runner's generation | pause at a gated call, decide, cancel, resume, time out, reconcile every 5 s | deciders, reconcilers, cancellation, timeout, reload and crash on one record |
| **Chat and ACP requests** (`protocol/routes/chat.py`, `acp.py`) | idempotency records, slot count, task registry | admit, drive, answer, replay, release | lookups and writes of a key apart; exits by cancellation |
| **Streams and sockets** (`chat.py:476-795`, `websocket.py`) | bounded queues between a producer task and the task that serves the client | put and get with timeouts, poll for disconnect, cancel, tear down | full queue, stalled client, lost end marker, messages in any order |
| **Run execution** (`engine/runner.py`, `events.py`, `limits.py`, `tools.py`) | run state machine, counters, ledger of tool calls | admit, convert, commit, fail, cancel | one terminal state in every race; boundaries of the limits |
| **Storage** (`storage/*.py`, `main.py:40-248`) | sessions with revisions, runs, keys, fences | create, mutate at a revision, truncate, admit, sweep, lease | four backends with four kinds of atomicity, retention against live data |
| **Session history** (`storage/adk_adapter.py`) | a revision anchor per session, shared by the runs of a service | read, append | anchors that are stale, truncation that counts revisions |
| **Shutdown** (`lifecycle.py`) | phase, snapshot of tasks | drain, cancel, close | requests between the check and the registry |
| **MCP manager** (`engine/mcp/manager.py`, `filtering.py`) | connections, names of tools, surfaces of agents | connect, probe, attach, detach, close | servers that fall out and return in any order, clashing names |
| **Reload and watcher** (`watcher/*.py`) | applied configuration, generation, components | watch, classify, rebuild, swap, close | partial failure, components in use |
| **Operator** (`k8s_operator/`) | a watch; objects in the cluster | list, watch, reconcile, patch the status | failing calls, missed and repeated events |

Interaction: a request drives `runner.execute`, whose events a producer puts into the
queue of a stream or a socket; the run appends to its session through the ADK adapter and
pauses at a gated tool by writing an approval; decision requests and the reconciler of
every process resume it; the operator writes a ConfigMap, the watcher reads it, and the
reload swaps the runner and closes the old MCP manager; a shutdown cancels the request
tasks and closes the storage; the sweep works on the records of all of them.

## Modules

| Module | Models | Built on |
|---|---|---|
| `ApprovalLedger` | abstract: request once, settle once, execute only if permitted | |
| `Approvals` | decision, cancellation, resume and reconcile handlers over one store | refines `ApprovalLedger` |
| `ChatRequests` | admission, keys, slots, run end, disconnect, shutdown | |
| `StreamedRun` | a run, its state machine, and the producer that drives it into a bounded queue | |
| `ChatStream`, `WebSocket` | the two consumers: the generator of an event stream; the loop of a socket | `StreamedRun` |
| `Streams` | either surface, with its client | both |
| `RunLimits` | the conversion loop of a run under its limits | |
| `SessionHistory` | the runs on one session writing its history | |
| `StoreState` | sessions, runs and keys, and the rules all backends share | |
| `SessionStore` | abstract: how a step may change each record, from the docstrings of `contract.py` | `StoreState` |
| `MemoryStore`, `FileStore`, `RedisStore` | the backends, a step per lock hold, file or script | `StoreState` |
| `Stores` | any of the three | refines `SessionStore` |
| `PostgresStore` | the calls of the backend on its one connection, statement by statement | `StoreState` |
| `SessionLease` | the ownership fence of a session in all four backends | |
| `McpManager` | connections, names and surfaces of MCP tools | |
| `Operator` | the operator and the API server | |
| `Reload`, `ConfigWatcher`, `ConfigDelivery` | reload manager; watcher; all three composed | `Operator` |
| `MC...` | instances for TLC, views and symmetry | |
| `ApprovalsProofs`, `ChatRequestsProofs`, `StreamsProofs`, `StoresProofs`, `PostgresStoreProofs`, `ConfigDeliveryProofs` | the theorems, checked by TLAPS | the module of that name |
| `SessionProofs`, `EngineProofs` | theorems, likewise | `SessionLease` and `SessionHistory`; `RunLimits` and `McpManager` |

### Approvals

A *thread* is a decision request (`Decider`) or the reconciler of a process
(`Replica`); `pc[t]` is the await it is at, `at[t]` its approval, `runner[t]` the
generation of the runner it holds, and `snap`, `todo`, `won`, `phase` the local
variables of a tick. `status`, `gen`, `expired`, `run`, `session`, `resume` are the
records. Actions follow the code from await to await: `ReadApproval`,
`CheckGeneration`, `RetireApproval`, `Decide`, `Reread` (approvals.py 61-118 and
runner.py 564-607); `Pause` and `CallAgain` (the gate, 497-547); `AlreadyResumed` ... `FinishResume` (`_execute_resume`, 609-704,
shared by both kinds of thread); `BeginTick`, `ExpireOne`, ... `EndTick`
(`reconcile_pending`); `FindRun`, `CancelApproval`, `CancelRun` (DELETE of a run);
`Rebuild`, `CloseRetired`, `Crash`, and the sweeps. Abstractions:

- `update_run` reads and writes in two calls on Redis and Postgres and is one step
  here; Postgres' `delete_session` checks and deletes in one step.
- Storage calls do not fail, except the pause update, whose failure the code suppresses.
- Each rebuild moves the generation by one. Cancellation requests survive a crash
  (they may be served by another process). What a reconciler won is lost when its
  tick raises or its process dies, as in the code.
- A tick may take its records in any order; the code sorts them by creation.
- A call that repeats the `tool_call_id` of any decided approval of its session passes the
  gate (runner.py:507-515): `CallAgain`. `executions` counts the starts of the tool from the
  checkpoint, `ungated` remembers that a repeated call ran. Who makes that call (the model in
  a resumed run or in a later one) is not modelled; it may come at any time.
- A crash between the sweep's `timed_out` and the policy (runner.py:735-751) leaves a
  run no later tick lists; nothing finishes it but retention. A repeated decision is
  compared with the request's word, `approve`, while the record says `approved`
  (approvals.py:103), so an identical repeat gets 409. The generation is not compared
  again after the decision.

### ChatRequests

A request is one task; `pc[r]` is its stage. `Arrive` and `ReadBody` are the drain
check and the body; `LookUpKey`, `AcquireSlot`, `CreateKey` the three awaits of the
admission (chat.py 125-244; acp.py is the same); `Admit` ... `StoreVerdict` the run
(`runner.execute`), with `verdict[r]` its state machine and `run[r]`, `turn[r]` what
storage holds; `LeaveJson`, `LeaveStream`, `FinishKey`, `ReleaseKey` the `finally`
blocks. `Interrupt` is a `CancelledError` or a closed generator, whether the client
of a stream left (`Disconnect`) or the shutdown cancelled the task (`Deliver`): the
storage call it hits may or may not have been carried out, and in a handler under
`suppress(BaseException)` it is swallowed. The task in the registry is that of the
response, and the run of a stream is driven by its producer: when the task is cancelled
while the generator waits at a `yield` for its client, the task ends, nothing of `_stream`'s
`finally` is done, and the run goes on (`Detach`) until the event loop closes the generator
(`Finalize`). A shutdown waits for the tasks, so it may close the storage under a detached
run. `struck` is the result of a stream whose producer the deadline cancelled. `Signal`, `GraceEnds`, `CloseStorage` are
`lifecycle.py`; `Restart` is a crash, a second signal or the next process. Abstractions:

- A run is its lifecycle: model and tool calls are `work`, and what the model says is
  the choice among `Succeed`, `Fail`, `PauseRun` and `RagUnavailable`.
- The queue of a stream is the choice between `FinishKey` and `ReleaseKey` in
  `LeaveStream`: `ReleaseKey` is also possible after a run that ended well, since the
  end marker is put into a queue that may be full (chat.py:524-528). `ChatStream` has
  the queue itself.
- Retention periods are longer than a request (the defaults are days against
  minutes), so `SweepRun` and `SweepKey` meet ended requests only.
- DELETE of a run is not one of the writers here: it is in `Approvals`.
- A storage call other than the commit that fails has had no effect. A closed storage
  refuses every call (true of the network backends).
- The framework starts the body of every streaming response it is given. A generator
  that is never started would not run its `finally` and would keep its slot.
- Shutdown is not timed: the grace may end at any moment after the signal, which
  covers both the full grace and the early end (lifecycle.py 107-140).

### Streams

`run`, `rest` and `emitted` are the generator of the run, `state` its RunStateMachine and
`record` what storage holds. The generator advances only while the producer asks for the
next event (`Driven`); it is cut by a cancellation inside an await (`Cancel`) or by
`aclose` between two events (`Close`), or its producer is cut off from it: the timeout
around the run (runner.py:158) is open across its yields and cancels the task that drives
it, which may be waiting in the put of an event (`DeadlineInPut`, `struck`). That event is
lost, `slow_consumer` is not set, and the end marker follows if there is room. The model lets
this happen with room in the queue too, where the put would have been done. `Put`, `PutTimeout` and `Mark` are the producer
(chat.py:505-536; the producer of a socket is the same but for `Push`). `consumer.at` is
the await of the serving task. The teardown of `ChatStream` follows the `finally` of
`_stream` step by step: cancel the producer, wait for it, close the run, release the slot,
finish or expire the key, send the final chunks. `WebSocket` races its outbound queue,
its inbound queue and the receive task, as `asyncio.wait` does. Events are numbers;
approvals decided over a socket are in `Approvals`.

### RunLimits

One action per model event (`Event`: usage, then content) and one per part of it that
`_convert` handles; `limiter` and `ledger` are `RunLimiter` and `ToolLedger`. A text is the
sequence of the UTF-8 sizes of its code points, so cutting at a byte limit can fall inside
one. `CodepointPrefix` is the code's search for the largest prefix. `Bytes` and `TextOf` are
recursive functions over the positions of a sequence, not folds, so that theorems can be
proved about them. Deadline and cancellation may strike at any await. `written` collects all
the text of the events the run accepted; the run does not read it, the properties do.

### Stores

Ages are counted in sweeps: a record is expired when its `idle` reaches `Ttl`. `FileStore`
takes the lock for a whole call but writes and deletes files one by one (`CascadeRun`,
`Evict`, `WriteRun`), with `Crash` between any two. `RedisStore` has a step per script;
`index`, `idx` and `pinned` are the sorted sets and the expiries of keys, and `update_run`
and `finish_idempotency` are a GET and a SET (`held`). Both map to `SessionStore` by the
identity on sessions, runs and keys; `strict` is false for Redis, whose sessions expire
under their runs, and `listed` tells its runs the index still lists from those only a late
update brought back. No backend compares the status it writes with the stored one, so a run
that ended, and whose session a sweep has taken, may be written back to life (DELETE of a run
that is pausing, then the pause); `revived` are the runs of memory and files this happened to. `PostgresStore` keeps the driver's one connection: `saved` is what a
rollback restores, `auto` and `depth` the autocommit flag and the transaction count of
`_PsycopgTxn`, and every statement of every call may fall into the transaction of
another; `Drop` loses the connection and what was not committed. A transaction opens in two
awaits (`Enter`, then `SetAutocommit`, then `BeginTransaction`): a second call may come
between them, and its BEGIN inside an open transaction is only a warning, so both go on in
one. `shared` remembers that it happened, and the properties say what holds when it did not.
The reconnect that `_ensure` makes is one step with what follows it. Statements read
committed rows of their own connection, so one process is enough for it. `SessionOf` fixes the session
of a run or key: it is part of the primary key of the row.

### SessionLease

A caller is whoever holds a token; `sure[c]` is how long it may take itself for the owner
by its own clock, counted from its last acquisition or renewal. `upset` remembers what a
fence is not built for (deletion under the owner, a lost connection, a late renewal on
Redis); the properties excuse exactly that, per backend.

### SessionHistory

`read[r]` is the ADK session object of a run, `admission[r]` what `_admit` returned. A read
and an append note the revision after the answer of the storage, so both are two steps.
`Services` are `AdkSessionService` objects: one per process and generation. A service
that never read a session would look its revision up (adk_adapter.py:112-118); a run always
reads first.

### McpManager

`loop[s]` is the reconciler task of a server, `session[s]` its connection, `known` the
servers that were connected once, `final` the names given to their tools, `surface[a]` the
set of the tools an agent has. `Rename` pairs the tools a server offers with its filtered names
by position, as `_attach_tools` and `lookup_tool` do: right when the filters keep a prefix of
what the server offers (`PrefixFilter`), else some tool carries a name of another (see the
deviations). The properties say for every server what holds of its names, and more where
`PrefixFilter` holds. A probe fails when the session is dead and also, every time, on a live
server that does not answer `list_resources` (`Listable`).

### ConfigDelivery

Versions count the edits of the custom resource. `Operator` lists, watches and reconciles
(`Calling` is one API call, `CallFails` its failure); the environment edits the resource,
deletes the ConfigMap, restarts the operator. `ConfigWatcher` gets the ConfigMap, opens its
watch and applies; `Reload` classifies and swaps. A configuration is a setting of each
kind (`cap` live, `model` rebuild, `port` restart) and a flaw: `bad` is refused by the
operator, `unfit` by the runtime.

## Runs

| Run | Instance | Distinct states | Shows |
|---|---|---|---|
| `approvals` | 1 approval, 1 process, 2 deciders, 1 cancellation, 1 rebuild, onTimeout allow | XAPP | the safety of `Approvals` and its refinement of the ledger |
| `approvals_live` | 2 approvals, 2 deciders, 1 crash, onTimeout deny | 196,008 | timed-out, approved and rejected approvals are dealt with; requests are answered |
| `chat` | 2 requests, 1 key, cap 1 to 2, 1 restart | XCHAT | the safety of `ChatRequests`, and that a shutdown ends |
| `stores` | 1 session, 2 runs, 1 key, room for one of each, 2 revisions, expiry after 2 sweeps | 1,849,494 | memory, files and Redis implement the contract and keep the capacity |
| `postgres` | 2 callers, 5 calls, 1 drop | 5,021,380 | interleaved statements on one connection keep capacity and admission whole |
| `leases` | 3 callers, 2 processes, 3 acquisitions | 1,551,656 | one owner; a former owner is refused |
| `history` | 2 runs of one service, 1 of another, 2 events each | about 1,006,000 | a run continues what it read; a failure alone leaves what it found |
| `streams` | queue of 2, 4 events and the last ones, inbox of 1 | 791,535 | order, one outcome, slots and keys of streams; streams and producers end |
| `ws_slot` | as `streams`, sockets only | | **violated**: a disconnect during a run keeps its slot |
| `config` | 2 edits of 6 contents, 2 failures | 327,855 | delivery settles and never goes back; one generation serves; ready means applied |
| `mcp` | 4 servers, 2 agents, XDROPS losses | XMCP | names resolve, keep their meaning, and surfaces follow the servers |
| `limits` | 4 model events of 9 contents, 27 limits | 626,353 | the answer is the largest prefix; stop means whole |

The violated property quotes a requirement; "findings" in `PROJECT.json` has the
quotation and the lines.

**Properties.** Each is stated in words above its definition. Those about several pieces
of state: `LedgerRefined` and `ContractKept` (refinements), `ReplyIsBacked` (an answer agrees
with the record after races), `KeyHoldsAnOutcome` and `KeyMeansAnswered` (a key is completed
for the answer of a run that ended, sent as far as its producer got), `CommittedTurnStands` (history
against run record), `SlotsAccounted` and `SlotOutlivesRun` (cap against runs),
`HistoryContinues` (history against what the model was shown), `OneOwner` (believed
against stored leases), `OneGenerationServes`, `ReadyMeansApplied` (status against
objects), `ToolNamesResolve` (surface against lookup), `StopMeansWhole` (finish reason
against what the model wrote). Those about time: the liveness properties of `Approvals`,
`ShutdownCompletes`, `StreamEnds`, `ProducerStops`, `Settles`, `SurfacesFollow`.

**Refinement.** `L == INSTANCE ApprovalLedger` in `Approvals` reads the ledger off the
records; `Contract == INSTANCE SessionStore` in `Stores` maps the records to themselves and
the backend to `strict`. Files between two writes, indexes, expiries and records held by a
half-done update are hidden by the mappings.

**Bounds.** Two deciders, a canceller and a reconciler are every kind of contender for
one approval; approvals share no record, so one is enough for safety. They share the tick of
a reconciler, so liveness has two. One rebuild gives a
retired and a current generation, one crash every restart from every state.
`MaxExecutions` = 2 tells never, once and again apart. Two requests with one key are the
race for it; a cap that moves between 1 and 2 is both reached and undercut. Capacity 1
with two runs makes every admission meet a full session (for more sessions, runs and keys
the capacity is proved); an expiry after two sweeps leaves a state in which a session is
neither fresh nor expired, without which the contract would allow Redis every deletion; two
revisions give an append, a cut and an append on a reused revision. Two callers on the connection are a
transaction and its intruder, and five calls let each do two things and a sweep. Three
acquisitions are an owner, a take-over and a return; leases of 2 and sessions of 3 ticks
make either run out first. Three runs are a neighbour in the service and one outside it. A queue of 2 with 4 events fills, blocks and drains, and leaves room
for the end marker to be lost. Two edits reach every pair of kinds of change, two failures
a failure of a retry. Four servers with two shared names need two renamings of each and have a filter
that keeps a prefix, one that does not, a cut at `maxTools` and a server every probe takes down;
XLOSSES. Texts of one to four bytes, limits of 2, 3
and 5 bytes, budgets of 2 and 3 tokens and up to three iterations put each limit in the
middle of an event, at its end and past it. `MaxRevision`, `MaxCalls`, `MaxDrops`, `MaxLeft`,
`MaxAcquires`, `MaxEvents`, `MaxEdits`, `MaxFailures`, `MaxRestarts`, `MaxGeneration` and
`MaxExecutions` are bounds of the models; the rest of the constants are settings. The VIEWs
hide only what no later step reads and no property mentions; SYMMETRY is used in safety
runs alone. Deadlock is off where a system may have nothing left to do.

**Fairness.** Weak, on the steps of a task that no client holds up (asyncio runs every
ready task; storage, tools and models answer or hit their deadline), on the expiry of an
approval (a clock), on the close of a retired manager, on the steps of a shutdown, on
producers and consumers (their timeouts fire whatever the client does), on the loops of
the operator, the watcher and the reload (every failure is caught and backed off), and on
the reconciler of each MCP server. There is none on arrivals, decisions not yet sent,
disconnects, signals, crashes, edits, reloads, sweeps, or servers coming back, nor on a
live stream at its client's pace or a body still being sent.

`ApprovedIsTakenUp` and `RejectedRunFinishes` are checked with two approvals, one of which can
stand in the way of the other, and have one exception, `TicksKeepFailing`: a tool that raises
ends the tick of its reconciler (runner.py:780), and one that raises again and again keeps
every later record from being looked at. Without the exception TLC finds both violated. The
run fixes the environment of the two (`LiveEnvironment`: no retention and no second call while
the loop ticks; both calls are asked for before the first decision; no decision after the
crash; the tool server away for the second decider), and its view leaves out what no step then reads
(`LiveView`). No fairness is assumed on what it excludes.

## Proofs

Every theorem is about the specification the runs check and holds for all values of the
constants that satisfy the named assumptions: any sets of processes, requests, sessions or
callers, any limits, any of the model's bounds. Where the code does not keep a promise the property
says what is left of it, and the theorem is about that: `PrefixFilter` for names of MCP tools,
`Undisturbed` for the shared connection, `revived` for runs written back to life, `detached`
for streams a shutdown does not wait for, `struck` for a producer cut in its put. Most
properties are not inductive: what a thread does
rests on something it read several steps ago. Each module therefore has an inductive
invariant, stated beside the properties it supports so that TLC can check it too, and the
argument is the same throughout: the initial states satisfy it, each action keeps it (one
step per action in the proof of the induction), and it implies the property.

| Module | Assumes | Proved | Invariant and why it is needed |
|---|---|---|---|
| `ApprovalsProofs` | non-empty sets, positive bounds, deciders are not replicas | `TypeCorrect`; `ToolIsGated`, `OneDecisionWins`, `ApprovalsImplementsLedger` | `GateInv`: what a thread remembers of a decision still holds, because a final status never changes (`FinalStays`, the compare in `decide_approval`) |
| | | `ContinuationFollowsTool` | `ToolInv`: past the session check the tool was started |
| | | `TimeoutsResumeOnce` | `TitleInv`: a reconciler that won the sweep, or a thread on the way to the tool, holds the one title to run it, and it goes with the start of the tool |
| | | `AnswersAreBacked` | `ReplyInv`: an answer is the last thing a request does |
| `ChatRequestsProofs` | finitely many requests | `TypeCorrect`, `NoSlotLeaks` | each step keeps, adds or removes one holder, and moves the counter with it |
| | | `TurnsStand`, `KeysReplayOutcomes` | `RunInv`, `KeyInv`: a record is untouched until the verdict is stored, and owners of a key have ended |
| | | `ShutdownRecords` | `ShutdownInv`: a cancellation is delivered once, and when the storage closes every request that took it has ended, detached streams apart (`LeftAccounted`) |
| `StreamsProofs` | queue and inbox of at least one | `StreamsKept`; `SentInOrder`, `SlotBoundsRuns`, `KeysAreAnswered`, `OutcomesStay` | `StreamInv`: client, hand of the consumer and queue are pieces of one sequence (`Delivered`); nothing that was handed on is missing before the end marker unless the client was slow, and the event in the producer's hand only if the deadline struck it there (`WholeFrom`); each step of the teardown has its reason (`InOrderOfTeardown`) |
| `StoresProofs` | positive limits; sessions, runs and keys are told apart | `StoresKept`; `CapacityKept`, `RunsKeepSessions`, `ContractImplemented` | `StoreInv`: what an operation of the file backend read still holds between its writes (`LockKept`); what Redis indexes is stored, and a half-done update belongs to the session of its record (`IndexKept`) |
| `PostgresStoreProofs` | the above; finitely many callers; a run or key belongs to one session | `ConnectionsKept`; `CapacityWithoutDropsKept`, `AdmissionsAreWhole` | `ConnInv`: without a drop or a shared transaction one transaction is open and it is the connection's (`OneTransaction`), so what it counted holds when it inserts (`CountKept`) and only its own rows are new (`AdmissionKept`); a drop takes every transaction (`LostTogether`) |
| `SessionProofs`, on `SessionLease` | finitely many callers; a session outlives a lease | `LeaseKept`; `OwnerIsUnique`, `FormerOwnersAreRefused` | `LeaseInv`: in one place the entry names the last owner and lives as long as it is sure (`EntryKept`); in PostgreSQL the lock is as deep as its process has holders (`LockKept`) |
| `SessionProofs`, on `SessionHistory` | each run is in a service | `HistoryKept`; `HistoriesContinue` | `HistoryInv`: runs under way know of each other, one revision has one history while nobody takes anything back (`ReadKept`), and a run that is alone sees every write (`AloneKept`) |
| `EngineProofs`, on `McpManager` | a server is configured once and offers a tool once; any filters | `NamesAreCurrent`; `NamesResolve`, `NamesAreStable` | `McpInv`: the names are those of all servers that ever were connected, and the tools of a server whose filters keep a prefix carry them (`Given`), also the tools an earlier attach had renamed |
| `EngineProofs`, on `RunLimits` | code points of one to four bytes; positive limits | `LimitsKeepTheText`; `StopIsWhole`, `AnswerIsCutOnce` | `LimitsInv`: bytes are counted exactly, and what was written is what is kept and what is still to be converted, until the limit cuts it (`TextKept`); the loop ends for a reason (`StopsKept`) |
| `ConfigDeliveryProofs` | the boot configuration is valid | `DeliveryKept`; `ReadyIsApplied`, `ServesOneGeneration`, `NeverReturns` | `DeliveryInv`: versions fall from the resource over watch, ConfigMap and overlay to what serves (`Forward`, `Behind`), the calls of a reconcile are made in order (`InOrderOfCalls`), a replacement is whole and not yet serving (`Replaceable`) |

`ApprovalsImplementsLedger` maps every step of the handlers to a request, a settlement, an
execution, a repetition or a stutter of `ApprovalLedger`, with `ToolIsGated` as the guard of
the execution.
`ContractImplemented` maps every step of the three backends to a step of `SessionStore`
that each session, run and key allows, with `StoreInv` for the histories that Redis and the
files have half written. The lemmas about the store operators (what `With`, `Without`,
`Appended` or an eviction does to the sets of a session and their cardinality) are stated once
and cited by the proofs of the three backends.

The text of a run is of any length, and `Bytes` and `TextOf` are defined by recursion over
it, so `EngineProofs` needs induction over numbers. The library's induction theorems take an
operator, which no installed prover can instantiate; a least element does instead: `NatMin`
is the well-foundedness of the naturals, applied to the set of the lengths at which a lemma
would fail (`Induct`), and `Recursion` gives the same way that a recursive function exists.
From these follow that bytes add up over concatenation, that they grow with the prefix, and
that cutting delta by delta is cutting once.

Only model-checked, and why:

- the liveness properties (`ExpiredIsDecided`, `ApprovedIsTakenUp`, `RejectedRunFinishes`,
  `DecisionsAreAnswered`, `ShutdownCompletes`, `StreamEnds`, `ProducerStops`, `Settles`,
  `SurfacesFollow`): fairness and ENABLED are beyond the prover.

## Known deviations

What the code does that a requirement, a docstring or a comment says otherwise, or that a
reader of the properties should know. The models contain this behaviour; the properties
are stated around it.

Approvals and requests
- A call whose `tool_call_id` is that of any decided approval of the session runs without a
  pause, though that approval was denied, timed out, cancelled or stale (runner.py:513-515;
  the comment at 504-506 speaks of the resumed run).
- An approved tool can run twice: the guard looks for a run that is admitted only after
  the tool returned (runner.py:617-697), and a reconcile tick may fall into the call.
- After a rebuild the reconcile loop keeps the runner of the first generation and retires
  approvals of the current one (protocol/app.py:140-146, runner.py:755).
- On Redis no approval is ever listed, so none times out or is taken up: entries are
  split at `:`, which every principal contains (redis_backend.py:839-841, 886-888).
- With onTimeout allow, a run cancelled after the expiry is resumed (runner.py:743).
- A tool that always raises ends every tick and starves the approved and rejected records
  listed later (runner.py:780); every tick writes the runs of rejected approvals again (785).
- A crash between the stored `timed_out` and the policy leaves the run to retention.
- Two requests with one key can both run (chat.py:128, 215). A run whose turn could not be
  committed is stored as succeeded (runner.py:306). A request that passed the drain check
  may run on a closed storage (lifecycle.py:178). So may the run of a stream that waits for its
  client when the shutdown cancels it: the task that is awaited (lifecycle.py:181) ends without
  the generator's `finally`, though 142-145 says that runs commit their end before the storage
  closes.
- The pause of a run writes `awaiting_approval` over whatever the record says (runner.py:553), so a
  run that DELETE cancelled while it paused (approvals.py:153-160) is live again.
- A run that ends on missing retrieval stores no end (runner.py:162-169); a json request
  that pauses or is cancelled, and a generator closed at `[DONE]`, leave the key in
  progress; a refused admission is stored as the outcome of its key.

Streams
- A disconnect during a run keeps its slot (`ws_slot`). In the other exits of a socket the
  slot is released without waiting for the producer; a failure in `_start_run` after the
  producer was made leaves it running; messages queued at the disconnect are dropped.
- An end marker put into a full queue is lost (chat.py:524): the key of a whole answer is
  then expired, and a socket answers `run_in_progress` from then on.
- A deadline that strikes while the producer waits to put an event (runner.py:158 around
  chat.py:514) loses the event and leaves the run to be closed. When the end marker still fits,
  the stream counts as completed (chat.py:560) and the key is finished for a truncated answer; a
  socket fails its session on `producer.exception()` (websocket.py:204).
- A consumer blocked in its send does not see `slow_consumer` (chat.py:519).

Session history
- Runs of one service that overlap on a session share the anchor: the events of one are
  appended behind events its model was not shown. A truncation lowers the revision, so a
  run that overlaps it can append to a history it has not read, and it drops as many
  events as revisions were counted, those of an overlapping run and half a turn among
  them. Runs that raise or are cancelled take nothing back. ENG-06 asks that a failed
  run appends nothing.
- On PostgreSQL a truncation leaves the revision column behind (postgres_backend.py:498-505),
  and a compare-and-swap retried after a lost answer appends twice (436-442).

Storage
- No backend compares a status it writes with the stored one (memory.py:282): a run that ended
  can come back to life after a sweep took its session.
- PostgreSQL: two calls can both turn autocommit off before either sends BEGIN (main.py:215-216).
  The second BEGIN only warns, both are in one transaction, and the COMMIT or ROLLBACK of one
  publishes or undoes half of what the other does. A statement of another call between COMMIT and the return to autocommit
  opens a transaction nobody ends; create_run and delete_session check outside their
  transactions; after a lost connection the rest of a transaction runs in autocommit.
- Redis: an update that raced with a deletion or a sweep writes its run back outside the
  index; a deletion, which looks in the index, then removes the session of a run under way,
  where contract.py:155-157 has it raise `SessionBusy`. A finished key no longer expires.
- Fences: no run takes one (SES-05). contract.py:66 says a held fence makes a deletion
  busy, which no backend checks. On PostgreSQL two acquisitions of one process both
  succeed, a take-over leaks a level of the lock, a release clears whatever expiry it
  finds, and a renewal needs neither row nor lock. On Redis a renewal extends an expiry
  that has passed, and the acquisition replaces the expiry of the session. In memory and in files an
  expired fence keeps its session from the sweep. A purge may delete a session leased
  since it looked.

MCP, limits and configuration
- A filtered toolset is renamed by position over the unfiltered names
  (manager.py:134-137): with `b` allowed of `a`, `b`, the tool `a`, which was filtered out, is
  attached as `b`, and a lookup of `b` finds `a`. Only the server a name resolves to is right.
- A live server that offers tools and no resources is taken down by every probe
  (manager.py:332-335) and connected again.
  A reconnect replaces a toolset without closing it; a cancelled connect leaves one open.
- A token count equal to the budget ends a run with "stop" (the exception in
  `StopMeansWhole`); an event without usage marks the usage as estimated; parallel calls
  count as iterations each; the code of an error event is lost.
- The status patch of the operator is an event it reconciles again. A deleted ConfigMap is
  applied as None, which raises, so there is no fallback (REL-05). The gate and the rate
  limiter keep their limits over a rebuild; a live change of timeout or iterations reaches
  no runner before one; a failed rebuild leaves its manager started; readiness looks at
  the components of the boot.

## Not modelled

- Configuration parsing and validation, retrieval and connectors, pricing, logging,
  metrics and redaction: one pass over a document, calls to external services, or
  counters, with no state a decision depends on. The storage test doubles and the scripts.
- Authentication, error bodies, wire formats.
- The rate limiter: a counter per key and minute, changed in one step; its stale buckets
  are never dropped, since `prune` has no caller. Trimming of histories (`context.py`) has
  no caller either.
- The approval records of the memory and file backends (gated tools need a shared one).
- The deletion of a session under the ADK adapter, resumed runs in `SessionHistory`, and
  the two statements of a truncation on PostgreSQL there (they are in `PostgresStore`).
- Time bounds of MCP calls, backoff, the stdio sandbox; restarts of the runtime and
  deletion of the custom resource in `ConfigDelivery`; hand-edited ConfigMaps.
- Boot, the exit code, and the close of the watcher and of MCP at shutdown.
