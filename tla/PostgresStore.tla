---------------------------- MODULE PostgresStore ----------------------------
(***************************************************************************)
(* The PostgreSQL backend (src/app/storage/postgres_backend.py) over the   *)
(* one connection of the process (_PsycopgDb and _PsycopgTxn in            *)
(* src/app/main.py). The calls of all tasks share the connection and       *)
(* interleave between statements; whatever runs while a transaction is     *)
(* open belongs to it, and is rolled back or lost with it.                 *)
(*                                                                         *)
(* sess, runs and keys are what the connection sees. The guards of a       *)
(* statement are those of its WHERE clause.                                *)
(***************************************************************************)
EXTENDS StoreState

CONSTANTS Callers, MaxSessions, Nothing,
          SessionOf,   \* the session a run or a key is stored under: part of its primary key
          MaxCalls,    \* bounds of the model
          MaxDrops

ASSUME CallAssumption ==
  /\ IsFiniteSet(Callers) /\ MaxCalls \in Nat /\ MaxDrops \in Nat
  /\ SessionOf \in [Runs \cup Keys -> Sessions]

VARIABLES column,   \* the revision column of each session, beside the one in its data
          saved,    \* what a rollback restores: empty when no transaction is open
          auto,     \* autocommit of the connection
          conn,     \* up, broken (not noticed yet), closed
          depth,    \* _txn_depth
          call,     \* the call each caller is in
          calls, drops,
          shared    \* history: a transaction was begun inside that of another call

connVars == <<saved, auto, conn, depth>>
countVars == <<calls, drops, shared>>
vars == <<sess, runs, keys, column, saved, auto, conn, depth, call, calls, drops, shared>>

View == <<sess, runs, keys, column>>
Show(view) == /\ sess' = view[1] /\ runs' = view[2] /\ keys' = view[3] /\ column' = view[4]

\* lost: the connection the call took for its transaction is gone.
Free == [op |-> "free", at |-> "idle", on |-> Nothing, x |-> Nothing, expected |-> 0,
         seen |-> Nothing, lost |-> FALSE]
Transactional == {"create_session", "create_run", "admit_run", "create_key", "delete", "sweep"}
At(c, op, step) == call[c].op = op /\ call[c].at = step
Goto(c, step) == call' = [call EXCEPT ![c].at = step]
Return(c) == call' = [call EXCEPT ![c] = Free]

\* The steps of __aenter__ and of __aexit__; what a call holds between them.
Opening == {"begin", "autocommit", "open"}
Ends == {"commit", "rollback", "reset"}
InBlock(c) ==
  call[c].op \in Transactional /\ call[c].at \notin {"read", "list", "begin", "reset"}
InTransaction(c) == InBlock(c) /\ call[c].at \notin Opening

\* What _run does around every statement: a closed connection is opened again, one that
\* breaks under the statement is retried once outside transactions.
Reached == conn # "broken" \/ depth = 0
Opens == saved = <<>> /\ ~auto
Statement ==
  /\ Reached
  /\ conn' = "up"
  /\ IF conn = "up" THEN /\ saved' = IF Opens THEN View ELSE saved
                         /\ UNCHANGED auto
                    ELSE saved' = <<>> /\ auto' = TRUE
  /\ UNCHANGED <<depth, countVars>>

\* A statement that finds the connection broken while any transaction is open fails its
\* call; a call in a transaction still leaves it.
StatementFails(c) ==
  /\ ~Reached
  /\ call[c].at \notin {"idle"} \cup Opening \cup Ends
  /\ conn' = "closed"
  /\ IF call[c].lost THEN Goto(c, "rollback") ELSE Return(c)
  /\ UNCHANGED <<sess, runs, keys, column, saved, auto, depth, countVars>>

Read(c) == Statement /\ UNCHANGED <<sess, runs, keys, column>>

Start(c, op, s, x, expected) ==
  /\ call[c].op = "free" /\ calls < MaxCalls
  /\ calls' = calls + 1
  /\ call' = [call EXCEPT ![c] = [Free EXCEPT !.op = op, !.on = s, !.x = x,
       !.expected = expected,
       !.at = IF op \in {"create_session", "admit_run", "sweep"} THEN "begin" ELSE "read"]]
  /\ UNCHANGED <<sess, runs, keys, column, connVars, drops, shared>>

\* The step of each transaction after its BEGIN.
FirstStep ==
  [op \in Transactional |-> CASE op \in {"create_session", "admit_run", "sweep"} -> "purge"
                              [] op = "create_run" -> "room"
                              [] op = "create_key" -> "count"
                              [] op = "delete" -> "rows"]

\* __aenter__ raises the depth, takes the connection (opened again when it is known to be
\* closed), turns autocommit off and sends BEGIN: two awaits, with the statements of other
\* calls between them.
Enter(c) ==
  /\ call[c].at = "begin"
  /\ depth' = depth + 1
  /\ call' = [call EXCEPT ![c].at = "autocommit", ![c].lost = (conn = "broken")]
  /\ IF conn = "closed" THEN conn' = "up" /\ saved' = <<>> /\ auto' = TRUE
                        ELSE UNCHANGED <<conn, saved, auto>>
  /\ UNCHANGED <<sess, runs, keys, column, countVars>>

GiveUp(c) == depth' = depth - 1 /\ Return(c)

\* Mutant: the transaction is never started, every statement commits by itself.
StartUnprotected(c) ==
  /\ call[c].at = "autocommit"
  /\ Goto(c, FirstStep[call[c].op])
  /\ UNCHANGED <<sess, runs, keys, column, connVars, countVars>>

\* A connection with an open transaction refuses the change. One that broke and was not
\* noticed answers by what it was in when it broke.
SetAutocommit(c) ==
  /\ call[c].at = "autocommit"
  /\ \/ /\ IF call[c].lost THEN conn = "broken" /\ UNCHANGED auto
                            ELSE saved = <<>> /\ auto' = FALSE
        /\ Goto(c, "open") /\ UNCHANGED depth
     \/ /\ call[c].lost \/ saved # <<>>
        /\ GiveUp(c) /\ UNCHANGED auto
  /\ UNCHANGED <<sess, runs, keys, column, saved, conn, countVars>>

\* BEGIN inside a transaction that is open by now is only a warning: the call goes on in it.
BeginTransaction(c) ==
  /\ call[c].at = "open"
  /\ IF call[c].lost
     THEN /\ GiveUp(c)
          /\ conn' = IF conn = "broken" THEN "closed" ELSE conn
          /\ UNCHANGED <<saved, shared>>
     ELSE /\ Goto(c, FirstStep[call[c].op])
          /\ saved' = IF saved = <<>> THEN View ELSE saved
          /\ shared' = (shared \/ \E d \in Callers : InTransaction(d))
          /\ UNCHANGED <<conn, depth>>
  /\ UNCHANGED <<sess, runs, keys, column, auto, calls, drops>>

\* __aexit__: the depth goes first, then COMMIT or ROLLBACK, on the connection of the
\* BEGIN or not at all.
Leave(c) ==
  /\ call[c].at \in {"commit", "rollback"}
  /\ depth' = depth - 1
  /\ IF call[c].lost
     THEN /\ Return(c)
          /\ conn' = IF conn = "broken" THEN "closed" ELSE conn
          /\ UNCHANGED <<sess, runs, keys, column, saved>>
     ELSE /\ Goto(c, "reset")
          /\ saved' = <<>>
          /\ IF call[c].at = "commit" \/ saved = <<>> THEN UNCHANGED View ELSE Show(saved)
          /\ UNCHANGED conn
  /\ UNCHANGED <<auto, countVars>>

\* Autocommit comes back in a step of its own. A statement that was waiting for the
\* connection has by then opened a transaction nobody commits; the refusal to change
\* autocommit is suppressed.
Reset(c) ==
  /\ call[c].at = "reset"
  /\ auto' = IF ~call[c].lost /\ saved = <<>> THEN TRUE ELSE auto
  /\ Return(c)
  /\ UNCHANGED <<sess, runs, keys, column, saved, conn, depth, countVars>>

-----------------------------------------------------------------------------
(* Sessions *)

Seen(c, record, step) == call' = [call EXCEPT ![c].seen = record, ![c].at = step]

\* Each attempt reads and then compares; one that lost the race goes on from the revision
\* it tried to write, three attempts in all (x counts them).
ReadToMutate(c) ==
  LET s == call[c].on IN
  /\ At(c, "mutate", "read")
  /\ Read(c)
  /\ IF s \in DOMAIN sess /\ sess[s].rev = call[c].expected
     THEN Seen(c, sess[s], "cas") ELSE Return(c)

Matches(c) == /\ call[c].on \in DOMAIN sess /\ column[call[c].on] = call[c].expected
              /\ Room(call[c].seen, 1)
Append(c) == /\ sess' = [sess EXCEPT ![call[c].on] = Appended(call[c].seen, 1)]
             /\ column' = [column EXCEPT ![call[c].on] = @ + 1]
             /\ UNCHANGED <<runs, keys>>
Again(c) ==
  IF call[c].x = 3 \/ call[c].expected = MaxRevision THEN Return(c)
  ELSE call' = [call EXCEPT ![c].at = "read", ![c].x = @ + 1, ![c].expected = @ + 1]

CompareAndSwap(c) ==
  /\ At(c, "mutate", "cas")
  /\ Statement
  /\ IF Matches(c) THEN Append(c) /\ Return(c)
                   ELSE Again(c) /\ UNCHANGED View

\* The connection breaks after the update and before its answer: the retry of the
\* statement finds the revision moved, by itself.
AnswerLost(c) ==
  /\ At(c, "mutate", "cas")
  /\ conn = "up" /\ saved = <<>> /\ auto /\ depth = 0 /\ drops < MaxDrops
  /\ Matches(c) /\ Append(c) /\ Again(c)
  /\ drops' = drops + 1
  /\ UNCHANGED <<connVars, calls, shared>>

ReadToTruncate(c) ==
  LET s == call[c].on IN
  /\ At(c, "truncate", "read")
  /\ Read(c)
  /\ IF s \in DOMAIN sess /\ sess[s].rev > call[c].expected
     THEN Seen(c, sess[s], "write") ELSE Return(c)

\* What was read is cut and written without comparing, and the revision column stays.
Truncate(c) ==
  LET s == call[c].on
      cut == Shortened(call[c].seen, call[c].expected)
  IN
  /\ At(c, "truncate", "write")
  /\ Statement
  /\ sess' = IF s \in DOMAIN sess THEN [sess EXCEPT ![s] = [cut EXCEPT !.idle = sess[s].idle]]
                                  ELSE sess
  /\ Return(c)
  /\ UNCHANGED <<runs, keys, column>>

Purgeable == {s \in DOMAIN sess : Expired(sess[s]) /\ Live(s) = {}}

Purge(c) ==
  /\ call[c].at = "purge"
  /\ Statement
  /\ sess' = Without(sess, Purgeable) /\ column' = Without(column, Purgeable)
  /\ Goto(c, IF call[c].op = "sweep" THEN "runs" ELSE "session")
  /\ UNCHANGED <<runs, keys>>

\* A session is inserted unless it exists; create_session counts before it looks.
EnsureSession(c) ==
  LET s == call[c].on
      exists == s \in DOMAIN sess
      full == Cardinality(DOMAIN sess) >= MaxSessions
      next == IF call[c].op = "admit_run" THEN "room" ELSE "commit"
  IN
  /\ call[c].at = "session"
  /\ Statement
  /\ IF full /\ (~exists \/ call[c].op = "create_session")
     THEN Goto(c, "rollback") /\ UNCHANGED <<sess, column>>
     ELSE /\ sess' = IF exists THEN sess ELSE With(sess, s, NewSession)
          /\ column' = IF exists THEN column ELSE With(column, s, 1)
          /\ Goto(c, next)
  /\ UNCHANGED <<runs, keys>>

\* The session and its runs are looked at before the transaction of the deletion.
CheckDelete(c) ==
  LET s == call[c].on IN
  /\ At(c, "delete", "read")
  /\ Read(c)
  /\ IF s \in DOMAIN sess THEN Goto(c, "list") ELSE Return(c)

CheckRuns(c) ==
  /\ At(c, "delete", "list")
  /\ Read(c)
  /\ IF Live(call[c].on) = {} THEN Goto(c, "begin") ELSE Return(c)

DeleteRows(c) ==
  LET s == call[c].on IN
  /\ At(c, "delete", "rows")
  /\ Statement
  /\ runs' = Without(runs, RunsOf(s)) /\ keys' = Without(keys, KeysOf(s))
  /\ Goto(c, "session_row")
  /\ UNCHANGED <<sess, column>>

DeleteSession(c) ==
  LET s == call[c].on IN
  /\ At(c, "delete", "session_row")
  /\ Statement
  /\ sess' = Without(sess, {s}) /\ column' = Without(column, {s})
  /\ Goto(c, "commit")
  /\ UNCHANGED <<runs, keys>>

-----------------------------------------------------------------------------
(* Runs and keys *)

CheckRun(c) ==
  /\ At(c, "create_run", "read")
  /\ Read(c)
  /\ IF call[c].on \in DOMAIN sess /\ call[c].x \notin DOMAIN runs
     THEN Goto(c, "begin") ELSE Return(c)

\* The oldest run that has ended is deleted while the session is full. A run that is
\* admitted twice is left as it is.
MakeRoom(c) ==
  LET s == call[c].on
      oldest == {r \in Ended(s) : \A o \in Ended(s) : runs[r].idle >= runs[o].idle}
  IN
  /\ call[c].at = "room"
  /\ Statement
  /\ \/ /\ call[c].op = "admit_run" /\ call[c].x \in DOMAIN runs
        /\ Goto(c, "commit") /\ UNCHANGED runs
     \/ /\ call[c].op = "admit_run" => call[c].x \notin DOMAIN runs
        /\ IF Fits(s, {}) THEN Goto(c, "insert") /\ UNCHANGED runs
           ELSE IF oldest = {} THEN Goto(c, "rollback") /\ UNCHANGED runs
           ELSE \E r \in oldest : runs' = Without(runs, {r}) /\ UNCHANGED call
  /\ UNCHANGED <<sess, keys, column>>

\* INSERT ... ON CONFLICT DO NOTHING
Inserted(f, x, record) == IF x \in DOMAIN f THEN f ELSE With(f, x, record)

InsertRun(c) ==
  /\ call[c].op # "create_key" /\ call[c].at = "insert"
  /\ Statement
  /\ runs' = Inserted(runs, call[c].x, NewRun(call[c].on))
  /\ Goto(c, "commit")
  /\ UNCHANGED <<sess, keys, column>>

ReadRun(c) ==
  /\ At(c, "update", "read")
  /\ Read(c)
  /\ IF call[c].x \in DOMAIN runs THEN Seen(c, runs[call[c].x], "write") ELSE Return(c)

UpdateRun(c, status) ==
  LET r == call[c].x IN
  /\ At(c, "update", "write")
  /\ Statement
  /\ runs' = IF r \in DOMAIN runs
             THEN [runs EXCEPT ![r] = [call[c].seen EXCEPT !.status = status, !.idle = 0]]
             ELSE runs
  /\ Return(c)
  /\ UNCHANGED <<sess, keys, column>>

ReadKey(c) ==
  LET k == call[c].x IN
  /\ call[c].op \in {"create_key", "finish"} /\ call[c].at = "read"
  /\ Read(c)
  /\ IF (k \in DOMAIN keys) = (call[c].op = "create_key") THEN Return(c)
     ELSE Goto(c, IF call[c].op = "create_key" THEN "begin" ELSE "write")

CountKeys(c) ==
  /\ At(c, "create_key", "count")
  /\ Statement
  /\ Goto(c, IF KeyFits(call[c].on) THEN "insert" ELSE "rollback")
  /\ UNCHANGED View

InsertKey(c) ==
  /\ At(c, "create_key", "insert")
  /\ Statement
  /\ keys' = Inserted(keys, call[c].x, NewKey(call[c].on))
  /\ Goto(c, "commit")
  /\ UNCHANGED <<sess, runs, column>>

FinishKey(c) ==
  LET k == call[c].x IN
  /\ At(c, "finish", "write")
  /\ Statement
  /\ keys' = IF k \in DOMAIN keys THEN [keys EXCEPT ![k].done = TRUE] ELSE keys
  /\ Return(c)
  /\ UNCHANGED <<sess, runs, column>>

ExpireKey(c) ==
  /\ At(c, "expire", "read")
  /\ Statement
  /\ keys' = Without(keys, {call[c].x})
  /\ Return(c)
  /\ UNCHANGED <<sess, runs, column>>

-----------------------------------------------------------------------------
(* The sweep, after the purge of sessions *)

SweepRuns(c) ==
  /\ At(c, "sweep", "runs")
  /\ Statement
  /\ runs' = Without(runs, {r \in DOMAIN runs : runs[r].status = "ended" /\ Expired(runs[r])})
  /\ Goto(c, "keys")
  /\ UNCHANGED <<sess, keys, column>>

SweepKeys(c) ==
  /\ At(c, "sweep", "keys")
  /\ Statement
  /\ keys' = Without(keys, {k \in DOMAIN keys : keys[k].idle >= Ttl})
  /\ Goto(c, "reconcile")
  /\ UNCHANGED <<sess, runs, column>>

Reconcile(c) ==
  /\ At(c, "sweep", "reconcile")
  /\ Statement
  /\ runs' = [r \in DOMAIN runs |->
                IF runs[r].status = "live" /\ Expired(runs[r])
                THEN [runs[r] EXCEPT !.status = "ended", !.idle = 0] ELSE runs[r]]
  /\ Goto(c, "commit")
  /\ UNCHANGED <<sess, keys, column>>

-----------------------------------------------------------------------------
\* The server, the network or an idle timeout takes the connection; what was not
\* committed is gone.
Drop ==
  /\ conn = "up" /\ drops < MaxDrops
  /\ conn' = "broken"
  /\ drops' = drops + 1
  /\ saved' = <<>>
  /\ IF saved = <<>> THEN UNCHANGED View ELSE Show(saved)
  /\ call' = [c \in Callers |->
       IF InBlock(c) \/ call[c].at = "reset" THEN [call[c] EXCEPT !.lost = TRUE]
       ELSE call[c]]
  /\ UNCHANGED <<auto, depth, calls, shared>>

\* A TTL is long against a call.
Tick ==
  /\ \A c \in Callers : call[c].op = "free"
  /\ saved = <<>>
  /\ sess' = Older(sess) /\ runs' = Older(runs) /\ keys' = Older(keys)
  /\ storeVars' # storeVars
  /\ UNCHANGED <<column, connVars, call, countVars>>

Init ==
  /\ StoreInit /\ column = <<>>
  /\ saved = <<>> /\ auto = TRUE /\ conn = "closed" /\ depth = 0
  /\ call = [c \in Callers |-> Free]
  /\ calls = 0 /\ drops = 0 /\ shared = FALSE

\* A run id is minted by the caller that creates the run.
Minted(r) ==
  \A d \in Callers : call[d].op \in {"create_run", "admit_run"} => call[d].x # r

Requests(c) ==
  \/ \E s \in Sessions :
       \/ Start(c, "create_session", s, Nothing, 0) \/ Start(c, "delete", s, Nothing, 0)
       \/ \E rev \in 1 .. MaxRevision :
            Start(c, "mutate", s, 1, rev) \/ Start(c, "truncate", s, Nothing, rev)
  \/ \E r \in Runs :
       \/ Minted(r) /\ Start(c, "create_run", SessionOf[r], r, 0)
       \/ Minted(r) /\ Start(c, "admit_run", SessionOf[r], r, 0)
       \/ Start(c, "update", SessionOf[r], r, 0)
  \/ \E k \in Keys, op \in {"create_key", "finish", "expire"} : Start(c, op, SessionOf[k], k, 0)
  \/ Start(c, "sweep", Nothing, Nothing, 0)

Next ==
  \/ \E c \in Callers :
       \/ Requests(c) \/ StatementFails(c)
       \/ Enter(c) \/ SetAutocommit(c) \/ BeginTransaction(c) \/ Leave(c) \/ Reset(c)
       \/ ReadToMutate(c) \/ CompareAndSwap(c) \/ AnswerLost(c)
       \/ ReadToTruncate(c) \/ Truncate(c)
       \/ Purge(c) \/ EnsureSession(c)
       \/ CheckDelete(c) \/ CheckRuns(c) \/ DeleteRows(c) \/ DeleteSession(c)
       \/ CheckRun(c) \/ MakeRoom(c) \/ InsertRun(c)
       \/ ReadRun(c) \/ \E status \in Statuses : UpdateRun(c, status)
       \/ ReadKey(c) \/ CountKeys(c) \/ InsertKey(c) \/ FinishKey(c) \/ ExpireKey(c)
       \/ SweepRuns(c) \/ SweepKeys(c) \/ Reconcile(c)
  \/ Drop \/ Tick

Spec == Init /\ [][Next]_vars

-----------------------------------------------------------------------------
\* What a connection may see: finitely many rows, each under the session in its key.
ViewOK(s, r, k, col) ==
  /\ DOMAIN s \subseteq Sessions /\ s \in [DOMAIN s -> SessionRecord]
  /\ DOMAIN r \subseteq Runs /\ r \in [DOMAIN r -> RunRecord] /\ IsFiniteSet(DOMAIN r)
  /\ DOMAIN k \subseteq Keys /\ k \in [DOMAIN k -> KeyRecord] /\ IsFiniteSet(DOMAIN k)
  /\ \A x \in DOMAIN r : r[x].sid = SessionOf[x]
  /\ \A x \in DOMAIN k : k[x].sid = SessionOf[x]
  /\ col \in [DOMAIN s -> 1 .. MaxRevision]

Stages == {"idle", "read", "cas", "write", "list", "begin", "autocommit", "open", "purge", "session", "room", "insert", "count",
           "rows", "session_row", "runs", "keys", "reconcile", "commit", "rollback", "reset"}

CallRecord ==
  [op : {"free", "mutate", "truncate", "update", "finish", "expire"} \cup Transactional, at : Stages,
   on : Sessions \cup {Nothing}, x : Runs \cup Keys \cup 1 .. 3 \cup {Nothing},
   expected : 0 .. MaxRevision, seen : SessionRecord \cup RunRecord \cup {Nothing}, lost : BOOLEAN]

\* Where a call can be, and the row it names and has read.
CallOK(d) ==
  /\ d.op = "free" => d.at = "idle"
  /\ d.op = "mutate" => /\ d.at \in {"read", "cas"} /\ d.on \in Sessions
                        /\ d.x \in 1 .. 3 /\ d.expected \in 1 .. MaxRevision
                        /\ d.at = "cas" => d.seen \in SessionRecord /\ d.seen.rev = d.expected
  /\ d.op = "truncate" => /\ d.at \in {"read", "write"} /\ d.on \in Sessions
                          /\ d.expected \in 1 .. MaxRevision
                          /\ d.at = "write" => d.seen \in SessionRecord /\ d.seen.rev > d.expected
  /\ d.op = "update" => /\ d.at \in {"read", "write"} /\ d.x \in Runs
                        /\ d.at = "write" => d.seen \in RunRecord /\ d.seen.sid = SessionOf[d.x]
  /\ d.op \in {"finish", "expire"} => d.at \in {"read", "write"} /\ d.x \in Keys
  /\ d.op = "create_session" => d.at \in {"purge", "session"} \cup Opening \cup Ends /\ d.on \in Sessions
  /\ d.op = "create_run" => /\ d.at \in {"read", "room", "insert"} \cup Opening \cup Ends
                            /\ d.x \in Runs /\ d.on = SessionOf[d.x]
  /\ d.op = "admit_run" => /\ d.at \in {"purge", "session", "room", "insert"} \cup Opening \cup Ends
                           /\ d.x \in Runs /\ d.on = SessionOf[d.x]
  /\ d.op = "create_key" => /\ d.at \in {"read", "count", "insert"} \cup Opening \cup Ends
                            /\ d.x \in Keys /\ d.on = SessionOf[d.x]
  /\ d.op = "delete" => d.at \in {"read", "list", "rows", "session_row"} \cup Opening \cup Ends /\ d.on \in Sessions
  /\ d.op = "sweep" => d.at \in {"purge", "runs", "keys", "reconcile"} \cup Opening \cup Ends
  /\ d.lost => d.op \in Transactional /\ d.at \notin {"read", "list", "begin"}

TypeOK ==
  /\ ViewOK(sess, runs, keys, column)
  /\ saved # <<>> => /\ saved = <<saved[1], saved[2], saved[3], saved[4]>>
                     /\ ViewOK(saved[1], saved[2], saved[3], saved[4])
  /\ auto \in BOOLEAN /\ conn \in {"up", "broken", "closed"}
  /\ depth = Cardinality({c \in Callers : InBlock(c)})
  /\ call \in [Callers -> CallRecord] /\ \A c \in Callers : CallOK(call[c])
  /\ calls \in 0 .. MaxCalls /\ drops \in 0 .. MaxDrops /\ shared \in BOOLEAN

\* The connection held, and no two transactions were open on it at a time. Nothing in the
\* code prevents the second: SetAutocommit of one call and BeginTransaction of another.
Undisturbed == drops = 0 /\ ~shared

\* Counting and inserting in separate statements of interleaved calls never admits one
\* run or key too many, as long as the connection holds and no two calls shared a
\* transaction: neither a call in no transaction nor the two steps in which one opens break
\* the count of another.
CapacityWithoutDrops ==
  Undisturbed => \A s \in Sessions : /\ Cardinality(RunsOf(s)) <= MaxRuns
                                     /\ Cardinality(KeysOf(s)) <= MaxKeys

\* What the database holds whatever happens to the connection.
Committed == IF saved = <<>> THEN View ELSE saved

\* An admitted run never appears in the database without its session, as long as the
\* connection holds and no two calls shared a transaction: admission is one transaction.
\* (create_run, which only the mock runner calls, looks for the session before its
\* transaction.)
Appeared == DOMAIN Committed'[2] \ DOMAIN Committed[2]
AdmittedTogether ==
  [][Undisturbed' => \A c \in Callers : call[c].op = "admit_run" /\ call[c].x \in Appeared =>
       Committed'[2][call[c].x].sid \in DOMAIN Committed'[1]]_vars

-----------------------------------------------------------------------------
(* The inductive invariant behind the safety properties                    *)

\* A connection that broke took the transactions of all calls with it.
LostTogether ==
  conn = "broken" => \A c \in Callers : InBlock(c) => call[c].lost

\* Undisturbed, one transaction is open at a time, and it is that of the connection.
OneTransaction ==
  Undisturbed =>
    /\ conn # "broken" /\ \A c \in Callers : ~call[c].lost
    /\ \A c \in Callers : /\ InBlock(c) => conn = "up"
                          /\ InTransaction(c) => saved # <<>>
    /\ \A c, d \in Callers : InTransaction(c) /\ InTransaction(d) => c = d
    /\ conn = "closed" => saved = <<>>

RunsIn(r, s) == {x \in DOMAIN r : SessionOf[x] = s}

\* What the transaction has counted still holds when it inserts, and a rollback restores
\* what fitted.
CountKept ==
  Undisturbed =>
    /\ saved # <<>> => \A s \in Sessions : /\ Cardinality(RunsIn(saved[2], s)) <= MaxRuns
                                           /\ Cardinality(RunsIn(saved[3], s)) <= MaxKeys
    /\ \A c \in Callers : call[c].at = "insert" =>
         IF call[c].op = "create_key" THEN KeyFits(call[c].on) ELSE Fits(call[c].on, {})

\* A run that is new to the open transaction was inserted by the call whose transaction it
\* is; the session that call admits into is there until it commits.
AdmissionKept ==
  /\ \A c, d \in Callers :
       /\ call[c].op \in {"create_run", "admit_run"} /\ call[d].op \in {"create_run", "admit_run"}
       /\ call[c].x = call[d].x
       => c = d
  /\ Undisturbed =>
       /\ saved # <<>> => \A r \in DOMAIN runs \ DOMAIN saved[2] :
            \E c \in Callers : /\ call[c].op \in {"create_run", "admit_run"}
                               /\ call[c].at = "commit" /\ call[c].x = r
       /\ \A c \in Callers :
            call[c].op = "admit_run" /\ call[c].at \in {"room", "insert", "commit"} =>
              call[c].on \in DOMAIN sess

ConnInv == LostTogether /\ OneTransaction /\ CountKept /\ AdmissionKept /\ CapacityWithoutDrops
=============================================================================
