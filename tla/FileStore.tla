----------------------------- MODULE FileStore ------------------------------
(***************************************************************************)
(* The file backend (src/app/storage/file_backend.py): one file per record, *)
(* replaced atomically, and one lock per process held over an operation.   *)
(* An operation on several files is one step per file; a crash may fall    *)
(* between two of them and loses the lock, not the files.                  *)
(***************************************************************************)
EXTENDS StoreState

CONSTANT Nothing   \* on: an operation that is not about a session

VARIABLE lock      \* the operation that holds the lock, where it is, and on what

vars == <<sess, runs, keys, lock>>

Free == [op |-> "free", on |-> Nothing, run |-> Nothing, left |-> {}]
Take(op, s, r, files) == lock' = [op |-> op, on |-> s, run |-> r, left |-> files]
Release == lock' = Free
Idle == lock.op = "free"
Holds(op) == lock.op = op
Done(x) == lock' = [lock EXCEPT !.left = @ \ {x}]

CreateSession(s) ==
  /\ Idle /\ s \notin DOMAIN sess
  /\ sess' = With(sess, s, NewSession)
  /\ UNCHANGED <<runs, keys, lock>>

MutateSession(s, expected, n) ==
  /\ Idle /\ s \in DOMAIN sess
  /\ sess[s].rev = expected
  /\ Room(sess[s], n)
  /\ sess' = [sess EXCEPT ![s] = Appended(@, n)]
  /\ UNCHANGED <<runs, keys, lock>>

TruncateSessionEvents(s, keep) ==
  /\ Idle /\ s \in DOMAIN sess
  /\ sess[s].rev > keep
  /\ sess' = [sess EXCEPT ![s] = Shortened(@, keep)]
  /\ UNCHANGED <<runs, keys, lock>>

\* The file of the session goes first, then those of its runs and of its keys.
DeleteSession(s) ==
  /\ Idle /\ s \in DOMAIN sess
  /\ Live(s) = {}
  /\ sess' = Without(sess, {s})
  /\ Take("delete", s, Nothing, RunsOf(s) \cup KeysOf(s))
  /\ UNCHANGED <<runs, keys>>

CascadeRun(r) ==
  /\ Holds("delete") /\ r \in lock.left
  /\ runs' = Without(runs, {r})
  /\ Done(r)
  /\ UNCHANGED <<sess, keys>>

CascadeKey(k) ==
  /\ Holds("delete") /\ k \in lock.left
  /\ lock.left \cap Runs = {}
  /\ keys' = Without(keys, {k})
  /\ Done(k)
  /\ UNCHANGED <<sess, runs>>


\* The file of the session is written first; what has to make room is read from the
\* files next, deleted one by one, and the file of the run comes last.
AdmitRun(s, r) ==
  /\ Idle /\ r \notin DOMAIN runs
  /\ sess' = IF s \in DOMAIN sess THEN sess ELSE With(sess, s, NewSession)
  /\ \E evicted \in Evictable(s) : Take("admit", s, r, evicted)
  /\ UNCHANGED <<runs, keys>>

CreateRun(s, r) ==
  /\ Idle /\ r \notin DOMAIN runs /\ s \in DOMAIN sess
  /\ \E evicted \in Evictable(s) : Take("admit", s, r, evicted)
  /\ UNCHANGED <<sess, runs, keys>>

Evict(r) ==
  /\ Holds("admit") /\ r \in lock.left
  /\ runs' = Without(runs, {r})
  /\ Done(r)
  /\ UNCHANGED <<sess, keys>>

WriteRun ==
  /\ Holds("admit") /\ lock.left = {}
  /\ runs' = IF Fits(lock.on, {}) THEN With(runs, lock.run, NewRun(lock.on)) ELSE runs
  /\ Release
  /\ UNCHANGED <<sess, keys>>

UpdateRun(r, status) ==
  /\ Idle /\ r \in DOMAIN runs
  /\ runs' = [runs EXCEPT ![r].status = status, ![r].idle = 0]
  /\ UNCHANGED <<sess, keys, lock>>

CreateIdempotency(s, k) ==
  /\ Idle /\ k \notin DOMAIN keys
  /\ KeyFits(s)
  /\ keys' = With(keys, k, NewKey(s))
  /\ UNCHANGED <<sess, runs, lock>>

FinishIdempotency(k) ==
  /\ Idle /\ k \in DOMAIN keys
  /\ keys' = [keys EXCEPT ![k].done = TRUE]
  /\ UNCHANGED <<sess, runs, lock>>

ExpireIdempotency(k) ==
  /\ Idle /\ k \in DOMAIN keys
  /\ keys' = Without(keys, {k})
  /\ UNCHANGED <<sess, runs, lock>>

\* A sweep goes through the files in the order the directory lists them.
BeginSweep ==
  /\ Idle
  /\ DOMAIN sess \cup DOMAIN runs \cup DOMAIN keys # {}
  /\ Take("sweep", Nothing, Nothing, DOMAIN sess \cup DOMAIN runs \cup DOMAIN keys)
  /\ UNCHANGED storeVars

SweepSession(s) ==
  /\ Holds("sweep") /\ s \in lock.left
  /\ sess' = IF Expired(sess[s]) /\ Live(s) = {} THEN Without(sess, {s}) ELSE sess
  /\ Done(s)
  /\ UNCHANGED <<runs, keys>>

\* An old run that has ended is deleted, one that has not is marked as failed.
SweepRun(r) ==
  /\ Holds("sweep") /\ r \in lock.left
  /\ runs' = IF ~Expired(runs[r]) THEN runs
             ELSE IF runs[r].status = "ended" THEN Without(runs, {r})
             ELSE [runs EXCEPT ![r].status = "ended", ![r].idle = 0]
  /\ Done(r)
  /\ UNCHANGED <<sess, keys>>

SweepKey(k) ==
  /\ Holds("sweep") /\ k \in lock.left
  /\ keys' = IF keys[k].idle >= Ttl THEN Without(keys, {k}) ELSE keys
  /\ Done(k)
  /\ UNCHANGED <<sess, runs>>

EndCascade ==
  /\ lock.op \in {"delete", "sweep"} /\ lock.left = {}
  /\ Release
  /\ UNCHANGED storeVars

Tick ==
  /\ sess' = Older(sess) /\ runs' = Older(runs) /\ keys' = Older(keys)
  /\ storeVars' # storeVars
  /\ UNCHANGED lock

Crash ==
  /\ ~Idle
  /\ Release
  /\ UNCHANGED storeVars

Next ==
  \/ \E s \in Sessions :
       \/ CreateSession(s) \/ DeleteSession(s) \/ SweepSession(s)
       \/ \E rev \in 1 .. MaxRevision :
            \/ \E n \in 1 .. 2 : MutateSession(s, rev, n)
            \/ TruncateSessionEvents(s, rev)
       \/ \E r \in Runs : CreateRun(s, r) \/ AdmitRun(s, r)
       \/ \E k \in Keys : CreateIdempotency(s, k)
  \/ \E r \in Runs :
       \/ CascadeRun(r) \/ Evict(r) \/ SweepRun(r)
       \/ \E status \in Statuses : UpdateRun(r, status)
  \/ \E k \in Keys :
       CascadeKey(k) \/ FinishIdempotency(k) \/ ExpireIdempotency(k) \/ SweepKey(k)
  \/ WriteRun \/ BeginSweep \/ EndCascade \/ Tick \/ Crash
=============================================================================
