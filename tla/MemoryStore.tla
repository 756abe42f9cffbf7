---------------------------- MODULE MemoryStore -----------------------------
(* The in-process backend (src/app/storage/memory.py): every operation is one step *)
(* under one lock. Fences are modelled in SessionLease, approvals in Approvals.    *)
EXTENDS StoreState

CreateSession(s) ==
  /\ s \notin DOMAIN sess
  /\ sess' = With(sess, s, NewSession)
  /\ UNCHANGED <<runs, keys>>

\* The compare-and-swap: an append carries the revision its caller read.
MutateSession(s, expected, n) ==
  /\ s \in DOMAIN sess
  /\ sess[s].rev = expected
  /\ Room(sess[s], n)
  /\ sess' = [sess EXCEPT ![s] = Appended(@, n)]
  /\ UNCHANGED <<runs, keys>>

TruncateSessionEvents(s, keep) ==
  /\ s \in DOMAIN sess
  /\ sess[s].rev > keep
  /\ sess' = [sess EXCEPT ![s] = Shortened(@, keep)]
  /\ UNCHANGED <<runs, keys>>


DeleteSession(s) ==
  /\ s \in DOMAIN sess
  /\ Live(s) = {}
  /\ sess' = Without(sess, {s})
  /\ runs' = Without(runs, RunsOf(s))
  /\ keys' = Without(keys, KeysOf(s))

CreateRun(s, r) ==
  /\ s \in DOMAIN sess /\ r \notin DOMAIN runs
  /\ \E evicted \in Evictable(s) :
       runs' = IF Fits(s, evicted) THEN With(Without(runs, evicted), r, NewRun(s))
                                   ELSE Without(runs, evicted)
  /\ UNCHANGED <<sess, keys>>

\* One step ensures the session and admits the run; a session created for a run that
\* does not fit stays.
AdmitRun(s, r) ==
  /\ r \notin DOMAIN runs
  /\ sess' = IF s \in DOMAIN sess THEN sess ELSE With(sess, s, NewSession)
  /\ \E evicted \in Evictable(s) :
       runs' = IF Fits(s, evicted) THEN With(Without(runs, evicted), r, NewRun(s))
                                   ELSE Without(runs, evicted)
  /\ UNCHANGED keys

\* The status is not compared with the stored one: a run that ended may come back to life,
\* as when it is cancelled while it pauses for an approval.
UpdateRun(r, status) ==
  /\ r \in DOMAIN runs
  /\ runs' = [runs EXCEPT ![r].status = status, ![r].idle = 0]
  /\ UNCHANGED <<sess, keys>>

CreateIdempotency(s, k) ==
  /\ k \notin DOMAIN keys
  /\ KeyFits(s)
  /\ keys' = With(keys, k, NewKey(s))
  /\ UNCHANGED <<sess, runs>>

FinishIdempotency(k) ==
  /\ k \in DOMAIN keys
  /\ keys' = [keys EXCEPT ![k].done = TRUE]
  /\ UNCHANGED <<sess, runs>>

ExpireIdempotency(k) ==
  /\ k \in DOMAIN keys
  /\ keys' = Without(keys, {k})
  /\ UNCHANGED <<sess, runs>>

\* What a sweep deletes and what it interrupts. Sessions come first, so a run that this
\* sweep interrupts still holds its session; the runs and keys of a deleted session
\* stay until their own time.
ExpiredSessions == {s \in DOMAIN sess : Expired(sess[s]) /\ Live(s) = {}}
ExpiredRuns == {r \in DOMAIN runs : runs[r].status = "ended" /\ Expired(runs[r])}
Interrupted(r) ==
  IF runs[r].status = "live" /\ Expired(runs[r])
  THEN [runs[r] EXCEPT !.status = "ended", !.idle = 0] ELSE runs[r]

Sweep ==
  /\ sess' = Without(sess, ExpiredSessions)
  /\ runs' = [r \in DOMAIN runs \ ExpiredRuns |-> Interrupted(r)]
  /\ keys' = Without(keys, {k \in DOMAIN keys : keys[k].idle >= Ttl})
  /\ storeVars' # storeVars

Tick ==
  /\ sess' = Older(sess) /\ runs' = Older(runs) /\ keys' = Older(keys)
  /\ storeVars' # storeVars

Next ==
  \/ \E s \in Sessions :
       \/ CreateSession(s) \/ DeleteSession(s)
       \/ \E rev \in 1 .. MaxRevision :
            \/ \E n \in 1 .. 2 : MutateSession(s, rev, n)
            \/ TruncateSessionEvents(s, rev)
       \/ \E r \in Runs : CreateRun(s, r) \/ AdmitRun(s, r)
       \/ \E k \in Keys : CreateIdempotency(s, k)
  \/ \E r \in Runs, status \in Statuses : UpdateRun(r, status)
  \/ \E k \in Keys : FinishIdempotency(k) \/ ExpireIdempotency(k)
  \/ Sweep \/ Tick
=============================================================================
