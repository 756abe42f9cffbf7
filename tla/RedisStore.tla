----------------------------- MODULE RedisStore -----------------------------
(***************************************************************************)
(* The Redis backend (src/app/storage/redis_backend.py): one key per       *)
(* record, one Lua script per operation, so a script is one step. Sessions *)
(* and idempotency keys expire by themselves; a plain SET drops the expiry *)
(* of its key. update_run and finish_idempotency read and then write.      *)
(***************************************************************************)
EXTENDS StoreState

CONSTANT MaxSessions

VARIABLES idx,      \* the index of sessions: age of each entry since it was created
          index,    \* the indexes of runs and keys: age of each entry's score
          pinned,   \* sessions and keys whose last SET left them without an expiry
          held      \* the records read by an update that has not written yet

redisVars == <<idx, index, pinned, held>>
vars == <<sess, runs, keys, idx, index, pinned, held>>

RedisInit == idx = <<>> /\ index = <<>> /\ pinned = {} /\ held = <<>>

IndexedRuns(s) == RunsOf(s) \cap DOMAIN index
IndexedKeys(s) == KeysOf(s) \cap DOMAIN index
Grown(ages) == [x \in DOMAIN ages |-> IF ages[x] > Ttl THEN ages[x] ELSE ages[x] + 1]
Unexpired(record) == record.idle < Ttl

\* Creating a session first drops the index entries older than the TTL.
Current == [x \in {x \in DOMAIN idx : idx[x] < Ttl} |-> idx[x]]
SessionFits == Cardinality(DOMAIN Current) < MaxSessions

EnsureSession(s) ==
  IF s \in DOMAIN sess THEN UNCHANGED <<sess, idx>>
  ELSE IF SessionFits THEN /\ sess' = With(sess, s, NewSession)
                           /\ idx' = With(Current, s, 0)
  ELSE idx' = Current /\ UNCHANGED sess

\* The answer of the script is not looked at: a session that does not fit is handed to
\* the caller all the same.
CreateSession(s) ==
  /\ s \notin DOMAIN sess
  /\ EnsureSession(s)
  /\ UNCHANGED <<runs, keys, index, pinned, held>>

MutateSession(s, expected, n) ==
  /\ s \in DOMAIN sess
  /\ sess[s].rev = expected
  /\ Room(sess[s], n)
  /\ sess' = [sess EXCEPT ![s] = Appended(@, n)]
  /\ pinned' = pinned \ {s}
  /\ UNCHANGED <<runs, keys, idx, index, held>>

CutEvents(s, keep) ==
  /\ sess[s].rev > keep
  /\ sess' = [sess EXCEPT ![s] = Shortened(@, keep)]
  /\ pinned' = pinned \cup {s}

TruncateSessionEvents(s, keep) ==
  /\ s \in DOMAIN sess
  /\ CutEvents(s, keep)
  /\ UNCHANGED <<runs, keys, idx, index, held>>

\* Only what the indexes list is looked at and deleted.
DeleteSession(s) ==
  /\ s \in DOMAIN sess
  /\ IndexedRuns(s) \cap Live(s) = {}
  /\ sess' = Without(sess, {s})
  /\ runs' = Without(runs, IndexedRuns(s))
  /\ keys' = Without(keys, IndexedKeys(s))
  /\ idx' = Without(idx, {s})
  /\ index' = Without(index, RunsOf(s) \cup KeysOf(s))
  /\ pinned' = pinned \ ({s} \cup IndexedKeys(s))
  /\ UNCHANGED held

\* The oldest indexed runs that have ended make room, by the time of their update.
MakesRoom(s) ==
  LET ended == Ended(s) \cap DOMAIN index
      excess == Cardinality(IndexedRuns(s)) + 1 - MaxRuns
      wanted == IF excess > Cardinality(ended) THEN Cardinality(ended) ELSE excess
  IN  IF Cardinality(IndexedRuns(s)) < MaxRuns THEN {{}}
      ELSE {E \in SUBSET ended :
              /\ Cardinality(E) = wanted
              /\ \A e \in E, o \in ended \ E : runs[e].idle >= runs[o].idle}

PlaceRun(s, r) ==
  \E evicted \in MakesRoom(s) :
    IF Cardinality(IndexedRuns(s) \ evicted) < MaxRuns
    THEN /\ runs' = With(Without(runs, evicted), r, NewRun(s))
         /\ index' = With(Without(index, evicted), r, 0)
    ELSE /\ runs' = Without(runs, evicted)
         /\ index' = Without(index, evicted)

CreateRun(s, r) ==
  /\ s \in DOMAIN sess /\ r \notin DOMAIN runs \cup DOMAIN held
  /\ PlaceRun(s, r)
  /\ UNCHANGED <<sess, keys, idx, pinned, held>>

\* Nothing is undone when the run does not fit; a session that does not fit ends the
\* script before the run.
AdmitRun(s, r) ==
  /\ r \notin DOMAIN runs \cup DOMAIN held
  /\ EnsureSession(s)
  /\ IF s \in DOMAIN sess \/ SessionFits THEN PlaceRun(s, r) ELSE UNCHANGED <<runs, index>>
  /\ UNCHANGED <<keys, pinned, held>>

\* GET, then SET of the whole record; the index keeps the score of the admission.
ReadRun(r) ==
  /\ held = <<>> /\ r \in DOMAIN runs
  /\ held' = [x \in {r} |-> runs[x]]
  /\ UNCHANGED <<sess, runs, keys, idx, index, pinned>>

UpdateRun(r, status) ==
  /\ r \in DOMAIN held
  /\ runs' = With(runs, r, [held[r] EXCEPT !.status = status, !.idle = 0])
  /\ held' = <<>>
  /\ UNCHANGED <<sess, keys, idx, index, pinned>>

\* Keys that have expired no longer count; a new one expires after the TTL.
PlaceKey(s, k) ==
  /\ Cardinality(IndexedKeys(s)) < MaxKeys
  /\ keys' = With(keys, k, NewKey(s))
  /\ index' = With(index, k, 0)

CreateIdempotency(s, k) ==
  /\ k \notin DOMAIN keys \cup DOMAIN held
  /\ PlaceKey(s, k)
  /\ UNCHANGED <<sess, runs, idx, pinned, held>>

ReadIdempotency(k) ==
  /\ held = <<>> /\ k \in DOMAIN keys
  /\ held' = [x \in {k} |-> keys[x]]
  /\ UNCHANGED <<sess, runs, keys, idx, index, pinned>>

FinishIdempotency(k) ==
  /\ k \in DOMAIN held
  /\ keys' = With(keys, k, [held[k] EXCEPT !.done = TRUE])
  /\ pinned' = pinned \cup {k}
  /\ held' = <<>>
  /\ UNCHANGED <<sess, runs, idx, index>>

RemoveKey(k) == keys' = Without(keys, {k}) /\ index' = Without(index, {k})

ExpireIdempotency(k) ==
  /\ k \in DOMAIN keys
  /\ RemoveKey(k)
  /\ pinned' = pinned \ {k}
  /\ UNCHANGED <<sess, runs, idx, held>>

\* The sweep goes by the scores of the index. It interrupts every run under way whose
\* admission is old, however recent its update, and leaves the time of the update.
Due == {r \in DOMAIN index \cap Runs : index[r] >= Ttl}
Interrupted == {r \in Due \cap DOMAIN runs : runs[r].status = "live"}
Swept == {r \in Due \cap DOMAIN runs : runs[r].status = "ended" /\ runs[r].idle >= Ttl}

Sweep ==
  /\ Due # {}
  /\ runs' = [r \in DOMAIN runs \ Swept |->
                IF r \in Interrupted THEN [runs[r] EXCEPT !.status = "ended"] ELSE runs[r]]
  /\ index' = [x \in DOMAIN index \ (Swept \cup (Due \ DOMAIN runs)) |->
                 IF x \in Interrupted THEN runs[x].idle ELSE index[x]]
  /\ UNCHANGED <<sess, keys, idx, pinned, held>>

\* Time passes, and what reached its TTL is gone; its index entries stay.
Tick ==
  LET s2 == Older(sess)
      k2 == Older(keys)
  IN  /\ sess' = [s \in {s \in DOMAIN s2 : s \in pinned \/ Unexpired(s2[s])} |-> s2[s]]
      /\ keys' = [k \in {k \in DOMAIN k2 : k \in pinned \/ Unexpired(k2[k])} |-> k2[k]]
      /\ runs' = Older(runs)
      /\ idx' = Grown(idx) /\ index' = Grown(index)
      /\ UNCHANGED <<pinned, held>>
      /\ vars' # vars

Next ==
  \/ \E s \in Sessions :
       \/ CreateSession(s) \/ DeleteSession(s)
       \/ \E rev \in 1 .. MaxRevision :
            \/ \E n \in 1 .. 2 : MutateSession(s, rev, n)
            \/ TruncateSessionEvents(s, rev)
       \/ \E r \in Runs : CreateRun(s, r) \/ AdmitRun(s, r)
       \/ \E k \in Keys : CreateIdempotency(s, k)
  \/ \E r \in Runs : ReadRun(r) \/ \E status \in Statuses : UpdateRun(r, status)
  \/ \E k \in Keys : ReadIdempotency(k) \/ FinishIdempotency(k) \/ ExpireIdempotency(k)
  \/ Sweep \/ Tick
=============================================================================
