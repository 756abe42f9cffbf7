----------------------------- MODULE StoreState -----------------------------
(***************************************************************************)
(* What every storage backend keeps for one agent and one principal:       *)
(* sessions with a revision and a history, runs, and idempotency keys. A   *)
(* record that is not stored is not in the domain. Time is the age of each *)
(* record since its last update, counted up to one more than the TTL       *)
(* (src/app/storage/model.py, contract.py).                                *)
(*                                                                         *)
(* A run id is minted for one request; the name of a run that is gone may  *)
(* stand for a new one. A key belongs to the session it was created in.    *)
(***************************************************************************)
EXTENDS Integers, FiniteSets

CONSTANTS Sessions, Runs, Keys,
          Ttl,           \* sessionTtlSeconds, runTtlSeconds, idempotencyTtlSeconds
          MaxRuns,       \* maxRunsPerSession
          MaxKeys,       \* maxIdempotencyRecordsPerSession
          MaxRevision    \* bound of the model: mutations of one session

ASSUME StoreAssumption == /\ Ttl \in Nat /\ MaxRevision \in Nat \ {0}
                          /\ MaxRuns \in Nat \ {0} /\ MaxKeys \in Nat \ {0}

\* A file or a key of the store says what kind of record it holds.
ASSUME KindAssumption == Sessions \cap (Runs \cup Keys) = {} /\ Runs \cap Keys = {}

VARIABLES sess, runs, keys

storeVars == <<sess, runs, keys>>

MaxEvents == 2 * MaxRevision   \* bound of the model

Ages == 0 .. Ttl + 1
Statuses == {"live", "ended"}

SessionRecord == [rev : 1 .. MaxRevision, len : 0 .. MaxEvents, idle : Ages]
RunRecord == [sid : Sessions, status : Statuses, idle : Ages]
KeyRecord == [sid : Sessions, done : BOOLEAN, idle : Ages]

With(f, x, v) == [y \in DOMAIN f \cup {x} |-> IF y = x THEN v ELSE f[y]]
Without(f, S) == [x \in DOMAIN f \ S |-> f[x]]

NewSession == [rev |-> 1, len |-> 0, idle |-> 0]
NewRun(s) == [sid |-> s, status |-> "live", idle |-> 0]
NewKey(s) == [sid |-> s, done |-> FALSE, idle |-> 0]

RunsOf(s) == {r \in DOMAIN runs : runs[r].sid = s}
KeysOf(s) == {k \in DOMAIN keys : keys[k].sid = s}
Ended(s) == {r \in RunsOf(s) : runs[r].status = "ended"}
Live(s) == RunsOf(s) \ Ended(s)
Expired(record) == record.idle > Ttl

\* Appending n events moves the revision by one.
Appended(record, n) == [rev |-> record.rev + 1, len |-> record.len + n, idle |-> 0]

\* Bound of the model.
Room(record, n) == record.rev < MaxRevision /\ record.len + n <= MaxEvents

\* Truncation drops one event per revision and leaves the time of the update alone.
Shortened(record, keep) ==
  [record EXCEPT !.rev = keep,
                 !.len = IF record.len > record.rev - keep THEN record.len - (record.rev - keep) ELSE 0]

\* The runs capacity has to delete before one more fits: the oldest that have ended,
\* as many as needed or as there are.
Evictable(s) ==
  LET excess == Cardinality(RunsOf(s)) + 1 - MaxRuns
      wanted == IF excess > Cardinality(Ended(s)) THEN Cardinality(Ended(s)) ELSE excess
  IN  IF Cardinality(RunsOf(s)) < MaxRuns THEN {{}}
      ELSE {E \in SUBSET Ended(s) :
              /\ Cardinality(E) = wanted
              /\ \A e \in E, o \in Ended(s) \ E : runs[e].idle >= runs[o].idle}


Fits(s, evicted) == Cardinality(RunsOf(s) \ evicted) < MaxRuns
KeyFits(s) == Cardinality(KeysOf(s)) < MaxKeys

Older(f) == [x \in DOMAIN f |-> [f[x] EXCEPT !.idle = IF @ > Ttl THEN @ ELSE @ + 1]]

StoreTypeOK ==
  /\ DOMAIN sess \subseteq Sessions /\ sess \in [DOMAIN sess -> SessionRecord]
  /\ DOMAIN runs \subseteq Runs /\ runs \in [DOMAIN runs -> RunRecord]
  /\ DOMAIN keys \subseteq Keys /\ keys \in [DOMAIN keys -> KeyRecord]

StoreInit == sess = <<>> /\ runs = <<>> /\ keys = <<>>
=============================================================================
