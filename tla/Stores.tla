------------------------------- MODULE Stores -------------------------------
(***************************************************************************)
(* The storage of an agent: main.py builds one of the backends, and the    *)
(* rest of the code knows only the contract. A behaviour chooses a backend *)
(* at the start and keeps it; PostgreSQL is in PostgresStore.              *)
(***************************************************************************)
EXTENDS StoreState

CONSTANTS MaxSessions,   \* maxSessions
          Nothing

VARIABLES backend,                     \* SESSION_STORAGE
          lock,                        \* of the file backend
          idx, index, pinned, held,    \* of the Redis backend
          revived                      \* history: stranded runs that had ended

redisVars == <<idx, index, pinned, held>>
vars == <<sess, runs, keys, backend, lock, idx, index, pinned, held, revived>>

Memory == INSTANCE MemoryStore
File == INSTANCE FileStore
Redis == INSTANCE RedisStore

Backends == {"memory", "file", "redis"}

Init ==
  /\ StoreInit
  /\ backend \in Backends
  /\ lock = File!Free
  /\ Redis!RedisInit
  /\ revived = {}

\* Runs that are under way without their session.
Stranded == {r \in DOMAIN runs : runs[r].status = "live" /\ runs[r].sid \notin DOMAIN sess}
HadEnded == {r \in DOMAIN runs : runs[r].status = "ended"}

Next ==
  /\ \/ backend = "memory" /\ Memory!Next /\ UNCHANGED <<backend, lock, redisVars>>
     \/ backend = "file" /\ File!Next /\ UNCHANGED <<backend, redisVars>>
     \/ backend = "redis" /\ Redis!Next /\ UNCHANGED <<backend, lock>>
  /\ revived' = IF backend = "redis" THEN {} ELSE Stranded' \cap (revived \cup HadEnded)

Spec == Init /\ [][Next]_vars

-----------------------------------------------------------------------------
Operations == {"free", "delete", "admit", "sweep"}

\* The variables hold what the code stores in them.
TypeOK ==
  /\ StoreTypeOK
  /\ backend \in Backends
  /\ lock \in [op : Operations, on : Sessions \cup {Nothing}, run : Runs \cup {Nothing},
               left : SUBSET (Sessions \cup Runs \cup Keys)]
  /\ DOMAIN idx \subseteq Sessions /\ idx \in [DOMAIN idx -> Ages]
  /\ DOMAIN index \subseteq Runs \cup Keys /\ index \in [DOMAIN index -> Ages]
  /\ pinned \subseteq Sessions \cup Keys
  /\ revived \subseteq Runs
  /\ \A x \in DOMAIN held : (x \in Runs /\ held[x] \in RunRecord) \/ (x \in Keys /\ held[x] \in KeyRecord)

\* Every step of every backend is one the contract allows, whatever the order of its
\* files, scripts and expiries: histories grow by one revision at a time, a session goes
\* only when nothing runs in it, a run is forgotten only when it has ended.
Contract == INSTANCE SessionStore WITH
  strict <- (backend # "redis"),
  listed <- (IF backend = "redis" THEN DOMAIN index ELSE Runs)
ContractKept == Contract!Spec

\* A session never holds more runs than maxRunsPerSession nor more keys than
\* maxIdempotencyRecordsPerSession, though the file backend deletes and writes in separate
\* steps with a crash between them. On Redis the limits are kept for part of them only: an
\* update that raced with a deletion writes its run back outside the index, a key that was
\* finished no longer expires, and one that is finished while it expires comes back beside
\* its successor.
Capacity ==
  \A s \in Sessions :
    LET counted == IF backend = "redis" THEN RunsOf(s) \cap DOMAIN index ELSE RunsOf(s)
        unpinned == IF backend = "redis" THEN KeysOf(s) \ pinned ELSE KeysOf(s)
    IN  Cardinality(counted) <= MaxRuns /\ Cardinality(unpinned) <= MaxKeys

\* In memory and in files, retention, deletion and a crash in the middle of either never
\* take the session away from a run that is under way. The one exception is a run that had
\* ended, so that its session could go, and was written back to live afterwards: no backend
\* compares the status it is given with the one it has.
LiveRunHasSession == backend # "redis" => Stranded \subseteq revived

-----------------------------------------------------------------------------
(* The inductive invariant behind the safety properties                    *)

Finite == IsFiniteSet(DOMAIN runs) /\ IsFiniteSet(DOMAIN keys)

\* What an operation of the file backend has read still holds when it goes on: nobody else
\* has the lock, and time passing ends no run and deletes no file.
LockKept ==
  /\ backend # "file" => lock.op = "free"
  /\ lock.op = "delete" =>
       /\ lock.on \notin DOMAIN sess
       /\ \A r \in lock.left \cap Runs :
            r \in DOMAIN runs /\ runs[r].sid = lock.on /\ runs[r].status = "ended"
  /\ lock.op = "admit" =>
       /\ lock.on \in DOMAIN sess /\ lock.run \in Runs \ DOMAIN runs
       /\ lock.left \subseteq Ended(lock.on)
       /\ lock.left # {} =>
            Cardinality(RunsOf(lock.on)) + 1 >= Cardinality(lock.left) + MaxRuns
  /\ lock.op = "sweep" => lock.left \subseteq DOMAIN sess \cup DOMAIN runs \cup DOMAIN keys

\* What the indexes of Redis list is stored, a key without an entry has no expiry, and an
\* update that has read a record writes it back under the session it was stored under.
IndexKept ==
  backend = "redis" =>
    /\ DOMAIN index \cap Runs \subseteq DOMAIN runs
    /\ DOMAIN keys \ pinned \subseteq DOMAIN index
    /\ \A r \in DOMAIN held \cap DOMAIN runs : held[r].sid = runs[r].sid
    /\ \A k \in DOMAIN held \cap DOMAIN keys : held[k].sid = keys[k].sid

StoreInv == Finite /\ LockKept /\ IndexKept /\ Capacity /\ LiveRunHasSession
=============================================================================
