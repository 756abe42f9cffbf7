--------------------------- MODULE SessionProofs ----------------------------
(***************************************************************************)
(* Theorems about a session.  SessionLease: for any callers in any         *)
(* processes, any lengths of leases and sessions, and each of the four     *)
(* backends.  SessionHistory: any number of runs, of services and of       *)
(* events, on one session.                                                 *)
(***************************************************************************)
EXTENDS SessionLease, SessionHistory, SequenceTheorems, FiniteSetTheorems, TLAPS

-----------------------------------------------------------------------------
(***************************************************************************)
(* SessionLease                                                            *)
(***************************************************************************)
-----------------------------------------------------------------------------
(* Types                                                                   *)

LEMMA FenceTypes ==
  ASSUME TypeOK
  PROVE  /\ NoFence \in [token : Callers \cup {Nobody}, left : -LeaseTtl .. MaxLeft]
         /\ \A c \in Callers :
              [token |-> c, left |-> LeaseTtl] \in [token : Callers \cup {Nobody}, left : -LeaseTtl .. MaxLeft]
         /\ \A n \in Int : n >= -LeaseTtl /\ n <= MaxLeft =>
              /\ [fence EXCEPT !.left = n] \in [token : Callers \cup {Nobody}, left : -LeaseTtl .. MaxLeft]
              /\ [fence EXCEPT !.left = n].token = fence.token
              /\ [fence EXCEPT !.left = n].left = n
         /\ fence.left \in Int /\ fence.left >= -LeaseTtl /\ fence.left <= MaxLeft
         /\ fence.token \in Callers \cup {Nobody}
BY LeaseAssumption DEF LeaseAssumption, TypeOK, NoFence

LEMMA WonType ==
  ASSUME TypeOK, NEW c \in Callers, Won(c)
  PROVE  /\ sure' \in [Callers -> 0 .. LeaseTtl] /\ last' = c /\ acquires' \in Nat
         /\ \A d \in Callers : sure'[d] = IF d = c THEN LeaseTtl ELSE sure[d]
BY LeaseAssumption DEF LeaseAssumption, TypeOK, Won

LEMMA GotoType ==
  ASSUME TypeOK, NEW c \in Callers, NEW step \in {"idle", "script", "lock", "bump", "clear"},
         Goto(c, step)
  PROVE  /\ call' \in [Callers -> {"idle", "script", "lock", "bump", "clear"}]
         /\ \A d \in Callers : call'[d] = IF d = c THEN step ELSE call[d]
BY DEF TypeOK, Goto

LEMMA UnlockedType ==
  ASSUME TypeOK, NEW p \in Processes
  PROVE  UnlockedBy(p) \in {Unlocked} \cup [by : Processes, depth : Nat \ {0}]
<1>1. CASE lock.by # p
  BY <1>1 DEF TypeOK, UnlockedBy
<1>2. CASE lock.by = p
  <2>1. lock \in [by : Processes, depth : Nat \ {0}]
    BY <1>2, LeaseAssumption DEF LeaseAssumption, TypeOK, Unlocked
  <2>2. CASE lock.depth = 1
    BY <1>2, <2>2 DEF UnlockedBy
  <2>3. CASE lock.depth # 1
    <3>1. lock.depth - 1 \in Nat \ {0}
      BY <2>1, <2>3
    <3>2. [lock EXCEPT !.depth = @ - 1] \in [by : Processes, depth : Nat \ {0}]
      BY <2>1, <3>1
    <3> QED BY <1>2, <2>3, <3>2 DEF UnlockedBy
  <2> QED BY <2>2, <2>3
<1> QED BY <1>1, <1>2

LEMMA LeaseInRange ==
  /\ LeaseTtl \in Nat \ {0} /\ SessionTtl \in Nat /\ MaxLeft \in Nat
  /\ LeaseTtl <= SessionTtl /\ LeaseTtl <= MaxLeft
BY LeaseAssumption DEF LeaseAssumption

LEMMA CallerStepType ==
  ASSUME TypeOK, NEW c \in Callers,
         \/ AcquireInMemory(c) \/ AcquireInFile(c) \/ EnsureSession(c) \/ AcquireScript(c)
         \/ RenewFence(c) \/ ReleaseFence(c)
         \/ ReadExpiry(c) \/ TryAdvisoryLock(c) \/ BumpNumber(c)
         \/ ReleaseLock(c) \/ ClearExpiry(c)
  PROVE  TypeOK'
<1>0. ProcessOf[c] \in Processes
  BY LeaseAssumption DEF LeaseAssumption
<1>1. CASE TakeEntry(c)
  BY <1>1, FenceTypes, WonType DEF TakeEntry, sessionVars, postgresVars, TypeOK
<1>2. CASE EnsureSession(c)
  BY <1>2, GotoType DEF EnsureSession, postgresVars, TypeOK
<1>3. CASE AcquireScript(c)
  BY <1>3, FenceTypes, WonType, GotoType, LeaseInRange DEF AcquireScript, postgresVars, TypeOK
<1>4. ASSUME NEW left \in Int, left >= -LeaseTtl, Renew(c, left)
      PROVE  TypeOK'
  BY <1>4, FenceTypes, LeaseInRange DEF Renew, sessionVars, postgresVars, TypeOK
<1>5. CASE DropEntry(c)
  BY <1>5, FenceTypes DEF DropEntry, sessionVars, postgresVars, TypeOK
<1>6. CASE ReadExpiry(c)
  BY <1>6, GotoType DEF ReadExpiry, sessionVars, postgresVars, TypeOK
<1>7. CASE TryAdvisoryLock(c)
  <2>1. lock' \in {Unlocked} \cup [by : Processes, depth : Nat \ {0}]
    BY <1>0, <1>7 DEF TryAdvisoryLock, TypeOK, Unlocked
  <2> QED BY <1>7, <2>1, GotoType DEF TryAdvisoryLock, sessionVars, TypeOK
<1>8. CASE BumpNumber(c)
  <2>1. fence' \in [token : Callers \cup {Nobody}, left : -LeaseTtl .. MaxLeft] /\ number' \in Nat
    BY <1>8, FenceTypes, LeaseInRange DEF BumpNumber, TypeOK
  <2>2. /\ call' \in [Callers -> {"idle", "script", "lock", "bump", "clear"}]
        /\ sure' \in [Callers -> 0 .. LeaseTtl] /\ last' = c /\ acquires' \in Nat
    BY <1>8, WonType, GotoType DEF BumpNumber
  <2>3. tokens' = [tokens EXCEPT ![ProcessOf[c]] = c]
        /\ UNCHANGED <<backend, sessionVars, lock, purge, upset>>
    BY <1>8 DEF BumpNumber
  <2> QED BY <2>1, <2>2, <2>3 DEF sessionVars, TypeOK
<1>9. CASE ReleaseLock(c)
  <2>1. lock' \in {Unlocked} \cup [by : Processes, depth : Nat \ {0}]
    BY <1>0, <1>9, UnlockedType DEF ReleaseLock
  <2>2. sure' \in [Callers -> 0 .. LeaseTtl]
    BY <1>9, LeaseInRange DEF ReleaseLock, TypeOK
  <2>3. call' \in [Callers -> {"idle", "script", "lock", "bump", "clear"}]
    BY <1>9, GotoType DEF ReleaseLock
  <2> QED BY <1>9, <2>1, <2>2, <2>3 DEF ReleaseLock, sessionVars, TypeOK
<1>10. CASE ClearExpiry(c)
  BY <1>10, GotoType, FenceTypes DEF ClearExpiry, sessionVars, TypeOK
<1>11. CASE RenewFence(c)
  <2>1. LeaseTtl \in Int /\ fence.left \in Int /\ fence.left + LeaseTtl \in Int
        /\ LeaseTtl >= -LeaseTtl /\ fence.left >= -LeaseTtl /\ fence.left + LeaseTtl >= -LeaseTtl
    BY FenceTypes, LeaseInRange
  <2> QED BY <1>4, <1>11, <2>1 DEF RenewFence, RenewInMemory, RenewInFile, RenewScript, RenewRow
<1> QED
  BY <1>1, <1>2, <1>3, <1>5, <1>6, <1>7, <1>8, <1>9, <1>10, <1>11
     DEF AcquireInMemory, AcquireInFile, ReleaseFence, ReleaseInMemory, ReleaseInFile, ReleaseScript

LEMMA TypeStep ==
  ASSUME TypeOK, [Next]_vars
  PROVE  TypeOK'
<1>1. ASSUME NEW p \in Processes, DeleteSession(p)
      PROVE  TypeOK'
  <2>1. /\ lock' \in {Unlocked} \cup [by : Processes, depth : Nat \ {0}]
        /\ upset' \subseteq {"late", "delete", "drop"} /\ life' \in 0 .. SessionTtl
    BY <1>1, UnlockedType, LeaseInRange DEF DeleteSession, TypeOK
  <2>2. fence' \in [token : Callers \cup {Nobody}, left : -LeaseTtl .. MaxLeft] /\ number' \in Nat
    BY <1>1, FenceTypes DEF DeleteSession, TypeOK
  <2> QED BY <1>1, <2>1, <2>2 DEF DeleteSession, TypeOK
<1>2. ASSUME NEW p \in Processes, PurgeLook(p) \/ PurgeDelete(p)
      PROVE  TypeOK'
  <2>1. CASE PurgeLook(p)
    BY <2>1 DEF PurgeLook, sessionVars, TypeOK
  <2>2. CASE PurgeDelete(p)
    <3>1. life' \in 0 .. SessionTtl /\ purge' \subseteq Processes /\ number' \in Nat
      BY <2>2, LeaseInRange DEF PurgeDelete, TypeOK
    <3> QED BY <2>2, <3>1, FenceTypes DEF PurgeDelete, TypeOK
  <2> QED BY <1>2, <2>1, <2>2
<1>3. ASSUME NEW p \in Processes, DropConnection(p)
      PROVE  TypeOK'
  <2>1. lock' \in {Unlocked} \cup [by : Processes, depth : Nat \ {0}]
    BY <1>3 DEF DropConnection, TypeOK
  <2>2. purge' \subseteq Processes /\ upset' \subseteq {"late", "delete", "drop"}
    BY <1>3 DEF DropConnection, TypeOK
  <2> QED BY <1>3, <2>1, <2>2 DEF DropConnection, sessionVars, TypeOK
<1>4. ASSUME NEW p \in Processes, Restart(p)
      PROVE  TypeOK'
  BY <1>4, FenceTypes, LeaseInRange DEF Restart, TypeOK
<1>5. CASE CreateSession \/ MutateSession
  <2>1. life' \in 0 .. SessionTtl
    BY <1>5, LeaseInRange DEF CreateSession, MutateSession
  <2>2. stored' \in BOOLEAN
    BY <1>5 DEF CreateSession, MutateSession, TypeOK
  <2> QED BY <1>5, <2>1, <2>2 DEF CreateSession, MutateSession, postgresVars, TypeOK
<1>6. CASE Sweep
  BY <1>6 DEF Sweep, postgresVars, TypeOK
<1>7. CASE Tick
  <2>1. /\ life' \in 0 .. SessionTtl /\ sure' \in [Callers -> 0 .. LeaseTtl]
        /\ stored' \in BOOLEAN
    BY <1>7, LeaseInRange DEF Tick, TypeOK, Less
  <2>2. fence' \in [token : Callers \cup {Nobody}, left : -LeaseTtl .. MaxLeft]
    BY <1>7, FenceTypes, LeaseInRange DEF Tick, TypeOK
  <2> QED BY <1>7, <2>1, <2>2 DEF Tick, postgresVars, TypeOK
<1>8. CASE UNCHANGED vars
  BY <1>8 DEF vars, sessionVars, postgresVars, TypeOK
<1> QED BY <1>1, <1>2, <1>3, <1>4, <1>5, <1>6, <1>7, <1>8, CallerStepType DEF Next

-----------------------------------------------------------------------------
(* The entry of the fence                                                  *)

LEMMA NobodyElse ==
  /\ Nobody \notin Callers /\ Nobody \notin Processes
  /\ ProcessOf \in [Callers -> Processes] /\ IsFiniteSet(Callers)
BY LeaseAssumption DEF LeaseAssumption

\* What has upset the fence stays.
LEMMA UpsetGrows ==
  ASSUME TypeOK, [Next]_vars
  PROVE  upset \subseteq upset' /\ backend' = backend
BY DEF Next, vars, AcquireInMemory, AcquireInFile, TakeEntry, EnsureSession, AcquireScript, RenewFence,
       RenewInMemory, RenewInFile, RenewScript, RenewRow, Renew, ReleaseFence, ReleaseInMemory,
       ReleaseInFile, ReleaseScript, DropEntry, ReadExpiry, TryAdvisoryLock, BumpNumber, ReleaseLock,
       ClearExpiry, DeleteSession, PurgeLook, PurgeDelete, DropConnection, Restart, CreateSession,
       MutateSession, Sweep, Tick

LEMMA UpsetStays ==
  ASSUME TypeOK, [Next]_vars, Upset
  PROVE  Upset'
BY UpsetGrows DEF Upset, TypeOK

\* A step that keeps the fence and makes nobody sure for longer keeps the entry.
LEMMA EntryUntouched ==
  ASSUME TypeOK, EntryKept, backend' = backend, Upset => Upset',
         UNCHANGED <<fence, purge, last>>,
         \A c \in Callers : sure'[c] \in {0, sure[c]} /\ call'[c] \in {"idle", "script", call[c]}
  PROVE  EntryKept'
<1>1. \A c \in Callers : sure[c] \in Nat
  BY LeaseInRange DEF TypeOK
<1> QED BY <1>1 DEF EntryKept, Exists, Local

LEMMA EntryOfCaller ==
  ASSUME TypeOK, EntryKept, TypeOK', [Next]_vars, NEW c \in Callers, backend # "postgres",
         \/ AcquireInMemory(c) \/ AcquireInFile(c) \/ EnsureSession(c) \/ AcquireScript(c)
         \/ RenewFence(c) \/ ReleaseFence(c)
         \/ ReadExpiry(c) \/ TryAdvisoryLock(c) \/ BumpNumber(c)
         \/ ReleaseLock(c) \/ ClearExpiry(c)
  PROVE  EntryKept'
<1> USE NobodyElse
<1>0. /\ backend' = backend /\ (Upset => Upset')
      /\ fence.token \in {Nobody, last} /\ purge = {} /\ call[c] \in {"idle", "script"}
      /\ \A d \in Callers : sure[d] \in Nat
      /\ \A d \in Callers : Exists(d)' = Exists(d)
  BY UpsetGrows, UpsetStays, LeaseInRange DEF EntryKept, TypeOK, Exists, Local
<1>1. ASSUME ~Held, Exists(c), Won(c), fence' = [token |-> c, left |-> LeaseTtl], purge' = purge,
             \A d \in Callers : call'[d] \in {"idle", "script"}
      PROVE  EntryKept'
  <2>1. /\ last' = c /\ \A d \in Callers : sure'[d] = IF d = c THEN LeaseTtl ELSE sure[d]
    BY <1>1, WonType
  <2>2. Upset \/ \A d \in Callers : ~(sure[d] > 0)
    BY <1>0, <1>1, FenceTypes DEF EntryKept, Held
  <2>3. \A d \in Callers : sure'[d] > 0 => Exists(d)'
    BY <1>0, <1>1, <2>1 DEF EntryKept
  <2> QED BY <1>0, <1>1, <2>1, <2>2, <2>3, LeaseInRange DEF EntryKept
<1>2. CASE TakeEntry(c)
  BY <1>0, <1>1, <1>2 DEF TakeEntry, MayAcquire, postgresVars, EntryKept
<1>3. CASE EnsureSession(c)
  BY <1>0, <1>3, GotoType, EntryUntouched DEF EnsureSession, postgresVars
<1>4. CASE AcquireScript(c)
  <2>1. Exists(c) /\ \A d \in Callers : call'[d] \in {"idle", "script"}
    BY <1>4, GotoType DEF AcquireScript, Exists, Local, EntryKept
  <2>2. CASE Held
    BY <1>0, <1>4, <2>1, <2>2, EntryUntouched DEF AcquireScript, postgresVars
  <2>3. CASE ~Held
    BY <1>1, <1>4, <2>1, <2>3 DEF AcquireScript, postgresVars
  <2> QED BY <2>2, <2>3
<1>5. ASSUME NEW left \in Int, Renew(c, left),
             left >= LeaseTtl \/ (backend = "redis" /\ left = fence.left + LeaseTtl)
      PROVE  EntryKept'
  <2>1. /\ fence.token = c /\ fence'.token = c /\ fence'.left = left
        /\ UNCHANGED <<purge, call, last>>
        /\ \A d \in Callers : sure'[d] = IF d = c THEN LeaseTtl ELSE sure[d]
    BY <1>5 DEF Renew, Known, postgresVars, TypeOK
  <2>2. sure[c] = 0 => "late" \in upset'
    BY <1>5 DEF Renew
  <2>3. Upset' \/ left >= LeaseTtl
    <3>1. CASE backend = "redis" /\ sure[c] = 0
      BY <1>0, <2>2, <3>1 DEF Upset
    <3>2. CASE sure[c] > 0
      BY <1>0, <1>5, <3>2, LeaseInRange, FenceTypes DEF EntryKept
    <3> QED BY <1>0, <1>5, <3>1, <3>2
  <2>4. \A d \in Callers : fence'.token = d \/ sure'[d] > 0 => Exists(d)'
    BY <1>0, <2>1 DEF EntryKept
  <2> QED BY <1>0, <2>1, <2>3, <2>4, LeaseInRange DEF EntryKept
<1>6. CASE RenewFence(c)
  <2>1. LeaseTtl \in Int /\ fence.left + LeaseTtl \in Int
    BY FenceTypes, LeaseInRange
  <2> QED BY <1>5, <1>6, <2>1, LeaseInRange DEF RenewFence, RenewInMemory, RenewInFile, RenewScript, RenewRow
<1>7. CASE DropEntry(c)
  <2>1. /\ fence.token = c /\ fence'.token = Nobody /\ UNCHANGED <<purge, call, last>>
        /\ \A d \in Callers : sure'[d] = IF d = c THEN 0 ELSE sure[d]
    BY <1>7 DEF DropEntry, Known, NoFence, postgresVars, TypeOK
  <2>2. Upset \/ \A d \in Callers : ~(sure'[d] > 0)
    BY <1>0, <2>1 DEF EntryKept
  <2> QED BY <1>0, <2>1, <2>2 DEF EntryKept
<1> QED
  BY <1>0, <1>2, <1>3, <1>4, <1>6, <1>7
     DEF AcquireInMemory, AcquireInFile, ReleaseFence, ReleaseInMemory, ReleaseInFile, ReleaseScript,
         ReadExpiry, TryAdvisoryLock, BumpNumber, ReleaseLock, ClearExpiry

LEMMA EntryStep ==
  ASSUME TypeOK, EntryKept, TypeOK', [Next]_vars
  PROVE  EntryKept'
<1> USE NobodyElse
<1> SUFFICES ASSUME backend # "postgres"
             PROVE  EntryKept'
  BY UpsetGrows DEF EntryKept
<1>0. /\ backend' = backend /\ (Upset => Upset') /\ purge = {}
      /\ \A d \in Callers : sure[d] \in Nat
      /\ \A d \in Callers : Exists(d)' = Exists(d)
  BY UpsetGrows, UpsetStays, LeaseInRange DEF EntryKept, TypeOK, Exists, Local
<1>1. ASSUME NEW p \in Processes, DeleteSession(p)
      PROVE  EntryKept'
  <2>1. CASE backend = "file"
    BY <1>0, <1>1, <2>1, EntryUntouched DEF DeleteSession
  <2>2. CASE backend # "file"
    <3>1. fence'.token = Nobody /\ UNCHANGED <<sure, call, purge, last>>
      BY <1>1, <2>2 DEF DeleteSession, NoFence
    <3>2. Upset' \/ \A c \in Callers : ~(sure[c] > 0)
      BY <1>0, <1>1, <2>2 DEF DeleteSession, Wanted, Upset, TypeOK
    <3> QED BY <1>0, <3>1, <3>2 DEF EntryKept
  <2> QED BY <2>1, <2>2
<1>2. ASSUME NEW p \in Processes, PurgeLook(p) \/ PurgeDelete(p) \/ DropConnection(p)
      PROVE  FALSE
  BY <1>0, <1>2 DEF PurgeLook, PurgeDelete, DropConnection
<1>3. ASSUME NEW p \in Processes, Restart(p)
      PROVE  EntryKept'
  <2>1. /\ \A c \in Callers : sure'[c] = IF ProcessOf[c] = p THEN 0 ELSE sure[c]
        /\ \A c \in Callers : call'[c] \in {"idle", call[c]}
        /\ purge' = purge /\ last' = last
    BY <1>0, <1>3 DEF Restart, TypeOK
  <2>2. CASE Local
    <3>1. p = TheProcess /\ fence' = NoFence
      BY <1>3, <2>2 DEF Restart
    <3>2. \A c \in Callers : ~(sure'[c] > 0)
      BY <1>0, <2>1, <2>2, <3>1 DEF EntryKept, Exists
    <3> QED BY <1>0, <2>1, <3>1, <3>2 DEF EntryKept, NoFence
  <2>3. CASE ~Local
    BY <1>0, <1>3, <2>1, <2>3, EntryUntouched DEF Restart
  <2> QED BY <2>2, <2>3
<1>4. CASE CreateSession \/ MutateSession \/ Sweep
  BY <1>0, <1>4, EntryUntouched DEF CreateSession, MutateSession, Sweep, postgresVars
<1>5. CASE Tick
  <2>1. /\ \A c \in Callers : sure'[c] = Less(sure[c])
        /\ UNCHANGED <<call, purge, last>> /\ fence'.token = fence.token
    BY <1>5 DEF Tick, postgresVars, TypeOK
  <2>2. \A c \in Callers : sure'[c] \in Nat /\ (sure'[c] > 0 => sure'[c] = sure[c] - 1 /\ sure[c] > 0)
    BY <1>0, <2>1 DEF Less
  <2>3. fence'.left >= fence.left - 1 /\ fence.left \in Int /\ fence'.left \in Int
    BY <1>5, FenceTypes DEF Tick
  <2> QED BY <1>0, <2>1, <2>2, <2>3 DEF EntryKept
<1>6. CASE UNCHANGED vars
  BY <1>0, <1>6, EntryUntouched DEF vars, postgresVars
<1> QED BY <1>1, <1>2, <1>3, <1>4, <1>5, <1>6, EntryOfCaller DEF Next

-----------------------------------------------------------------------------
(* The lock of PostgreSQL                                                  *)

LEMMA HolderCounts ==
  ASSUME NEW S \in SUBSET Callers, NEW T \in SUBSET Callers, NEW c \in Callers
  PROVE  /\ Cardinality(S) \in Nat /\ (S # {} => Cardinality(S) >= 1)
         /\ S \subseteq T => Cardinality(S) <= Cardinality(T)
         /\ S \subseteq T \cup {c} => Cardinality(S) <= Cardinality(T) + 1
         /\ c \in T /\ S \subseteq T \ {c} => Cardinality(S) <= Cardinality(T) - 1
<1>1. IsFiniteSet(S) /\ IsFiniteSet(T)
  BY NobodyElse, FS_Subset
<1>2. /\ Cardinality(S) \in Nat /\ Cardinality(T) \in Nat /\ (S # {} => Cardinality(S) # 0)
  BY <1>1, FS_CardinalityType, FS_EmptySet
<1>3. S \subseteq T => Cardinality(S) <= Cardinality(T)
  BY <1>1, FS_Subset
<1>4. S \subseteq T \cup {c} => Cardinality(S) <= Cardinality(T) + 1
  <2>1. /\ IsFiniteSet(T \cup {c})
        /\ Cardinality(T \cup {c}) \in {Cardinality(T), Cardinality(T) + 1}
    BY <1>1, FS_AddElement
  <2>2. S \subseteq T \cup {c} => Cardinality(S) <= Cardinality(T \cup {c})
    BY <2>1, FS_Subset
  <2> QED BY <1>2, <2>1, <2>2
<1>5. c \in T /\ S \subseteq T \ {c} => Cardinality(S) <= Cardinality(T) - 1
  <2>1. IsFiniteSet(T \ {c}) /\ (c \in T => Cardinality(T \ {c}) = Cardinality(T) - 1)
    BY <1>1, FS_RemoveElement
  <2>2. S \subseteq T \ {c} => Cardinality(S) <= Cardinality(T \ {c})
    BY <2>1, FS_Subset
  <2> QED BY <2>1, <2>2
<1> QED BY <1>2, <1>3, <1>4, <1>5

LockIsHeld == \A p \in Processes : Holders(p) # {} => lock.by = p /\ lock.depth >= Cardinality(Holders(p))

\* Who is sure, or is the one its process knows and has not unlocked.
Owning(c) == sure[c] > 0 \/ (tokens[ProcessOf[c]] = c /\ call[c] # "clear")
LastIsThere == \A c \in Callers : Owning(c) => last \in Callers /\ ProcessOf[last] = ProcessOf[c]

LEMMA LockKeptIs == LockKept <=> (backend = "postgres" /\ ~Upset => LockIsHeld /\ LastIsThere)
BY DEF LockKept, LockIsHeld, LastIsThere, Owning

\* A step after which nobody holds or owns what was not held or owned before.
LEMMA LockUntouched ==
  ASSUME TypeOK, LockIsHeld, LastIsThere, UNCHANGED <<lock, last>>,
         \A p \in Processes : Holders(p)' \subseteq Holders(p),
         \A c \in Callers : Owning(c)' => Owning(c)
  PROVE  LockIsHeld' /\ LastIsThere'
<1>1. ASSUME NEW p \in Processes, Holders(p)' # {}
      PROVE  lock'.by = p /\ lock'.depth >= Cardinality(Holders(p)')
  <2>1. Holders(p) # {} /\ Holders(p) \subseteq Callers /\ Holders(p)' \subseteq Callers
    BY <1>1 DEF Holders
  <2>2. /\ Cardinality(Holders(p)') <= Cardinality(Holders(p))
        /\ Cardinality(Holders(p)') \in Nat /\ Cardinality(Holders(p)) \in Nat
    BY <1>1, <2>1, HolderCounts
  <2>3. lock.by = p /\ lock.depth >= Cardinality(Holders(p)) /\ lock.depth \in Nat
    BY <1>1, <2>1, NobodyElse DEF LockIsHeld, TypeOK, Unlocked
  <2> QED BY <2>2, <2>3
<1> QED BY <1>1 DEF LockIsHeld, LastIsThere

LEMMA LockOfCaller ==
  ASSUME TypeOK, LockIsHeld, LastIsThere, TypeOK', [Next]_vars, NEW c \in Callers, backend = "postgres",
         \/ AcquireInMemory(c) \/ AcquireInFile(c) \/ EnsureSession(c) \/ AcquireScript(c)
         \/ RenewFence(c) \/ ReleaseFence(c)
         \/ ReadExpiry(c) \/ TryAdvisoryLock(c) \/ BumpNumber(c)
         \/ ReleaseLock(c) \/ ClearExpiry(c)
  PROVE  LockIsHeld' /\ LastIsThere'
<1> USE NobodyElse
<1> DEFINE q == ProcessOf[c]
<1>0. /\ \A d \in Callers : sure[d] \in Nat /\ ProcessOf[d] \in Processes
      /\ q \in Processes /\ \A p \in Processes : Holders(p) \subseteq Callers /\ Holders(p)' \subseteq Callers
  BY LeaseInRange DEF TypeOK, Holders
<1>1. CASE RenewFence(c)
  <2>1. /\ UNCHANGED <<lock, tokens, call, last>> /\ call[c] = "idle" /\ tokens[q] = c
        /\ \A d \in Callers : sure'[d] = IF d = c THEN LeaseTtl ELSE sure[d]
    BY <1>1 DEF RenewFence, RenewInMemory, RenewInFile, RenewScript, RenewRow, Renew, Known, postgresVars, TypeOK
  <2> QED BY <1>0, <2>1, LockUntouched DEF Holders, Owning
<1>2. CASE ReadExpiry(c)
  <2>1. /\ UNCHANGED <<lock, tokens, sure, last>> /\ call[c] = "idle"
        /\ \A d \in Callers : call'[d] = IF d = c THEN "lock" ELSE call[d]
    BY <1>2, GotoType DEF ReadExpiry, MayAcquire, postgresVars
  <2> QED BY <1>0, <2>1, LockUntouched DEF Holders, Owning
<1>3. CASE TryAdvisoryLock(c) /\ ~LockFree(q)
  <2>1. /\ UNCHANGED <<lock, tokens, sure, last>> /\ call[c] = "lock"
        /\ \A d \in Callers : call'[d] = IF d = c THEN "idle" ELSE call[d]
    BY <1>3, GotoType DEF TryAdvisoryLock
  <2> QED BY <1>0, <2>1, LockUntouched DEF Holders, Owning
<1>4. CASE TryAdvisoryLock(c) /\ LockFree(q)
  <2>1. /\ UNCHANGED <<tokens, sure, last>> /\ call[c] = "lock"
        /\ \A d \in Callers : call'[d] = IF d = c THEN "bump" ELSE call[d]
        /\ lock'.by = q /\ lock'.depth = lock.depth + 1
    BY <1>4, GotoType DEF TryAdvisoryLock
  <2>2. ASSUME NEW p \in Processes, Holders(p)' # {}
        PROVE  lock'.by = p /\ lock'.depth >= Cardinality(Holders(p)')
    <3>1. CASE p # q
      <4>1. Holders(p)' \subseteq Holders(p)
        BY <1>0, <2>1, <3>1 DEF Holders
      <4>2. lock.by = p
        BY <2>2, <4>1 DEF LockIsHeld
      <4> QED BY <1>4, <3>1, <4>2 DEF LockFree
    <3>2. CASE p = q
      <4>1. Holders(p)' \subseteq Holders(p) \cup {c}
        BY <1>0, <2>1 DEF Holders
      <4>2. /\ Cardinality(Holders(p)') <= Cardinality(Holders(p)) + 1
            /\ Cardinality(Holders(p)) \in Nat /\ Cardinality(Holders(p)') \in Nat
        BY <1>0, <4>1, HolderCounts
      <4>3. lock.depth \in Nat /\ lock.depth >= Cardinality(Holders(p))
        <5>1. CASE Holders(p) = {}
          BY <5>1, FS_EmptySet DEF TypeOK, Unlocked
        <5>2. CASE Holders(p) # {}
          BY <5>2 DEF LockIsHeld, TypeOK, Unlocked
        <5> QED BY <5>1, <5>2
      <4> QED BY <2>1, <3>2, <4>2, <4>3
    <3> QED BY <3>1, <3>2
  <2>3. LastIsThere'
    BY <1>0, <2>1 DEF LastIsThere, Owning
  <2> QED BY <2>2, <2>3 DEF LockIsHeld
<1>5. CASE BumpNumber(c)
  <2>1. /\ UNCHANGED lock /\ call[c] = "bump" /\ last' = c
        /\ \A d \in Callers : call'[d] = IF d = c THEN "idle" ELSE call[d]
        /\ \A d \in Callers : sure'[d] = IF d = c THEN LeaseTtl ELSE sure[d]
        /\ \A p \in Processes : tokens'[p] = IF p = q THEN c ELSE tokens[p]
    BY <1>5, GotoType, WonType DEF BumpNumber, TypeOK
  <2>2. \A p \in Processes : Holders(p)' \subseteq Holders(p)
    BY <1>0, <2>1 DEF Holders
  <2>3. c \in Holders(q)
    BY <1>0, <2>1 DEF Holders
  <2>4. LockIsHeld'
    <3>1. ASSUME NEW p \in Processes, Holders(p)' # {}
          PROVE  lock'.by = p /\ lock'.depth >= Cardinality(Holders(p)')
      <4>1. /\ Cardinality(Holders(p)') <= Cardinality(Holders(p))
            /\ Cardinality(Holders(p)') \in Nat /\ Cardinality(Holders(p)) \in Nat
        BY <1>0, <2>2, <3>1, HolderCounts
      <4>2. lock.by = p /\ lock.depth >= Cardinality(Holders(p)) /\ lock.depth \in Nat
        BY <2>2, <3>1 DEF LockIsHeld, TypeOK, Unlocked
      <4> QED BY <2>1, <4>1, <4>2
    <3> QED BY <3>1 DEF LockIsHeld
  <2>5. ASSUME NEW d \in Callers, Owning(d)'
        PROVE  last' \in Callers /\ ProcessOf[last'] = ProcessOf[d]
    <3>1. CASE d = c
      BY <2>1, <3>1
    <3>2. CASE d # c
      <4>1. d \in Holders(ProcessOf[d])
        BY <1>0, <2>1, <2>5, <3>2 DEF Holders, Owning
      <4> QED BY <1>0, <2>1, <2>3, <4>1 DEF LockIsHeld
    <3> QED BY <3>1, <3>2
  <2> QED BY <2>4, <2>5 DEF LastIsThere
<1>6. CASE ReleaseLock(c)
  <2>1. /\ UNCHANGED <<tokens, last>> /\ call[c] = "idle" /\ tokens[q] = c
        /\ \A d \in Callers : call'[d] = IF d = c THEN "clear" ELSE call[d]
        /\ \A d \in Callers : sure'[d] = IF d = c THEN 0 ELSE sure[d]
        /\ lock' = UnlockedBy(q)
    BY <1>6, GotoType DEF ReleaseLock, Known, TypeOK
  <2>2. c \in Holders(q) /\ Holders(q)' \subseteq Holders(q) \ {c}
    BY <1>0, <2>1 DEF Holders
  <2>3. lock.by = q /\ lock.depth \in Nat \ {0} /\ lock.depth >= Cardinality(Holders(q))
    BY <1>0, <2>2 DEF LockIsHeld, TypeOK, Unlocked
  <2>4. ASSUME NEW p \in Processes, Holders(p)' # {}
        PROVE  lock'.by = p /\ lock'.depth >= Cardinality(Holders(p)')
    <3>1. CASE p # q
      <4>1. Holders(p)' \subseteq Holders(p)
        BY <1>0, <2>1 DEF Holders
      <4> QED BY <2>3, <2>4, <3>1, <4>1 DEF LockIsHeld
    <3>2. CASE p = q
      <4>1. /\ Cardinality(Holders(q)') <= Cardinality(Holders(q)) - 1
            /\ Cardinality(Holders(q)') >= 1
            /\ Cardinality(Holders(q)') \in Nat /\ Cardinality(Holders(q)) \in Nat
        BY <1>0, <2>2, <2>4, <3>2, HolderCounts
      <4>2. lock.depth # 1 /\ lock.depth - 1 >= Cardinality(Holders(q)')
        BY <2>3, <4>1
      <4>3. lock \in [by : Processes, depth : Nat \ {0}]
        BY <1>0, <2>3 DEF TypeOK, Unlocked
      <4>4. lock'.by = q /\ lock'.depth = lock.depth - 1
        BY <2>1, <2>3, <4>2, <4>3 DEF UnlockedBy
      <4> QED BY <3>2, <4>2, <4>4
    <3> QED BY <3>1, <3>2
  <2>5. LastIsThere'
    BY <1>0, <2>1 DEF LastIsThere, Owning
  <2> QED BY <2>4, <2>5 DEF LockIsHeld
<1>7. CASE ClearExpiry(c)
  <2>1. /\ UNCHANGED <<lock, sure, last>> /\ call[c] = "clear"
        /\ \A d \in Callers : call'[d] = IF d = c THEN "idle" ELSE call[d]
        /\ \A p \in Processes : tokens'[p] = IF p = q THEN Nobody ELSE tokens[p]
    BY <1>7, GotoType DEF ClearExpiry, TypeOK
  <2> QED BY <1>0, <2>1, LockUntouched DEF Holders, Owning
<1> QED
  BY <1>1, <1>2, <1>3, <1>4, <1>5, <1>6, <1>7
     DEF AcquireInMemory, AcquireInFile, EnsureSession, AcquireScript, ReleaseFence, ReleaseInMemory,
         ReleaseInFile, ReleaseScript

LEMMA LockStep ==
  ASSUME TypeOK, LockKept, TypeOK', [Next]_vars
  PROVE  LockKept'
<1> USE NobodyElse
<1> SUFFICES ASSUME backend = "postgres", ~Upset, ~Upset', LockIsHeld, LastIsThere
             PROVE  LockIsHeld' /\ LastIsThere'
  BY LockKeptIs, UpsetGrows, UpsetStays DEF LockKept, LockIsHeld, LastIsThere, Owning
<1>0. /\ \A d \in Callers : sure[d] \in Nat /\ ProcessOf[d] \in Processes
      /\ backend' = backend /\ "delete" \notin upset' /\ "drop" \notin upset'
  <2>1. backend' = "postgres"
    BY UpsetGrows
  <2>2. ~(upset' \cap {"delete", "drop"} # {})
    BY <2>1 DEF Upset
  <2>3. \A d \in Callers : sure[d] \in Nat
    BY LeaseInRange DEF TypeOK
  <2> QED BY <2>1, <2>2, <2>3
<1>1. ASSUME NEW p \in Processes, DeleteSession(p)
      PROVE  LockIsHeld' /\ LastIsThere'
  <2>1. ~Wanted /\ UNCHANGED <<tokens, call, sure, last>>
    <3>1. upset' = IF Wanted THEN upset \cup {"delete"} ELSE upset
      BY <1>1 DEF DeleteSession
    <3> QED BY <1>0, <1>1, <3>1 DEF DeleteSession
  <2>2. \A c \in Callers : ~Owning(c)' /\ \A o \in Processes : c \notin Holders(o)'
    BY <1>0, <2>1 DEF Wanted, Owning, Holders, TypeOK
  <2>3. \A o \in Processes : Holders(o)' = {}
    BY <2>2 DEF Holders
  <2> QED BY <2>2, <2>3 DEF LockIsHeld, LastIsThere
<1>2. ASSUME NEW p \in Processes, DropConnection(p)
      PROVE  FALSE
  BY <1>0, <1>2 DEF DropConnection
<1>3. ASSUME NEW p \in Processes, Restart(p)
      PROVE  LockIsHeld' /\ LastIsThere'
  <2>1. /\ \A c \in Callers : /\ call'[c] = IF ProcessOf[c] = p THEN "idle" ELSE call[c]
                              /\ sure'[c] = IF ProcessOf[c] = p THEN 0 ELSE sure[c]
        /\ \A o \in Processes : tokens'[o] = IF o = p THEN Nobody ELSE tokens[o]
        /\ lock' = IF lock.by = p THEN Unlocked ELSE lock
        /\ last' = last
    BY <1>3 DEF Restart, TypeOK
  <2>2. Holders(p)' = {} /\ \A o \in Processes : o # p => Holders(o)' = Holders(o)
    BY <1>0, <2>1 DEF Holders
  <2>3. LockIsHeld'
    BY <2>1, <2>2 DEF LockIsHeld
  <2>4. LastIsThere'
    BY <1>0, <2>1 DEF LastIsThere, Owning
  <2> QED BY <2>3, <2>4
<1>4. CASE Tick
  <2>1. /\ \A c \in Callers : sure'[c] = Less(sure[c])
        /\ UNCHANGED <<lock, tokens, call, last>>
    BY <1>4 DEF Tick, postgresVars
  <2>2. \A c \in Callers : sure'[c] > 0 => sure[c] > 0
    BY <1>0, <2>1 DEF Less
  <2> QED BY <1>0, <2>1, <2>2, LockUntouched DEF Holders, Owning
<1>5. CASE UNCHANGED <<lock, tokens, call, sure, last>>
  BY <1>5, LockUntouched DEF Holders, Owning
<1> QED
  BY <1>1, <1>2, <1>3, <1>4, <1>5, LockOfCaller
     DEF Next, vars, postgresVars, PurgeLook, PurgeDelete, CreateSession, MutateSession, Sweep

-----------------------------------------------------------------------------
(* The theorems                                                            *)

LEMMA LeaseInitially ==
  ASSUME Init
  PROVE  TypeOK /\ LeaseInv
<1> USE DEF Init
<1>1. TypeOK
  <2>1. NoFence \in [token : Callers \cup {Nobody}, left : -LeaseTtl .. MaxLeft]
    BY LeaseInRange DEF NoFence
  <2>2. /\ tokens \in [Processes -> Callers \cup {Nobody}]
        /\ call \in [Callers -> {"idle", "script", "lock", "bump", "clear"}]
        /\ sure \in [Callers -> 0 .. LeaseTtl]
    BY LeaseInRange
  <2>3. life \in 0 .. SessionTtl /\ number \in Nat /\ acquires \in Nat
    BY LeaseInRange
  <2>4. /\ backend \in {"memory", "file", "redis", "postgres"} /\ stored \in BOOLEAN
        /\ lock \in {Unlocked} \cup [by : Processes, depth : Nat \ {0}]
        /\ purge \subseteq Processes /\ upset \subseteq {"late", "delete", "drop"}
    OBVIOUS
  <2> QED BY <2>1, <2>2, <2>3, <2>4 DEF TypeOK
<1>2. EntryKept /\ LockKept
  BY NobodyElse DEF EntryKept, LockKept, Holders, NoFence
<1> QED BY <1>1, <1>2 DEF LeaseInv

\* The record of the fence, the lock of PostgreSQL and what the processes know agree, through
\* expiry, take-over, late releases, deletions, purges and restarts.
THEOREM LeaseKept == Spec => [](TypeOK /\ LeaseInv)
<1>1. Init => TypeOK /\ LeaseInv
  BY LeaseInitially
<1>2. TypeOK /\ LeaseInv /\ [Next]_vars => (TypeOK /\ LeaseInv)'
  BY TypeStep, EntryStep, LockStep DEF LeaseInv
<1> QED BY <1>1, <1>2, PTL DEF Spec

LEMMA OneOwnerHolds ==
  ASSUME TypeOK, LeaseInv
  PROVE  OneOwner
<1> SUFFICES ASSUME NEW c \in Callers, NEW d \in Callers, c # d, sure[c] > 0, sure[d] > 0, ~Upset
             PROVE  backend = "postgres" /\ ProcessOf[c] = ProcessOf[d]
  BY DEF OneOwner, Excused
<1>1. backend = "postgres"
  BY DEF LeaseInv, EntryKept
<1>2. c \in Holders(ProcessOf[c]) /\ d \in Holders(ProcessOf[d])
  BY NobodyElse DEF Holders
<1> QED BY <1>1, <1>2, LockKeptIs, NobodyElse DEF LeaseInv, LockIsHeld

\* Two callers are never the owner of the session at once (SES-05), on any backend.
THEOREM OwnerIsUnique == Spec => []OneOwner
<1>1. TypeOK /\ LeaseInv => OneOwner
  BY OneOwnerHolds
<1> QED BY <1>1, LeaseKept, PTL

LEMMA LastActs ==
  ASSUME TypeOK, LeaseInv, NEW c \in Callers, RenewFence(c) \/ ReleaseFence(c) \/ ReleaseLock(c)
  PROVE  last = c \/ (backend = "postgres" /\ Excused(c, last))
<1>1. Known(c) /\ call[c] = "idle"
  BY DEF RenewFence, RenewInMemory, RenewInFile, RenewScript, RenewRow, Renew, ReleaseFence,
         ReleaseInMemory, ReleaseInFile, ReleaseScript, DropEntry, ReleaseLock
<1>2. CASE backend # "postgres"
  BY <1>1, <1>2, NobodyElse DEF LeaseInv, EntryKept, Known
<1>3. CASE backend = "postgres"
  BY <1>1, <1>3, LockKeptIs DEF LeaseInv, LastIsThere, Owning, Known, Excused
<1> QED BY <1>2, <1>3

\* Only the caller that acquired last can renew or release: one whose lease was taken over is
\* refused by the token it holds.
THEOREM FormerOwnersAreRefused == Spec => OnlyTheLastActs
<1>1. TypeOK /\ LeaseInv /\ [Next]_vars =>
        [\A c \in Callers :
           RenewFence(c) \/ ReleaseFence(c) \/ ReleaseLock(c) =>
             last = c \/ (backend = "postgres" /\ Excused(c, last))]_vars
  BY LastActs
<1> QED BY <1>1, LeaseKept, PTL DEF Spec, OnlyTheLastActs

-----------------------------------------------------------------------------
(***************************************************************************)
(* SessionHistory                                                          *)
(***************************************************************************)
-----------------------------------------------------------------------------
(* Sequences                                                               *)

\* What a history begins with stays when something is added behind it.
LEMMA PrefixStays ==
  ASSUME NEW S, NEW base \in Seq(S), NEW s \in Seq(S), NEW t \in Seq(S),
         Len(base) <= Len(s), SubSeq(s, 1, Len(base)) = base
  PROVE  SubSeq(s \o t, 1, Len(base)) = base
<1>0. Len(base) \in Nat /\ Len(s) \in Nat
  OBVIOUS
<1>1. CASE Len(base) = 0
  BY <1>1, SubSeqEmpty
<1>2. CASE Len(base) # 0
  <2>1. 1 \in 1 .. Len(s) /\ Len(base) \in 1 .. Len(s)
    BY <1>0, <1>2
  <2> QED BY <2>1, SubSeqOfConcat1
<1> QED BY <1>1, <1>2

LEMMA PrefixTyped ==
  ASSUME NEW S, NEW s \in Seq(S), NEW n \in Int, n <= Len(s)
  PROVE  SubSeq(s, 1, n) \in Seq(S)
<1>1. \A i \in 1 .. n : s[i] \in S
  OBVIOUS
<1> QED BY <1>1, SubSeqProperties

-----------------------------------------------------------------------------
(* One run acts                                                            *)

ReadPart(r) ==
  HasRead(r) /\ Apart(r) =>
    revision >= Version(r) /\ (revision = Version(r) => events = read[r])

AlonePart(r) ==
  Under(r) /\ overlapped[r] = {} =>
    /\ HasRead(r) \/ pc[r] = "committing" => events = read[r]
    /\ revision >= admission[r].revision
    /\ Len(events) = Len(admission[r].events) + (revision - admission[r].revision)
    /\ SubSeq(events, 1, Len(admission[r].events)) = admission[r].events

LEMMA VersionTyped ==
  ASSUME HistoryTypeOK, NEW r \in Runs
  PROVE  Version(r) \in Nat
BY HistoryAssumption DEF HistoryTypeOK, Version, Key, Stages

\* A run that acts leaves every other run what it has.
Leaves(r) ==
  /\ Under(r) /\ UNCHANGED overlapped
  /\ \A q \in Runs \ {r} :
       /\ pc'[q] = pc[q] /\ expected'[q] = expected[q] /\ read'[q] = read[q]
       /\ admission'[q] = admission[q]
       /\ anchor'[Key(q)] = anchor[Key(q)] \/ Key(q) = Key(r)
  /\ \/ UNCHANGED <<record, truncated>>
     \/ revision' = revision + 1 /\ UNCHANGED truncated
     \/ truncated' = truncated \cup {r}

LEMMA OthersKeep ==
  ASSUME HistoryTypeOK, HistoryInv, NEW r \in Runs, Leaves(r), NEW q \in Runs \ {r}
  PROVE  ReadPart(q)' /\ AlonePart(q)'
<1>0. ReadPart(q) /\ Under(r) /\ pc'[q] = pc[q] /\ overlapped' = overlapped /\ Version(q) \in Nat
      /\ revision \in Nat
  BY VersionTyped DEF HistoryInv, ReadKept, ReadPart, Leaves, HistoryTypeOK
<1>1. CASE ~Under(q)
  BY <1>0, <1>1 DEF ReadPart, AlonePart, Under, HasRead
<1>2. CASE Under(q)
  <2>1. r \in overlapped[q]
    BY <1>0, <1>2 DEF HistoryInv, OverlapsKnown
  <2>2. AlonePart(q)'
    BY <1>0, <2>1 DEF AlonePart
  <2>3. ASSUME HasRead(q)', Apart(q)'
        PROVE  revision' >= Version(q)' /\ (revision' = Version(q)' => events' = read'[q])
    <3>1. Key(r) # Key(q) /\ r \notin truncated'
      BY <1>0, <2>1, <2>3 DEF Apart
    <3>2. Apart(q) /\ HasRead(q)
      BY <1>0, <2>3 DEF Apart, HasRead, Leaves
    <3>3. Version(q)' = Version(q)
      BY <1>0, <3>1 DEF Version, Leaves
    <3>4. UNCHANGED record \/ revision' = revision + 1
      BY <3>1 DEF Leaves
    <3>5. revision >= Version(q) /\ (revision = Version(q) => events = read[q])
      BY <1>0, <3>2 DEF ReadPart
    <3>6. read'[q] = read[q]
      BY DEF Leaves
    <3> QED BY <1>0, <3>3, <3>4, <3>5, <3>6 DEF record
  <2> QED BY <2>2, <2>3 DEF ReadPart
<1> QED BY <1>1, <1>2

LEMMA OverlapsStay ==
  ASSUME HistoryInv, NEW r \in Runs, Leaves(r)
  PROVE  OverlapsKnown'
BY DEF HistoryInv, OverlapsKnown, Leaves, Under

\* It is enough to look at the run that acts.
LEMMA OneActs ==
  ASSUME HistoryTypeOK, HistoryTypeOK', HistoryInv, NEW r \in Runs, Leaves(r), ReadPart(r)', AlonePart(r)'
  PROVE  HistoryInv'
BY OthersKeep, OverlapsStay DEF HistoryInv, ReadKept, AloneKept, ReadPart, AlonePart

-----------------------------------------------------------------------------
(* Types                                                                   *)

LEMMA StepTyped ==
  ASSUME HistoryTypeOK, NEW r \in Runs,
         \/ Admit(r) \/ GetSession(r) \/ NoteRead(r) \/ AppendEvent(r) \/ StoreEvent(r) \/ NoteAppend(r)
         \/ ReadRevision(r) \/ CommitSuccess(r) \/ Conflict(r) \/ Truncate(r) \/ Interrupt(r)
  PROVE  HistoryTypeOK'
<1>1. CASE Admit(r)
  <2>1. admission' \in [Runs -> [revision : Nat \ {0}, events : Seq(Entry)]]
    BY <1>1 DEF HistoryTypeOK, Admit
  <2>2. overlapped' \in [Runs -> SUBSET Runs]
    BY <1>1 DEF HistoryTypeOK, Admit
  <2>3. pc' \in [Runs -> Stages]
    BY <1>1 DEF HistoryTypeOK, Admit, To, Stages
  <2> QED BY <1>1, <2>1, <2>2, <2>3 DEF HistoryTypeOK, Admit, record
<1>2. CASE GetSession(r) \/ NoteRead(r) \/ AppendEvent(r) \/ NoteAppend(r) \/ ReadRevision(r)
  <2>1. Key(r) \in Services /\ anchor[Key(r)] \in Nat /\ expected[r] \in Nat /\ revision \in Nat
    BY HistoryAssumption DEF HistoryTypeOK, Key
  <2>2. expected' \in [Runs -> Nat] /\ read' \in [Runs -> Seq(Entry)]
    <3>1. /\ expected' = expected \/ \E n \in Nat : expected' = [expected EXCEPT ![r] = n]
          /\ read' = read \/ read' = [read EXCEPT ![r] = events]
      BY <1>2, <2>1 DEF GetSession, NoteRead, AppendEvent, NoteAppend, ReadRevision
    <3>2. expected' \in [Runs -> Nat]
      BY <3>1 DEF HistoryTypeOK
    <3>3. read' \in [Runs -> Seq(Entry)]
      BY <3>1 DEF HistoryTypeOK
    <3> QED BY <3>2, <3>3
  <2>3. anchor' \in [Services -> Nat]
    BY <1>2, <2>1 DEF HistoryTypeOK, GetSession, NoteRead, AppendEvent, NoteAppend, ReadRevision
  <2>4. pc' \in [Runs -> Stages]
    BY <1>2 DEF HistoryTypeOK, GetSession, NoteRead, AppendEvent, NoteAppend, ReadRevision, To, Stages
  <2>5. UNCHANGED <<record, admission, past>>
    BY <1>2 DEF GetSession, NoteRead, AppendEvent, NoteAppend, ReadRevision
  <2> QED BY <2>2, <2>3, <2>4, <2>5 DEF HistoryTypeOK, record, past
<1>3. CASE StoreEvent(r)
  <2>1. <<r, "event">> \in Entry
    BY DEF Entry
  <2>2. <<<<r, "event">>>> \in Seq(Entry) /\ Append(read[r], <<r, "event">>) \in Seq(Entry)
    BY <2>1 DEF HistoryTypeOK
  <2>3. events' \in Seq(Entry) /\ revision' \in Nat \ {0}
    BY <1>3, <2>2, ConcatProperties DEF HistoryTypeOK, StoreEvent, Swap
  <2> QED BY <1>3, <2>2, <2>3 DEF HistoryTypeOK, StoreEvent, To, past, Stages
<1>4. CASE CommitSuccess(r)
  <2>1. <<r, "user">> \in Entry /\ <<r, "model">> \in Entry
    BY DEF Entry
  <2>2. <<<<r, "user">>, <<r, "model">>>> \in Seq(Entry)
    BY <2>1
  <2>3. events' \in Seq(Entry) /\ revision' \in Nat \ {0}
    BY <1>4, <2>2, ConcatProperties DEF HistoryTypeOK, CommitSuccess, Swap
  <2> QED BY <1>4, <2>3 DEF HistoryTypeOK, CommitSuccess, To, past, Stages
<1>5. CASE Conflict(r) \/ Interrupt(r)
  BY <1>5 DEF HistoryTypeOK, Conflict, Interrupt, To, record, past, Stages
<1>6. CASE Truncate(r)
  <2>1. admission[r].revision \in Nat \ {0} /\ revision \in Nat /\ Len(events) \in Nat
    BY DEF HistoryTypeOK
  <2>2. events' \in Seq(Entry) /\ revision' \in Nat \ {0}
    <3>1. CASE revision <= admission[r].revision
      BY <1>6, <3>1 DEF Truncate, HistoryTypeOK, record
    <3>2. CASE ~(revision <= admission[r].revision)
      <4>1. /\ revision' = admission[r].revision
            /\ events' = SubSeq(events, 1, Len(events) - (revision - admission[r].revision))
        BY <1>6, <3>2 DEF Truncate
      <4>2. PICK n \in Int : n = Len(events) - (revision - admission[r].revision) /\ n <= Len(events)
        BY <2>1, <3>2
      <4>3. SubSeq(events, 1, n) \in Seq(Entry)
        BY <4>2, PrefixTyped DEF HistoryTypeOK
      <4> QED BY <2>1, <4>1, <4>2, <4>3
    <3> QED BY <3>1, <3>2
  <2> QED BY <1>6, <2>2 DEF HistoryTypeOK, Truncate, To, Stages
<1> QED BY <1>1, <1>2, <1>3, <1>4, <1>5, <1>6

-----------------------------------------------------------------------------
(* The steps                                                               *)

LEMMA AdmitKept ==
  ASSUME HistoryTypeOK, HistoryInv, NEW r \in Runs, Admit(r)
  PROVE  HistoryInv'
<1>1. /\ pc[r] = "idle" /\ pc' = [pc EXCEPT ![r] = "admitted"] /\ UNCHANGED <<record, anchor, expected, read, truncated>>
      /\ admission' = [admission EXCEPT ![r] = [revision |-> revision, events |-> events]]
      /\ \A q \in Runs : overlapped'[q] = IF q = r THEN {o \in Runs : Under(o)}
                                          ELSE IF Under(q) THEN overlapped[q] \cup {r} ELSE overlapped[q]
  BY DEF Admit, To
<1>2. /\ pc'[r] = "admitted" /\ ~Under(r) /\ Under(r)' /\ \A q \in Runs \ {r} : pc'[q] = pc[q]
      /\ \A q \in Runs \ {r} : admission'[q] = admission[q]
      /\ revision' = revision /\ events' = events
      /\ admission'[r] = [revision |-> revision, events |-> events]
  BY <1>1 DEF HistoryTypeOK, Under, record
<1>3. OverlapsKnown'
  BY <1>1, <1>2 DEF HistoryInv, OverlapsKnown, Under
<1>4. ReadKept'
  <2> SUFFICES ASSUME NEW q \in Runs, HasRead(q)', Apart(q)'
               PROVE  revision' >= Version(q)' /\ (revision' = Version(q)' => events' = read'[q])
    BY DEF ReadKept
  <2>1. q # r
    BY <1>2 DEF HasRead
  <2>2. HasRead(q) /\ Apart(q) /\ Version(q)' = Version(q)
    BY <1>1, <1>2, <2>1 DEF HasRead, Apart, Version
  <2> QED BY <1>1, <1>2, <2>2 DEF HistoryInv, ReadKept
<1>5. AloneKept'
  <2>1. ASSUME NEW q \in Runs \ {r}, Under(q)'
        PROVE  overlapped'[q] # {}
    BY <1>1, <1>2, <2>1 DEF Under
  <2>2. AlonePart(r)'
    <3>1. SubSeq(events, 1, Len(events)) = events /\ Len(events) \in Nat /\ revision \in Nat
      BY SubSeqFull DEF HistoryTypeOK
    <3> QED BY <1>2, <3>1 DEF AlonePart, HasRead
  <2> QED BY <2>1, <2>2 DEF AloneKept, AlonePart
<1> QED BY <1>3, <1>4, <1>5 DEF HistoryInv

\* Steps between the writes.
LEMMA StagesKept ==
  ASSUME HistoryTypeOK, HistoryTypeOK', HistoryInv, NEW r \in Runs,
         \/ GetSession(r) \/ NoteRead(r) \/ AppendEvent(r) \/ NoteAppend(r)
         \/ ReadRevision(r) \/ Conflict(r) \/ Interrupt(r)
  PROVE  HistoryInv'
<1>0. ReadPart(r) /\ AlonePart(r) /\ revision \in Nat
  BY DEF HistoryInv, ReadKept, AloneKept, ReadPart, AlonePart, HistoryTypeOK
<1>1. Under(r) /\ UNCHANGED <<record, past, admission>>
  BY DEF GetSession, NoteRead, AppendEvent, NoteAppend, ReadRevision, Conflict, Interrupt, Under
<1>2. revision' = revision /\ events' = events /\ overlapped' = overlapped /\ truncated' = truncated
      /\ admission' = admission /\ Apart(r)' = Apart(r)
  BY <1>1 DEF record, past, Apart
<1>3. CASE GetSession(r)
  <2>1. pc'[r] = "reading" /\ expected'[r] = revision /\ read'[r] = events
    BY <1>3 DEF GetSession, To, HistoryTypeOK
  <2>2. Leaves(r)
    BY <1>1, <1>2, <1>3 DEF Leaves, GetSession, To, HistoryTypeOK
  <2>3. ReadPart(r)' /\ AlonePart(r)'
    BY <1>0, <1>1, <1>2, <2>1 DEF ReadPart, AlonePart, Version, HasRead
  <2> QED BY <2>2, <2>3, OneActs
<1>4. CASE NoteRead(r)
  <2>1. /\ pc[r] = "reading" /\ pc'[r] = "running" /\ expected'[r] = expected[r] /\ read'[r] = read[r]
        /\ anchor'[Key(r)] = expected[r]
    BY <1>4, HistoryAssumption DEF NoteRead, To, HistoryTypeOK, Key
  <2>2. Leaves(r)
    BY <1>1, <1>2, <1>4, HistoryAssumption DEF Leaves, NoteRead, To, HistoryTypeOK, Key
  <2>3. Version(r)' = Version(r) /\ HasRead(r) /\ HasRead(r)'
    BY <2>1 DEF Version, Key, HasRead
  <2>4. ReadPart(r)' /\ AlonePart(r)'
    BY <1>0, <1>1, <1>2, <2>1, <2>3 DEF ReadPart, AlonePart
  <2> QED BY <2>2, <2>4, OneActs
<1>5. CASE AppendEvent(r)
  <2>1. /\ pc[r] = "running" /\ pc'[r] = "appending" /\ expected'[r] = anchor[Key(r)] /\ read'[r] = read[r]
    BY <1>5 DEF AppendEvent, To, HistoryTypeOK
  <2>2. Leaves(r)
    BY <1>1, <1>2, <1>5 DEF Leaves, AppendEvent, To, HistoryTypeOK
  <2>3. Version(r)' = Version(r) /\ HasRead(r) /\ HasRead(r)'
    BY <2>1 DEF Version, Key, HasRead
  <2>4. ReadPart(r)' /\ AlonePart(r)'
    BY <1>0, <1>1, <1>2, <2>1, <2>3 DEF ReadPart, AlonePart
  <2> QED BY <2>2, <2>4, OneActs
<1>6. CASE NoteAppend(r)
  <2>1. /\ pc[r] = "appended" /\ pc'[r] = "running" /\ expected'[r] = expected[r] /\ read'[r] = read[r]
        /\ anchor'[Key(r)] = expected[r] + 1
    BY <1>6, HistoryAssumption DEF NoteAppend, To, HistoryTypeOK, Key
  <2>2. Leaves(r)
    BY <1>1, <1>2, <1>6, HistoryAssumption DEF Leaves, NoteAppend, To, HistoryTypeOK, Key
  <2>3. Version(r)' = Version(r) /\ HasRead(r) /\ HasRead(r)'
    BY <2>1 DEF Version, Key, HasRead
  <2>4. ReadPart(r)' /\ AlonePart(r)'
    BY <1>0, <1>1, <1>2, <2>1, <2>3 DEF ReadPart, AlonePart
  <2> QED BY <2>2, <2>4, OneActs
<1>7. CASE ReadRevision(r)
  <2>1. pc[r] = "running" /\ pc'[r] = "committing" /\ read'[r] = read[r]
    BY <1>7 DEF ReadRevision, To, HistoryTypeOK
  <2>2. Leaves(r)
    BY <1>1, <1>2, <1>7 DEF Leaves, ReadRevision, To, HistoryTypeOK
  <2>3. ReadPart(r)' /\ AlonePart(r)'
    BY <1>0, <1>1, <1>2, <2>1 DEF ReadPart, AlonePart, HasRead
  <2> QED BY <2>2, <2>3, OneActs
<1>8. CASE Conflict(r) \/ Interrupt(r)
  <2>1. pc'[r] = "done"
    BY <1>8 DEF Conflict, Interrupt, To, HistoryTypeOK
  <2>2. Leaves(r)
    BY <1>1, <1>2, <1>8 DEF Leaves, Conflict, Interrupt, To, HistoryTypeOK
  <2>3. ReadPart(r)' /\ AlonePart(r)'
    BY <2>1 DEF ReadPart, AlonePart, HasRead, Under
  <2> QED BY <2>2, <2>3, OneActs
<1> QED BY <1>3, <1>4, <1>5, <1>6, <1>7, <1>8

\* The event goes behind the history its run has read, unless other runs of its service or a
\* truncation were under way with it.
LEMMA StoreEventContinues ==
  ASSUME HistoryTypeOK, HistoryInv, NEW r \in Runs, StoreEvent(r), Apart(r)
  PROVE  events = read[r] /\ events' = Append(read[r], <<r, "event">>)
<1>1. pc[r] = "appending" /\ revision = expected[r] /\ events' = events \o <<<<r, "event">>>>
  BY DEF StoreEvent, Swap
<1>2. HasRead(r) /\ Version(r) = expected[r]
  BY <1>1 DEF HasRead, Version
<1>3. events = read[r]
  BY <1>1, <1>2 DEF HistoryInv, ReadKept
<1>4. read[r] \in Seq(Entry) /\ <<r, "event">> \in Entry
  BY DEF HistoryTypeOK, Entry
<1>5. Append(read[r], <<r, "event">>) = read[r] \o <<<<r, "event">>>>
  BY <1>4, AppendIsConcat
<1> QED BY <1>1, <1>3, <1>5

LEMMA StoreEventKept ==
  ASSUME HistoryTypeOK, HistoryTypeOK', HistoryInv, NEW r \in Runs, StoreEvent(r)
  PROVE  HistoryInv'
<1>0. ReadPart(r) /\ AlonePart(r) /\ revision \in Nat /\ revision \in Int
  BY DEF HistoryInv, ReadKept, AloneKept, ReadPart, AlonePart, HistoryTypeOK
<1>1. /\ pc[r] = "appending" /\ pc'[r] = "appended" /\ revision = expected[r] /\ revision' = revision + 1
      /\ events' = events \o <<<<r, "event">>>> /\ read'[r] = Append(read[r], <<r, "event">>)
      /\ expected'[r] = expected[r] /\ admission' = admission /\ overlapped' = overlapped
      /\ truncated' = truncated
  BY DEF StoreEvent, Swap, To, HistoryTypeOK, past
<1>2. Leaves(r)
  BY <1>1 DEF Leaves, StoreEvent, To, HistoryTypeOK, Under
<1>3. ReadPart(r)'
  <2>1. Version(r)' = revision' /\ Apart(r)' = Apart(r)
    BY <1>1 DEF Version, Apart
  <2>2. Apart(r) => events' = read'[r]
    BY <1>1, StoreEventContinues
  <2>3. revision' >= Version(r)'
    BY <1>0, <1>1, <2>1
  <2> QED BY <2>1, <2>2, <2>3 DEF ReadPart
<1>4. AlonePart(r)'
  <2> SUFFICES ASSUME overlapped[r] = {}
               PROVE  /\ events' = read'[r] /\ revision' >= admission[r].revision
                      /\ Len(events') = Len(admission[r].events) + (revision' - admission[r].revision)
                      /\ SubSeq(events', 1, Len(admission[r].events)) = admission[r].events
    BY <1>1 DEF AlonePart
  <2>1. /\ revision >= admission[r].revision
        /\ Len(events) = Len(admission[r].events) + (revision - admission[r].revision)
        /\ SubSeq(events, 1, Len(admission[r].events)) = admission[r].events
    BY <1>0, <1>1 DEF AlonePart, Under
  <2>2. events' = read'[r]
    <3>1. Apart(r)
      BY DEF Apart
    <3> QED BY <1>1, <3>1, StoreEventContinues
  <2>3. /\ events \in Seq(Entry) /\ <<<<r, "event">>>> \in Seq(Entry)
        /\ admission[r].events \in Seq(Entry) /\ admission[r].revision \in Nat
    BY DEF HistoryTypeOK, Entry
  <2>4. Len(<<<<r, "event">>>>) = 1 /\ Len(events) \in Nat /\ Len(admission[r].events) \in Nat
    BY <2>3
  <2>5. Len(events') = Len(events) + 1
    BY <1>1, <2>3, <2>4, ConcatProperties
  <2>6. Len(admission[r].events) <= Len(events)
    BY <1>0, <2>1, <2>3, <2>4
  <2>7. SubSeq(events', 1, Len(admission[r].events)) = admission[r].events
    BY <1>1, <2>1, <2>3, <2>6, PrefixStays
  <2>8. /\ revision' >= admission[r].revision
        /\ Len(events') = Len(admission[r].events) + (revision' - admission[r].revision)
    <3>1. PICK a, b, m, n \in Nat : /\ a = revision /\ b = admission[r].revision
                                     /\ m = Len(events) /\ n = Len(admission[r].events)
      BY <1>0, <2>3, <2>4
    <3>2. a >= b /\ m = n + (a - b)
      BY <2>1, <3>1
    <3>3. a + 1 >= b /\ m + 1 = n + ((a + 1) - b)
      BY <3>2
    <3>4. revision' = a + 1 /\ Len(events') = m + 1
      BY <1>1, <2>5, <3>1
    <3> QED BY <3>1, <3>3, <3>4
  <2> QED BY <2>2, <2>7, <2>8
<1> QED BY <1>2, <1>3, <1>4, OneActs

LEMMA EndsKept ==
  ASSUME HistoryTypeOK, HistoryTypeOK', HistoryInv, NEW r \in Runs, CommitSuccess(r) \/ Truncate(r)
  PROVE  HistoryInv'
<1>1. pc'[r] = "done"
  BY DEF CommitSuccess, Truncate, To, HistoryTypeOK
<1>2. Leaves(r)
  <2>1. CASE CommitSuccess(r)
    BY <2>1 DEF Leaves, CommitSuccess, Swap, To, HistoryTypeOK, Under, past
  <2>2. CASE Truncate(r)
    BY <2>2 DEF Leaves, Truncate, To, HistoryTypeOK, Under
  <2> QED BY <2>1, <2>2
<1>3. ReadPart(r)' /\ AlonePart(r)'
  BY <1>1 DEF ReadPart, AlonePart, HasRead, Under
<1> QED BY <1>2, <1>3, OneActs

\* Alone, a truncation drops the events of its run and no other.
LEMMA TruncateRestores ==
  ASSUME HistoryTypeOK, HistoryInv, NEW r \in Runs, Truncate(r), overlapped[r] = {}
  PROVE  record' = <<admission[r].revision, admission[r].events>>
<1>1. /\ revision >= admission[r].revision
      /\ Len(events) = Len(admission[r].events) + (revision - admission[r].revision)
      /\ SubSeq(events, 1, Len(admission[r].events)) = admission[r].events
  BY DEF HistoryInv, AloneKept, Under, Truncate
<1>2. /\ revision \in Nat /\ admission[r].revision \in Nat /\ events \in Seq(Entry)
      /\ Len(events) \in Nat /\ Len(admission[r].events) \in Nat
  BY DEF HistoryTypeOK
<1>3. CASE revision <= admission[r].revision
  <2>1. revision = admission[r].revision /\ Len(events) = Len(admission[r].events)
    BY <1>1, <1>2, <1>3
  <2>2. events = admission[r].events
    BY <1>1, <1>2, <2>1, SubSeqFull
  <2> QED BY <1>3, <2>1, <2>2 DEF Truncate, record
<1>4. CASE ~(revision <= admission[r].revision)
  <2>1. Len(events) - (revision - admission[r].revision) = Len(admission[r].events)
    BY <1>1, <1>2
  <2>2. /\ revision' = admission[r].revision
        /\ events' = SubSeq(events, 1, Len(events) - (revision - admission[r].revision))
    BY <1>4 DEF Truncate
  <2> QED BY <1>1, <2>1, <2>2 DEF record
<1> QED BY <1>3, <1>4

-----------------------------------------------------------------------------
(* The invariant and the property                                          *)

LEMMA StepKept ==
  ASSUME HistoryTypeOK, HistoryInv, [HistoryNext]_historyVars
  PROVE  (HistoryTypeOK /\ HistoryInv)'
<1>1. CASE UNCHANGED historyVars
  BY <1>1 DEF historyVars, record, past, HistoryTypeOK, HistoryInv, OverlapsKnown, ReadKept, AloneKept, HasRead, Apart,
              Version, Under
<1>2. CASE HistoryNext
  <2>1. PICK r \in Runs :
          \/ Admit(r) \/ GetSession(r) \/ NoteRead(r) \/ AppendEvent(r) \/ StoreEvent(r) \/ NoteAppend(r)
          \/ ReadRevision(r) \/ CommitSuccess(r) \/ Conflict(r) \/ Truncate(r) \/ Interrupt(r)
    BY <1>2 DEF HistoryNext
  <2>2. HistoryTypeOK'
    BY <2>1, StepTyped
  <2> QED BY <2>1, <2>2, AdmitKept, StagesKept, StoreEventKept, EndsKept
<1> QED BY <1>1, <1>2

LEMMA HistoryInitially ==
  ASSUME HistoryInit
  PROVE  HistoryTypeOK /\ HistoryInv
<1>1. HistoryTypeOK
  BY HistoryAssumption DEF HistoryInit, HistoryTypeOK, Stages
<1>2. \A r \in Runs : ~Under(r) /\ ~HasRead(r)
  BY DEF HistoryInit, Under, HasRead
<1> QED BY <1>1, <1>2 DEF HistoryInv, OverlapsKnown, ReadKept, AloneKept

\* The anchors, what the runs have read and what the record holds keep to the invariant of
\* the model, however runs overlap (RevisionTrackingSessionService and the runner).
THEOREM HistoryKept == HistorySpec => [](HistoryTypeOK /\ HistoryInv)
<1>1. HistoryInit => HistoryTypeOK /\ HistoryInv
  BY HistoryInitially
<1>2. HistoryTypeOK /\ HistoryInv /\ [HistoryNext]_historyVars => (HistoryTypeOK /\ HistoryInv)'
  BY StepKept
<1> QED BY <1>1, <1>2, PTL DEF HistorySpec

Continues ==
  \A r \in Runs :
    /\ pc[r] = "appending" /\ pc'[r] = "appended" /\ Apart(r) =>
         events' = Append(read[r], <<r, "event">>)
    /\ overlapped[r] = {} /\ pc[r] = "committing" /\ events' # events =>
         events' = read[r] \o <<<<r, "user">>, <<r, "model">>>>
    /\ overlapped[r] = {} /\ r \in truncated' \ truncated =>
         record' = <<admission[r].revision, admission[r].events>>

LEMMA StepContinues ==
  ASSUME HistoryTypeOK, HistoryInv, HistoryNext
  PROVE  Continues
<1> SUFFICES ASSUME NEW r \in Runs
             PROVE  /\ pc[r] = "appending" /\ pc'[r] = "appended" /\ Apart(r) =>
                         events' = Append(read[r], <<r, "event">>)
                    /\ overlapped[r] = {} /\ pc[r] = "committing" /\ events' # events =>
                         events' = read[r] \o <<<<r, "user">>, <<r, "model">>>>
                    /\ overlapped[r] = {} /\ r \in truncated' \ truncated =>
                         record' = <<admission[r].revision, admission[r].events>>
  BY DEF Continues
<1>1. PICK q \in Runs :
        \/ Admit(q) \/ GetSession(q) \/ NoteRead(q) \/ AppendEvent(q) \/ StoreEvent(q) \/ NoteAppend(q)
        \/ ReadRevision(q) \/ CommitSuccess(q) \/ Conflict(q) \/ Truncate(q) \/ Interrupt(q)
  BY DEF HistoryNext
<1>2. ASSUME pc[r] = "appending", pc'[r] = "appended", Apart(r)
      PROVE  events' = Append(read[r], <<r, "event">>)
  <2>1. StoreEvent(r)
    BY <1>1, <1>2 DEF HistoryTypeOK, Admit, GetSession, NoteRead, AppendEvent, StoreEvent, NoteAppend,
                      ReadRevision, CommitSuccess, Conflict, Truncate, Interrupt, To
  <2> QED BY <1>2, <2>1, StoreEventContinues
<1>3. ASSUME overlapped[r] = {}, pc[r] = "committing", events' # events
      PROVE  events' = read[r] \o <<<<r, "user">>, <<r, "model">>>>
  <2>1. StoreEvent(q) \/ CommitSuccess(q) \/ Truncate(q)
    BY <1>1, <1>3 DEF Admit, GetSession, NoteRead, AppendEvent, NoteAppend, ReadRevision, Conflict,
                      Interrupt, record
  <2>2. Under(q) /\ Under(r)
    BY <1>3, <2>1 DEF Under, StoreEvent, CommitSuccess, Truncate
  <2>3. q = r
    BY <1>3, <2>2 DEF HistoryInv, OverlapsKnown
  <2>4. CommitSuccess(r)
    BY <1>3, <2>1, <2>3 DEF StoreEvent, Truncate
  <2>5. events = read[r]
    BY <1>3, <2>2 DEF HistoryInv, AloneKept
  <2> QED BY <2>4, <2>5 DEF CommitSuccess, Swap
<1>4. ASSUME overlapped[r] = {}, r \in truncated' \ truncated
      PROVE  record' = <<admission[r].revision, admission[r].events>>
  <2>1. Truncate(r)
    BY <1>1, <1>4 DEF Admit, GetSession, NoteRead, AppendEvent, StoreEvent, NoteAppend, ReadRevision,
                      CommitSuccess, Conflict, Truncate, Interrupt, past
  <2> QED BY <1>4, <2>1, TruncateRestores
<1> QED BY <1>2, <1>3, <1>4

\* SES-09, ENG-06: what a run stores goes on from what its model was shown, and a run that
\* failed alone leaves the history it found, to the event.
THEOREM HistoriesContinue == HistorySpec => HistoryContinues
<1>1. HistoryTypeOK /\ HistoryInv /\ [HistoryNext]_historyVars
        => [\A r \in Runs :
              /\ pc[r] = "appending" /\ pc'[r] = "appended" /\ Apart(r) =>
                   events' = Append(read[r], <<r, "event">>)
              /\ overlapped[r] = {} /\ pc[r] = "committing" /\ events' # events =>
                   events' = read[r] \o <<<<r, "user">>, <<r, "model">>>>
              /\ overlapped[r] = {} /\ r \in truncated' \ truncated =>
                   record' = <<admission[r].revision, admission[r].events>>]_historyVars
  BY StepContinues DEF Continues
<1> QED BY <1>1, HistoryKept, PTL DEF HistorySpec, HistoryContinues
=============================================================================
