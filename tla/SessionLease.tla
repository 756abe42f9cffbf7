---------------------------- MODULE SessionLease ----------------------------
(***************************************************************************)
(* The ownership fence of one session (SES-05) in every backend. In memory *)
(* and in files it is an entry of the one process; in Redis a key with a   *)
(* token, taken by a script; in PostgreSQL a row's expiry, an advisory     *)
(* lock of the connection of the process, and a token kept by the process. *)
(* No run takes the fence yet: the callers are whoever holds a token.      *)
(* Retention is modelled for a session in which no run is under way.       *)
(***************************************************************************)
EXTENDS Integers, FiniteSets

CONSTANTS Callers, Processes,
          ProcessOf,               \* the process each caller is in
          Nobody,
          LeaseTtl, SessionTtl,    \* ttl_seconds, sessionTtlSeconds
          MaxLeft, MaxAcquires     \* bounds of the model

ASSUME LeaseAssumption ==
  /\ IsFiniteSet(Callers) /\ ProcessOf \in [Callers -> Processes]
  /\ Nobody \notin Callers \cup Processes
  /\ LeaseTtl \in Nat \ {0} /\ SessionTtl \in Nat /\ SessionTtl >= LeaseTtl
  /\ MaxLeft \in Nat /\ MaxLeft >= 2 * LeaseTtl /\ MaxAcquires \in Nat

VARIABLES backend,
          stored, life,    \* the session, and its time before retention may take it
          fence, number,   \* the record of the fence and the counter of its numbers
          lock, tokens,    \* PostgreSQL: the advisory lock, the token each process knows
          purge,           \* PostgreSQL: the processes whose purge has found the session expired
          call,            \* the step of the acquisition or release of each caller
          sure,            \* for how long each caller may take itself for the owner
          last,            \* the caller that acquired last
          upset,           \* what has happened that a fence is not built for
          acquires

sessionVars == <<stored, life>>
postgresVars == <<lock, tokens, purge>>
vars == <<backend, stored, life, fence, number, lock, tokens, purge, call, sure, last, upset,
          acquires>>

NoFence == [token |-> Nobody, left |-> 0]
Unlocked == [by |-> Nobody, depth |-> 0]
Local == backend \in {"memory", "file"}
TheProcess == ProcessOf[CHOOSE d \in Callers : TRUE]
Exists(c) == Local => ProcessOf[c] = TheProcess

\* Mutant: an expiry in the current second counts as past.
HeldBefore == fence.left > 1
Held == fence.left > 0

Goto(c, step) == call' = [call EXCEPT ![c] = step]
Won(c) == sure' = [sure EXCEPT ![c] = LeaseTtl] /\ last' = c /\ acquires' = acquires + 1
MayAcquire(c) ==
  Exists(c) /\ call[c] = "idle" /\ sure[c] = 0 /\ acquires < MaxAcquires

-----------------------------------------------------------------------------
(* In memory, in files, and in the scripts of Redis *)

\* Under the lock of the backend, one step.
TakeEntry(c) ==
  /\ MayAcquire(c) /\ ~Held
  /\ number' = number + 1
  /\ fence' = [token |-> c, left |-> LeaseTtl]
  /\ Won(c)
  /\ UNCHANGED <<backend, sessionVars, postgresVars, call, upset>>

AcquireInMemory(c) == backend = "memory" /\ TakeEntry(c)
AcquireInFile(c)   == backend = "file" /\ TakeEntry(c)

\* Redis: the session is looked for and created first, in calls of their own.
EnsureSession(c) ==
  /\ backend = "redis" /\ MayAcquire(c)
  /\ stored' = TRUE
  /\ life' = IF stored THEN life ELSE SessionTtl
  /\ Goto(c, "script")
  /\ UNCHANGED <<backend, fence, number, postgresVars, sure, upset, last, acquires>>

\* The lease replaces the expiry of the session.
AcquireScript(c) ==
  /\ backend = "redis" /\ call[c] = "script"
  /\ Goto(c, "idle")
  /\ IF Held THEN UNCHANGED <<life, number, fence, sure, last, acquires>>
     ELSE /\ life' = IF stored THEN LeaseTtl ELSE life
          /\ number' = number + 1
          /\ fence' = [token |-> c, left |-> LeaseTtl]
          /\ Won(c)
  /\ UNCHANGED <<backend, stored, postgresVars, upset>>

\* Mutant: the token is not compared.
KnownAny(c) ==
  IF backend = "postgres" THEN tokens[ProcessOf[c]] # Nobody ELSE fence.token # Nobody

Known(c) ==
  IF backend = "postgres" THEN tokens[ProcessOf[c]] = c ELSE fence.token = c

\* Only the token is compared, whether or not the lease has run out.
Renew(c, left) ==
  /\ call[c] = "idle" /\ Known(c)
  /\ left <= MaxLeft
  /\ fence' = [fence EXCEPT !.left = left]
  /\ sure' = [sure EXCEPT ![c] = LeaseTtl]
  /\ upset' = upset \cup (IF sure[c] = 0 THEN {"late"} ELSE {})
  /\ UNCHANGED <<backend, sessionVars, number, postgresVars, call, last, acquires>>

RenewInMemory(c) == backend = "memory" /\ Renew(c, LeaseTtl)
RenewInFile(c)   == backend = "file" /\ Renew(c, LeaseTtl)

\* The script adds to the old expiry.
RenewScript(c) == backend = "redis" /\ Renew(c, fence.left + LeaseTtl)

\* The row is written if there is one.
RenewRow(c) == backend = "postgres" /\ Renew(c, IF stored THEN LeaseTtl ELSE fence.left)

RenewFence(c) == RenewInMemory(c) \/ RenewInFile(c) \/ RenewScript(c) \/ RenewRow(c)

DropEntry(c) ==
  /\ call[c] = "idle" /\ Known(c)
  /\ fence' = NoFence
  /\ sure' = [sure EXCEPT ![c] = 0]
  /\ UNCHANGED <<backend, sessionVars, number, postgresVars, call, upset, last, acquires>>

ReleaseInMemory(c) == backend = "memory" /\ DropEntry(c)
ReleaseInFile(c)   == backend = "file" /\ DropEntry(c)
ReleaseScript(c)   == backend = "redis" /\ DropEntry(c)

ReleaseFence(c) == ReleaseInMemory(c) \/ ReleaseInFile(c) \/ ReleaseScript(c)

-----------------------------------------------------------------------------
(* PostgreSQL, statement by statement *)

LockFree(p) == lock.by \in {Nobody, p}
UnlockedBy(p) ==
  IF lock.by # p THEN lock
  ELSE IF lock.depth = 1 THEN Unlocked ELSE [lock EXCEPT !.depth = @ - 1]

ReadExpiry(c) ==
  /\ backend = "postgres" /\ MayAcquire(c)
  /\ ~(stored /\ Held)
  /\ Goto(c, "lock")
  /\ UNCHANGED <<backend, sessionVars, fence, number, postgresVars, sure, upset, last, acquires>>

\* The lock is reentrant on the connection, that is, in the process.
TryAdvisoryLock(c) ==
  LET p == ProcessOf[c] IN
  /\ call[c] = "lock"
  /\ IF LockFree(p) THEN lock' = [by |-> p, depth |-> lock.depth + 1] /\ Goto(c, "bump")
                    ELSE Goto(c, "idle") /\ UNCHANGED lock
  /\ UNCHANGED <<backend, sessionVars, fence, number, tokens, purge, sure, upset, last, acquires>>

\* Without a row the number is 1 and nothing is written.
BumpNumber(c) ==
  /\ call[c] = "bump"
  /\ IF stored THEN fence' = [fence EXCEPT !.left = LeaseTtl] /\ number' = number + 1
               ELSE UNCHANGED <<fence, number>>
  /\ tokens' = [tokens EXCEPT ![ProcessOf[c]] = c]
  /\ Goto(c, "idle") /\ Won(c)
  /\ UNCHANGED <<backend, sessionVars, lock, purge, upset>>

ReleaseLock(c) ==
  /\ backend = "postgres" /\ call[c] = "idle" /\ Known(c)
  /\ lock' = UnlockedBy(ProcessOf[c])
  /\ sure' = [sure EXCEPT ![c] = 0]
  /\ Goto(c, "clear")
  /\ UNCHANGED <<backend, sessionVars, fence, number, tokens, purge, upset, last, acquires>>

\* The token of the process goes with the expiry, whoever's it is by now.
ClearExpiry(c) ==
  /\ call[c] = "clear"
  /\ fence' = NoFence
  /\ tokens' = [tokens EXCEPT ![ProcessOf[c]] = Nobody]
  /\ Goto(c, "idle")
  /\ UNCHANGED <<backend, sessionVars, number, lock, purge, sure, upset, last, acquires>>

-----------------------------------------------------------------------------
(* The session *)

CreateSession ==
  /\ ~stored
  /\ stored' = TRUE /\ life' = SessionTtl
  /\ UNCHANGED <<backend, fence, number, postgresVars, call, sure, upset, last, acquires>>

MutateSession ==
  /\ stored /\ life < SessionTtl
  /\ life' = SessionTtl
  /\ UNCHANGED <<backend, stored, fence, number, postgresVars, call, sure, upset, last, acquires>>

Wanted == \/ \E c \in Callers : sure[c] > 0 \/ call[c] # "idle"
          \/ \E p \in Processes : tokens[p] # Nobody

\* Deletion does not look at the fence. A file backend keeps it; the row of PostgreSQL
\* takes expiry and number with it.
DeleteSession(p) ==
  /\ stored
  /\ stored' = FALSE /\ life' = 0
  /\ IF backend = "file" THEN UNCHANGED <<fence, number>>
                         ELSE fence' = NoFence /\ number' = 0
  /\ lock' = IF backend = "postgres" THEN UnlockedBy(p) ELSE lock
  /\ upset' = IF Wanted THEN upset \cup {"delete"} ELSE upset
  /\ UNCHANGED <<backend, tokens, purge, call, sure, last, acquires>>

Sweepable == life = 0 /\ fence.token = Nobody

\* In memory and in files any entry of a fence, even an expired one, keeps the session.
Sweep ==
  /\ Local /\ stored /\ Sweepable
  /\ stored' = FALSE
  /\ UNCHANGED <<backend, life, fence, number, postgresVars, call, sure, upset, last, acquires>>

\* PostgreSQL looks at the expiry, tries the lock and lets go of it again, and deletes.
PurgeLook(p) ==
  /\ backend = "postgres" /\ p \notin purge
  /\ stored /\ life = 0 /\ ~Held /\ LockFree(p)
  /\ purge' = purge \cup {p}
  /\ UNCHANGED <<backend, sessionVars, fence, number, lock, tokens, call, sure, upset, last, acquires>>

PurgeDelete(p) ==
  /\ p \in purge
  /\ purge' = purge \ {p}
  /\ stored' = FALSE /\ life' = 0
  /\ fence' = NoFence /\ number' = 0
  /\ UNCHANGED <<backend, lock, tokens, call, sure, upset, last, acquires>>

-----------------------------------------------------------------------------
(* Time and failures *)

Less(n) == IF n > 0 THEN n - 1 ELSE 0

\* A lease is long against a call. Redis drops a session when its expiry has come. An
\* expiry further back than LeaseTtl is not told apart (bound of the model).
Tick ==
  /\ \A c \in Callers : call[c] = "idle"
  /\ purge = {}
  /\ life' = Less(life)
  /\ stored' = (stored /\ (backend = "redis" => life > 1))
  /\ fence' = IF fence # NoFence /\ fence.left > -LeaseTtl THEN [fence EXCEPT !.left = @ - 1] ELSE fence
  /\ sure' = [c \in Callers |-> Less(sure[c])]
  /\ UNCHANGED <<backend, number, postgresVars, call, upset, last, acquires>>

\* The connection goes and its locks with it; statements go on on a new one.
DropConnection(p) ==
  /\ backend = "postgres" /\ "drop" \notin upset
  /\ lock' = IF lock.by = p THEN Unlocked ELSE lock
  /\ purge' = purge \ {p}
  /\ upset' = upset \cup {"drop"}
  /\ UNCHANGED <<backend, sessionVars, fence, number, tokens, call, sure, last, acquires>>

\* A process dies with its callers and starts again.
Restart(p) ==
  /\ Local => p = TheProcess
  /\ call' = [c \in Callers |-> IF ProcessOf[c] = p THEN "idle" ELSE call[c]]
  /\ sure' = [c \in Callers |-> IF ProcessOf[c] = p THEN 0 ELSE sure[c]]
  /\ tokens' = [tokens EXCEPT ![p] = Nobody]
  /\ purge' = purge \ {p}
  /\ lock' = IF lock.by = p THEN Unlocked ELSE lock
  /\ IF Local THEN fence' = NoFence /\ number' = 0 ELSE UNCHANGED <<fence, number>>
  /\ stored' = (stored /\ backend # "memory")
  /\ life' = IF backend = "memory" THEN 0 ELSE life
  /\ UNCHANGED <<backend, upset, last, acquires>>

Init ==
  /\ backend \in {"memory", "file", "redis", "postgres"}
  /\ stored = FALSE /\ life = 0
  /\ fence = NoFence /\ number = 0
  /\ lock = Unlocked /\ tokens = [p \in Processes |-> Nobody]
  /\ purge = {}
  /\ call = [c \in Callers |-> "idle"] /\ sure = [c \in Callers |-> 0]
  /\ last = Nobody /\ upset = {} /\ acquires = 0

Next ==
  \/ \E c \in Callers :
       \/ AcquireInMemory(c) \/ AcquireInFile(c) \/ EnsureSession(c) \/ AcquireScript(c)
       \/ RenewFence(c) \/ ReleaseFence(c)
       \/ ReadExpiry(c) \/ TryAdvisoryLock(c) \/ BumpNumber(c)
       \/ ReleaseLock(c) \/ ClearExpiry(c)
  \/ \E p \in Processes :
       DeleteSession(p) \/ PurgeLook(p) \/ PurgeDelete(p) \/ DropConnection(p) \/ Restart(p)
  \/ CreateSession \/ MutateSession \/ Sweep \/ Tick

Spec == Init /\ [][Next]_vars

-----------------------------------------------------------------------------
\* The variables hold what the backends store in them.
TypeOK ==
  /\ backend \in {"memory", "file", "redis", "postgres"}
  /\ stored \in BOOLEAN /\ life \in 0 .. SessionTtl
  /\ fence \in [token : Callers \cup {Nobody}, left : -LeaseTtl .. MaxLeft] /\ number \in Nat
  /\ lock \in {Unlocked} \cup [by : Processes, depth : Nat \ {0}]
  /\ tokens \in [Processes -> Callers \cup {Nobody}] /\ purge \subseteq Processes
  /\ call \in [Callers -> {"idle", "script", "lock", "bump", "clear"}]
  /\ sure \in [Callers -> 0 .. LeaseTtl] /\ last \in Callers \cup {Nobody}
  /\ upset \subseteq {"late", "delete", "drop"} /\ acquires \in Nat

\* Two callers are never the owner of the session at once, through expiry, take-over, late
\* releases and restarts, unless the session was deleted under its owner (a file backend
\* keeps even that fence). On Redis this is for owners that renew in time: a renewal that
\* comes late extends an expiry that has passed. On PostgreSQL it is for callers of
\* different processes whose connections hold: two calls of one process pass the look at
\* the expiry together and the lock lets both in.
Upset ==
  CASE backend = "memory" -> "delete" \in upset
    [] backend = "file" -> FALSE
    [] backend = "redis" -> upset \cap {"delete", "late"} # {}
    [] backend = "postgres" -> upset \cap {"delete", "drop"} # {}
Excused(c, d) == Upset \/ (backend = "postgres" /\ ProcessOf[c] = ProcessOf[d])
OneOwner ==
  \A c, d \in Callers : c # d /\ sure[c] > 0 /\ sure[d] > 0 => Excused(c, d)

\* Whoever believes what, only the caller that acquired last can renew or release: a
\* former owner, whose lease ran out and was taken over, is refused. On PostgreSQL again
\* for different processes whose connections hold, and for the decision only: the release
\* unlocks first, and its second statement clears whatever expiry it then finds.
OnlyTheLastActs ==
  [][\A c \in Callers :
       RenewFence(c) \/ ReleaseFence(c) \/ ReleaseLock(c) =>
         last = c \/ (backend = "postgres" /\ Excused(c, last))]_vars

-----------------------------------------------------------------------------
(* The inductive invariant behind the two properties                       *)

\* In one place, the entry names who acquired last and lives as long as that one is sure.
EntryKept ==
  backend # "postgres" =>
    /\ fence.token \in {Nobody, last} /\ purge = {}
    /\ \A c \in Callers : call[c] \in {"idle", "script"}
    /\ \A c \in Callers : fence.token = c \/ sure[c] > 0 => Exists(c)
    /\ Upset \/ \A c \in Callers : sure[c] > 0 => fence.token = c /\ fence.left >= sure[c]

\* The callers of a process whose acquisition has locked and whose release has not unlocked.
\* One that is not sure any more is among them while its token is the process's.
Holders(p) ==
  {c \in Callers : /\ ProcessOf[c] = p
                   /\ \/ sure[c] > 0 \/ call[c] = "bump"
                      \/ tokens[p] = c /\ call[c] # "clear"}

\* In PostgreSQL the lock is as deep as its process has holders, and no other process has any;
\* who acquired last is of that process.
LockKept ==
  backend = "postgres" /\ ~Upset =>
    /\ \A p \in Processes : Holders(p) # {} => lock.by = p /\ lock.depth >= Cardinality(Holders(p))
    /\ \A c \in Callers : sure[c] > 0 \/ (tokens[ProcessOf[c]] = c /\ call[c] # "clear") =>
         last \in Callers /\ ProcessOf[last] = ProcessOf[c]

LeaseInv == EntryKept /\ LockKept
=============================================================================
