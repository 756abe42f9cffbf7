---------------------------- MODULE StoresProofs ----------------------------
(***************************************************************************)
(* Theorems about Stores: whichever backend an agent was built with, any   *)
(* number of sessions, runs and keys, any order of its operations, files,  *)
(* scripts, expiries and crashes.                                          *)
(***************************************************************************)
EXTENDS Stores, FiniteSetTheorems, TLAPS

-----------------------------------------------------------------------------
(* Records in a store                                                      *)

\* Time only changes the age of a record.
LEMMA OlderRecord ==
  ASSUME NEW r, NEW age \in Ages
  PROVE  /\ r \in SessionRecord =>
              /\ [r EXCEPT !.idle = age] \in SessionRecord
              /\ [r EXCEPT !.idle = age].rev = r.rev /\ [r EXCEPT !.idle = age].len = r.len
         /\ r \in RunRecord =>
              /\ [r EXCEPT !.idle = age] \in RunRecord
              /\ [r EXCEPT !.idle = age].sid = r.sid /\ [r EXCEPT !.idle = age].status = r.status
         /\ r \in KeyRecord =>
              /\ [r EXCEPT !.idle = age] \in KeyRecord
              /\ [r EXCEPT !.idle = age].sid = r.sid /\ [r EXCEPT !.idle = age].done = r.done
         /\ r \in SessionRecord \cup RunRecord \cup KeyRecord => [r EXCEPT !.idle = age].idle = age
BY DEF SessionRecord, RunRecord, KeyRecord

LEMMA AgeGrows ==
  ASSUME NEW age \in Ages
  PROVE  /\ (IF age > Ttl THEN age ELSE age + 1) \in Ages
         /\ (IF age > Ttl THEN age ELSE age + 1) >= Ttl => age + 1 >= Ttl
BY StoreAssumption DEF Ages

LEMMA OlderIs ==
  ASSUME NEW f
  PROVE  /\ DOMAIN Older(f) = DOMAIN f
         /\ \A x \in DOMAIN f : Older(f)[x] = [f[x] EXCEPT !.idle = IF @ > Ttl THEN @ ELSE @ + 1]
BY DEF Older

LEMMA OlderSessions ==
  ASSUME StoreTypeOK
  PROVE  /\ Older(sess) \in [DOMAIN sess -> SessionRecord]
         /\ \A s \in DOMAIN sess : /\ Older(sess)[s].rev = sess[s].rev /\ Older(sess)[s].len = sess[s].len
                                   /\ Older(sess)[s].idle >= Ttl => sess[s].idle + 1 >= Ttl
<1>1. ASSUME NEW s \in DOMAIN sess
      PROVE  /\ Older(sess)[s] \in SessionRecord
             /\ Older(sess)[s].rev = sess[s].rev /\ Older(sess)[s].len = sess[s].len
             /\ Older(sess)[s].idle >= Ttl => sess[s].idle + 1 >= Ttl
  <2>1. sess[s] \in SessionRecord /\ sess[s].idle \in Ages
    BY DEF StoreTypeOK, SessionRecord
  <2>2. PICK age \in Ages : /\ age = (IF sess[s].idle > Ttl THEN sess[s].idle ELSE sess[s].idle + 1)
                            /\ age >= Ttl => sess[s].idle + 1 >= Ttl
    BY <2>1, AgeGrows
  <2>3. Older(sess)[s] = [sess[s] EXCEPT !.idle = age]
    BY <2>2, OlderIs
  <2> QED BY <2>1, <2>2, <2>3, OlderRecord
<1>2. Older(sess) = [s \in DOMAIN sess |-> Older(sess)[s]]
  BY DEF Older
<1> QED BY <1>1, <1>2

LEMMA OlderRuns ==
  ASSUME StoreTypeOK
  PROVE  /\ Older(runs) \in [DOMAIN runs -> RunRecord]
         /\ \A r \in DOMAIN runs : Older(runs)[r].sid = runs[r].sid /\ Older(runs)[r].status = runs[r].status
<1>1. ASSUME NEW r \in DOMAIN runs
      PROVE  /\ Older(runs)[r] \in RunRecord
             /\ Older(runs)[r].sid = runs[r].sid /\ Older(runs)[r].status = runs[r].status
  <2>1. runs[r] \in RunRecord /\ runs[r].idle \in Ages
    BY DEF StoreTypeOK, RunRecord
  <2>2. PICK age \in Ages : age = (IF runs[r].idle > Ttl THEN runs[r].idle ELSE runs[r].idle + 1)
    BY <2>1, AgeGrows
  <2>3. Older(runs)[r] = [runs[r] EXCEPT !.idle = age]
    BY <2>2, OlderIs
  <2> QED BY <2>1, <2>3, OlderRecord
<1>2. Older(runs) = [r \in DOMAIN runs |-> Older(runs)[r]]
  BY DEF Older
<1> QED BY <1>1, <1>2

LEMMA OlderKeys ==
  ASSUME StoreTypeOK
  PROVE  /\ Older(keys) \in [DOMAIN keys -> KeyRecord]
         /\ \A k \in DOMAIN keys : Older(keys)[k].sid = keys[k].sid /\ Older(keys)[k].done = keys[k].done
<1>1. ASSUME NEW k \in DOMAIN keys
      PROVE  /\ Older(keys)[k] \in KeyRecord
             /\ Older(keys)[k].sid = keys[k].sid /\ Older(keys)[k].done = keys[k].done
  <2>1. keys[k] \in KeyRecord /\ keys[k].idle \in Ages
    BY DEF StoreTypeOK, KeyRecord
  <2>2. PICK age \in Ages : age = (IF keys[k].idle > Ttl THEN keys[k].idle ELSE keys[k].idle + 1)
    BY <2>1, AgeGrows
  <2>3. Older(keys)[k] = [keys[k] EXCEPT !.idle = age]
    BY <2>2, OlderIs
  <2> QED BY <2>1, <2>3, OlderRecord
<1>2. Older(keys) = [k \in DOMAIN keys |-> Older(keys)[k]]
  BY DEF Older
<1> QED BY <1>1, <1>2

-----------------------------------------------------------------------------
(* What the contract allows, in the words of Stores                        *)

Strict == backend # "redis"
Listed == IF backend = "redis" THEN DOMAIN index ELSE Runs

SessionMay(s) ==
  \/ s \notin DOMAIN sess /\ s \notin DOMAIN sess'
  \/ s \notin DOMAIN sess /\ s \in DOMAIN sess' /\ sess'[s] = NewSession
  \/ /\ s \in DOMAIN sess /\ s \notin DOMAIN sess'
     /\ Live(s) \cap Listed = {} \/ (~Strict /\ sess[s].idle + 1 >= Ttl)
  \/ /\ s \in DOMAIN sess /\ s \in DOMAIN sess'
     /\ \/ sess'[s].rev = sess[s].rev /\ sess'[s].len = sess[s].len
        \/ \E n \in 1 .. 2 : sess'[s] = Appended(sess[s], n)
        \/ \E keep \in 1 .. sess[s].rev : sess'[s] = Shortened(sess[s], keep)

Dropped(r) ==
  /\ runs[r].status = "ended"
  /\ \/ runs[r].sid \notin DOMAIN sess'
     \/ runs[r].idle >= Ttl
     \/ Cardinality(RunsOf(runs[r].sid)) >= MaxRuns

RunMay(r) ==
  \/ r \notin DOMAIN runs /\ r \notin DOMAIN runs'
  \/ /\ r \notin DOMAIN runs /\ r \in DOMAIN runs'
     /\ \/ runs'[r].status = "live" /\ runs'[r].idle = 0 /\ runs'[r].sid \in DOMAIN sess'
        \/ ~Strict /\ r \notin Listed'
  \/ r \in DOMAIN runs /\ r \notin DOMAIN runs' /\ Dropped(r)
  \/ r \in DOMAIN runs /\ r \in DOMAIN runs' /\ runs'[r].sid = runs[r].sid

KeyMay(k) ==
  \/ k \notin DOMAIN keys
  \/ k \notin DOMAIN keys'
  \/ keys'[k].sid = keys[k].sid /\ (keys[k].done => keys'[k].done)

\* The modules of a backend and of the contract count as this one does.
LEMMA SameCardinality ==
  ASSUME NEW S
  PROVE  /\ Contract!Cardinality(S) = Cardinality(S) /\ Memory!Cardinality(S) = Cardinality(S)
         /\ File!Cardinality(S) = Cardinality(S) /\ Redis!Cardinality(S) = Cardinality(S)
BY DEF Contract!Cardinality, Memory!Cardinality, File!Cardinality, Redis!Cardinality, Cardinality

LEMMA ContractAllows ==
  ASSUME \A s \in Sessions : SessionMay(s), \A r \in Runs : RunMay(r), \A k \in Keys : KeyMay(k),
         backend' = backend
  PROVE  Contract!Next
<1>1. ASSUME NEW s \in Sessions PROVE Contract!SessionStep(s)
  <2>1. /\ Contract!NewSession = NewSession /\ Contract!Live(s) = Live(s)
        /\ \A n : Contract!Appended(sess[s], n) = Appended(sess[s], n)
        /\ \A n : Contract!Shortened(sess[s], n) = Shortened(sess[s], n)
    BY DEF Contract!NewSession, NewSession, Contract!Live, Live, Contract!RunsOf, RunsOf,
           Contract!Ended, Ended, Contract!Appended, Appended, Contract!Shortened, Shortened
  <2> QED BY <2>1 DEF SessionMay, Contract!SessionStep, Contract!Stored, Strict, Listed
<1>2. ASSUME NEW r \in Runs PROVE Contract!RunStep(r)
  <2>1. Contract!RunsOf(runs[r].sid) = RunsOf(runs[r].sid)
    BY DEF Contract!RunsOf, RunsOf
  <2> QED BY <2>1, SameCardinality DEF RunMay, Dropped, Contract!RunStep, Contract!Stored, Strict, Listed
<1>3. ASSUME NEW k \in Keys PROVE Contract!KeyStep(k)
  BY DEF KeyMay, Contract!KeyStep, Contract!Stored
<1> QED BY <1>1, <1>2, <1>3 DEF Contract!Next

-----------------------------------------------------------------------------
(* What the backends do to sessions, runs and keys                         *)

SessionsTyped == DOMAIN sess \subseteq Sessions /\ sess \in [DOMAIN sess -> SessionRecord]
RunsTyped == DOMAIN runs \subseteq Runs /\ runs \in [DOMAIN runs -> RunRecord]
KeysTyped == DOMAIN keys \subseteq Keys /\ keys \in [DOMAIN keys -> KeyRecord]

Creates(s) == s \in Sessions \ DOMAIN sess /\ sess' = With(sess, s, NewSession)
Appends(s, n) ==
  s \in DOMAIN sess /\ n \in 1 .. 2 /\ Room(sess[s], n) /\ sess' = [sess EXCEPT ![s] = Appended(@, n)]
Shortens(s, keep) ==
  /\ s \in DOMAIN sess /\ keep \in 1 .. MaxRevision /\ sess[s].rev > keep
  /\ sess' = [sess EXCEPT ![s] = Shortened(@, keep)]
Deletes(S) == sess' = Without(sess, S) /\ \A s \in S \cap DOMAIN sess : Live(s) \cap Listed = {}
Passes(S) ==
  /\ sess' = Without(Older(sess), S)
  /\ \A s \in S \cap DOMAIN sess : ~Strict /\ Older(sess)[s].idle >= Ttl

SessionsMove ==
  \/ sess' = sess
  \/ \E s : Creates(s) \/ (\E n : Appends(s, n)) \/ (\E keep : Shortens(s, keep))
  \/ \E S : Deletes(S) \/ Passes(S)

LEMMA SessionRecords ==
  /\ NewSession \in SessionRecord
  /\ \A record \in SessionRecord, n \in 1 .. 2 : Room(record, n) => Appended(record, n) \in SessionRecord
  /\ \A record \in SessionRecord, keep \in 1 .. MaxRevision :
       record.rev > keep => Shortened(record, keep) \in SessionRecord /\ keep \in 1 .. record.rev
<1>0. MaxEvents \in Nat /\ Ttl \in Nat /\ MaxRevision \in Nat \ {0} /\ 0 \in Ages
  BY StoreAssumption DEF MaxEvents, Ages
<1>1. NewSession \in SessionRecord
  BY <1>0 DEF NewSession, SessionRecord
<1>2. ASSUME NEW record \in SessionRecord, NEW n \in 1 .. 2, Room(record, n)
      PROVE  Appended(record, n) \in SessionRecord
  <2>1. record.rev \in 1 .. MaxRevision /\ record.len \in 0 .. MaxEvents
    BY DEF SessionRecord
  <2>2. record.rev + 1 \in 1 .. MaxRevision /\ record.len + n \in 0 .. MaxEvents
    BY <1>0, <1>2, <2>1 DEF Room
  <2> QED BY <1>0, <2>2 DEF Appended, SessionRecord
<1>3. ASSUME NEW record \in SessionRecord, NEW keep \in 1 .. MaxRevision, record.rev > keep
      PROVE  Shortened(record, keep) \in SessionRecord /\ keep \in 1 .. record.rev
  <2>1. record.rev \in 1 .. MaxRevision /\ record.len \in 0 .. MaxEvents
    BY DEF SessionRecord
  <2>2. keep \in 1 .. record.rev
    BY <1>0, <1>3, <2>1
  <2>3. PICK len \in 0 .. MaxEvents :
          len = (IF record.len > record.rev - keep THEN record.len - (record.rev - keep) ELSE 0)
    BY <1>0, <1>3, <2>1
  <2>4. Shortened(record, keep) = [record EXCEPT !.rev = keep, !.len = len]
    BY <2>3 DEF Shortened, SessionRecord
  <2> QED BY <2>2, <2>3, <2>4 DEF SessionRecord
<1> QED BY <1>1, <1>2, <1>3

LEMMA SessionsAllowed ==
  ASSUME StoreTypeOK, SessionsMove
  PROVE  SessionsTyped' /\ \A s \in Sessions : SessionMay(s)
<1>0. DOMAIN sess \subseteq Sessions /\ sess \in [DOMAIN sess -> SessionRecord]
  BY DEF StoreTypeOK
<1>1. CASE sess' = sess
  BY <1>0, <1>1 DEF SessionsTyped, SessionMay
<1>2. ASSUME NEW s, Creates(s)
      PROVE  SessionsTyped' /\ \A t \in Sessions : SessionMay(t)
  <2>1. s \in Sessions /\ s \notin DOMAIN sess /\ sess' = With(sess, s, NewSession)
    BY <1>2 DEF Creates
  <2>2. /\ DOMAIN sess' = DOMAIN sess \cup {s} /\ sess'[s] = NewSession
        /\ \A t \in DOMAIN sess : sess'[t] = sess[t]
    BY <2>1 DEF With
  <2>3. sess' \in [DOMAIN sess' -> SessionRecord]
    BY <1>0, <2>1, SessionRecords DEF With
  <2> QED BY <1>0, <2>1, <2>2, <2>3 DEF SessionsTyped, SessionMay
<1>3. ASSUME NEW s, NEW n, Appends(s, n)
      PROVE  SessionsTyped' /\ \A t \in Sessions : SessionMay(t)
  <2>1. Appended(sess[s], n) \in SessionRecord /\ n \in 1 .. 2
    BY <1>0, <1>3, SessionRecords DEF Appends
  <2> QED BY <1>0, <1>3, <2>1 DEF Appends, SessionsTyped, SessionMay
<1>4. ASSUME NEW s, NEW keep, Shortens(s, keep)
      PROVE  SessionsTyped' /\ \A t \in Sessions : SessionMay(t)
  <2>1. Shortened(sess[s], keep) \in SessionRecord /\ keep \in 1 .. sess[s].rev
    BY <1>0, <1>4, SessionRecords DEF Shortens
  <2> QED BY <1>0, <1>4, <2>1 DEF Shortens, SessionsTyped, SessionMay
<1>5. ASSUME NEW S, Deletes(S)
      PROVE  SessionsTyped' /\ \A t \in Sessions : SessionMay(t)
  <2>1. /\ DOMAIN sess' = DOMAIN sess \ S /\ \A t \in DOMAIN sess' : sess'[t] = sess[t]
        /\ sess' \in [DOMAIN sess' -> SessionRecord]
    BY <1>0, <1>5 DEF Deletes, Without
  <2> QED BY <1>0, <1>5, <2>1 DEF Deletes, SessionsTyped, SessionMay
<1>6. ASSUME NEW S, Passes(S)
      PROVE  SessionsTyped' /\ \A t \in Sessions : SessionMay(t)
  <2>1. /\ DOMAIN Older(sess) = DOMAIN sess /\ Older(sess) \in [DOMAIN Older(sess) -> SessionRecord]
        /\ sess' = Without(Older(sess), S)
    BY <1>6, OlderIs, OlderSessions DEF Passes
  <2>2. /\ DOMAIN sess' = DOMAIN sess \ S /\ \A t \in DOMAIN sess' : sess'[t] = Older(sess)[t]
        /\ sess' \in [DOMAIN sess' -> SessionRecord]
    BY <2>1 DEF Without
  <2> QED BY <1>0, <1>6, <2>2, OlderSessions DEF Passes, SessionsTyped, SessionMay
<1> QED BY <1>1, <1>2, <1>3, <1>4, <1>5, <1>6 DEF SessionsMove

RunsShrink ==
  /\ DOMAIN runs' \subseteq DOMAIN runs /\ runs' \in [DOMAIN runs' -> RunRecord]
  /\ \A r \in DOMAIN runs' : runs'[r].sid = runs[r].sid
  /\ \A r \in DOMAIN runs \ DOMAIN runs' : Dropped(r)

\* A run is admitted; those in E made room.
RunsGrow(s, r, E) ==
  /\ s \in Sessions \cap DOMAIN sess' /\ r \in Runs \ DOMAIN runs
  /\ runs' = With(Without(runs, E), r, NewRun(s))
  /\ \A e \in E \cap DOMAIN runs : Dropped(e)
  /\ Strict => Cardinality(RunsOf(s) \ E) < MaxRuns

RunsReturn(r, record) ==
  /\ ~Strict /\ r \in Runs \ DOMAIN runs /\ r \notin Listed'
  /\ record \in RunRecord /\ runs' = With(runs, r, record)

RunsMove ==
  \/ RunsShrink
  \/ \E s, r, E : RunsGrow(s, r, E)
  \/ \E r, record : RunsReturn(r, record)

LEMMA NewRecords ==
  ASSUME NEW s \in Sessions
  PROVE  /\ NewRun(s) \in RunRecord /\ NewRun(s).sid = s /\ NewRun(s).status = "live"
         /\ NewRun(s).idle = 0
         /\ NewKey(s) \in KeyRecord /\ NewKey(s).sid = s
<1>1. 0 \in Ages
  BY StoreAssumption DEF Ages
<1> QED BY <1>1 DEF NewRun, RunRecord, Statuses, NewKey, KeyRecord

LEMMA RunsAllowed ==
  ASSUME StoreTypeOK, IsFiniteSet(DOMAIN runs), RunsMove
  PROVE  RunsTyped' /\ IsFiniteSet(DOMAIN runs') /\ \A r \in Runs : RunMay(r)
<1>0. DOMAIN runs \subseteq Runs /\ runs \in [DOMAIN runs -> RunRecord]
  BY DEF StoreTypeOK
<1>1. CASE RunsShrink
  <2>1. IsFiniteSet(DOMAIN runs')
    BY <1>1, FS_Subset DEF RunsShrink
  <2> QED BY <1>0, <1>1, <2>1 DEF RunsShrink, RunsTyped, RunMay
<1>2. ASSUME NEW r \in Runs \ DOMAIN runs, NEW record \in RunRecord, NEW E,
             runs' = With(Without(runs, E), r, record), \A e \in E \cap DOMAIN runs : Dropped(e),
             \/ record.status = "live" /\ record.idle = 0 /\ record.sid \in DOMAIN sess'
             \/ ~Strict /\ r \notin Listed'
      PROVE  RunsTyped' /\ IsFiniteSet(DOMAIN runs') /\ \A q \in Runs : RunMay(q)
  <2>1. /\ DOMAIN runs' = (DOMAIN runs \ E) \cup {r} /\ runs'[r] = record
        /\ \A q \in DOMAIN runs \ E : runs'[q] = runs[q]
    BY <1>2 DEF With, Without
  <2>2. runs' \in [DOMAIN runs' -> RunRecord]
    BY <1>0, <1>2 DEF With, Without
  <2>3. IsFiniteSet(DOMAIN runs')
    <3>1. IsFiniteSet(DOMAIN runs \ E)
      BY FS_Subset
    <3> QED BY <2>1, <3>1, FS_AddElement
  <2> QED BY <1>0, <1>2, <2>1, <2>2, <2>3 DEF RunsTyped, RunMay
<1>3. ASSUME NEW s, NEW r, NEW E, RunsGrow(s, r, E)
      PROVE  RunsTyped' /\ IsFiniteSet(DOMAIN runs') /\ \A q \in Runs : RunMay(q)
  <2>1. /\ NewRun(s) \in RunRecord /\ NewRun(s).status = "live" /\ NewRun(s).idle = 0
        /\ NewRun(s).sid \in DOMAIN sess'
    BY <1>3, NewRecords DEF RunsGrow
  <2> QED BY <1>2, <1>3, <2>1 DEF RunsGrow
<1>4. ASSUME NEW r, NEW record, RunsReturn(r, record)
      PROVE  RunsTyped' /\ IsFiniteSet(DOMAIN runs') /\ \A q \in Runs : RunMay(q)
  <2>1. Without(runs, {}) = runs
    BY <1>0 DEF Without
  <2> QED BY <1>2, <1>4, <2>1 DEF RunsReturn
<1> QED BY <1>1, <1>3, <1>4 DEF RunsMove

\* A session holds no more runs than before, or room was made for one more. The same is
\* said of the keys, with their own limit.
LEMMA NoMore ==
  ASSUME NEW U, IsFiniteSet(U), NEW T \in SUBSET U, NEW limit \in Nat, Cardinality(U) <= limit
  PROVE  Cardinality(T) <= limit
BY FS_Subset, FS_CardinalityType

LEMMA OneMore ==
  ASSUME NEW U, IsFiniteSet(U), NEW r, NEW T \in SUBSET (U \cup {r}), NEW limit \in Nat,
         Cardinality(U) < limit
  PROVE  Cardinality(T) <= limit
<1>1. /\ IsFiniteSet(U \cup {r}) /\ Cardinality(U) \in Nat
      /\ Cardinality(U \cup {r}) = IF r \in U THEN Cardinality(U) ELSE Cardinality(U) + 1
  BY FS_AddElement, FS_CardinalityType
<1>2. Cardinality(U \cup {r}) <= limit
  BY <1>1
<1> QED BY <1>1, <1>2, NoMore

LEMMA StrictRunsCount ==
  ASSUME StoreTypeOK, IsFiniteSet(DOMAIN runs), Strict, RunsMove,
         \A s \in Sessions : Cardinality(RunsOf(s)) <= MaxRuns
  PROVE  \A s \in Sessions : Cardinality(RunsOf(s)') <= MaxRuns
<1> SUFFICES ASSUME NEW s \in Sessions
             PROVE  Cardinality(RunsOf(s)') <= MaxRuns
  OBVIOUS
<1>1. IsFiniteSet(RunsOf(s)) /\ Cardinality(RunsOf(s)) <= MaxRuns /\ MaxRuns \in Nat
  BY FS_Subset, StoreAssumption DEF RunsOf
<1>2. CASE RunsShrink
  <2>1. RunsOf(s)' \subseteq RunsOf(s)
    BY <1>2 DEF RunsShrink, RunsOf
  <2> QED BY <1>1, <2>1, NoMore
<1>3. ASSUME NEW t, NEW r, NEW E, RunsGrow(t, r, E)
      PROVE  Cardinality(RunsOf(s)') <= MaxRuns
  <2>1. /\ DOMAIN runs' = (DOMAIN runs \ E) \cup {r} /\ runs'[r].sid = t
        /\ \A q \in DOMAIN runs \ E : q # r /\ runs'[q] = runs[q]
    BY <1>3, NewRecords DEF RunsGrow, With, Without
  <2>2. CASE s = t
    <3>1. RunsOf(s)' \subseteq (RunsOf(s) \ E) \cup {r}
      BY <2>1 DEF RunsOf
    <3>2. IsFiniteSet(RunsOf(s) \ E) /\ Cardinality(RunsOf(s) \ E) < MaxRuns
      BY <1>1, <1>3, <2>2, FS_Subset DEF RunsGrow
    <3> QED BY <1>1, <3>1, <3>2, OneMore
  <2>3. CASE s # t
    <3>1. RunsOf(s)' \subseteq RunsOf(s)
      BY <2>1, <2>3 DEF RunsOf
    <3> QED BY <1>1, <3>1, NoMore
  <2> QED BY <2>2, <2>3
<1> QED BY <1>2, <1>3 DEF RunsMove, RunsReturn

LEMMA StrictRunsHaveSessions ==
  ASSUME StoreTypeOK, Strict, RunsMove, LiveRunHasSession, backend' = backend,
         revived' = Stranded' \cap (revived \cup HadEnded),
         \A s \in Sessions : SessionMay(s)
  PROVE  LiveRunHasSession'
<1>0. DOMAIN runs \subseteq Runs /\ \A r \in DOMAIN runs : runs[r] \in RunRecord
  BY DEF StoreTypeOK
<1>1. ASSUME NEW r \in DOMAIN runs, runs[r].sid \notin DOMAIN sess'
      PROVE  r \in revived \cup HadEnded
  <2>1. CASE runs[r].status = "live"
    <3>1. r \in Live(runs[r].sid) \cap Listed /\ runs[r].sid \in Sessions
      BY <1>0, <2>1 DEF Live, RunsOf, Ended, Strict, Listed, RunRecord
    <3>2. runs[r].sid \notin DOMAIN sess
      BY <1>1, <3>1 DEF SessionMay
    <3> QED BY <2>1, <3>2 DEF LiveRunHasSession, Stranded, Strict
  <2>2. CASE runs[r].status = "ended"
    BY <2>2 DEF HadEnded
  <2> QED BY <1>0, <2>1, <2>2 DEF RunRecord, Statuses
<1>2. CASE RunsShrink
  <2>1. \A r \in Stranded' : r \in DOMAIN runs /\ runs[r].sid \notin DOMAIN sess'
    BY <1>2 DEF RunsShrink, Stranded
  <2> QED BY <1>1, <2>1 DEF LiveRunHasSession
<1>3. ASSUME NEW s, NEW r, NEW E, RunsGrow(s, r, E)
      PROVE  LiveRunHasSession'
  <2>1. /\ DOMAIN runs' = (DOMAIN runs \ E) \cup {r} /\ runs'[r].sid = s /\ s \in DOMAIN sess'
        /\ \A q \in DOMAIN runs \ E : q # r /\ runs'[q] = runs[q]
    BY <1>3, NewRecords DEF RunsGrow, With, Without
  <2>2. \A q \in Stranded' : q \in DOMAIN runs /\ runs[q].sid \notin DOMAIN sess'
    BY <2>1 DEF Stranded
  <2> QED BY <1>1, <2>2 DEF LiveRunHasSession
<1> QED BY <1>2, <1>3 DEF RunsMove, RunsReturn

KeysShrink ==
  /\ DOMAIN keys' \subseteq DOMAIN keys /\ keys' \in [DOMAIN keys' -> KeyRecord]
  /\ \A k \in DOMAIN keys' : keys'[k].sid = keys[k].sid /\ (keys[k].done => keys'[k].done)

KeysGrow(s, k) ==
  /\ s \in Sessions /\ k \in Keys \ DOMAIN keys
  /\ keys' = With(keys, k, NewKey(s))
  /\ Strict => Cardinality(KeysOf(s)) < MaxKeys

\* A key is finished by an update that has read it.
KeysReturn(k, record) ==
  /\ ~Strict /\ k \in Keys /\ record \in KeyRecord /\ record.done
  /\ k \in DOMAIN keys => record.sid = keys[k].sid
  /\ keys' = With(keys, k, record)

KeysMove == KeysShrink \/ (\E s, k : KeysGrow(s, k)) \/ (\E k, record : KeysReturn(k, record))

LEMMA KeysAllowed ==
  ASSUME StoreTypeOK, IsFiniteSet(DOMAIN keys), KeysMove
  PROVE  KeysTyped' /\ IsFiniteSet(DOMAIN keys') /\ \A k \in Keys : KeyMay(k)
<1>0. DOMAIN keys \subseteq Keys /\ keys \in [DOMAIN keys -> KeyRecord]
  BY DEF StoreTypeOK
<1>1. CASE KeysShrink
  <2>1. IsFiniteSet(DOMAIN keys')
    BY <1>1, FS_Subset DEF KeysShrink
  <2> QED BY <1>0, <1>1, <2>1 DEF KeysShrink, KeysTyped, KeyMay
<1>2. ASSUME NEW k \in Keys, NEW record \in KeyRecord, keys' = With(keys, k, record),
             k \in DOMAIN keys => record.sid = keys[k].sid /\ (keys[k].done => record.done)
      PROVE  KeysTyped' /\ IsFiniteSet(DOMAIN keys') /\ \A q \in Keys : KeyMay(q)
  <2>1. /\ DOMAIN keys' = DOMAIN keys \cup {k} /\ keys'[k] = record
        /\ \A q \in DOMAIN keys \ {k} : keys'[q] = keys[q]
    BY <1>2 DEF With
  <2>2. keys' \in [DOMAIN keys' -> KeyRecord]
    BY <1>0, <1>2 DEF With
  <2>3. IsFiniteSet(DOMAIN keys')
    BY <2>1, FS_AddElement
  <2> QED BY <1>0, <1>2, <2>1, <2>2, <2>3 DEF KeysTyped, KeyMay
<1>3. ASSUME NEW s, NEW k, KeysGrow(s, k)
      PROVE  KeysTyped' /\ IsFiniteSet(DOMAIN keys') /\ \A q \in Keys : KeyMay(q)
  BY <1>2, <1>3, NewRecords DEF KeysGrow
<1>4. ASSUME NEW k, NEW record, KeysReturn(k, record)
      PROVE  KeysTyped' /\ IsFiniteSet(DOMAIN keys') /\ \A q \in Keys : KeyMay(q)
  BY <1>2, <1>4 DEF KeysReturn
<1> QED BY <1>1, <1>3, <1>4 DEF KeysMove

LEMMA StrictKeysCount ==
  ASSUME StoreTypeOK, IsFiniteSet(DOMAIN keys), Strict, KeysMove,
         \A s \in Sessions : Cardinality(KeysOf(s)) <= MaxKeys
  PROVE  \A s \in Sessions : Cardinality(KeysOf(s)') <= MaxKeys
<1> SUFFICES ASSUME NEW s \in Sessions
             PROVE  Cardinality(KeysOf(s)') <= MaxKeys
  OBVIOUS
<1>1. IsFiniteSet(KeysOf(s)) /\ Cardinality(KeysOf(s)) <= MaxKeys /\ MaxKeys \in Nat
  BY FS_Subset, StoreAssumption DEF KeysOf
<1>2. CASE KeysShrink
  <2>1. KeysOf(s)' \subseteq KeysOf(s)
    BY <1>2 DEF KeysShrink, KeysOf
  <2> QED BY <1>1, <2>1, NoMore
<1>3. ASSUME NEW t, NEW k, KeysGrow(t, k)
      PROVE  Cardinality(KeysOf(s)') <= MaxKeys
  <2>1. /\ DOMAIN keys' = DOMAIN keys \cup {k} /\ keys'[k].sid = t
        /\ \A q \in DOMAIN keys : q # k /\ keys'[q] = keys[q]
    BY <1>3, NewRecords DEF KeysGrow, With
  <2>2. CASE s = t
    <3>1. KeysOf(s)' \subseteq KeysOf(s) \cup {k}
      BY <2>1 DEF KeysOf
    <3> QED BY <1>1, <1>3, <2>2, <3>1, OneMore DEF KeysGrow
  <2>3. CASE s # t
    <3>1. KeysOf(s)' \subseteq KeysOf(s)
      BY <2>1, <2>3 DEF KeysOf
    <3> QED BY <1>1, <3>1, NoMore
  <2> QED BY <2>2, <2>3
<1> QED BY <1>2, <1>3 DEF KeysMove, KeysReturn

-----------------------------------------------------------------------------
(* Moves that several backends make                                        *)

\* What a step of a backend amounts to.
Moves == SessionsMove /\ RunsMove /\ KeysMove

LEMMA RunsStay == runs' = runs /\ StoreTypeOK => RunsMove
BY DEF StoreTypeOK, RunsMove, RunsShrink

LEMMA KeysStay == keys' = keys /\ StoreTypeOK => KeysMove
BY DEF StoreTypeOK, KeysMove, KeysShrink

\* The capacity of a session deletes runs that have ended, and only when it is full.
LEMMA EvictableIs ==
  ASSUME StoreTypeOK, IsFiniteSet(DOMAIN runs), NEW s \in Sessions, NEW E \in Evictable(s)
  PROVE  /\ E \subseteq Ended(s) /\ \A r \in E : r \in DOMAIN runs /\ Dropped(r)
         /\ E # {} => Cardinality(RunsOf(s)) + 1 >= Cardinality(E) + MaxRuns
<1>1. /\ Cardinality(RunsOf(s)) \in Nat /\ Cardinality(Ended(s)) \in Nat /\ MaxRuns \in Nat
      /\ Ended(s) \subseteq RunsOf(s) /\ RunsOf(s) \subseteq DOMAIN runs
  <2>1. Ended(s) \subseteq RunsOf(s) /\ RunsOf(s) \subseteq DOMAIN runs
    BY DEF RunsOf, Ended
  <2> QED BY <2>1, FS_Subset, FS_CardinalityType, StoreAssumption
<1>2. CASE Cardinality(RunsOf(s)) < MaxRuns
  BY <1>2 DEF Evictable
<1>3. CASE ~(Cardinality(RunsOf(s)) < MaxRuns)
  <2>1. E \in SUBSET Ended(s) /\ Cardinality(E) <= Cardinality(RunsOf(s)) + 1 - MaxRuns
    BY <1>1, <1>3 DEF Evictable
  <2>2. \A r \in E : r \in DOMAIN runs /\ runs[r].status = "ended" /\ runs[r].sid = s
    BY <2>1 DEF Ended, RunsOf
  <2>3. Cardinality(E) \in Nat
    BY <1>1, <2>1, FS_Subset, FS_CardinalityType
  <2> QED BY <1>1, <1>3, <2>1, <2>2, <2>3 DEF Dropped
<1> QED BY <1>2, <1>3

LEMMA RunAdmitted ==
  ASSUME StoreTypeOK, IsFiniteSet(DOMAIN runs), NEW s \in Sessions \cap DOMAIN sess',
         NEW r \in Runs \ DOMAIN runs, NEW E \in Evictable(s),
         runs' = IF Fits(s, E) THEN With(Without(runs, E), r, NewRun(s)) ELSE Without(runs, E)
  PROVE  RunsMove
<1>1. \A e \in E : e \in DOMAIN runs /\ Dropped(e)
  BY EvictableIs
<1>2. CASE Fits(s, E)
  <2>1. RunsGrow(s, r, E)
    BY <1>1, <1>2 DEF RunsGrow, Fits
  <2> QED BY <2>1 DEF RunsMove
<1>3. CASE ~Fits(s, E)
  <2>1. DOMAIN runs' = DOMAIN runs \ E /\ \A q \in DOMAIN runs' : runs'[q] = runs[q]
    BY <1>3 DEF Without
  <2>2. runs' \in [DOMAIN runs' -> RunRecord]
    BY <1>3 DEF Without, StoreTypeOK
  <2> QED BY <1>1, <2>1, <2>2 DEF RunsMove, RunsShrink
<1> QED BY <1>2, <1>3

LEMMA RunWritten ==
  ASSUME StoreTypeOK, NEW r \in DOMAIN runs, NEW status \in Statuses,
         runs' = [runs EXCEPT ![r].status = status, ![r].idle = 0]
  PROVE  RunsMove
<1>0. DOMAIN runs \subseteq Runs /\ runs \in [DOMAIN runs -> RunRecord] /\ 0 \in Ages
  BY StoreAssumption DEF StoreTypeOK, Ages
<1>1. /\ DOMAIN runs' = DOMAIN runs
      /\ runs'[r] = [runs[r] EXCEPT !.status = status, !.idle = 0]
      /\ \A q \in DOMAIN runs \ {r} : runs'[q] = runs[q]
  BY <1>0
<1>2. runs'[r] \in RunRecord /\ runs'[r].sid = runs[r].sid /\ runs'[r].status = status
  BY <1>0, <1>1 DEF RunRecord
<1>3. runs' \in [DOMAIN runs -> RunRecord]
  BY <1>0, <1>1, <1>2
<1> QED BY <1>1, <1>2, <1>3 DEF RunsMove, RunsShrink

LEMMA KeyAdded ==
  ASSUME NEW s \in Sessions, NEW k \in Keys \ DOMAIN keys, KeyFits(s), keys' = With(keys, k, NewKey(s))
  PROVE  KeysMove
BY DEF KeysMove, KeysGrow, KeyFits

LEMMA KeyFinished ==
  ASSUME StoreTypeOK, NEW k \in DOMAIN keys, keys' = [keys EXCEPT ![k].done = TRUE]
  PROVE  KeysMove
<1>1. /\ DOMAIN keys' = DOMAIN keys /\ keys'[k] = [keys[k] EXCEPT !.done = TRUE]
      /\ \A q \in DOMAIN keys \ {k} : keys'[q] = keys[q]
      /\ keys \in [DOMAIN keys -> KeyRecord]
  BY DEF StoreTypeOK
<1>2. keys'[k] \in KeyRecord /\ keys'[k].sid = keys[k].sid /\ keys'[k].done
  BY <1>1 DEF KeyRecord
<1>3. keys' \in [DOMAIN keys -> KeyRecord]
  BY <1>1, <1>2
<1> QED BY <1>1, <1>2, <1>3 DEF KeysMove, KeysShrink

LEMMA KeysRemoved ==
  ASSUME StoreTypeOK, NEW S, keys' = Without(keys, S)
  PROVE  KeysMove
<1>1. DOMAIN keys' = DOMAIN keys \ S /\ \A k \in DOMAIN keys' : keys'[k] = keys[k]
  BY DEF Without
<1>2. keys' \in [DOMAIN keys' -> KeyRecord]
  BY DEF Without, StoreTypeOK
<1> QED BY <1>1, <1>2 DEF KeysMove, KeysShrink

LEMMA RunsRemoved ==
  ASSUME StoreTypeOK, NEW S, runs' = Without(runs, S), \A r \in S \cap DOMAIN runs : Dropped(r)
  PROVE  RunsMove
<1>1. DOMAIN runs' = DOMAIN runs \ S /\ \A r \in DOMAIN runs' : runs'[r] = runs[r]
  BY DEF Without
<1>2. runs' \in [DOMAIN runs' -> RunRecord]
  BY DEF Without, StoreTypeOK
<1> QED BY <1>1, <1>2 DEF RunsMove, RunsShrink

LEMMA TimePasses ==
  ASSUME StoreTypeOK
  PROVE  /\ sess' = Older(sess) => SessionsMove
         /\ runs' = Older(runs) => RunsMove
         /\ keys' = Older(keys) => KeysMove
<1>1. ASSUME sess' = Older(sess) PROVE SessionsMove
  <2>1. Without(Older(sess), {}) = Older(sess)
    BY DEF Without, Older
  <2>2. Passes({})
    BY <1>1, <2>1 DEF Passes
  <2> QED BY <2>2 DEF SessionsMove
<1>2. ASSUME runs' = Older(runs) PROVE RunsMove
  <2>1. DOMAIN runs' = DOMAIN runs
    BY <1>2, OlderIs
  <2> QED BY <1>2, <2>1, OlderRuns DEF RunsMove, RunsShrink
<1>3. ASSUME keys' = Older(keys) PROVE KeysMove
  <2>1. DOMAIN keys' = DOMAIN keys
    BY <1>3, OlderIs
  <2> QED BY <1>3, <2>1, OlderKeys DEF KeysMove, KeysShrink
<1> QED BY <1>1, <1>2, <1>3

-----------------------------------------------------------------------------
(* The in-process backend                                                  *)

\* The modules of the backends extend StoreState too: their operators are those of Stores.
LEMMA SameMemory ==
  /\ \A f, x, v : Memory!With(f, x, v) = With(f, x, v)
  /\ \A f, S : Memory!Without(f, S) = Without(f, S)
  /\ \A f : Memory!Older(f) = Older(f)
  /\ Memory!NewSession = NewSession /\ Memory!Statuses = Statuses
  /\ \A s : /\ Memory!NewRun(s) = NewRun(s) /\ Memory!NewKey(s) = NewKey(s)
            /\ Memory!RunsOf(s) = RunsOf(s) /\ Memory!KeysOf(s) = KeysOf(s)
            /\ Memory!Ended(s) = Ended(s) /\ Memory!Live(s) = Live(s)
            /\ Memory!Evictable(s) = Evictable(s)
  /\ \A s, E : Memory!Fits(s, E) <=> Fits(s, E)
  /\ \A s : Memory!KeyFits(s) <=> KeyFits(s)
  /\ \A record, n : /\ Memory!Appended(record, n) = Appended(record, n)
                    /\ Memory!Room(record, n) <=> Room(record, n)
                    /\ Memory!Shortened(record, n) = Shortened(record, n)
<1>1. \A S : Memory!Cardinality(S) = Cardinality(S)
  BY SameCardinality
<1>2. /\ \A f, x, v : Memory!With(f, x, v) = With(f, x, v)
      /\ \A f, S : Memory!Without(f, S) = Without(f, S)
      /\ \A f : Memory!Older(f) = Older(f)
      /\ Memory!NewSession = NewSession /\ Memory!Statuses = Statuses
  BY DEF Memory!With, With, Memory!Without, Without, Memory!Older, Older, Memory!NewSession,
         NewSession, Memory!Statuses, Statuses
<1>3. \A s : /\ Memory!NewRun(s) = NewRun(s) /\ Memory!NewKey(s) = NewKey(s)
             /\ Memory!RunsOf(s) = RunsOf(s) /\ Memory!KeysOf(s) = KeysOf(s)
  BY DEF Memory!NewRun, NewRun, Memory!NewKey, NewKey, Memory!RunsOf, RunsOf, Memory!KeysOf, KeysOf
<1>4. \A s : Memory!Ended(s) = Ended(s) /\ Memory!Live(s) = Live(s)
  BY DEF Memory!RunsOf, RunsOf, Memory!Ended, Ended, Memory!Live, Live
<1>5. \A s : Memory!Evictable(s) = Evictable(s)
  BY <1>1, <1>3, <1>4 DEF Memory!Evictable, Evictable
<1>6. /\ \A s, E : Memory!Fits(s, E) <=> Fits(s, E)
      /\ \A s : Memory!KeyFits(s) <=> KeyFits(s)
  BY <1>1, <1>3 DEF Memory!Fits, Fits, Memory!KeyFits, KeyFits
<1>7. \A record, n : /\ Memory!Appended(record, n) = Appended(record, n)
                     /\ Memory!Room(record, n) <=> Room(record, n)
                     /\ Memory!Shortened(record, n) = Shortened(record, n)
  BY DEF Memory!Appended, Appended, Memory!Room, Room, Memory!MaxEvents, MaxEvents,
         Memory!Shortened, Shortened
<1> QED BY <1>2, <1>3, <1>4, <1>5, <1>6, <1>7

LEMMA MemoryMoves ==
  ASSUME TypeOK, Finite, backend = "memory", Memory!Next
  PROVE  Moves
<1>0. /\ StoreTypeOK /\ IsFiniteSet(DOMAIN runs) /\ IsFiniteSet(DOMAIN keys)
      /\ DOMAIN sess \subseteq Sessions /\ DOMAIN runs \subseteq Runs /\ DOMAIN keys \subseteq Keys
  BY DEF TypeOK, StoreTypeOK, Finite
<1>1. ASSUME NEW s \in Sessions, Memory!CreateSession(s) PROVE Moves
  <2>1. Creates(s) /\ UNCHANGED <<runs, keys>>
    BY <1>1, SameMemory DEF Memory!CreateSession, Creates
  <2> QED BY <1>0, <2>1, RunsStay, KeysStay DEF Moves, SessionsMove
<1>2. ASSUME NEW s \in Sessions, NEW rev \in 1 .. MaxRevision, NEW n \in 1 .. 2,
             Memory!MutateSession(s, rev, n)
      PROVE  Moves
  <2>1. Appends(s, n) /\ UNCHANGED <<runs, keys>>
    BY <1>2, SameMemory DEF Memory!MutateSession, Appends
  <2> QED BY <1>0, <2>1, RunsStay, KeysStay DEF Moves, SessionsMove
<1>3. ASSUME NEW s \in Sessions, NEW rev \in 1 .. MaxRevision, Memory!TruncateSessionEvents(s, rev)
      PROVE  Moves
  <2>1. Shortens(s, rev) /\ UNCHANGED <<runs, keys>>
    BY <1>3, SameMemory DEF Memory!TruncateSessionEvents, Shortens
  <2> QED BY <1>0, <2>1, RunsStay, KeysStay DEF Moves, SessionsMove
<1>4. ASSUME NEW s \in Sessions, Memory!DeleteSession(s) PROVE Moves
  <2>1. /\ s \in DOMAIN sess /\ Live(s) = {} /\ sess' = Without(sess, {s})
        /\ runs' = Without(runs, RunsOf(s)) /\ keys' = Without(keys, KeysOf(s))
    BY <1>4, SameMemory DEF Memory!DeleteSession
  <2>2. SessionsMove
    BY <2>1 DEF SessionsMove, Deletes
  <2>3. s \notin DOMAIN sess'
    BY <2>1 DEF Without
  <2>4. \A r \in RunsOf(s) : runs[r].sid = s /\ runs[r].status = "ended"
    BY <2>1 DEF Live, Ended, RunsOf
  <2> QED BY <1>0, <2>1, <2>2, <2>3, <2>4, RunsRemoved, KeysRemoved DEF Moves, Dropped
<1>5. ASSUME NEW s \in Sessions, NEW r \in Runs, Memory!CreateRun(s, r) PROVE Moves
  <2>1. PICK E \in Evictable(s) :
          /\ s \in DOMAIN sess /\ r \notin DOMAIN runs /\ UNCHANGED <<sess, keys>>
          /\ runs' = IF Fits(s, E) THEN With(Without(runs, E), r, NewRun(s)) ELSE Without(runs, E)
    BY <1>5, SameMemory DEF Memory!CreateRun
  <2> QED BY <1>0, <2>1, RunAdmitted, KeysStay DEF Moves, SessionsMove
<1>6. ASSUME NEW s \in Sessions, NEW r \in Runs, Memory!AdmitRun(s, r) PROVE Moves
  <2>1. PICK E \in Evictable(s) :
          /\ r \notin DOMAIN runs /\ UNCHANGED keys
          /\ sess' = IF s \in DOMAIN sess THEN sess ELSE With(sess, s, NewSession)
          /\ runs' = IF Fits(s, E) THEN With(Without(runs, E), r, NewRun(s)) ELSE Without(runs, E)
    BY <1>6, SameMemory DEF Memory!AdmitRun
  <2>2. s \in DOMAIN sess'
    BY <2>1 DEF With
  <2>3. SessionsMove
    BY <2>1 DEF SessionsMove, Creates
  <2> QED BY <1>0, <2>1, <2>2, <2>3, RunAdmitted, KeysStay DEF Moves
<1>7. ASSUME NEW r \in Runs, NEW status \in Statuses, Memory!UpdateRun(r, status) PROVE Moves
  <2>1. /\ r \in DOMAIN runs /\ UNCHANGED <<sess, keys>>
        /\ runs' = [runs EXCEPT ![r].status = status, ![r].idle = 0]
    BY <1>7 DEF Memory!UpdateRun
  <2> QED BY <1>0, <2>1, RunWritten, KeysStay DEF Moves, SessionsMove
<1>8. ASSUME NEW s \in Sessions, NEW k \in Keys, Memory!CreateIdempotency(s, k) PROVE Moves
  <2>1. k \notin DOMAIN keys /\ KeyFits(s) /\ keys' = With(keys, k, NewKey(s)) /\ UNCHANGED <<sess, runs>>
    BY <1>8, SameMemory DEF Memory!CreateIdempotency
  <2> QED BY <1>0, <2>1, KeyAdded, RunsStay DEF Moves, SessionsMove
<1>9. ASSUME NEW k \in Keys, Memory!FinishIdempotency(k) PROVE Moves
  BY <1>0, <1>9, KeyFinished, RunsStay DEF Memory!FinishIdempotency, Moves, SessionsMove
<1>10. ASSUME NEW k \in Keys, Memory!ExpireIdempotency(k) PROVE Moves
  <2>1. keys' = Without(keys, {k}) /\ UNCHANGED <<sess, runs>>
    BY <1>10, SameMemory DEF Memory!ExpireIdempotency
  <2> QED BY <1>0, <2>1, KeysRemoved, RunsStay DEF Moves, SessionsMove
<1>11. CASE Memory!Sweep
  <2>1. PICK S, K :
          /\ sess' = Without(sess, S) /\ \A s \in S : Live(s) = {}
          /\ keys' = Without(keys, K)
    <3>1. sess' = Without(sess, Memory!ExpiredSessions)
      BY <1>11, SameMemory DEF Memory!Sweep
    <3>2. \A s \in Memory!ExpiredSessions : Live(s) = {}
      BY SameMemory DEF Memory!ExpiredSessions
    <3>3. \E K : keys' = Without(keys, K)
      BY <1>11, SameMemory DEF Memory!Sweep
    <3> QED BY <3>1, <3>2, <3>3
  <2>2. SessionsMove /\ KeysMove
    BY <1>0, <2>1, KeysRemoved DEF SessionsMove, Deletes
  <2>3. /\ DOMAIN runs' = DOMAIN runs \ Memory!ExpiredRuns
        /\ \A r \in DOMAIN runs' : runs'[r] = Memory!Interrupted(r)
        /\ runs' = [r \in DOMAIN runs \ Memory!ExpiredRuns |-> Memory!Interrupted(r)]
    BY <1>11 DEF Memory!Sweep
  <2>4. ASSUME NEW r \in DOMAIN runs
        PROVE  /\ Memory!Interrupted(r) \in RunRecord /\ Memory!Interrupted(r).sid = runs[r].sid
               /\ Memory!Interrupted(r).status = "live" => runs[r].status = "live"
    <3>1. runs[r] \in RunRecord /\ 0 \in Ages
      BY StoreAssumption DEF StoreTypeOK, TypeOK, Ages
    <3> QED BY <3>1 DEF Memory!Interrupted, RunRecord, Statuses
  <2>5. \A r \in DOMAIN runs \ DOMAIN runs' : Dropped(r)
    <3>1. \A r \in Memory!ExpiredRuns : r \in DOMAIN runs /\ runs[r].status = "ended" /\ runs[r].idle > Ttl
      BY DEF Memory!ExpiredRuns, Memory!Expired
    <3>2. \A r \in DOMAIN runs : runs[r].idle \in Ages
      BY <1>0 DEF StoreTypeOK, RunRecord
    <3>3. \A age \in Ages : age > Ttl => age >= Ttl
      BY StoreAssumption DEF Ages
    <3> QED BY <2>3, <3>1, <3>2, <3>3 DEF Dropped
  <2>6. RunsMove
    BY <2>3, <2>4, <2>5 DEF RunsMove, RunsShrink
  <2> QED BY <2>2, <2>6 DEF Moves
<1>12. CASE Memory!Tick
  <2>1. sess' = Older(sess) /\ runs' = Older(runs) /\ keys' = Older(keys)
    BY <1>12, SameMemory DEF Memory!Tick
  <2> QED BY <1>0, <2>1, TimePasses DEF Moves
<1> QED
  BY <1>1, <1>2, <1>3, <1>4, <1>5, <1>6, <1>7, <1>8, <1>9, <1>10, <1>11, <1>12, SameMemory
     DEF Memory!Next

-----------------------------------------------------------------------------
(* The file backend                                                        *)

LEMMA SameFile ==
  /\ \A f, x, v : File!With(f, x, v) = With(f, x, v)
  /\ \A f, S : File!Without(f, S) = Without(f, S)
  /\ \A f : File!Older(f) = Older(f)
  /\ File!NewSession = NewSession /\ File!Statuses = Statuses
  /\ \A s : /\ File!NewRun(s) = NewRun(s) /\ File!NewKey(s) = NewKey(s)
            /\ File!RunsOf(s) = RunsOf(s) /\ File!KeysOf(s) = KeysOf(s)
            /\ File!Ended(s) = Ended(s) /\ File!Live(s) = Live(s)
            /\ File!Evictable(s) = Evictable(s)
  /\ \A s, E : File!Fits(s, E) <=> Fits(s, E)
  /\ \A s : File!KeyFits(s) <=> KeyFits(s)
  /\ \A record, n : /\ File!Appended(record, n) = Appended(record, n)
                    /\ File!Room(record, n) <=> Room(record, n)
                    /\ File!Shortened(record, n) = Shortened(record, n)
<1>1. \A S : File!Cardinality(S) = Cardinality(S)
  BY SameCardinality
<1>2. /\ \A f, x, v : File!With(f, x, v) = With(f, x, v)
      /\ \A f, S : File!Without(f, S) = Without(f, S)
      /\ \A f : File!Older(f) = Older(f)
      /\ File!NewSession = NewSession /\ File!Statuses = Statuses
  BY DEF File!With, With, File!Without, Without, File!Older, Older, File!NewSession,
         NewSession, File!Statuses, Statuses
<1>3. \A s : /\ File!NewRun(s) = NewRun(s) /\ File!NewKey(s) = NewKey(s)
             /\ File!RunsOf(s) = RunsOf(s) /\ File!KeysOf(s) = KeysOf(s)
  BY DEF File!NewRun, NewRun, File!NewKey, NewKey, File!RunsOf, RunsOf, File!KeysOf, KeysOf
<1>4. \A s : File!Ended(s) = Ended(s) /\ File!Live(s) = Live(s)
  BY DEF File!RunsOf, RunsOf, File!Ended, Ended, File!Live, Live
<1>5. \A s : File!Evictable(s) = Evictable(s)
  BY <1>1, <1>3, <1>4 DEF File!Evictable, Evictable
<1>6. /\ \A s, E : File!Fits(s, E) <=> Fits(s, E)
      /\ \A s : File!KeyFits(s) <=> KeyFits(s)
  BY <1>1, <1>3 DEF File!Fits, Fits, File!KeyFits, KeyFits
<1>7. \A record, n : /\ File!Appended(record, n) = Appended(record, n)
                     /\ File!Room(record, n) <=> Room(record, n)
                     /\ File!Shortened(record, n) = Shortened(record, n)
  BY DEF File!Appended, Appended, File!Room, Room, File!MaxEvents, MaxEvents,
         File!Shortened, Shortened
<1> QED BY <1>2, <1>3, <1>4, <1>5, <1>6, <1>7

LEMMA FileMoves ==
  ASSUME TypeOK, Finite, LockKept, backend = "file", File!Next
  PROVE  Moves
<1>0. /\ StoreTypeOK /\ IsFiniteSet(DOMAIN runs) /\ IsFiniteSet(DOMAIN keys)
      /\ DOMAIN sess \subseteq Sessions /\ DOMAIN runs \subseteq Runs /\ DOMAIN keys \subseteq Keys
  BY DEF TypeOK, StoreTypeOK, Finite
<1>1. ASSUME UNCHANGED <<sess, runs>>, KeysMove PROVE Moves
  BY <1>0, <1>1, RunsStay DEF Moves, SessionsMove
<1>2. ASSUME UNCHANGED <<sess, keys>>, RunsMove PROVE Moves
  BY <1>0, <1>2, KeysStay DEF Moves, SessionsMove
<1>3. ASSUME UNCHANGED <<runs, keys>>, SessionsMove PROVE Moves
  BY <1>0, <1>3, RunsStay, KeysStay DEF Moves
<1>4. ASSUME UNCHANGED storeVars PROVE Moves
  BY <1>3, <1>4 DEF storeVars, SessionsMove
<1>5. ASSUME NEW s \in Sessions, File!CreateSession(s) PROVE Moves
  <2>1. Creates(s) /\ UNCHANGED <<runs, keys>>
    BY <1>5, SameFile DEF File!CreateSession, Creates
  <2> QED BY <1>3, <2>1 DEF SessionsMove
<1>6. ASSUME NEW s \in Sessions, NEW rev \in 1 .. MaxRevision, NEW n \in 1 .. 2,
             File!MutateSession(s, rev, n)
      PROVE  Moves
  <2>1. Appends(s, n) /\ UNCHANGED <<runs, keys>>
    BY <1>6, SameFile DEF File!MutateSession, Appends
  <2> QED BY <1>3, <2>1 DEF SessionsMove
<1>7. ASSUME NEW s \in Sessions, NEW rev \in 1 .. MaxRevision, File!TruncateSessionEvents(s, rev)
      PROVE  Moves
  <2>1. Shortens(s, rev) /\ UNCHANGED <<runs, keys>>
    BY <1>7, SameFile DEF File!TruncateSessionEvents, Shortens
  <2> QED BY <1>3, <2>1 DEF SessionsMove
<1>8. ASSUME NEW s \in Sessions, File!DeleteSession(s) PROVE Moves
  <2>1. /\ Live(s) = {} /\ sess' = Without(sess, {s}) /\ UNCHANGED <<runs, keys>>
    BY <1>8, SameFile DEF File!DeleteSession
  <2>2. Deletes({s})
    BY <2>1 DEF Deletes
  <2> QED BY <1>3, <2>1, <2>2 DEF SessionsMove
<1>9. ASSUME NEW r \in Runs, File!CascadeRun(r) PROVE Moves
  <2>1. /\ runs' = Without(runs, {r}) /\ UNCHANGED <<sess, keys>>
        /\ lock.op = "delete" /\ r \in lock.left
    BY <1>9, SameFile DEF File!CascadeRun, File!Holds
  <2>2. Dropped(r)
    BY <2>1 DEF LockKept, Dropped
  <2> QED BY <1>0, <1>2, <2>1, <2>2, RunsRemoved
<1>10. ASSUME NEW k \in Keys, File!CascadeKey(k) \/ File!ExpireIdempotency(k) PROVE Moves
  <2>1. keys' = Without(keys, {k}) /\ UNCHANGED <<sess, runs>>
    BY <1>10, SameFile DEF File!CascadeKey, File!ExpireIdempotency
  <2> QED BY <1>0, <1>1, <2>1, KeysRemoved
<1>11. ASSUME NEW s \in Sessions, NEW r \in Runs, File!AdmitRun(s, r) PROVE Moves
  <2>1. /\ sess' = IF s \in DOMAIN sess THEN sess ELSE With(sess, s, NewSession)
        /\ UNCHANGED <<runs, keys>>
    BY <1>11, SameFile DEF File!AdmitRun
  <2>2. SessionsMove
    BY <2>1 DEF SessionsMove, Creates
  <2> QED BY <1>3, <2>1, <2>2
<1>12. ASSUME NEW r \in Runs, File!Evict(r) PROVE Moves
  <2>1. /\ runs' = Without(runs, {r}) /\ UNCHANGED <<sess, keys>>
        /\ lock.op = "admit" /\ r \in lock.left
    BY <1>12, SameFile DEF File!Evict, File!Holds
  <2>2. /\ r \in Ended(lock.on) /\ Cardinality(RunsOf(lock.on)) + 1 >= Cardinality(lock.left) + MaxRuns
        /\ lock.left \subseteq RunsOf(lock.on)
    BY <2>1 DEF LockKept, Ended
  <2>3. IsFiniteSet(RunsOf(lock.on)) /\ IsFiniteSet(lock.left)
    BY <1>0, <2>2, FS_Subset DEF RunsOf
  <2>4. /\ Cardinality(RunsOf(lock.on)) \in Nat /\ Cardinality(lock.left) \in Nat
        /\ Cardinality(lock.left) # 0
    BY <2>1, <2>3, FS_CardinalityType, FS_EmptySet
  <2>5. Cardinality(RunsOf(lock.on)) >= MaxRuns
    BY <2>2, <2>4, StoreAssumption
  <2>6. Dropped(r)
    BY <2>2, <2>5 DEF Dropped, Ended, RunsOf
  <2> QED BY <1>0, <1>2, <2>1, <2>6, RunsRemoved
<1>13. CASE File!WriteRun
  <2>1. /\ runs' = IF Fits(lock.on, {}) THEN With(runs, lock.run, NewRun(lock.on)) ELSE runs
        /\ lock.op = "admit" /\ UNCHANGED <<sess, keys>>
    BY <1>13, SameFile DEF File!WriteRun, File!Holds
  <2>2. lock.on \in Sessions \cap DOMAIN sess' /\ lock.run \in Runs \ DOMAIN runs
    BY <1>0, <2>1 DEF LockKept
  <2>3. CASE Fits(lock.on, {})
    <3>1. Without(runs, {}) = runs
      BY <1>0 DEF Without, StoreTypeOK
    <3>2. RunsGrow(lock.on, lock.run, {})
      BY <2>1, <2>2, <2>3, <3>1 DEF RunsGrow, Fits
    <3> QED BY <1>2, <2>1, <3>2 DEF RunsMove
  <2>4. CASE ~Fits(lock.on, {})
    BY <1>4, <2>1, <2>4 DEF storeVars
  <2> QED BY <2>3, <2>4
<1>14. ASSUME NEW r \in Runs, NEW status \in Statuses, File!UpdateRun(r, status) PROVE Moves
  <2>1. /\ r \in DOMAIN runs /\ UNCHANGED <<sess, keys>>
        /\ runs' = [runs EXCEPT ![r].status = status, ![r].idle = 0]
    BY <1>14 DEF File!UpdateRun
  <2> QED BY <1>0, <1>2, <2>1, RunWritten
<1>15. ASSUME NEW s \in Sessions, NEW k \in Keys, File!CreateIdempotency(s, k) PROVE Moves
  <2>1. k \notin DOMAIN keys /\ KeyFits(s) /\ keys' = With(keys, k, NewKey(s)) /\ UNCHANGED <<sess, runs>>
    BY <1>15, SameFile DEF File!CreateIdempotency
  <2> QED BY <1>1, <2>1, KeyAdded
<1>16. ASSUME NEW k \in Keys, File!FinishIdempotency(k) PROVE Moves
  BY <1>0, <1>1, <1>16, KeyFinished DEF File!FinishIdempotency
<1>17. ASSUME NEW s \in Sessions, File!SweepSession(s) PROVE Moves
  <2>1. /\ UNCHANGED <<runs, keys>>
        /\ sess' = sess \/ (sess' = Without(sess, {s}) /\ Live(s) = {})
    BY <1>17, SameFile DEF File!SweepSession
  <2>2. SessionsMove
    BY <2>1 DEF SessionsMove, Deletes
  <2> QED BY <1>3, <2>1, <2>2
<1>18. ASSUME NEW r \in Runs, File!SweepRun(r) PROVE Moves
  <2>0. r \in DOMAIN runs /\ UNCHANGED <<sess, keys>>
    BY <1>0, <1>18, KindAssumption DEF File!SweepRun, File!Holds, LockKept
  <2>1. \/ runs' = runs
        \/ runs' = Without(runs, {r}) /\ runs[r].status = "ended" /\ runs[r].idle > Ttl
        \/ runs' = [runs EXCEPT ![r].status = "ended", ![r].idle = 0]
    BY <1>18, SameFile DEF File!SweepRun, File!Expired
  <2>2. CASE runs' = Without(runs, {r}) /\ runs[r].status = "ended" /\ runs[r].idle > Ttl
    <3>1. runs[r].idle \in Ages /\ \A age \in Ages : age > Ttl => age >= Ttl
      BY <1>0, <2>0, StoreAssumption DEF StoreTypeOK, RunRecord, Ages
    <3>2. Dropped(r)
      BY <2>2, <3>1 DEF Dropped
    <3> QED BY <1>0, <1>2, <2>0, <2>2, <3>2, RunsRemoved
  <2>3. CASE runs' = [runs EXCEPT ![r].status = "ended", ![r].idle = 0]
    <3>1. "ended" \in Statuses
      BY DEF Statuses
    <3> QED BY <1>0, <1>2, <2>0, <2>3, <3>1, RunWritten
  <2> QED BY <1>4, <2>0, <2>1, <2>2, <2>3 DEF storeVars
<1>19. ASSUME NEW k \in Keys, File!SweepKey(k) PROVE Moves
  <2>1. UNCHANGED <<sess, runs>> /\ (keys' = keys \/ keys' = Without(keys, {k}))
    BY <1>19, SameFile DEF File!SweepKey
  <2> QED BY <1>0, <1>1, <2>1, KeysRemoved, KeysStay
<1>20. ASSUME (\E s \in Sessions, r \in Runs : File!CreateRun(s, r))
              \/ File!BeginSweep \/ File!EndCascade \/ File!Crash
       PROVE  Moves
  BY <1>4, <1>20 DEF File!CreateRun, File!BeginSweep, File!EndCascade, File!Crash, File!storeVars, storeVars
<1>21. CASE File!Tick
  <2>1. sess' = Older(sess) /\ runs' = Older(runs) /\ keys' = Older(keys)
    BY <1>21, SameFile DEF File!Tick
  <2> QED BY <1>0, <2>1, TimePasses DEF Moves
<1> QED
  BY <1>5, <1>6, <1>7, <1>8, <1>9, <1>10, <1>11, <1>12, <1>13, <1>14, <1>15, <1>16, <1>17, <1>18,
     <1>19, <1>20, <1>21, SameFile
     DEF File!Next

LockTyped ==
  lock \in [op : Operations, on : Sessions \cup {Nothing}, run : Runs \cup {Nothing},
            left : SUBSET (Sessions \cup Runs \cup Keys)]

LEMMA LockTakes ==
  ASSUME NEW op \in Operations, NEW s \in Sessions \cup {Nothing}, NEW r \in Runs \cup {Nothing},
         NEW files \in SUBSET (Sessions \cup Runs \cup Keys), File!Take(op, s, r, files)
  PROVE  LockTyped' /\ lock'.op = op /\ lock'.on = s /\ lock'.run = r /\ lock'.left = files
BY DEF File!Take, LockTyped

LEMMA LockFreed ==
  ASSUME File!Release
  PROVE  LockTyped' /\ LockKept'
<1>1. lock' = [op |-> "free", on |-> Nothing, run |-> Nothing, left |-> {}]
  BY DEF File!Release, File!Free
<1>2. "free" \in Operations
  BY DEF Operations
<1> QED BY <1>1, <1>2 DEF LockTyped, LockKept

LEMMA LockGoesOn ==
  ASSUME LockTyped, NEW x, File!Done(x)
  PROVE  /\ LockTyped' /\ lock'.op = lock.op /\ lock'.on = lock.on /\ lock'.run = lock.run
         /\ lock'.left = lock.left \ {x}
BY DEF File!Done, LockTyped

\* Nobody else writes while an operation holds the lock; what it has done is off its list.
LEMMA LockStep ==
  ASSUME TypeOK, Finite, LockKept, backend = "file", backend' = backend, File!Next
  PROVE  LockTyped' /\ LockKept'
<1>0. /\ StoreTypeOK /\ IsFiniteSet(DOMAIN runs) /\ LockTyped
      /\ DOMAIN sess \subseteq Sessions /\ DOMAIN runs \subseteq Runs /\ DOMAIN keys \subseteq Keys
  BY DEF TypeOK, StoreTypeOK, Finite, LockTyped
<1>1. CASE lock' = lock /\ File!Idle
  BY <1>0, <1>1 DEF File!Idle, LockKept, LockTyped
<1>2. CASE File!Release
  BY <1>2, LockFreed
<1>3. ASSUME NEW s \in Sessions, File!DeleteSession(s) PROVE LockTyped' /\ LockKept'
  <2>1. /\ Live(s) = {} /\ sess' = Without(sess, {s}) /\ UNCHANGED <<runs, keys>>
        /\ File!Take("delete", s, Nothing, RunsOf(s) \cup KeysOf(s))
    BY <1>3, SameFile DEF File!DeleteSession
  <2>2. /\ RunsOf(s) \subseteq DOMAIN runs /\ KeysOf(s) \subseteq Keys /\ "delete" \in Operations
        /\ RunsOf(s) \cup KeysOf(s) \in SUBSET (Sessions \cup Runs \cup Keys)
    BY <1>0 DEF RunsOf, KeysOf, Operations
  <2>3. /\ LockTyped' /\ lock'.op = "delete" /\ lock'.on = s /\ lock'.left = RunsOf(s) \cup KeysOf(s)
    BY <2>1, <2>2, LockTakes
  <2>4. s \notin DOMAIN sess'
    BY <2>1 DEF Without
  <2>5. \A r \in RunsOf(s) : r \in DOMAIN runs /\ runs[r].sid = s /\ runs[r].status = "ended"
    BY <2>1 DEF Live, Ended, RunsOf
  <2>6. (RunsOf(s) \cup KeysOf(s)) \cap Runs \subseteq RunsOf(s)
    BY <2>2, KindAssumption
  <2> QED BY <1>3, <2>1, <2>3, <2>4, <2>5, <2>6 DEF LockKept
<1>4. ASSUME NEW s \in Sessions, NEW r \in Runs, File!AdmitRun(s, r) \/ File!CreateRun(s, r)
      PROVE  LockTyped' /\ LockKept'
  <2>1. PICK E \in Evictable(s) :
          /\ r \notin DOMAIN runs /\ UNCHANGED <<runs, keys>> /\ File!Take("admit", s, r, E)
          /\ \/ s \in DOMAIN sess /\ sess' = sess
             \/ s \notin DOMAIN sess /\ sess' = With(sess, s, NewSession)
    BY <1>4, SameFile DEF File!AdmitRun, File!CreateRun
  <2>2. /\ E \subseteq Ended(s) /\ Ended(s) \subseteq DOMAIN runs
        /\ E # {} => Cardinality(RunsOf(s)) + 1 >= Cardinality(E) + MaxRuns
    BY <1>0, EvictableIs DEF Ended, RunsOf
  <2>3. "admit" \in Operations /\ E \in SUBSET (Sessions \cup Runs \cup Keys)
    BY <1>0, <2>2 DEF Operations
  <2>4. LockTyped' /\ lock'.op = "admit" /\ lock'.on = s /\ lock'.run = r /\ lock'.left = E
    BY <2>1, <2>3, LockTakes
  <2>5. s \in DOMAIN sess'
    BY <2>1 DEF With
  <2>6. RunsOf(s)' = RunsOf(s) /\ Ended(s)' = Ended(s)
    BY <2>1 DEF RunsOf, Ended
  <2> QED BY <1>4, <2>1, <2>2, <2>4, <2>5, <2>6 DEF LockKept
<1>5. CASE File!BeginSweep
  <2>1. /\ UNCHANGED storeVars
        /\ File!Take("sweep", Nothing, Nothing, DOMAIN sess \cup DOMAIN runs \cup DOMAIN keys)
    BY <1>5 DEF File!BeginSweep, File!storeVars, storeVars
  <2>2. "sweep" \in Operations
    BY DEF Operations
  <2>3. LockTyped' /\ lock'.op = "sweep" /\ lock'.left = DOMAIN sess \cup DOMAIN runs \cup DOMAIN keys
    BY <1>0, <2>1, <2>2, LockTakes
  <2> QED BY <1>5, <2>1, <2>3 DEF LockKept, storeVars
<1>6. ASSUME NEW r \in Runs, File!CascadeRun(r) PROVE LockTyped' /\ LockKept'
  <2>1. /\ runs' = Without(runs, {r}) /\ UNCHANGED <<sess, keys>> /\ lock.op = "delete" /\ File!Done(r)
    BY <1>6, SameFile DEF File!CascadeRun, File!Holds
  <2>2. /\ LockTyped' /\ lock'.op = "delete" /\ lock'.on = lock.on /\ lock'.left = lock.left \ {r}
    BY <1>0, <2>1, LockGoesOn
  <2>3. DOMAIN runs' = DOMAIN runs \ {r} /\ \A q \in DOMAIN runs' : runs'[q] = runs[q]
    BY <2>1 DEF Without
  <2> QED BY <1>6, <2>1, <2>2, <2>3 DEF LockKept
<1>7. ASSUME NEW k \in Keys, File!CascadeKey(k) PROVE LockTyped' /\ LockKept'
  <2>1. UNCHANGED <<sess, runs>> /\ lock.op = "delete" /\ File!Done(k)
    BY <1>7 DEF File!CascadeKey, File!Holds
  <2>2. /\ LockTyped' /\ lock'.op = "delete" /\ lock'.on = lock.on /\ lock'.left = lock.left \ {k}
    BY <1>0, <2>1, LockGoesOn
  <2> QED BY <1>7, <2>1, <2>2 DEF LockKept
<1>8. ASSUME NEW r \in Runs, File!Evict(r) PROVE LockTyped' /\ LockKept'
  <2>1. /\ runs' = Without(runs, {r}) /\ UNCHANGED <<sess, keys>> /\ lock.op = "admit"
        /\ r \in lock.left /\ File!Done(r)
    BY <1>8, SameFile DEF File!Evict, File!Holds
  <2>2. /\ LockTyped' /\ lock'.op = "admit" /\ lock'.on = lock.on /\ lock'.run = lock.run
        /\ lock'.left = lock.left \ {r}
    BY <1>0, <2>1, LockGoesOn
  <2>3. /\ lock.on \in DOMAIN sess /\ lock.run \in Runs \ DOMAIN runs /\ lock.left \subseteq Ended(lock.on)
        /\ Cardinality(RunsOf(lock.on)) + 1 >= Cardinality(lock.left) + MaxRuns
    BY <2>1 DEF LockKept
  <2>4. DOMAIN runs' = DOMAIN runs \ {r} /\ \A q \in DOMAIN runs' : runs'[q] = runs[q]
    BY <2>1 DEF Without
  <2>5. RunsOf(lock.on)' = RunsOf(lock.on) \ {r} /\ Ended(lock.on)' = Ended(lock.on) \ {r}
    BY <2>2, <2>4 DEF RunsOf, Ended
  <2>6. IsFiniteSet(RunsOf(lock.on)) /\ IsFiniteSet(lock.left) /\ r \in RunsOf(lock.on)
    <3>1. lock.left \subseteq RunsOf(lock.on) /\ RunsOf(lock.on) \subseteq DOMAIN runs
      BY <2>3 DEF Ended, RunsOf
    <3> QED BY <1>0, <2>1, <3>1, FS_Subset
  <2>7. /\ Cardinality(RunsOf(lock.on) \ {r}) = Cardinality(RunsOf(lock.on)) - 1
        /\ Cardinality(lock.left \ {r}) = Cardinality(lock.left) - 1
        /\ Cardinality(RunsOf(lock.on)) \in Nat /\ Cardinality(lock.left) \in Nat
    BY <2>1, <2>6, FS_RemoveElement, FS_CardinalityType
  <2>8. Cardinality(RunsOf(lock.on) \ {r}) + 1 >= Cardinality(lock.left \ {r}) + MaxRuns
    BY <2>3, <2>7, StoreAssumption
  <2>9. /\ lock'.on \in DOMAIN sess' /\ lock'.run \in Runs \ DOMAIN runs'
        /\ lock'.left \subseteq Ended(lock.on)'
        /\ Cardinality(RunsOf(lock.on)') + 1 >= Cardinality(lock'.left) + MaxRuns
    BY <2>1, <2>2, <2>3, <2>4, <2>5, <2>8
  <2> QED BY <1>8, <2>2, <2>9 DEF LockKept
<1>9. ASSUME NEW x, lock.op = "sweep", File!Done(x),
             /\ DOMAIN sess \ {x} \subseteq DOMAIN sess'
             /\ DOMAIN runs \ {x} \subseteq DOMAIN runs'
             /\ DOMAIN keys \ {x} \subseteq DOMAIN keys'
      PROVE  LockTyped' /\ LockKept'
  <2>1. LockTyped' /\ lock'.op = "sweep" /\ lock'.left = lock.left \ {x}
    BY <1>0, <1>9, LockGoesOn
  <2> QED BY <1>9, <2>1 DEF LockKept
<1>10. ASSUME NEW s \in Sessions, File!SweepSession(s) PROVE LockTyped' /\ LockKept'
  <2>1. /\ lock.op = "sweep" /\ File!Done(s) /\ UNCHANGED <<runs, keys>>
        /\ sess' = sess \/ sess' = Without(sess, {s})
    BY <1>10, SameFile DEF File!SweepSession, File!Holds
  <2>2. DOMAIN sess \ {s} \subseteq DOMAIN sess'
    BY <2>1 DEF Without
  <2> QED BY <1>9, <2>1, <2>2
<1>11. ASSUME NEW r \in Runs, File!SweepRun(r) PROVE LockTyped' /\ LockKept'
  <2>1. /\ lock.op = "sweep" /\ File!Done(r) /\ UNCHANGED <<sess, keys>>
        /\ \/ runs' = runs
           \/ runs' = Without(runs, {r})
           \/ runs' = [runs EXCEPT ![r].status = "ended", ![r].idle = 0]
    BY <1>11, SameFile DEF File!SweepRun, File!Holds
  <2>2. DOMAIN runs \ {r} \subseteq DOMAIN runs'
    BY <2>1 DEF Without
  <2> QED BY <1>9, <2>1, <2>2
<1>12. ASSUME NEW k \in Keys, File!SweepKey(k) PROVE LockTyped' /\ LockKept'
  <2>1. /\ lock.op = "sweep" /\ File!Done(k) /\ UNCHANGED <<sess, runs>>
        /\ keys' = keys \/ keys' = Without(keys, {k})
    BY <1>12, SameFile DEF File!SweepKey, File!Holds
  <2>2. DOMAIN keys \ {k} \subseteq DOMAIN keys'
    BY <2>1 DEF Without
  <2> QED BY <1>9, <2>1, <2>2
<1>13. CASE File!Tick
  <2>1. /\ sess' = Older(sess) /\ runs' = Older(runs) /\ keys' = Older(keys) /\ lock' = lock
    BY <1>13, SameFile DEF File!Tick
  <2>2. /\ DOMAIN sess' = DOMAIN sess /\ DOMAIN runs' = DOMAIN runs /\ DOMAIN keys' = DOMAIN keys
        /\ \A r \in DOMAIN runs : runs'[r].sid = runs[r].sid /\ runs'[r].status = runs[r].status
    BY <1>0, <2>1, OlderIs, OlderRuns
  <2>3. RunsOf(lock.on)' = RunsOf(lock.on) /\ Ended(lock.on)' = Ended(lock.on)
    BY <2>1, <2>2 DEF RunsOf, Ended
  <2>4. LockTyped'
    BY <1>0, <2>1 DEF LockTyped
  <2> QED BY <1>13, <2>1, <2>2, <2>3, <2>4 DEF LockKept
<1>14. CASE File!WriteRun \/ File!EndCascade \/ File!Crash
  BY <1>2, <1>14 DEF File!WriteRun, File!EndCascade, File!Crash
<1>15. ASSUME \/ \E s \in Sessions :
                   \/ File!CreateSession(s)
                   \/ \E rev \in 1 .. MaxRevision :
                        (\E n \in 1 .. 2 : File!MutateSession(s, rev, n)) \/ File!TruncateSessionEvents(s, rev)
                   \/ \E k \in Keys : File!CreateIdempotency(s, k)
              \/ \E r \in Runs, status \in Statuses : File!UpdateRun(r, status)
              \/ \E k \in Keys : File!FinishIdempotency(k) \/ File!ExpireIdempotency(k)
       PROVE  LockTyped' /\ LockKept'
  <2>1. lock' = lock /\ File!Idle
    BY <1>15
       DEF File!CreateSession, File!MutateSession, File!TruncateSessionEvents, File!CreateIdempotency,
           File!UpdateRun, File!FinishIdempotency, File!ExpireIdempotency
  <2> QED BY <1>1, <2>1
<1> QED
  BY <1>3, <1>4, <1>5, <1>6, <1>7, <1>8, <1>10, <1>11, <1>12, <1>13, <1>14, <1>15, SameFile
     DEF File!Next

-----------------------------------------------------------------------------
(* The Redis backend                                                       *)

LEMMA SameRedis ==
  /\ \A f, x, v : Redis!With(f, x, v) = With(f, x, v)
  /\ \A f, S : Redis!Without(f, S) = Without(f, S)
  /\ \A f : Redis!Older(f) = Older(f)
  /\ Redis!NewSession = NewSession /\ Redis!Statuses = Statuses /\ Redis!Ages = Ages
  /\ \A s : /\ Redis!NewRun(s) = NewRun(s) /\ Redis!NewKey(s) = NewKey(s)
            /\ Redis!RunsOf(s) = RunsOf(s) /\ Redis!KeysOf(s) = KeysOf(s)
            /\ Redis!Ended(s) = Ended(s) /\ Redis!Live(s) = Live(s)
            /\ Redis!IndexedRuns(s) = RunsOf(s) \cap DOMAIN index
            /\ Redis!IndexedKeys(s) = KeysOf(s) \cap DOMAIN index
  /\ \A record, n : /\ Redis!Appended(record, n) = Appended(record, n)
                    /\ Redis!Room(record, n) <=> Room(record, n)
                    /\ Redis!Shortened(record, n) = Shortened(record, n)
<1>1. /\ \A f, x, v : Redis!With(f, x, v) = With(f, x, v)
      /\ \A f, S : Redis!Without(f, S) = Without(f, S)
      /\ \A f : Redis!Older(f) = Older(f)
      /\ Redis!NewSession = NewSession /\ Redis!Statuses = Statuses /\ Redis!Ages = Ages
  BY DEF Redis!With, With, Redis!Without, Without, Redis!Older, Older, Redis!NewSession,
         NewSession, Redis!Statuses, Statuses, Redis!Ages, Ages
<1>2. \A s : /\ Redis!NewRun(s) = NewRun(s) /\ Redis!NewKey(s) = NewKey(s)
             /\ Redis!RunsOf(s) = RunsOf(s) /\ Redis!KeysOf(s) = KeysOf(s)
  BY DEF Redis!NewRun, NewRun, Redis!NewKey, NewKey, Redis!RunsOf, RunsOf, Redis!KeysOf, KeysOf
<1>3. \A s : Redis!Ended(s) = Ended(s) /\ Redis!Live(s) = Live(s)
  BY DEF Redis!RunsOf, RunsOf, Redis!Ended, Ended, Redis!Live, Live
<1>4. \A s : /\ Redis!IndexedRuns(s) = RunsOf(s) \cap DOMAIN index
             /\ Redis!IndexedKeys(s) = KeysOf(s) \cap DOMAIN index
  BY <1>2 DEF Redis!IndexedRuns, Redis!IndexedKeys
<1>5. \A record, n : /\ Redis!Appended(record, n) = Appended(record, n)
                     /\ Redis!Room(record, n) <=> Room(record, n)
                     /\ Redis!Shortened(record, n) = Shortened(record, n)
  BY DEF Redis!Appended, Appended, Redis!Room, Room, Redis!MaxEvents, MaxEvents,
         Redis!Shortened, Shortened
<1> QED BY <1>1, <1>2, <1>3, <1>4, <1>5

\* A script deletes runs of the session that have ended, and only when the index of the
\* session is full.
LEMMA MakesRoomIs ==
  ASSUME StoreTypeOK, IsFiniteSet(DOMAIN runs), NEW s \in Sessions, NEW E \in Redis!MakesRoom(s)
  PROVE  \A e \in E : e \in RunsOf(s) \cap DOMAIN index /\ Dropped(e)
<1>1. CASE Cardinality(RunsOf(s) \cap DOMAIN index) < MaxRuns
  BY <1>1, SameRedis, SameCardinality DEF Redis!MakesRoom
<1>2. CASE ~(Cardinality(RunsOf(s) \cap DOMAIN index) < MaxRuns)
  <2>1. E \subseteq Ended(s) \cap DOMAIN index
    BY <1>2, SameRedis, SameCardinality DEF Redis!MakesRoom
  <2>2. IsFiniteSet(RunsOf(s)) /\ RunsOf(s) \cap DOMAIN index \subseteq RunsOf(s)
    BY FS_Subset DEF RunsOf
  <2>3. /\ Cardinality(RunsOf(s) \cap DOMAIN index) <= Cardinality(RunsOf(s))
        /\ Cardinality(RunsOf(s) \cap DOMAIN index) \in Nat /\ Cardinality(RunsOf(s)) \in Nat
    BY <2>2, FS_Subset, FS_CardinalityType
  <2>4. Cardinality(RunsOf(s)) >= MaxRuns
    BY <1>2, <2>3, StoreAssumption
  <2> QED BY <2>1, <2>4 DEF Ended, RunsOf, Dropped
<1> QED BY <1>1, <1>2

\* What PlaceRun amounts to.
Placed(s, r, E) ==
  /\ \A e \in E : e \in RunsOf(s) \cap DOMAIN index /\ Dropped(e)
  /\ \/ /\ Cardinality((RunsOf(s) \cap DOMAIN index) \ E) < MaxRuns
        /\ runs' = With(Without(runs, E), r, NewRun(s))
        /\ index' = With(Without(index, E), r, 0)
     \/ runs' = Without(runs, E) /\ index' = Without(index, E)

LEMMA PlaceRunIs ==
  ASSUME StoreTypeOK, IsFiniteSet(DOMAIN runs), NEW s \in Sessions, NEW r \in Runs \ DOMAIN runs,
         Redis!PlaceRun(s, r)
  PROVE  \E E : Placed(s, r, E)
<1>1. PICK E \in Redis!MakesRoom(s) :
        IF Cardinality((RunsOf(s) \cap DOMAIN index) \ E) < MaxRuns
        THEN /\ runs' = With(Without(runs, E), r, NewRun(s))
             /\ index' = With(Without(index, E), r, 0)
        ELSE runs' = Without(runs, E) /\ index' = Without(index, E)
  BY SameRedis, SameCardinality DEF Redis!PlaceRun
<1> QED BY <1>1, MakesRoomIs DEF Placed

\* A session that is not there is created, when it fits.
LEMMA EnsureSessionIs ==
  ASSUME NEW s \in Sessions, Redis!EnsureSession(s)
  PROVE  /\ SessionsMove
         /\ s \in DOMAIN sess \/ Redis!SessionFits => s \in DOMAIN sess'
         /\ \/ idx' = idx
            \/ idx' = Redis!Current
            \/ idx' = With(Redis!Current, s, 0)
<1>1. CASE s \in DOMAIN sess
  BY <1>1 DEF Redis!EnsureSession, SessionsMove
<1>2. CASE s \notin DOMAIN sess /\ Redis!SessionFits
  <2>1. sess' = With(sess, s, NewSession) /\ idx' = With(Redis!Current, s, 0)
    BY <1>2, SameRedis DEF Redis!EnsureSession
  <2> QED BY <1>2, <2>1 DEF SessionsMove, Creates, With
<1>3. CASE s \notin DOMAIN sess /\ ~Redis!SessionFits
  BY <1>3 DEF Redis!EnsureSession, SessionsMove
<1> QED BY <1>1, <1>2, <1>3

LEMMA RedisMoves ==
  ASSUME TypeOK, Finite, IndexKept, backend = "redis", backend' = backend, Redis!Next
  PROVE  Moves
<1>0. /\ StoreTypeOK /\ IsFiniteSet(DOMAIN runs) /\ IsFiniteSet(DOMAIN keys) /\ ~Strict
      /\ DOMAIN sess \subseteq Sessions /\ DOMAIN runs \subseteq Runs /\ DOMAIN keys \subseteq Keys
  BY DEF TypeOK, StoreTypeOK, Finite, Strict
<1>1. ASSUME UNCHANGED <<sess, runs>>, KeysMove PROVE Moves
  BY <1>0, <1>1, RunsStay DEF Moves, SessionsMove
<1>2. ASSUME UNCHANGED <<sess, keys>>, RunsMove PROVE Moves
  BY <1>0, <1>2, KeysStay DEF Moves, SessionsMove
<1>3. ASSUME UNCHANGED <<runs, keys>>, SessionsMove PROVE Moves
  BY <1>0, <1>3, RunsStay, KeysStay DEF Moves
<1>4. ASSUME NEW s \in Sessions, Redis!CreateSession(s) PROVE Moves
  BY <1>3, <1>4, EnsureSessionIs DEF Redis!CreateSession
<1>5. ASSUME NEW s \in Sessions, NEW rev \in 1 .. MaxRevision, NEW n \in 1 .. 2,
             Redis!MutateSession(s, rev, n)
      PROVE  Moves
  <2>1. Appends(s, n) /\ UNCHANGED <<runs, keys>>
    BY <1>5, SameRedis DEF Redis!MutateSession, Appends
  <2> QED BY <1>3, <2>1 DEF SessionsMove
<1>6. ASSUME NEW s \in Sessions, NEW rev \in 1 .. MaxRevision, Redis!TruncateSessionEvents(s, rev)
      PROVE  Moves
  <2>1. Shortens(s, rev) /\ UNCHANGED <<runs, keys>>
    BY <1>6, SameRedis DEF Redis!TruncateSessionEvents, Redis!CutEvents, Shortens
  <2> QED BY <1>3, <2>1 DEF SessionsMove
<1>7. ASSUME NEW s \in Sessions, Redis!DeleteSession(s) PROVE Moves
  <2>1. /\ s \in DOMAIN sess /\ RunsOf(s) \cap DOMAIN index \cap Live(s) = {}
        /\ sess' = Without(sess, {s})
        /\ runs' = Without(runs, RunsOf(s) \cap DOMAIN index)
        /\ keys' = Without(keys, KeysOf(s) \cap DOMAIN index)
    BY <1>7, SameRedis DEF Redis!DeleteSession
  <2>2. Deletes({s})
    BY <1>0, <2>1 DEF Deletes, Live, Listed, Strict
  <2>3. s \notin DOMAIN sess'
    BY <2>1 DEF Without
  <2>4. \A r \in RunsOf(s) \cap DOMAIN index : Dropped(r)
    BY <2>1, <2>3 DEF Live, Ended, RunsOf, Dropped
  <2> QED BY <1>0, <2>1, <2>2, <2>4, RunsRemoved, KeysRemoved DEF Moves, SessionsMove
<1>8. ASSUME NEW s \in Sessions \cap DOMAIN sess', NEW r \in Runs \ DOMAIN runs, Redis!PlaceRun(s, r)
      PROVE  RunsMove
  <2>1. PICK E : Placed(s, r, E)
    BY <1>0, <1>8, PlaceRunIs
  <2>2. CASE runs' = With(Without(runs, E), r, NewRun(s))
    <3>1. RunsGrow(s, r, E)
      BY <1>0, <2>1, <2>2 DEF RunsGrow, Placed
    <3> QED BY <3>1 DEF RunsMove
  <2>3. CASE runs' = Without(runs, E)
    BY <1>0, <2>1, <2>3, RunsRemoved DEF Placed
  <2> QED BY <2>1, <2>2, <2>3 DEF Placed
<1>9. ASSUME NEW s \in Sessions, NEW r \in Runs, Redis!CreateRun(s, r) PROVE Moves
  <2>1. s \in DOMAIN sess' /\ r \notin DOMAIN runs /\ Redis!PlaceRun(s, r) /\ UNCHANGED <<sess, keys>>
    BY <1>9 DEF Redis!CreateRun
  <2> QED BY <1>2, <1>8, <2>1
<1>10. ASSUME NEW s \in Sessions, NEW r \in Runs, Redis!AdmitRun(s, r) PROVE Moves
  <2>1. /\ r \notin DOMAIN runs /\ Redis!EnsureSession(s) /\ UNCHANGED keys
        /\ IF s \in DOMAIN sess \/ Redis!SessionFits THEN Redis!PlaceRun(s, r) ELSE UNCHANGED runs
    BY <1>10 DEF Redis!AdmitRun
  <2>2. SessionsMove /\ (s \in DOMAIN sess \/ Redis!SessionFits => s \in DOMAIN sess')
    BY <2>1, EnsureSessionIs
  <2>3. RunsMove
    BY <1>0, <1>8, <2>1, <2>2, RunsStay
  <2> QED BY <1>0, <2>1, <2>2, <2>3, KeysStay DEF Moves
<1>11. ASSUME NEW r \in Runs, NEW status \in Statuses, Redis!UpdateRun(r, status) PROVE Moves
  <2> DEFINE record == [held[r] EXCEPT !.status = status, !.idle = 0]
  <2>1. r \in DOMAIN held /\ runs' = With(runs, r, record) /\ UNCHANGED <<sess, keys, index>>
    BY <1>11, SameRedis DEF Redis!UpdateRun
  <2>2. held[r] \in RunRecord
    BY <2>1, KindAssumption DEF TypeOK
  <2>3. record \in RunRecord /\ record.sid = held[r].sid
    <3>1. 0 \in Ages
      BY StoreAssumption DEF Ages
    <3> QED BY <2>2, <3>1 DEF RunRecord
  <2> HIDE DEF record
  <2>4. CASE r \in DOMAIN runs
    <3>1. held[r].sid = runs[r].sid
      BY <2>1, <2>4 DEF IndexKept
    <3>2. /\ DOMAIN runs' = DOMAIN runs /\ runs'[r] = record
          /\ \A q \in DOMAIN runs \ {r} : runs'[q] = runs[q]
      BY <2>1, <2>4 DEF With
    <3>3. runs' \in [DOMAIN runs' -> RunRecord]
      BY <1>0, <2>1, <2>3 DEF With, StoreTypeOK
    <3>4. RunsShrink
      BY <1>0, <2>3, <3>1, <3>2, <3>3 DEF RunsShrink
    <3> QED BY <1>2, <2>1, <3>4 DEF RunsMove
  <2>5. CASE r \notin DOMAIN runs
    <3>1. r \notin Listed'
      BY <2>1, <2>5 DEF IndexKept, Listed
    <3>2. RunsReturn(r, record)
      BY <1>0, <2>1, <2>3, <2>5, <3>1 DEF RunsReturn
    <3> QED BY <1>2, <2>1, <3>2 DEF RunsMove
  <2> QED BY <2>4, <2>5
<1>12. ASSUME NEW s \in Sessions, NEW k \in Keys, Redis!CreateIdempotency(s, k) PROVE Moves
  <2>1. k \notin DOMAIN keys /\ keys' = With(keys, k, NewKey(s)) /\ UNCHANGED <<sess, runs>>
    BY <1>12, SameRedis DEF Redis!CreateIdempotency, Redis!PlaceKey
  <2>2. KeysGrow(s, k)
    BY <1>0, <2>1 DEF KeysGrow
  <2> QED BY <1>1, <2>1, <2>2 DEF KeysMove
<1>13. ASSUME NEW k \in Keys, Redis!FinishIdempotency(k) PROVE Moves
  <2> DEFINE record == [held[k] EXCEPT !.done = TRUE]
  <2>1. k \in DOMAIN held /\ keys' = With(keys, k, record) /\ UNCHANGED <<sess, runs>>
    BY <1>13, SameRedis DEF Redis!FinishIdempotency
  <2>2. held[k] \in KeyRecord
    BY <2>1, KindAssumption DEF TypeOK
  <2>3. record \in KeyRecord /\ record.sid = held[k].sid /\ record.done
    BY <2>2 DEF KeyRecord
  <2>4. k \in DOMAIN keys => held[k].sid = keys[k].sid
    BY <2>1 DEF IndexKept
  <2> HIDE DEF record
  <2>5. KeysReturn(k, record)
    BY <1>0, <2>1, <2>3, <2>4 DEF KeysReturn
  <2> QED BY <1>1, <2>1, <2>5 DEF KeysMove
<1>14. ASSUME NEW k \in Keys, Redis!ExpireIdempotency(k) PROVE Moves
  <2>1. UNCHANGED <<sess, runs>> /\ keys' = Without(keys, {k})
    BY <1>14, SameRedis DEF Redis!ExpireIdempotency, Redis!RemoveKey
  <2> QED BY <1>0, <1>1, <2>1, KeysRemoved
<1>15. ASSUME (\E r \in Runs : Redis!ReadRun(r)) \/ (\E k \in Keys : Redis!ReadIdempotency(k)) PROVE Moves
  <2>1. UNCHANGED <<sess, runs, keys>>
    BY <1>15 DEF Redis!ReadRun, Redis!ReadIdempotency
  <2> QED BY <1>3, <2>1 DEF SessionsMove
<1>16. CASE Redis!Sweep
  <2>1. /\ UNCHANGED <<sess, keys>>
        /\ runs' = [r \in DOMAIN runs \ Redis!Swept |->
                      IF r \in Redis!Interrupted THEN [runs[r] EXCEPT !.status = "ended"] ELSE runs[r]]
    BY <1>16 DEF Redis!Sweep
  <2>2. ASSUME NEW r \in DOMAIN runs
        PROVE  /\ [runs[r] EXCEPT !.status = "ended"] \in RunRecord
               /\ [runs[r] EXCEPT !.status = "ended"].sid = runs[r].sid
               /\ runs[r] \in RunRecord
    <3>1. runs[r] \in RunRecord
      BY <1>0 DEF StoreTypeOK
    <3> QED BY <3>1 DEF RunRecord, Statuses
  <2>3. /\ DOMAIN runs' = DOMAIN runs \ Redis!Swept
        /\ \A r \in DOMAIN runs' : runs'[r].sid = runs[r].sid
    BY <2>1, <2>2
  <2>4. runs' \in [DOMAIN runs' -> RunRecord]
    BY <2>1, <2>2
  <2>5. \A r \in Redis!Swept : Dropped(r)
    BY DEF Redis!Swept, Dropped
  <2>6. RunsShrink
    BY <1>0, <2>3, <2>4, <2>5 DEF RunsShrink
  <2> QED BY <1>2, <2>1, <2>6 DEF RunsMove
<1>17. CASE Redis!Tick
  <2>1. /\ sess' = [s \in {s \in DOMAIN Older(sess) : s \in pinned \/ Redis!Unexpired(Older(sess)[s])}
                      |-> Older(sess)[s]]
        /\ keys' = [k \in {k \in DOMAIN Older(keys) : k \in pinned \/ Redis!Unexpired(Older(keys)[k])}
                      |-> Older(keys)[k]]
        /\ runs' = Older(runs)
    BY <1>17, SameRedis DEF Redis!Tick
  <2>2. SessionsMove
    <3> DEFINE S == {s \in DOMAIN sess : ~(s \in pinned \/ Redis!Unexpired(Older(sess)[s]))}
    <3>1. DOMAIN Older(sess) = DOMAIN sess
      BY OlderIs
    <3>2. {s \in DOMAIN Older(sess) : s \in pinned \/ Redis!Unexpired(Older(sess)[s])} = DOMAIN Older(sess) \ S
      BY <3>1
    <3>3. sess' = Without(Older(sess), S)
      BY <2>1, <3>2 DEF Without
    <3>4. ASSUME NEW s \in S
          PROVE  Older(sess)[s].idle >= Ttl
      <4>1. Older(sess)[s] \in SessionRecord /\ s \in DOMAIN sess
        BY <1>0, OlderSessions
      <4>2. Older(sess)[s].idle \in Int /\ Ttl \in Int
        BY <4>1, StoreAssumption DEF SessionRecord, Ages
      <4> QED BY <4>2 DEF Redis!Unexpired
    <3> HIDE DEF S
    <3>5. Passes(S)
      BY <1>0, <3>3, <3>4 DEF Passes
    <3> QED BY <3>5 DEF SessionsMove
  <2>3. KeysMove
    <3>1. /\ DOMAIN keys' \subseteq DOMAIN keys /\ \A k \in DOMAIN keys' : keys'[k] = Older(keys)[k]
          /\ keys' = [k \in DOMAIN keys' |-> keys'[k]]
      BY <2>1, OlderIs
    <3>2. \A k \in DOMAIN keys' : /\ keys'[k] \in KeyRecord /\ keys'[k].sid = keys[k].sid
                                  /\ keys'[k].done = keys[k].done
      BY <1>0, <3>1, OlderKeys
    <3>3. keys' \in [DOMAIN keys' -> KeyRecord]
      BY <3>1, <3>2
    <3> QED BY <3>1, <3>2, <3>3 DEF KeysMove, KeysShrink
  <2> QED BY <1>0, <2>1, <2>2, <2>3, TimePasses DEF Moves
<1> QED
  BY <1>4, <1>5, <1>6, <1>7, <1>9, <1>10, <1>11, <1>12, <1>13, <1>14, <1>15, <1>16, <1>17, SameRedis
     DEF Redis!Next

RedisTyped ==
  /\ DOMAIN idx \subseteq Sessions /\ idx \in [DOMAIN idx -> Ages]
  /\ DOMAIN index \subseteq Runs \cup Keys /\ index \in [DOMAIN index -> Ages]
  /\ pinned \subseteq Sessions \cup Keys
  /\ \A x \in DOMAIN held : (x \in Runs /\ held[x] \in RunRecord) \/ (x \in Keys /\ held[x] \in KeyRecord)

\* What the index says of the runs, and what it says of the keys.
RunsIndexed ==
  /\ DOMAIN index \cap Runs \subseteq DOMAIN runs
  /\ \A r \in DOMAIN held \cap DOMAIN runs : held[r].sid = runs[r].sid
  /\ \A s \in Sessions : Cardinality(RunsOf(s) \cap DOMAIN index) <= MaxRuns

KeysIndexed ==
  /\ DOMAIN keys \ pinned \subseteq DOMAIN index
  /\ \A k \in DOMAIN held \cap DOMAIN keys : held[k].sid = keys[k].sid
  /\ \A s \in Sessions : Cardinality(KeysOf(s) \ pinned) <= MaxKeys

LEMMA GrownIs ==
  ASSUME NEW ages, ages \in [DOMAIN ages -> Ages]
  PROVE  DOMAIN Redis!Grown(ages) = DOMAIN ages /\ Redis!Grown(ages) \in [DOMAIN ages -> Ages]
<1>1. \A x \in DOMAIN ages : (IF ages[x] > Ttl THEN ages[x] ELSE ages[x] + 1) \in Ages
  BY AgeGrows
<1> QED BY <1>1 DEF Redis!Grown

LEMMA IndexTyped ==
  ASSUME TypeOK, Finite, Redis!Next
  PROVE  DOMAIN index' \subseteq Runs \cup Keys /\ index' \in [DOMAIN index' -> Ages]
<1>0. /\ StoreTypeOK /\ IsFiniteSet(DOMAIN runs) /\ 0 \in Ages
      /\ DOMAIN index \subseteq Runs \cup Keys /\ index \in [DOMAIN index -> Ages]
      /\ \A r \in DOMAIN runs : r \in Runs /\ runs[r].idle \in Ages
  BY StoreAssumption DEF TypeOK, StoreTypeOK, Finite, Ages, RunRecord
<1>1. CASE index' = index
  BY <1>0, <1>1
<1>2. ASSUME NEW x \in Runs \cup Keys, NEW S, index' = With(Without(index, S), x, 0)
      PROVE  DOMAIN index' \subseteq Runs \cup Keys /\ index' \in [DOMAIN index' -> Ages]
  BY <1>0, <1>2 DEF With, Without
<1>3. ASSUME NEW S, index' = Without(index, S)
      PROVE  DOMAIN index' \subseteq Runs \cup Keys /\ index' \in [DOMAIN index' -> Ages]
  BY <1>0, <1>3 DEF Without
<1>4. ASSUME NEW s \in Sessions, NEW r \in Runs, Redis!CreateRun(s, r) \/ Redis!AdmitRun(s, r)
      PROVE  DOMAIN index' \subseteq Runs \cup Keys /\ index' \in [DOMAIN index' -> Ages]
  <2>1. r \notin DOMAIN runs /\ (Redis!PlaceRun(s, r) \/ index' = index)
    BY <1>4 DEF Redis!CreateRun, Redis!AdmitRun
  <2>2. CASE Redis!PlaceRun(s, r)
    <3>1. PICK E : Placed(s, r, E)
      BY <1>0, <2>1, <2>2, PlaceRunIs
    <3> QED BY <1>2, <1>3, <3>1 DEF Placed
  <2> QED BY <1>1, <2>1, <2>2
<1>5. ASSUME NEW s \in Sessions, NEW k \in Keys, Redis!CreateIdempotency(s, k)
      PROVE  DOMAIN index' \subseteq Runs \cup Keys /\ index' \in [DOMAIN index' -> Ages]
  <2>1. index' = With(index, k, 0)
    BY <1>5, SameRedis DEF Redis!CreateIdempotency, Redis!PlaceKey
  <2> QED BY <1>0, <2>1 DEF With
<1>6. ASSUME (\E s \in Sessions : Redis!DeleteSession(s)) \/ (\E k \in Keys : Redis!ExpireIdempotency(k))
      PROVE  DOMAIN index' \subseteq Runs \cup Keys /\ index' \in [DOMAIN index' -> Ages]
  <2>1. \E S : index' = Without(index, S)
    BY <1>6, SameRedis DEF Redis!DeleteSession, Redis!ExpireIdempotency, Redis!RemoveKey
  <2> QED BY <1>3, <2>1
<1>7. CASE Redis!Sweep
  <2>1. index' = [x \in DOMAIN index \ (Redis!Swept \cup (Redis!Due \ DOMAIN runs)) |->
                    IF x \in Redis!Interrupted THEN runs[x].idle ELSE index[x]]
    BY <1>7 DEF Redis!Sweep
  <2>2. Redis!Interrupted \subseteq DOMAIN runs
    BY DEF Redis!Interrupted
  <2> QED BY <1>0, <2>1, <2>2
<1>8. CASE Redis!Tick
  BY <1>0, <1>8, GrownIs DEF Redis!Tick
<1>9. ASSUME \/ \E s \in Sessions :
                  \/ Redis!CreateSession(s)
                  \/ \E rev \in 1 .. MaxRevision :
                       (\E n \in 1 .. 2 : Redis!MutateSession(s, rev, n)) \/ Redis!TruncateSessionEvents(s, rev)
             \/ \E r \in Runs : Redis!ReadRun(r) \/ \E status \in Statuses : Redis!UpdateRun(r, status)
             \/ \E k \in Keys : Redis!ReadIdempotency(k) \/ Redis!FinishIdempotency(k)
      PROVE  DOMAIN index' \subseteq Runs \cup Keys /\ index' \in [DOMAIN index' -> Ages]
  <2>1. index' = index
    BY <1>9
       DEF Redis!CreateSession, Redis!MutateSession, Redis!TruncateSessionEvents, Redis!ReadRun,
           Redis!UpdateRun, Redis!ReadIdempotency, Redis!FinishIdempotency
  <2> QED BY <1>1, <2>1
<1> QED BY <1>4, <1>5, <1>6, <1>7, <1>8, <1>9, SameRedis DEF Redis!Next

LEMMA IdxTyped ==
  ASSUME TypeOK, Redis!Next
  PROVE  DOMAIN idx' \subseteq Sessions /\ idx' \in [DOMAIN idx' -> Ages]
<1>0. 0 \in Ages /\ DOMAIN idx \subseteq Sessions /\ idx \in [DOMAIN idx -> Ages]
  BY StoreAssumption DEF TypeOK, Ages
<1>1. CASE idx' = idx
  BY <1>0, <1>1
<1>2. ASSUME NEW s \in Sessions, Redis!EnsureSession(s)
      PROVE  DOMAIN idx' \subseteq Sessions /\ idx' \in [DOMAIN idx' -> Ages]
  <2>1. DOMAIN Redis!Current \subseteq Sessions /\ Redis!Current \in [DOMAIN Redis!Current -> Ages]
    BY <1>0 DEF Redis!Current
  <2> HIDE DEF Redis!Current
  <2>2. CASE idx' = Redis!Current
    BY <2>1, <2>2
  <2>3. CASE idx' = With(Redis!Current, s, 0)
    BY <1>0, <2>1, <2>3 DEF With
  <2> QED BY <1>1, <1>2, <2>2, <2>3, EnsureSessionIs
<1>3. ASSUME NEW s \in Sessions, Redis!DeleteSession(s)
      PROVE  DOMAIN idx' \subseteq Sessions /\ idx' \in [DOMAIN idx' -> Ages]
  <2>1. idx' = Without(idx, {s})
    BY <1>3, SameRedis DEF Redis!DeleteSession
  <2> QED BY <1>0, <2>1 DEF Without
<1>4. CASE Redis!Tick
  BY <1>0, <1>4, GrownIs DEF Redis!Tick
<1>5. ASSUME \/ \E s \in Sessions :
                  \/ \E rev \in 1 .. MaxRevision :
                       (\E n \in 1 .. 2 : Redis!MutateSession(s, rev, n)) \/ Redis!TruncateSessionEvents(s, rev)
                  \/ \E r \in Runs : Redis!CreateRun(s, r)
                  \/ \E k \in Keys : Redis!CreateIdempotency(s, k)
             \/ \E r \in Runs : Redis!ReadRun(r) \/ \E status \in Statuses : Redis!UpdateRun(r, status)
             \/ \E k \in Keys : Redis!ReadIdempotency(k) \/ Redis!FinishIdempotency(k)
                                \/ Redis!ExpireIdempotency(k)
             \/ Redis!Sweep
      PROVE  DOMAIN idx' \subseteq Sessions /\ idx' \in [DOMAIN idx' -> Ages]
  <2>1. idx' = idx
    BY <1>5
       DEF Redis!MutateSession, Redis!TruncateSessionEvents, Redis!CreateRun, Redis!CreateIdempotency,
           Redis!ReadRun, Redis!UpdateRun, Redis!ReadIdempotency, Redis!FinishIdempotency,
           Redis!ExpireIdempotency, Redis!Sweep
  <2> QED BY <1>1, <2>1
<1> QED
  BY <1>2, <1>3, <1>4, <1>5, SameRedis DEF Redis!Next, Redis!CreateSession, Redis!AdmitRun

LEMMA HeldTyped ==
  ASSUME TypeOK, Redis!Next
  PROVE  /\ pinned' \subseteq Sessions \cup Keys
         /\ \A x \in DOMAIN held' : (x \in Runs /\ held'[x] \in RunRecord)
                                    \/ (x \in Keys /\ held'[x] \in KeyRecord)
<1>0. /\ pinned \subseteq Sessions \cup Keys /\ StoreTypeOK
      /\ \A x \in DOMAIN held : (x \in Runs /\ held[x] \in RunRecord) \/ (x \in Keys /\ held[x] \in KeyRecord)
  BY DEF TypeOK
<1>1. pinned' \subseteq Sessions \cup Keys
  BY <1>0
     DEF Redis!Next, Redis!CreateSession, Redis!MutateSession, Redis!TruncateSessionEvents,
         Redis!CutEvents, Redis!DeleteSession, Redis!CreateRun, Redis!AdmitRun,
         Redis!CreateIdempotency, Redis!ReadRun, Redis!UpdateRun, Redis!ReadIdempotency,
         Redis!FinishIdempotency, Redis!ExpireIdempotency, Redis!Sweep, Redis!Tick
<1>2. \/ held' = held
      \/ \E r \in DOMAIN runs : held' = [x \in {r} |-> runs[x]]
      \/ \E k \in DOMAIN keys : held' = [x \in {k} |-> keys[x]]
      \/ DOMAIN held' = {}
  <2>1. ASSUME NEW r \in Runs, Redis!ReadRun(r)
        PROVE  r \in DOMAIN runs /\ held' = [x \in {r} |-> runs[x]]
    BY <2>1 DEF Redis!ReadRun
  <2>2. ASSUME NEW k \in Keys, Redis!ReadIdempotency(k)
        PROVE  k \in DOMAIN keys /\ held' = [x \in {k} |-> keys[x]]
    BY <2>2 DEF Redis!ReadIdempotency
  <2>3. ASSUME \/ \E r \in Runs, status \in Statuses : Redis!UpdateRun(r, status)
               \/ \E k \in Keys : Redis!FinishIdempotency(k)
        PROVE  DOMAIN held' = {}
    <3>1. held' = <<>>
      BY <2>3 DEF Redis!UpdateRun, Redis!FinishIdempotency
    <3> QED BY <3>1
  <2>4. ASSUME \/ \E s \in Sessions :
                    \/ Redis!CreateSession(s) \/ Redis!DeleteSession(s)
                    \/ \E rev \in 1 .. MaxRevision :
                         (\E n \in 1 .. 2 : Redis!MutateSession(s, rev, n)) \/ Redis!TruncateSessionEvents(s, rev)
                    \/ \E r \in Runs : Redis!CreateRun(s, r) \/ Redis!AdmitRun(s, r)
                    \/ \E k \in Keys : Redis!CreateIdempotency(s, k)
               \/ \E k \in Keys : Redis!ExpireIdempotency(k)
               \/ Redis!Sweep \/ Redis!Tick
        PROVE  held' = held
    BY <2>4
       DEF Redis!CreateSession, Redis!MutateSession, Redis!TruncateSessionEvents, Redis!DeleteSession,
           Redis!CreateRun, Redis!AdmitRun, Redis!CreateIdempotency, Redis!ExpireIdempotency,
           Redis!Sweep, Redis!Tick
  <2> QED BY <2>1, <2>2, <2>3, <2>4, SameRedis DEF Redis!Next
<1>3. CASE held' = held
  BY <1>0, <1>1, <1>3
<1>4. ASSUME NEW r \in DOMAIN runs, held' = [x \in {r} |-> runs[x]]
      PROVE  DOMAIN held' = {r} /\ r \in Runs /\ held'[r] \in RunRecord
  BY <1>0, <1>4 DEF StoreTypeOK
<1>5. ASSUME NEW k \in DOMAIN keys, held' = [x \in {k} |-> keys[x]]
      PROVE  DOMAIN held' = {k} /\ k \in Keys /\ held'[k] \in KeyRecord
  BY <1>0, <1>5 DEF StoreTypeOK
<1> QED BY <1>1, <1>2, <1>3, <1>4, <1>5

\* No run enters the index of a session but the one that is admitted.
LEMMA IndexedRunsStay ==
  ASSUME StoreTypeOK, IsFiniteSet(DOMAIN runs), RunsIndexed,
         DOMAIN runs' \subseteq Runs, DOMAIN index' \cap Runs \subseteq DOMAIN index,
         \A r \in DOMAIN runs' \cap DOMAIN runs : runs'[r].sid = runs[r].sid
  PROVE  \A s \in Sessions : Cardinality((RunsOf(s) \cap DOMAIN index)') <= MaxRuns
<1> SUFFICES ASSUME NEW s \in Sessions
             PROVE  Cardinality((RunsOf(s) \cap DOMAIN index)') <= MaxRuns
  OBVIOUS
<1>1. /\ IsFiniteSet(RunsOf(s) \cap DOMAIN index) /\ MaxRuns \in Nat
      /\ Cardinality(RunsOf(s) \cap DOMAIN index) <= MaxRuns
  BY FS_Subset, StoreAssumption DEF RunsOf, RunsIndexed
<1>2. (RunsOf(s) \cap DOMAIN index)' \subseteq RunsOf(s) \cap DOMAIN index
  BY DEF RunsOf, RunsIndexed
<1> QED BY <1>1, <1>2, NoMore

LEMMA RunIndexed ==
  ASSUME StoreTypeOK, IsFiniteSet(DOMAIN runs), RunsIndexed, held' = held,
         NEW s \in Sessions, NEW r \in Runs \ (DOMAIN runs \cup DOMAIN held), NEW E, Placed(s, r, E)
  PROVE  RunsIndexed'
<1>0. DOMAIN runs \subseteq Runs
  BY DEF StoreTypeOK
<1>1. CASE runs' = Without(runs, E) /\ index' = Without(index, E)
  <2>1. /\ DOMAIN runs' = DOMAIN runs \ E /\ DOMAIN index' = DOMAIN index \ E
        /\ \A q \in DOMAIN runs' : runs'[q] = runs[q]
    BY <1>1 DEF Without
  <2>2. \A t \in Sessions : Cardinality((RunsOf(t) \cap DOMAIN index)') <= MaxRuns
    BY <1>0, <2>1, IndexedRunsStay
  <2> QED BY <2>1, <2>2 DEF RunsIndexed
<1>2. CASE /\ Cardinality((RunsOf(s) \cap DOMAIN index) \ E) < MaxRuns
           /\ runs' = With(Without(runs, E), r, NewRun(s))
           /\ index' = With(Without(index, E), r, 0)
  <2>1. /\ DOMAIN runs' = (DOMAIN runs \ E) \cup {r} /\ DOMAIN index' = (DOMAIN index \ E) \cup {r}
        /\ runs'[r].sid = s /\ \A q \in DOMAIN runs \ E : q # r /\ runs'[q] = runs[q]
    BY <1>2, NewRecords DEF With, Without
  <2>2. ASSUME NEW t \in Sessions
        PROVE  Cardinality((RunsOf(t) \cap DOMAIN index)') <= MaxRuns
    <3>1. /\ IsFiniteSet(RunsOf(t) \cap DOMAIN index) /\ MaxRuns \in Nat
          /\ Cardinality(RunsOf(t) \cap DOMAIN index) <= MaxRuns
      BY FS_Subset, StoreAssumption DEF RunsOf, RunsIndexed
    <3>2. CASE t = s
      <4>1. (RunsOf(t) \cap DOMAIN index)' \subseteq ((RunsOf(s) \cap DOMAIN index) \ E) \cup {r}
        BY <1>0, <2>1, <3>2 DEF RunsOf, RunsIndexed
      <4>2. IsFiniteSet((RunsOf(s) \cap DOMAIN index) \ E)
        BY <3>1, <3>2, FS_Subset
      <4> QED BY <1>2, <3>1, <4>1, <4>2, OneMore
    <3>3. CASE t # s
      <4>1. (RunsOf(t) \cap DOMAIN index)' \subseteq RunsOf(t) \cap DOMAIN index
        BY <1>0, <2>1, <3>3 DEF RunsOf, RunsIndexed
      <4> QED BY <3>1, <4>1, NoMore
    <3> QED BY <3>2, <3>3
  <2> QED BY <2>1, <2>2 DEF RunsIndexed
<1> QED BY <1>1, <1>2 DEF Placed

LEMMA RunsIndexStep ==
  ASSUME TypeOK, Finite, RunsIndexed, RunsTyped', Redis!Next
  PROVE  RunsIndexed'
<1>0. /\ StoreTypeOK /\ IsFiniteSet(DOMAIN runs)
      /\ DOMAIN runs \subseteq Runs /\ DOMAIN keys \subseteq Keys /\ DOMAIN runs' \subseteq Runs
  BY DEF TypeOK, StoreTypeOK, Finite, RunsTyped
<1>1. ASSUME DOMAIN index' \cap Runs \subseteq DOMAIN index \cap DOMAIN runs',
             \A r \in DOMAIN runs' \cap DOMAIN runs : runs'[r].sid = runs[r].sid,
             \/ held' = held /\ DOMAIN runs' \subseteq DOMAIN runs
             \/ DOMAIN held' \cap DOMAIN runs' = {}
      PROVE  RunsIndexed'
  <2>1. \A s \in Sessions : Cardinality((RunsOf(s) \cap DOMAIN index)') <= MaxRuns
    BY <1>0, <1>1, IndexedRunsStay
  <2>2. \A r \in DOMAIN held' \cap DOMAIN runs' : held'[r].sid = runs'[r].sid
    BY <1>1 DEF RunsIndexed
  <2> QED BY <1>1, <2>1, <2>2 DEF RunsIndexed
<1>2. ASSUME UNCHANGED <<runs, held>>, DOMAIN index' \cap Runs \subseteq DOMAIN index
      PROVE  RunsIndexed'
  BY <1>1, <1>2 DEF RunsIndexed
<1>3. ASSUME \/ \E s \in Sessions :
                  \/ Redis!CreateSession(s)
                  \/ \E rev \in 1 .. MaxRevision :
                       (\E n \in 1 .. 2 : Redis!MutateSession(s, rev, n)) \/ Redis!TruncateSessionEvents(s, rev)
      PROVE  RunsIndexed'
  <2>1. UNCHANGED <<runs, held, index>>
    BY <1>3 DEF Redis!CreateSession, Redis!MutateSession, Redis!TruncateSessionEvents
  <2> QED BY <1>2, <2>1
<1>4. ASSUME NEW s \in Sessions, Redis!DeleteSession(s) PROVE RunsIndexed'
  <2>1. /\ runs' = Without(runs, RunsOf(s) \cap DOMAIN index) /\ held' = held
        /\ index' = Without(index, RunsOf(s) \cup KeysOf(s))
    BY <1>4, SameRedis DEF Redis!DeleteSession
  <2>2. /\ DOMAIN runs' = DOMAIN runs \ (RunsOf(s) \cap DOMAIN index)
        /\ \A r \in DOMAIN runs' : runs'[r] = runs[r]
        /\ DOMAIN index' = DOMAIN index \ (RunsOf(s) \cup KeysOf(s))
    BY <2>1 DEF Without
  <2>3. DOMAIN index' \cap Runs \subseteq DOMAIN index \cap DOMAIN runs'
    BY <2>2 DEF RunsIndexed
  <2> QED BY <1>1, <2>1, <2>2, <2>3
<1>5. ASSUME NEW s \in Sessions, NEW r \in Runs, Redis!CreateRun(s, r) \/ Redis!AdmitRun(s, r)
      PROVE  RunsIndexed'
  <2>1. /\ r \notin DOMAIN runs \cup DOMAIN held /\ held' = held
        /\ Redis!PlaceRun(s, r) \/ UNCHANGED <<runs, index>>
    BY <1>5 DEF Redis!CreateRun, Redis!AdmitRun
  <2>2. CASE Redis!PlaceRun(s, r)
    BY <1>0, <2>1, <2>2, PlaceRunIs, RunIndexed
  <2>3. CASE UNCHANGED <<runs, index>>
    BY <1>2, <2>1, <2>3
  <2> QED BY <2>1, <2>2, <2>3
<1>6. ASSUME NEW s \in Sessions, NEW k \in Keys, Redis!CreateIdempotency(s, k) PROVE RunsIndexed'
  <2>1. UNCHANGED <<runs, held>> /\ index' = With(index, k, 0)
    BY <1>6, SameRedis DEF Redis!CreateIdempotency, Redis!PlaceKey
  <2>2. DOMAIN index' \cap Runs \subseteq DOMAIN index
    BY <2>1, KindAssumption DEF With
  <2> QED BY <1>2, <2>1, <2>2
<1>7. ASSUME NEW r \in Runs, Redis!ReadRun(r) PROVE RunsIndexed'
  <2>1. /\ r \in DOMAIN runs /\ held' = [x \in {r} |-> runs[x]] /\ UNCHANGED <<runs, index>>
    BY <1>7 DEF Redis!ReadRun
  <2>2. \A q \in DOMAIN held' \cap DOMAIN runs' : held'[q].sid = runs'[q].sid
    BY <2>1
  <2>3. \A s \in Sessions : Cardinality((RunsOf(s) \cap DOMAIN index)') <= MaxRuns
    BY <1>0, <2>1, IndexedRunsStay
  <2> QED BY <2>1, <2>2, <2>3 DEF RunsIndexed
<1>8. ASSUME NEW r \in Runs, NEW status \in Statuses, Redis!UpdateRun(r, status) PROVE RunsIndexed'
  <2>1. /\ r \in DOMAIN held /\ held' = <<>> /\ index' = index
        /\ runs' = With(runs, r, [held[r] EXCEPT !.status = status, !.idle = 0])
    BY <1>8, SameRedis DEF Redis!UpdateRun
  <2>2. held[r] \in RunRecord
    BY <2>1, KindAssumption DEF TypeOK
  <2>3. /\ DOMAIN runs' = DOMAIN runs \cup {r} /\ runs'[r].sid = held[r].sid
        /\ \A q \in DOMAIN runs \ {r} : runs'[q] = runs[q]
    BY <2>1, <2>2 DEF With, RunRecord
  <2>4. \A q \in DOMAIN runs' \cap DOMAIN runs : runs'[q].sid = runs[q].sid
    BY <2>1, <2>3 DEF RunsIndexed
  <2>5. DOMAIN held' = {} /\ DOMAIN index' \cap Runs \subseteq DOMAIN index \cap DOMAIN runs'
    BY <2>1, <2>3 DEF RunsIndexed
  <2> QED BY <1>1, <2>4, <2>5
<1>9. ASSUME NEW k \in Keys, Redis!ReadIdempotency(k) PROVE RunsIndexed'
  <2>1. k \in DOMAIN keys /\ held' = [x \in {k} |-> keys[x]] /\ UNCHANGED <<runs, index>>
    BY <1>9 DEF Redis!ReadIdempotency
  <2>2. DOMAIN held' \cap DOMAIN runs' = {}
    BY <1>0, <2>1, KindAssumption
  <2> QED BY <1>1, <2>1, <2>2 DEF RunsIndexed
<1>10. ASSUME NEW k \in Keys, Redis!FinishIdempotency(k) PROVE RunsIndexed'
  <2>1. held' = <<>> /\ UNCHANGED <<runs, index>>
    BY <1>10 DEF Redis!FinishIdempotency
  <2>2. DOMAIN held' \cap DOMAIN runs' = {}
    BY <2>1
  <2> QED BY <1>1, <2>1, <2>2 DEF RunsIndexed
<1>11. ASSUME NEW k \in Keys, Redis!ExpireIdempotency(k) PROVE RunsIndexed'
  <2>1. UNCHANGED <<runs, held>> /\ index' = Without(index, {k})
    BY <1>11, SameRedis DEF Redis!ExpireIdempotency, Redis!RemoveKey
  <2>2. DOMAIN index' \cap Runs \subseteq DOMAIN index
    BY <2>1 DEF Without
  <2> QED BY <1>2, <2>1, <2>2
<1>12. CASE Redis!Sweep
  <2>1. /\ DOMAIN runs' = DOMAIN runs \ Redis!Swept /\ held' = held
        /\ DOMAIN index' = DOMAIN index \ (Redis!Swept \cup (Redis!Due \ DOMAIN runs))
        /\ \A r \in DOMAIN runs' : runs'[r] = IF r \in Redis!Interrupted
                                              THEN [runs[r] EXCEPT !.status = "ended"] ELSE runs[r]
    BY <1>12 DEF Redis!Sweep
  <2>2. \A r \in DOMAIN runs : [runs[r] EXCEPT !.status = "ended"].sid = runs[r].sid
    BY <1>0 DEF StoreTypeOK, RunRecord
  <2>3. DOMAIN index' \cap Runs \subseteq DOMAIN index \cap DOMAIN runs'
    BY <2>1 DEF RunsIndexed
  <2> QED BY <1>1, <2>1, <2>2, <2>3
<1>13. CASE Redis!Tick
  <2>1. runs' = Older(runs) /\ index' = Redis!Grown(index) /\ held' = held
    BY <1>13, SameRedis DEF Redis!Tick
  <2>2. DOMAIN runs' = DOMAIN runs /\ DOMAIN index' = DOMAIN index
    BY <2>1, OlderIs DEF Redis!Grown
  <2> QED BY <1>0, <1>1, <2>1, <2>2, OlderRuns DEF RunsIndexed
<1> QED
  BY <1>3, <1>4, <1>5, <1>6, <1>7, <1>8, <1>9, <1>10, <1>11, <1>12, <1>13, SameRedis
     DEF Redis!Next

LEMMA UnpinnedKeysStay ==
  ASSUME StoreTypeOK, IsFiniteSet(DOMAIN keys), KeysIndexed,
         DOMAIN keys' \ pinned' \subseteq DOMAIN keys \ pinned,
         \A k \in DOMAIN keys' \cap DOMAIN keys : keys'[k].sid = keys[k].sid
  PROVE  \A s \in Sessions : Cardinality((KeysOf(s) \ pinned)') <= MaxKeys
<1> SUFFICES ASSUME NEW s \in Sessions
             PROVE  Cardinality((KeysOf(s) \ pinned)') <= MaxKeys
  OBVIOUS
<1>1. /\ IsFiniteSet(KeysOf(s) \ pinned) /\ MaxKeys \in Nat
      /\ Cardinality(KeysOf(s) \ pinned) <= MaxKeys
  BY FS_Subset, StoreAssumption DEF KeysOf, KeysIndexed
<1>2. (KeysOf(s) \ pinned)' \subseteq KeysOf(s) \ pinned
  BY DEF KeysOf
<1> QED BY <1>1, <1>2, NoMore

LEMMA KeysIndexStep ==
  ASSUME TypeOK, Finite, KeysIndexed, Redis!Next
  PROVE  KeysIndexed'
<1>0. /\ StoreTypeOK /\ IsFiniteSet(DOMAIN keys) /\ IsFiniteSet(DOMAIN runs)
      /\ DOMAIN runs \subseteq Runs /\ DOMAIN keys \subseteq Keys
  BY DEF TypeOK, StoreTypeOK, Finite
<1>1. ASSUME DOMAIN keys' \ pinned' \subseteq (DOMAIN keys \ pinned) \cap DOMAIN index',
             \A k \in DOMAIN keys' \cap DOMAIN keys : keys'[k].sid = keys[k].sid,
             \/ held' = held /\ DOMAIN keys' \subseteq DOMAIN keys
             \/ DOMAIN held' \cap DOMAIN keys' = {}
      PROVE  KeysIndexed'
  <2>1. \A s \in Sessions : Cardinality((KeysOf(s) \ pinned)') <= MaxKeys
    BY <1>0, <1>1, UnpinnedKeysStay
  <2>2. \A k \in DOMAIN held' \cap DOMAIN keys' : held'[k].sid = keys'[k].sid
    BY <1>1 DEF KeysIndexed
  <2> QED BY <1>1, <2>1, <2>2 DEF KeysIndexed
<1>2. ASSUME UNCHANGED <<keys, held>>, pinned \cap Keys \subseteq pinned',
             DOMAIN index \cap Keys \subseteq DOMAIN index'
      PROVE  KeysIndexed'
  <2>1. DOMAIN keys' \ pinned' \subseteq (DOMAIN keys \ pinned) \cap DOMAIN index'
    BY <1>0, <1>2 DEF KeysIndexed
  <2> QED BY <1>1, <1>2, <2>1
<1>3. ASSUME NEW s \in Sessions,
             \/ Redis!CreateSession(s)
             \/ \E rev \in 1 .. MaxRevision :
                  (\E n \in 1 .. 2 : Redis!MutateSession(s, rev, n)) \/ Redis!TruncateSessionEvents(s, rev)
      PROVE  KeysIndexed'
  <2>1. /\ UNCHANGED <<keys, held, index>>
        /\ pinned' = pinned \/ pinned' = pinned \ {s} \/ pinned' = pinned \cup {s}
    BY <1>3
       DEF Redis!CreateSession, Redis!MutateSession, Redis!TruncateSessionEvents, Redis!CutEvents
  <2>2. pinned \cap Keys \subseteq pinned'
    BY <2>1, KindAssumption
  <2> QED BY <1>2, <2>1, <2>2
<1>4. ASSUME NEW s \in Sessions, Redis!DeleteSession(s) PROVE KeysIndexed'
  <2>1. /\ keys' = Without(keys, KeysOf(s) \cap DOMAIN index) /\ held' = held
        /\ index' = Without(index, RunsOf(s) \cup KeysOf(s))
        /\ pinned' = pinned \ ({s} \cup (KeysOf(s) \cap DOMAIN index))
    BY <1>4, SameRedis DEF Redis!DeleteSession
  <2>2. /\ DOMAIN keys' = DOMAIN keys \ (KeysOf(s) \cap DOMAIN index)
        /\ \A k \in DOMAIN keys' : keys'[k] = keys[k]
        /\ DOMAIN index' = DOMAIN index \ (RunsOf(s) \cup KeysOf(s))
    BY <2>1 DEF Without
  <2>3. DOMAIN keys' \ pinned' \subseteq DOMAIN keys \ pinned
    BY <1>0, <2>1, <2>2, KindAssumption
  <2>4. DOMAIN keys' \ pinned' \subseteq DOMAIN index'
    <3>1. RunsOf(s) \subseteq Runs
      BY <1>0 DEF RunsOf
    <3> QED BY <1>0, <2>2, <2>3, <3>1, KindAssumption DEF KeysIndexed
  <2> QED BY <1>1, <2>1, <2>2, <2>3, <2>4
<1>5. ASSUME NEW s \in Sessions, NEW r \in Runs, Redis!CreateRun(s, r) \/ Redis!AdmitRun(s, r)
      PROVE  KeysIndexed'
  <2>1. /\ r \notin DOMAIN runs /\ UNCHANGED <<keys, held, pinned>>
        /\ Redis!PlaceRun(s, r) \/ UNCHANGED <<runs, index>>
    BY <1>5 DEF Redis!CreateRun, Redis!AdmitRun
  <2>2. ASSUME NEW E, Placed(s, r, E)
        PROVE  DOMAIN index \cap Keys \subseteq DOMAIN index'
    <3>1. E \cap Keys = {}
      BY <1>0, <2>2, KindAssumption DEF Placed, RunsOf
    <3> QED BY <2>2, <3>1 DEF Placed, With, Without
  <2>3. DOMAIN index \cap Keys \subseteq DOMAIN index'
    BY <1>0, <2>1, <2>2, PlaceRunIs
  <2> QED BY <1>2, <2>1, <2>3
<1>6. ASSUME NEW s \in Sessions, NEW k \in Keys, Redis!CreateIdempotency(s, k) PROVE KeysIndexed'
  <2>1. /\ k \notin DOMAIN keys \cup DOMAIN held /\ UNCHANGED <<held, pinned>>
        /\ Cardinality(KeysOf(s) \cap DOMAIN index) < MaxKeys
        /\ keys' = With(keys, k, NewKey(s)) /\ index' = With(index, k, 0)
    BY <1>6, SameRedis, SameCardinality DEF Redis!CreateIdempotency, Redis!PlaceKey
  <2>2. /\ DOMAIN keys' = DOMAIN keys \cup {k} /\ DOMAIN index' = DOMAIN index \cup {k}
        /\ keys'[k].sid = s /\ \A q \in DOMAIN keys : q # k /\ keys'[q] = keys[q]
    BY <2>1, NewRecords DEF With
  <2>3. ASSUME NEW t \in Sessions
        PROVE  Cardinality((KeysOf(t) \ pinned)') <= MaxKeys
    <3>1. /\ IsFiniteSet(KeysOf(t) \ pinned) /\ IsFiniteSet(KeysOf(t) \cap DOMAIN index)
          /\ Cardinality(KeysOf(t) \ pinned) <= MaxKeys /\ MaxKeys \in Nat
      BY <1>0, FS_Subset, StoreAssumption DEF KeysOf, KeysIndexed
    <3>2. CASE t = s
      <4>1. (KeysOf(t) \ pinned)' \subseteq (KeysOf(t) \cap DOMAIN index) \cup {k}
        BY <2>1, <2>2 DEF KeysOf, KeysIndexed
      <4> QED BY <2>1, <3>1, <3>2, <4>1, OneMore
    <3>3. CASE t # s
      <4>1. (KeysOf(t) \ pinned)' \subseteq KeysOf(t) \ pinned
        BY <2>1, <2>2, <3>3 DEF KeysOf
      <4> QED BY <3>1, <4>1, NoMore
    <3> QED BY <3>2, <3>3
  <2> QED BY <2>1, <2>2, <2>3 DEF KeysIndexed
<1>7. ASSUME NEW r \in Runs, Redis!ReadRun(r) PROVE KeysIndexed'
  <2>1. r \in DOMAIN runs /\ held' = [x \in {r} |-> runs[x]] /\ UNCHANGED <<keys, index, pinned>>
    BY <1>7 DEF Redis!ReadRun
  <2>2. DOMAIN held' \cap DOMAIN keys' = {}
    BY <1>0, <2>1, KindAssumption
  <2> QED BY <1>1, <2>1, <2>2 DEF KeysIndexed
<1>8. ASSUME NEW r \in Runs, NEW status \in Statuses, Redis!UpdateRun(r, status) PROVE KeysIndexed'
  <2>1. held' = <<>> /\ UNCHANGED <<keys, index, pinned>>
    BY <1>8 DEF Redis!UpdateRun
  <2>2. DOMAIN held' \cap DOMAIN keys' = {}
    BY <2>1
  <2> QED BY <1>1, <2>1, <2>2 DEF KeysIndexed
<1>9. ASSUME NEW k \in Keys, Redis!ReadIdempotency(k) PROVE KeysIndexed'
  <2>1. k \in DOMAIN keys /\ held' = [x \in {k} |-> keys[x]] /\ UNCHANGED <<keys, index, pinned>>
    BY <1>9 DEF Redis!ReadIdempotency
  <2>2. \A q \in DOMAIN held' \cap DOMAIN keys' : held'[q].sid = keys'[q].sid
    BY <2>1
  <2>3. \A s \in Sessions : Cardinality((KeysOf(s) \ pinned)') <= MaxKeys
    BY <1>0, <2>1, UnpinnedKeysStay
  <2> QED BY <2>1, <2>2, <2>3 DEF KeysIndexed
<1>10. ASSUME NEW k \in Keys, Redis!FinishIdempotency(k) PROVE KeysIndexed'
  <2>1. /\ k \in DOMAIN held /\ held' = <<>> /\ index' = index /\ pinned' = pinned \cup {k}
        /\ keys' = With(keys, k, [held[k] EXCEPT !.done = TRUE])
    BY <1>10, SameRedis DEF Redis!FinishIdempotency
  <2>2. held[k] \in KeyRecord
    BY <2>1, KindAssumption DEF TypeOK
  <2>3. /\ DOMAIN keys' = DOMAIN keys \cup {k} /\ keys'[k].sid = held[k].sid
        /\ \A q \in DOMAIN keys \ {k} : keys'[q] = keys[q]
    BY <2>1, <2>2 DEF With, KeyRecord
  <2>4. \A q \in DOMAIN keys' \cap DOMAIN keys : keys'[q].sid = keys[q].sid
    BY <2>1, <2>3 DEF KeysIndexed
  <2>5. /\ DOMAIN held' = {}
        /\ DOMAIN keys' \ pinned' \subseteq (DOMAIN keys \ pinned) \cap DOMAIN index'
    BY <2>1, <2>3 DEF KeysIndexed
  <2> QED BY <1>1, <2>4, <2>5
<1>11. ASSUME NEW k \in Keys, Redis!ExpireIdempotency(k) PROVE KeysIndexed'
  <2>1. /\ keys' = Without(keys, {k}) /\ index' = Without(index, {k})
        /\ pinned' = pinned \ {k} /\ held' = held
    BY <1>11, SameRedis DEF Redis!ExpireIdempotency, Redis!RemoveKey
  <2>2. /\ DOMAIN keys' = DOMAIN keys \ {k} /\ DOMAIN index' = DOMAIN index \ {k}
        /\ \A q \in DOMAIN keys' : keys'[q] = keys[q]
    BY <2>1 DEF Without
  <2>3. DOMAIN keys' \ pinned' \subseteq (DOMAIN keys \ pinned) \cap DOMAIN index'
    BY <2>1, <2>2 DEF KeysIndexed
  <2> QED BY <1>1, <2>1, <2>2, <2>3
<1>12. CASE Redis!Sweep
  <2>1. /\ UNCHANGED <<keys, held, pinned>>
        /\ DOMAIN index' = DOMAIN index \ (Redis!Swept \cup (Redis!Due \ DOMAIN runs))
    BY <1>12 DEF Redis!Sweep
  <2>2. Redis!Swept \subseteq Runs /\ Redis!Due \subseteq Runs
    BY DEF Redis!Swept, Redis!Due
  <2>3. DOMAIN index \cap Keys \subseteq DOMAIN index'
    BY <2>1, <2>2, KindAssumption
  <2> QED BY <1>2, <2>1, <2>3
<1>13. CASE Redis!Tick
  <2>1. /\ keys' = [k \in {k \in DOMAIN Older(keys) : k \in pinned \/ Redis!Unexpired(Older(keys)[k])}
                      |-> Older(keys)[k]]
        /\ index' = Redis!Grown(index) /\ UNCHANGED <<held, pinned>>
    BY <1>13, SameRedis DEF Redis!Tick
  <2>2. /\ DOMAIN keys' \subseteq DOMAIN keys /\ DOMAIN index' = DOMAIN index
        /\ \A k \in DOMAIN keys' : keys'[k] = Older(keys)[k]
    BY <2>1, OlderIs DEF Redis!Grown
  <2>3. \A k \in DOMAIN keys' : keys'[k].sid = keys[k].sid
    BY <1>0, <2>2, OlderKeys
  <2> QED BY <1>1, <2>1, <2>2, <2>3 DEF KeysIndexed
<1> QED
  BY <1>3, <1>4, <1>5, <1>6, <1>7, <1>8, <1>9, <1>10, <1>11, <1>12, <1>13, SameRedis
     DEF Redis!Next

-----------------------------------------------------------------------------
(* The invariant                                                           *)

LEMMA CapacityIs ==
  Capacity <=>
    /\ Strict => \A s \in Sessions : Cardinality(RunsOf(s)) <= MaxRuns /\ Cardinality(KeysOf(s)) <= MaxKeys
    /\ ~Strict => \A s \in Sessions : /\ Cardinality(RunsOf(s) \cap DOMAIN index) <= MaxRuns
                                      /\ Cardinality(KeysOf(s) \ pinned) <= MaxKeys
BY DEF Capacity, Strict

LEMMA TypeOKIs ==
  TypeOK <=> /\ StoreTypeOK /\ backend \in Backends /\ LockTyped /\ RedisTyped
             /\ revived \subseteq Runs
BY DEF TypeOK, LockTyped, RedisTyped

LEMMA Initially == Init => TypeOK /\ StoreInv
<1> SUFFICES ASSUME Init
             PROVE  TypeOK /\ StoreInv
  OBVIOUS
<1>0. /\ sess = <<>> /\ runs = <<>> /\ keys = <<>> /\ backend \in Backends
      /\ lock = [op |-> "free", on |-> Nothing, run |-> Nothing, left |-> {}]
      /\ idx = <<>> /\ index = <<>> /\ pinned = {} /\ held = <<>> /\ revived = {}
  BY DEF Init, StoreInit, File!Free, Redis!RedisInit
<1>1. /\ DOMAIN sess = {} /\ DOMAIN runs = {} /\ DOMAIN keys = {} /\ DOMAIN idx = {}
      /\ DOMAIN index = {} /\ DOMAIN held = {}
  BY <1>0
<1>2. StoreTypeOK
  <2>1. sess \in [DOMAIN sess -> SessionRecord]
    BY <1>0, <1>1
  <2>2. runs \in [DOMAIN runs -> RunRecord]
    BY <1>0, <1>1
  <2>3. keys \in [DOMAIN keys -> KeyRecord]
    BY <1>0, <1>1
  <2> QED BY <1>1, <2>1, <2>2, <2>3 DEF StoreTypeOK
<1>3. LockTyped
  <2>1. "free" \in Operations
    BY DEF Operations
  <2> QED BY <1>0, <2>1 DEF LockTyped
<1>4. RedisTyped
  <2>1. idx \in [DOMAIN idx -> Ages] /\ index \in [DOMAIN index -> Ages]
    BY <1>0, <1>1
  <2> QED BY <1>0, <1>1, <2>1 DEF RedisTyped
<1>5. Finite /\ LockKept /\ IndexKept /\ LiveRunHasSession
  <2>1. Finite
    BY <1>1, FS_EmptySet DEF Finite
  <2> QED BY <1>0, <1>1, <2>1 DEF LockKept, IndexKept, LiveRunHasSession, Stranded
<1>6. Capacity
  <2>1. \A s : /\ RunsOf(s) = {} /\ RunsOf(s) \cap DOMAIN index = {}
               /\ KeysOf(s) = {} /\ KeysOf(s) \ pinned = {}
    BY <1>1 DEF RunsOf, KeysOf
  <2>2. Cardinality({}) = 0 /\ 0 <= MaxRuns /\ 0 <= MaxKeys
    BY FS_EmptySet, StoreAssumption
  <2> QED BY <2>1, <2>2, CapacityIs
<1> QED BY <1>0, <1>2, <1>3, <1>4, <1>5, <1>6, TypeOKIs DEF StoreInv

LEMMA NextMoves ==
  ASSUME TypeOK, StoreInv, Next
  PROVE  Moves /\ backend' = backend
<1>1. Finite /\ LockKept /\ IndexKept /\ backend' = backend
  BY DEF StoreInv, Next
<1>2. CASE backend = "memory" /\ Memory!Next
  BY <1>1, <1>2, MemoryMoves
<1>3. CASE backend = "file" /\ File!Next
  BY <1>1, <1>3, FileMoves
<1>4. CASE backend = "redis" /\ Redis!Next
  BY <1>1, <1>4, RedisMoves
<1> QED BY <1>1, <1>2, <1>3, <1>4 DEF Next

LEMMA NextIsAllowed ==
  ASSUME TypeOK, StoreInv, Next
  PROVE  /\ SessionsTyped' /\ RunsTyped' /\ KeysTyped' /\ Finite'
         /\ \A s \in Sessions : SessionMay(s)
         /\ \A r \in Runs : RunMay(r)
         /\ \A k \in Keys : KeyMay(k)
<1>1. StoreTypeOK /\ IsFiniteSet(DOMAIN runs) /\ IsFiniteSet(DOMAIN keys)
  BY DEF TypeOK, StoreInv, Finite
<1>2. SessionsMove /\ RunsMove /\ KeysMove
  BY NextMoves DEF Moves
<1> QED BY <1>1, <1>2, SessionsAllowed, RunsAllowed, KeysAllowed DEF Finite

LEMMA Inductive == TypeOK /\ StoreInv /\ [Next]_vars => (TypeOK /\ StoreInv)'
<1>1. ASSUME TypeOK, StoreInv, Next
      PROVE  (TypeOK /\ StoreInv)'
  <2>0. /\ StoreTypeOK /\ Finite /\ LockKept /\ IndexKept /\ LiveRunHasSession /\ Capacity
        /\ LockTyped /\ RedisTyped /\ backend \in Backends /\ backend' = backend
        /\ IsFiniteSet(DOMAIN runs) /\ IsFiniteSet(DOMAIN keys)
    BY <1>1, TypeOKIs, NextMoves DEF StoreInv, Finite
  <2>1. StoreTypeOK' /\ Finite' /\ RunsTyped'
    BY <1>1, NextIsAllowed DEF StoreTypeOK, SessionsTyped, RunsTyped, KeysTyped
  <2>2. SessionsMove /\ RunsMove /\ KeysMove /\ \A s \in Sessions : SessionMay(s)
    BY <1>1, NextMoves, NextIsAllowed DEF Moves
  <2>3. revived' \subseteq Runs
    BY <1>1, <2>1 DEF Next, StoreTypeOK, Stranded
  <2>4. CASE Strict
    <3>1. Strict'
      BY <2>0, <2>4 DEF Strict
    <3>2. UNCHANGED <<idx, index, pinned, held>> /\ backend # "redis"
      BY <1>1, <2>4 DEF Next, redisVars, Strict
    <3>3. RedisTyped' /\ IndexKept'
      BY <2>0, <3>2 DEF RedisTyped, IndexKept
    <3>4. LockTyped' /\ LockKept'
      <4>1. CASE backend = "file"
        <5>1. File!Next
          BY <1>1, <4>1 DEF Next
        <5> QED BY <1>1, <2>0, <4>1, <5>1, LockStep
      <4>2. CASE backend # "file"
        <5>1. lock' = lock /\ lock.op = "free"
          BY <1>1, <2>0, <4>2 DEF Next, LockKept
        <5> QED BY <2>0, <5>1 DEF LockTyped, LockKept
      <4> QED BY <4>1, <4>2
    <3>5. \A s \in Sessions : Cardinality(RunsOf(s)') <= MaxRuns /\ Cardinality(KeysOf(s)') <= MaxKeys
      <4>1. \A s \in Sessions : Cardinality(RunsOf(s)) <= MaxRuns /\ Cardinality(KeysOf(s)) <= MaxKeys
        BY <2>0, <2>4, CapacityIs
      <4> QED BY <2>0, <2>2, <2>4, <4>1, StrictRunsCount, StrictKeysCount
    <3>6. Capacity'
      BY <3>1, <3>5 DEF Capacity, Strict
    <3>7. LiveRunHasSession'
      <4>1. revived' = Stranded' \cap (revived \cup HadEnded)
        BY <1>1, <3>2 DEF Next
      <4> QED BY <2>0, <2>2, <2>4, <4>1, StrictRunsHaveSessions
    <3> QED BY <2>0, <2>1, <2>3, <3>3, <3>4, <3>6, <3>7 DEF TypeOK, LockTyped, RedisTyped, StoreInv
  <2>5. CASE ~Strict
    <3>1. Redis!Next /\ lock' = lock /\ backend = "redis" /\ backend' = "redis"
      BY <1>1, <2>0, <2>5 DEF Next, Strict
    <3>2. RunsIndexed /\ KeysIndexed
      BY <2>0, <2>5, <3>1, CapacityIs DEF RunsIndexed, KeysIndexed, IndexKept
    <3>3. RunsIndexed' /\ KeysIndexed'
      BY <1>1, <2>0, <2>1, <3>1, <3>2, RunsIndexStep, KeysIndexStep
    <3>4. RedisTyped'
      BY <1>1, <2>0, <3>1, IndexTyped, IdxTyped, HeldTyped DEF RedisTyped
    <3>5. LockTyped' /\ LockKept'
      <4>1. lock' = lock /\ lock.op = "free"
        BY <2>0, <3>1 DEF LockKept
      <4> QED BY <2>0, <3>1, <4>1 DEF LockTyped, LockKept
    <3>6. IndexKept' /\ LiveRunHasSession'
      BY <3>1, <3>3 DEF IndexKept, RunsIndexed, KeysIndexed, LiveRunHasSession
    <3>7. Capacity'
      BY <3>1, <3>3 DEF Capacity, RunsIndexed, KeysIndexed
    <3> QED BY <2>0, <2>1, <2>3, <3>4, <3>5, <3>6, <3>7 DEF TypeOK, LockTyped, RedisTyped, StoreInv
  <2> QED BY <2>4, <2>5
<1>2. ASSUME TypeOK, StoreInv, UNCHANGED vars
      PROVE  (TypeOK /\ StoreInv)'
  <2>1. TypeOK'
    BY <1>2 DEF vars, TypeOK, StoreTypeOK
  <2>2. StoreInv'
    BY <1>2
       DEF vars, StoreInv, Finite, LockKept, IndexKept, Capacity, LiveRunHasSession, Stranded, RunsOf,
           KeysOf, Ended
  <2> QED BY <2>1, <2>2
<1> QED BY <1>1, <1>2

-----------------------------------------------------------------------------
(* The theorems                                                            *)

\* Every reachable state of every backend is well typed and keeps what its operations rely
\* on: the file backend's unfinished work, the indexes of Redis, the limits of a session.
THEOREM StoresKept == Spec => [](TypeOK /\ StoreInv)
<1>1. Init => TypeOK /\ StoreInv
  BY Initially
<1>2. TypeOK /\ StoreInv /\ [Next]_vars => (TypeOK /\ StoreInv)'
  BY Inductive
<1> QED BY <1>1, <1>2, PTL DEF Spec

\* The limits on the runs and keys of a session hold across crashes in the middle of an
\* admission, expiries and stale updates, as far as each backend counts.
THEOREM CapacityKept == Spec => []Capacity
<1>1. StoreInv => Capacity
  BY DEF StoreInv
<1> QED BY <1>1, StoresKept, PTL

\* In memory and in files a run under way is never left without its session, unless it had
\* ended before and was written back to live.
THEOREM RunsKeepSessions == Spec => []LiveRunHasSession
<1>1. StoreInv => LiveRunHasSession
  BY DEF StoreInv
<1> QED BY <1>1, StoresKept, PTL

\* Every backend implements the contract of StorageBackend: its histories, what it forgets
\* and when, and the answers of its keys.
THEOREM ContractImplemented == Spec => ContractKept
<1>1. Init => Contract!StoreInit
  BY DEF Init, StoreInit, Contract!StoreInit
<1>2. ASSUME TypeOK, StoreInv, [Next]_vars
      PROVE  [Contract!Next]_(Contract!vars)
  <2>1. CASE Next
    BY <1>2, <2>1, NextIsAllowed, NextMoves, ContractAllows
  <2>2. CASE UNCHANGED vars
    BY <2>2 DEF vars, Contract!vars
  <2> QED BY <1>2, <2>1, <2>2
<1> QED BY <1>1, <1>2, StoresKept, PTL DEF Spec, ContractKept, Contract!Spec
=============================================================================
