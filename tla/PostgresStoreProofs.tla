------------------------- MODULE PostgresStoreProofs -------------------------
(***************************************************************************)
(* Theorems about PostgresStore: any number of callers that share the one  *)
(* connection, of rows and of calls, in any interleaving of statements.    *)
(***************************************************************************)
EXTENDS PostgresStore, FiniteSetTheorems, TLAPS

-----------------------------------------------------------------------------
(* One call moves                                                          *)

CallsTyped == call \in [Callers -> CallRecord] /\ \A c \in Callers : CallOK(call[c])
Others(c) == \A e \in Callers \ {c} : call'[e] = call[e]

LEMMA FreeIs ==
  /\ Free \in CallRecord /\ CallOK(Free) /\ Free.op = "free" /\ Free.at = "idle" /\ Free.lost = FALSE
BY StoreAssumption DEF Free, CallRecord, Stages, CallOK, Transactional

LEMMA ReturnIs ==
  ASSUME CallsTyped, NEW c \in Callers, Return(c)
  PROVE  CallsTyped' /\ Others(c) /\ call'[c] = Free
BY FreeIs DEF CallsTyped, Others, Return

LEMMA GotoIs ==
  ASSUME CallsTyped, NEW c \in Callers, NEW step \in Stages, Goto(c, step)
  PROVE  /\ call' \in [Callers -> CallRecord] /\ Others(c)
         /\ call'[c].at = step /\ call'[c].op = call[c].op /\ call'[c].on = call[c].on
         /\ call'[c].x = call[c].x /\ call'[c].expected = call[c].expected
         /\ call'[c].seen = call[c].seen /\ call'[c].lost = call[c].lost
<1>1. call[c] \in CallRecord /\ call'[c] = [call[c] EXCEPT !.at = step]
  BY DEF CallsTyped, Goto
<1>2. call'[c] \in CallRecord
  BY <1>1 DEF CallRecord, Stages
<1>3. call' \in [Callers -> CallRecord] /\ Others(c)
  BY <1>2 DEF CallsTyped, Goto, Others
<1> QED BY <1>1, <1>3 DEF CallRecord

LEMMA SeenIs ==
  ASSUME CallsTyped, NEW c \in Callers, NEW step \in Stages, NEW record \in SessionRecord \cup RunRecord,
         Seen(c, record, step)
  PROVE  /\ call' \in [Callers -> CallRecord] /\ Others(c)
         /\ call'[c].at = step /\ call'[c].op = call[c].op /\ call'[c].on = call[c].on
         /\ call'[c].x = call[c].x /\ call'[c].expected = call[c].expected
         /\ call'[c].seen = record /\ call'[c].lost = call[c].lost
<1>1. call[c] \in CallRecord /\ call'[c] = [call[c] EXCEPT !.seen = record, !.at = step]
  BY DEF CallsTyped, Seen
<1>2. call'[c] \in CallRecord
  BY <1>1 DEF CallRecord
<1>3. call' \in [Callers -> CallRecord] /\ Others(c)
  BY <1>2 DEF CallsTyped, Seen, Others
<1> QED BY <1>1, <1>3 DEF CallRecord

LEMMA CallMoved ==
  ASSUME CallsTyped, NEW c \in Callers, call' \in [Callers -> CallRecord], Others(c), CallOK(call'[c])
  PROVE  CallsTyped'
BY DEF CallsTyped, Others

\* An attempt that lost the race goes on from the next revision, or gives up.
LEMMA AgainIs ==
  ASSUME CallsTyped, NEW c \in Callers, call[c].op = "mutate", Again(c)
  PROVE  /\ CallsTyped' /\ Others(c)
         /\ call'[c] = Free \/ (call'[c].op = "mutate" /\ call'[c].at = "read" /\ call'[c].lost = call[c].lost)
<1>1. CASE Return(c)
  BY <1>1, ReturnIs
<1>2. CASE /\ call[c].x # 3 /\ call[c].expected # MaxRevision
           /\ call' = [call EXCEPT ![c].at = "read", ![c].x = @ + 1, ![c].expected = @ + 1]
  <2>1. /\ call[c] \in CallRecord /\ CallOK(call[c]) /\ c \in DOMAIN call
        /\ call[c].x \in 1 .. 3 /\ call[c].expected \in 1 .. MaxRevision
    BY DEF CallsTyped, CallOK
  <2>2. PICK x \in 1 .. 3 : x = call[c].x + 1
    BY <1>2, <2>1
  <2>3. PICK expected \in 1 .. MaxRevision : expected = call[c].expected + 1
    BY <1>2, <2>1, StoreAssumption
  <2>4. /\ call'[c] = [call[c] EXCEPT !.at = "read", !.x = x, !.expected = expected]
        /\ Others(c) /\ DOMAIN call' = Callers
    BY <1>2, <2>1, <2>2, <2>3 DEF Others, CallRecord, CallsTyped
  <2>5. expected \in 0 .. MaxRevision
    BY <2>3, StoreAssumption
  <2>6. /\ call'[c] \in CallRecord /\ call'[c].op = "mutate" /\ call'[c].at = "read"
        /\ call'[c].x = x /\ call'[c].expected = expected /\ call'[c].lost = call[c].lost
        /\ call'[c].on = call[c].on
    BY <2>1, <2>4, <2>5 DEF CallRecord, Stages
  <2>7. CallOK(call'[c])
    BY <2>1, <2>2, <2>3, <2>6 DEF CallOK, Transactional
  <2>8. call' \in [Callers -> CallRecord]
    BY <1>2, <2>4, <2>6 DEF CallsTyped, Others
  <2> QED BY <2>4, <2>6, <2>7, <2>8, CallMoved
<1> QED BY <1>1, <1>2 DEF Again

-----------------------------------------------------------------------------
(* One statement runs                                                      *)

SavedTyped == saved # <<>> => /\ saved = <<saved[1], saved[2], saved[3], saved[4]>>
                              /\ ViewOK(saved[1], saved[2], saved[3], saved[4])
ViewTyped == ViewOK(sess, runs, keys, column)
Blocks == {c \in Callers : InBlock(c)}

\* A caller runs one statement: only its own call moves, and it stays inside or outside a
\* transaction.
Works(c) ==
  /\ c \in Callers /\ Statement /\ Others(c) /\ CallsTyped'
  /\ call[c].at \notin {"idle"} \cup Opening \cup Ends
  /\ call'[c].at \notin {"autocommit", "open"}
  /\ \/ call'[c] = Free /\ ~InTransaction(c)
     \/ /\ call'[c].op = call[c].op /\ call'[c].lost = call[c].lost
        /\ call'[c].x = call[c].x /\ call'[c].on = call[c].on
        /\ InTransaction(c)' <=> InTransaction(c)
     \/ call[c].op = "mutate" /\ call'[c].op = "mutate" /\ call'[c].lost = call[c].lost

LEMMA StatementIs ==
  ASSUME SavedTyped, ViewTyped, Statement
  PROVE  /\ conn' = "up" /\ depth' = depth /\ calls' = calls /\ drops' = drops /\ shared' = shared
         /\ auto \in BOOLEAN => auto' \in BOOLEAN
         /\ SavedTyped'
         /\ saved' = saved \/ saved' = <<>> \/ (saved = <<>> /\ saved' = View)
         /\ conn = "up" => saved' = saved \/ (saved = <<>> /\ saved' = View)
<1>1. /\ conn' = "up" /\ depth' = depth /\ calls' = calls /\ drops' = drops /\ shared' = shared
      /\ saved' = saved \/ saved' = <<>> \/ (saved = <<>> /\ saved' = View)
      /\ conn = "up" => saved' = saved \/ (saved = <<>> /\ saved' = View)
  BY DEF Statement, Opens, countVars
<1>2. auto \in BOOLEAN => auto' \in BOOLEAN
  BY DEF Statement
<1>3. CASE saved' = View
  <2>1. saved' = <<sess, runs, keys, column>>
    BY <1>3 DEF View
  <2>2. /\ saved'[1] = sess /\ saved'[2] = runs /\ saved'[3] = keys /\ saved'[4] = column
    BY <2>1
  <2>3. ViewOK(saved'[1], saved'[2], saved'[3], saved'[4])
    BY <2>2 DEF ViewTyped
  <2>4. SavedTyped'
    BY <2>1, <2>2, <2>3 DEF SavedTyped
  <2> QED BY <1>1, <1>2, <2>4
<1>4. CASE saved' = saved
  <2>1. SavedTyped'
    BY <1>4 DEF SavedTyped
  <2> QED BY <1>1, <1>2, <2>1
<1>5. CASE saved' = <<>>
  <2>1. SavedTyped'
    BY <1>5 DEF SavedTyped
  <2> QED BY <1>1, <1>2, <2>1
<1> QED BY <1>1, <1>3, <1>4, <1>5

LEMMA WorkStays ==
  ASSUME CallsTyped, NEW c, Works(c)
  PROVE  /\ Blocks' = Blocks
         /\ \A e \in Callers : InTransaction(e)' <=> InTransaction(e)
         /\ \A e \in Callers : call'[e].lost => call[e].lost
         /\ \A e \in Callers : InBlock(e) => call'[e].lost = call[e].lost
<1>1. c \in Callers /\ Others(c) /\ call'[c].lost \in BOOLEAN
  BY DEF Works, CallsTyped, CallRecord
<1>2. InTransaction(c)' <=> InTransaction(c)
  BY FreeIs DEF Works, InTransaction, InBlock, Transactional
<1>3. (InBlock(c) <=> InTransaction(c)) /\ (InBlock(c)' <=> InTransaction(c)')
  BY DEF Works, InTransaction, InBlock, Opening
<1>4. /\ call'[c].lost => call[c].lost
      /\ InTransaction(c) => call'[c].lost = call[c].lost
  BY FreeIs DEF Works
<1>5. \A e \in Callers \ {c} : /\ InTransaction(e)' <=> InTransaction(e)
                               /\ InBlock(e)' <=> InBlock(e)
  BY <1>1 DEF Others, InTransaction, InBlock
<1> QED BY <1>1, <1>2, <1>3, <1>4, <1>5 DEF Blocks, Others

\* A statement keeps the connection to the call whose transaction is open.
LEMMA ConnectionKept ==
  ASSUME TypeOK, LostTogether, OneTransaction, NEW c, Works(c)
  PROVE  /\ LostTogether' /\ OneTransaction'
         /\ depth' = Cardinality(Blocks') /\ SavedTyped' /\ auto' \in BOOLEAN /\ conn' = "up"
         /\ calls' = calls /\ drops' = drops /\ shared' = shared
         /\ Undisturbed => saved' = saved \/ (saved = <<>> /\ saved' = View)
         /\ Undisturbed /\ InTransaction(c) => saved # <<>>
<1>0. CallsTyped /\ SavedTyped /\ ViewTyped /\ Statement /\ depth = Cardinality(Blocks)
      /\ auto \in BOOLEAN
  BY DEF TypeOK, CallsTyped, SavedTyped, ViewTyped, Works, Blocks
<1>1. /\ conn' = "up" /\ depth' = depth /\ calls' = calls /\ drops' = drops /\ shared' = shared /\ auto' \in BOOLEAN
      /\ SavedTyped'
      /\ saved' = saved \/ saved' = <<>> \/ (saved = <<>> /\ saved' = View)
      /\ conn = "up" => saved' = saved \/ (saved = <<>> /\ saved' = View)
  BY <1>0, StatementIs
<1>2. Blocks' = Blocks /\ (\A e \in Callers : call'[e].lost => call[e].lost)
  BY <1>0, WorkStays
<1>3. \A e \in Callers : /\ InTransaction(e)' <=> InTransaction(e)
                         /\ InBlock(e)' <=> InBlock(e)
  <2>1. \A e \in Callers : InTransaction(e)' <=> InTransaction(e)
    BY <1>0, WorkStays
  <2> QED BY <1>2, <2>1 DEF Blocks
<1>4. Undisturbed => saved' = saved \/ (saved = <<>> /\ saved' = View)
  <2>1. Undisturbed => conn = "up" \/ (conn = "closed" /\ saved = <<>>)
    BY DEF OneTransaction, TypeOK
  <2> QED BY <1>1, <2>1
<1>5. View # <<>>
  BY DEF View
<1>6. OneTransaction'
  <2> SUFFICES ASSUME Undisturbed
               PROVE  OneTransaction'
    BY <1>1 DEF OneTransaction, Undisturbed
  <2>1. \A e \in Callers : ~call'[e].lost
    BY <1>2 DEF OneTransaction
  <2>2. \A e \in Callers : InTransaction(e)' => saved' # <<>>
    BY <1>3, <1>4, <1>5 DEF OneTransaction
  <2>3. \A d, e \in Callers : InTransaction(d)' /\ InTransaction(e)' => d = e
    BY <1>3 DEF OneTransaction
  <2> QED BY <1>1, <2>1, <2>2, <2>3 DEF OneTransaction
<1>7. LostTogether'
  BY <1>1 DEF LostTogether
<1>8. Undisturbed /\ InTransaction(c) => saved # <<>>
  BY DEF OneTransaction, Works
<1> QED BY <1>0, <1>1, <1>2, <1>4, <1>6, <1>7, <1>8

-----------------------------------------------------------------------------
(* What is counted                                                         *)

LEMMA SameRows ==
  ASSUME ViewTyped, NEW s \in Sessions
  PROVE  /\ RunsOf(s) = RunsIn(runs, s) /\ KeysOf(s) = RunsIn(keys, s)
         /\ IsFiniteSet(RunsOf(s)) /\ IsFiniteSet(KeysOf(s))
         /\ Cardinality(RunsOf(s)) \in Nat /\ Cardinality(KeysOf(s)) \in Nat
<1>1. RunsOf(s) = RunsIn(runs, s) /\ KeysOf(s) = RunsIn(keys, s)
  BY DEF ViewTyped, ViewOK, RunsOf, KeysOf, RunsIn
<1>2. IsFiniteSet(RunsOf(s)) /\ IsFiniteSet(KeysOf(s))
  BY FS_Subset DEF ViewTyped, ViewOK, RunsOf, KeysOf
<1> QED BY <1>1, <1>2, FS_CardinalityType

LEMMA SmallerCounts ==
  ASSUME NEW U, IsFiniteSet(U), NEW T \in SUBSET U
  PROVE  Cardinality(T) <= Cardinality(U) /\ Cardinality(T) \in Nat /\ Cardinality(U) \in Nat
BY FS_Subset, FS_CardinalityType

LEMMA OneMore ==
  ASSUME NEW U, IsFiniteSet(U), NEW r, NEW T \in SUBSET (U \cup {r}), NEW limit \in Nat,
         Cardinality(U) < limit
  PROVE  Cardinality(T) <= limit
<1>1. /\ IsFiniteSet(U \cup {r}) /\ Cardinality(U) \in Nat
      /\ Cardinality(U \cup {r}) = IF r \in U THEN Cardinality(U) ELSE Cardinality(U) + 1
  BY FS_AddElement, FS_CardinalityType
<1>2. Cardinality(T) <= Cardinality(U \cup {r}) /\ Cardinality(T) \in Nat /\ Cardinality(U \cup {r}) \in Nat
  BY <1>1, SmallerCounts
<1> QED BY <1>1, <1>2

\* A step that inserts no row: what was counted still fits.
Fewer == DOMAIN runs' \subseteq DOMAIN runs /\ DOMAIN keys' \subseteq DOMAIN keys

LEMMA FewerCounts ==
  ASSUME ViewTyped, ViewTyped', Fewer, NEW s \in Sessions
  PROVE  /\ Cardinality(RunsOf(s)') <= Cardinality(RunsOf(s))
         /\ Cardinality(KeysOf(s)') <= Cardinality(KeysOf(s))
         /\ Cardinality(RunsOf(s)') \in Nat /\ Cardinality(KeysOf(s)') \in Nat
         /\ Cardinality(RunsOf(s)) \in Nat /\ Cardinality(KeysOf(s)) \in Nat
<1>1. RunsOf(s)' \subseteq RunsOf(s) /\ KeysOf(s)' \subseteq KeysOf(s)
  BY DEF ViewTyped, ViewOK, RunsOf, KeysOf, Fewer
<1> QED BY <1>1, SameRows, SmallerCounts

RoomToInsert(d) == IF d.op = "create_key" THEN KeyFits(d.on) ELSE Fits(d.on, {})

LEMMA RoomIs ==
  ASSUME NEW d
  PROVE  RoomToInsert(d) <=> IF d.op = "create_key" THEN Cardinality(KeysOf(d.on)) < MaxKeys
                                                    ELSE Cardinality(RunsOf(d.on)) < MaxRuns
<1>1. RunsOf(d.on) \ {} = RunsOf(d.on)
  OBVIOUS
<1> QED BY <1>1 DEF RoomToInsert, KeyFits, Fits

\* The calls that may be about to insert name a session.
LEMMA InsertsInto ==
  ASSUME CallsTyped, NEW c \in Callers, call[c].at = "insert"
  PROVE  call[c].op \in {"create_run", "admit_run", "create_key"} /\ call[c].on \in Sessions
<1>1. CallOK(call[c]) /\ call[c] \in CallRecord
  BY DEF CallsTyped
<1>2. call[c].op \in {"create_run", "admit_run", "create_key"}
  BY <1>1 DEF CallOK, CallRecord, Transactional, Opening, Ends
<1> QED BY <1>1, <1>2, CallAssumption DEF CallOK

LEMMA RoomStays ==
  ASSUME ViewTyped, ViewTyped', Fewer, CallsTyped, NEW c \in Callers, call[c].at = "insert",
         call'[c] = call[c], RoomToInsert(call[c])
  PROVE  RoomToInsert(call[c])'
<1>1. call[c].on \in Sessions
  BY InsertsInto
<1>2. /\ Cardinality(RunsOf(call[c].on)') <= Cardinality(RunsOf(call[c].on))
      /\ Cardinality(KeysOf(call[c].on)') <= Cardinality(KeysOf(call[c].on))
      /\ Cardinality(RunsOf(call[c].on)') \in Nat /\ Cardinality(KeysOf(call[c].on)') \in Nat
      /\ Cardinality(RunsOf(call[c].on)) \in Nat /\ Cardinality(KeysOf(call[c].on)) \in Nat
  BY <1>1, FewerCounts
<1>3. IF call[c].op = "create_key" THEN Cardinality(KeysOf(call[c].on)') < MaxKeys
                                   ELSE Cardinality(RunsOf(call[c].on)') < MaxRuns
  BY <1>2, RoomIs, StoreAssumption
<1> QED
  BY <1>3 DEF RoomToInsert, KeyFits, Fits, RunsOf, KeysOf

-----------------------------------------------------------------------------
(* What a statement leaves true                                            *)

Creators == {"create_run", "admit_run"}
Admitted == {"room", "insert", "commit"}

\* What the call has to know before it goes on.
Ready(c) ==
  /\ call'[c].at = "insert" => RoomToInsert(call[c])'
  /\ call'[c].op = "admit_run" /\ call'[c].at \in Admitted => call'[c].on \in DOMAIN sess'

LEMMA MintedStays ==
  ASSUME TypeOK, NEW c \in Callers, Others(c), AdmissionKept,
         call'[c].op \in Creators => call'[c].op = call[c].op /\ call'[c].x = call[c].x
  PROVE  \A d, e \in Callers :
           /\ call'[d].op \in Creators /\ call'[e].op \in Creators /\ call'[d].x = call'[e].x
           => d = e
BY DEF AdmissionKept, Others, Creators

LEMMA FewerWork ==
  ASSUME TypeOK, ConnInv, NEW c, Works(c), ViewTyped', Fewer,
         DOMAIN sess \subseteq DOMAIN sess' \/ InTransaction(c),
         Undisturbed => Ready(c)
  PROVE  (TypeOK /\ ConnInv)'
<1>0. /\ LostTogether /\ OneTransaction /\ CountKept /\ AdmissionKept /\ CapacityWithoutDrops
      /\ CallsTyped /\ SavedTyped /\ ViewTyped /\ c \in Callers /\ Others(c) /\ CallsTyped'
  BY DEF ConnInv, TypeOK, CallsTyped, SavedTyped, ViewTyped, Works
<1>1. /\ LostTogether' /\ OneTransaction'
      /\ depth' = Cardinality(Blocks') /\ SavedTyped' /\ auto' \in BOOLEAN /\ conn' = "up"
      /\ calls' = calls /\ drops' = drops /\ shared' = shared
      /\ Undisturbed => saved' = saved \/ (saved = <<>> /\ saved' = View)
      /\ Undisturbed /\ InTransaction(c) => saved # <<>>
  BY <1>0, ConnectionKept
<1>2. TypeOK'
  BY <1>0, <1>1 DEF TypeOK, SavedTyped, ViewTyped, CallsTyped, Blocks
<1>3. ASSUME Undisturbed, NEW s \in Sessions
      PROVE  Cardinality(RunsOf(s)') <= MaxRuns /\ Cardinality(KeysOf(s)') <= MaxKeys
  <2>1. Cardinality(RunsOf(s)) <= MaxRuns /\ Cardinality(KeysOf(s)) <= MaxKeys
    BY <1>0, <1>3 DEF CapacityWithoutDrops
  <2>2. /\ Cardinality(RunsOf(s)') <= Cardinality(RunsOf(s))
        /\ Cardinality(KeysOf(s)') <= Cardinality(KeysOf(s))
        /\ Cardinality(RunsOf(s)') \in Nat /\ Cardinality(KeysOf(s)') \in Nat
        /\ Cardinality(RunsOf(s)) \in Nat /\ Cardinality(KeysOf(s)) \in Nat
    BY <1>0, FewerCounts
  <2> QED BY <2>1, <2>2, StoreAssumption
<1>4. CapacityWithoutDrops'
  BY <1>1, <1>3 DEF CapacityWithoutDrops, Undisturbed
<1>5. ASSUME Undisturbed, saved' = View
      PROVE  saved'[1] = sess /\ saved'[2] = runs /\ saved'[3] = keys
  BY <1>5 DEF View
<1>6. CountKept'
  <2> SUFFICES ASSUME Undisturbed
               PROVE  CountKept'
    BY <1>1 DEF CountKept, Undisturbed
  <2>1. ASSUME saved' # <<>>, NEW s \in Sessions
        PROVE  /\ Cardinality(RunsIn(saved'[2], s)) <= MaxRuns
               /\ Cardinality(RunsIn(saved'[3], s)) <= MaxKeys
    <3>1. CASE saved' = saved
      BY <1>0, <2>1, <3>1 DEF CountKept
    <3>2. CASE saved' = View
      <4>1. RunsIn(saved'[2], s) = RunsOf(s) /\ RunsIn(saved'[3], s) = KeysOf(s)
        BY <1>0, <1>5, <3>2, SameRows
      <4> QED BY <1>0, <4>1 DEF CapacityWithoutDrops
    <3> QED BY <1>1, <3>1, <3>2
  <2>2. ASSUME NEW e \in Callers, call'[e].at = "insert"
        PROVE  RoomToInsert(call[e])'
    <3>1. CASE e = c
      BY <2>2, <3>1 DEF Ready
    <3>2. CASE e # c
      <4>1. call'[e] = call[e] /\ call[e].at = "insert"
        BY <1>0, <2>2, <3>2 DEF Others
      <4>2. RoomToInsert(call[e])
        BY <1>0, <4>1 DEF CountKept, RoomToInsert
      <4> QED BY <1>0, <4>1, <4>2, RoomStays
    <3> QED BY <3>1, <3>2
  <2> QED BY <2>1, <2>2 DEF CountKept, RoomToInsert
<1>7. AdmissionKept'
  <2>1. \A d, e \in Callers :
           /\ call'[d].op \in Creators /\ call'[e].op \in Creators /\ call'[d].x = call'[e].x
           => d = e
    <3>1. call'[c].op \in Creators => call'[c].op = call[c].op /\ call'[c].x = call[c].x
      BY FreeIs DEF Works, Creators
    <3> QED BY <1>0, <3>1, MintedStays
  <2>2. ASSUME Undisturbed, saved' # <<>>, NEW r \in DOMAIN runs' \ DOMAIN saved'[2]
        PROVE  \E e \in Callers : call'[e].op \in Creators /\ call'[e].at = "commit" /\ call'[e].x = r
    <3>1. saved' = saved /\ r \in DOMAIN runs \ DOMAIN saved[2]
      BY <1>1, <1>5, <2>2 DEF Fewer
    <3>2. PICK e \in Callers : call[e].op \in Creators /\ call[e].at = "commit" /\ call[e].x = r
      BY <1>0, <2>2, <3>1 DEF AdmissionKept, Creators
    <3>3. e # c
      BY <3>2 DEF Works, Opening, Ends
    <3> QED BY <1>0, <3>2, <3>3 DEF Others
  <2>3. ASSUME Undisturbed, NEW e \in Callers, call'[e].op = "admit_run", call'[e].at \in Admitted
        PROVE  call'[e].on \in DOMAIN sess'
    <3>1. CASE e = c
      BY <2>3, <3>1 DEF Ready
    <3>2. CASE e # c
      <4>1. call'[e] = call[e] /\ call[e].on \in DOMAIN sess
        BY <1>0, <2>3, <3>2 DEF Others, AdmissionKept, Admitted
      <4>2. InTransaction(e)
        BY <2>3, <4>1 DEF InTransaction, InBlock, Opening, Transactional, Admitted
      <4>3. ~InTransaction(c)
        BY <1>0, <2>3, <3>2, <4>2 DEF OneTransaction
      <4> QED BY <4>1, <4>3
    <3> QED BY <3>1, <3>2
  <2> QED BY <1>1, <2>1, <2>2, <2>3 DEF AdmissionKept, Creators, Admitted, Undisturbed
<1> QED BY <1>1, <1>2, <1>4, <1>6, <1>7 DEF ConnInv

\* The one row a transaction inserts fits, since nobody else inserts while it is open.
LEMMA InsertWork ==
  ASSUME TypeOK, ConnInv, NEW c \in Callers, call[c].at = "insert",
         InsertRun(c) \/ InsertKey(c)
  PROVE  (TypeOK /\ ConnInv)'
<1>0. /\ LostTogether /\ OneTransaction /\ CountKept /\ AdmissionKept /\ CapacityWithoutDrops
      /\ CallsTyped /\ SavedTyped /\ ViewTyped /\ CallOK(call[c])
      /\ call[c].op \in {"create_run", "admit_run", "create_key"} /\ call[c].on \in Sessions
  BY InsertsInto DEF ConnInv, TypeOK, CallsTyped, SavedTyped, ViewTyped
<1>1. /\ Statement /\ Goto(c, "commit") /\ UNCHANGED <<sess, column>>
      /\ \/ /\ call[c].op \in Creators /\ UNCHANGED keys
            /\ runs' = Inserted(runs, call[c].x, NewRun(call[c].on))
         \/ /\ call[c].op = "create_key" /\ UNCHANGED runs
            /\ keys' = Inserted(keys, call[c].x, NewKey(call[c].on))
  BY <1>0 DEF InsertRun, InsertKey, At, Creators
<1>2. /\ call' \in [Callers -> CallRecord] /\ Others(c)
      /\ call'[c].at = "commit" /\ call'[c].op = call[c].op /\ call'[c].on = call[c].on
      /\ call'[c].x = call[c].x /\ call'[c].expected = call[c].expected
      /\ call'[c].seen = call[c].seen /\ call'[c].lost = call[c].lost
  <2>1. "commit" \in Stages
    BY DEF Stages
  <2> QED BY <1>0, <1>1, <2>1, GotoIs
<1>3. CallsTyped'
  <2>1. CallOK(call'[c])
    BY <1>0, <1>2 DEF CallOK, Opening, Ends, Transactional
  <2> QED BY <1>0, <1>2, <2>1, CallMoved
<1>4. InTransaction(c) /\ Works(c)
  BY <1>0, <1>1, <1>2, <1>3 DEF Works, InTransaction, InBlock, Opening, Transactional, Ends
<1>5. /\ LostTogether' /\ OneTransaction'
      /\ depth' = Cardinality(Blocks') /\ SavedTyped' /\ auto' \in BOOLEAN /\ conn' = "up"
      /\ calls' = calls /\ drops' = drops /\ shared' = shared
      /\ Undisturbed => saved' = saved /\ saved # <<>>
  BY <1>0, <1>4, ConnectionKept
<1>6. /\ NewRun(call[c].on) \in RunRecord /\ NewRun(call[c].on).sid = call[c].on
      /\ NewKey(call[c].on) \in KeyRecord /\ NewKey(call[c].on).sid = call[c].on
  <2>1. 0 \in Ages
    BY StoreAssumption DEF Ages
  <2> QED BY <1>0, <2>1 DEF NewRun, RunRecord, Statuses, NewKey, KeyRecord
<1>7. /\ DOMAIN runs' \subseteq DOMAIN runs \cup {call[c].x}
      /\ DOMAIN keys' \subseteq DOMAIN keys \cup {call[c].x}
      /\ call[c].op = "create_key" => runs' = runs
      /\ call[c].op \in Creators => keys' = keys
  BY <1>1 DEF Inserted, With, Creators
<1>8. ViewTyped'
  <2>1. CASE call[c].op \in Creators
    <3>1. call[c].x \in Runs /\ call[c].on = SessionOf[call[c].x]
      BY <1>0, <2>1 DEF CallOK, Creators
    <3>2. runs' = runs \/ (/\ DOMAIN runs' = DOMAIN runs \cup {call[c].x}
                           /\ runs' = [r \in DOMAIN runs' |-> IF r = call[c].x THEN NewRun(call[c].on) ELSE runs[r]])
      BY <1>1, <2>1 DEF Inserted, With, Creators
    <3>3. IsFiniteSet(DOMAIN runs')
      BY <1>0, <3>2, FS_AddElement DEF ViewTyped, ViewOK
    <3>4. /\ DOMAIN runs' \subseteq Runs /\ runs' \in [DOMAIN runs' -> RunRecord]
          /\ \A r \in DOMAIN runs' : runs'[r].sid = SessionOf[r]
      BY <1>0, <1>6, <3>1, <3>2 DEF ViewTyped, ViewOK
    <3> QED BY <1>0, <1>1, <1>7, <2>1, <3>3, <3>4 DEF ViewTyped, ViewOK
  <2>2. CASE call[c].op = "create_key"
    <3>1. call[c].x \in Keys /\ call[c].on = SessionOf[call[c].x]
      BY <1>0, <2>2 DEF CallOK
    <3>2. keys' = keys \/ (/\ DOMAIN keys' = DOMAIN keys \cup {call[c].x}
                           /\ keys' = [k \in DOMAIN keys' |-> IF k = call[c].x THEN NewKey(call[c].on) ELSE keys[k]])
      BY <1>1, <2>2 DEF Inserted, With, Creators
    <3>3. IsFiniteSet(DOMAIN keys')
      BY <1>0, <3>2, FS_AddElement DEF ViewTyped, ViewOK
    <3>4. /\ DOMAIN keys' \subseteq Keys /\ keys' \in [DOMAIN keys' -> KeyRecord]
          /\ \A k \in DOMAIN keys' : keys'[k].sid = SessionOf[k]
      BY <1>0, <1>6, <3>1, <3>2 DEF ViewTyped, ViewOK
    <3> QED BY <1>0, <1>1, <1>7, <2>2, <3>3, <3>4 DEF ViewTyped, ViewOK
  <2> QED BY <1>0, <2>1, <2>2 DEF Creators
<1>9. TypeOK'
  BY <1>3, <1>5, <1>8 DEF TypeOK, SavedTyped, ViewTyped, CallsTyped, Blocks
<1>10. ASSUME Undisturbed, NEW s \in Sessions
       PROVE  Cardinality(RunsOf(s)') <= MaxRuns /\ Cardinality(KeysOf(s)') <= MaxKeys
  <2>0. /\ Cardinality(RunsOf(s)) <= MaxRuns /\ Cardinality(KeysOf(s)) <= MaxKeys
        /\ MaxRuns \in Nat /\ MaxKeys \in Nat
        /\ IsFiniteSet(RunsOf(s)) /\ IsFiniteSet(KeysOf(s))
        /\ RunsOf(s)' = RunsIn(runs', s) /\ KeysOf(s)' = RunsIn(keys', s)
        /\ RunsOf(s) = RunsIn(runs, s) /\ KeysOf(s) = RunsIn(keys, s)
    <3>1. Cardinality(RunsOf(s)) <= MaxRuns /\ Cardinality(KeysOf(s)) <= MaxKeys
      BY <1>0, <1>10 DEF CapacityWithoutDrops
    <3>2. RunsOf(s)' = RunsIn(runs', s) /\ KeysOf(s)' = RunsIn(keys', s)
      BY <1>8 DEF ViewTyped, ViewOK, RunsOf, KeysOf, RunsIn
    <3> QED BY <1>0, <3>1, <3>2, SameRows, StoreAssumption
  <2>1. RoomToInsert(call[c])
    BY <1>0, <1>10 DEF CountKept, RoomToInsert
  <2>2. ASSUME call[c].op \in Creators
        PROVE  Cardinality(RunsOf(s)') <= MaxRuns
    <3>1. Cardinality(RunsOf(call[c].on)) < MaxRuns /\ call[c].on = SessionOf[call[c].x]
      BY <1>0, <2>1, <2>2, RoomIs DEF Creators, CallOK
    <3>2. CASE s = call[c].on
      <4>1. RunsOf(s)' \subseteq RunsOf(s) \cup {call[c].x}
        BY <1>7, <2>0 DEF RunsIn
      <4> QED BY <2>0, <3>1, <3>2, <4>1, OneMore
    <3>3. CASE s # call[c].on
      <4>1. RunsOf(s)' \subseteq RunsOf(s)
        BY <1>7, <2>0, <3>1, <3>3 DEF RunsIn
      <4> QED BY <2>0, <4>1, SmallerCounts
    <3> QED BY <3>2, <3>3
  <2>3. ASSUME call[c].op = "create_key"
        PROVE  Cardinality(KeysOf(s)') <= MaxKeys
    <3>1. Cardinality(KeysOf(call[c].on)) < MaxKeys /\ call[c].on = SessionOf[call[c].x]
      BY <1>0, <2>1, <2>3, RoomIs DEF CallOK
    <3>2. CASE s = call[c].on
      <4>1. KeysOf(s)' \subseteq KeysOf(s) \cup {call[c].x}
        BY <1>7, <2>0 DEF RunsIn
      <4> QED BY <2>0, <3>1, <3>2, <4>1, OneMore
    <3>3. CASE s # call[c].on
      <4>1. KeysOf(s)' \subseteq KeysOf(s)
        BY <1>7, <2>0, <3>1, <3>3 DEF RunsIn
      <4> QED BY <2>0, <4>1, SmallerCounts
    <3> QED BY <3>2, <3>3
  <2> QED BY <1>0, <1>7, <2>0, <2>2, <2>3 DEF Creators
<1>11. CapacityWithoutDrops'
  BY <1>5, <1>10 DEF CapacityWithoutDrops, Undisturbed
<1>12. CountKept'
  <2>1. ASSUME Undisturbed, NEW e \in Callers PROVE call'[e].at # "insert"
    <3>1. CASE e # c
      <4>1. call'[e] = call[e] /\ ~InTransaction(e)
        BY <1>0, <1>2, <1>4, <2>1, <3>1 DEF Others, OneTransaction
      <4>2. CallOK(call[e]) /\ call[e].op \in {"free", "mutate", "truncate", "update", "finish", "expire"} \cup Transactional
        BY <1>0 DEF CallsTyped, CallRecord
      <4> QED BY <4>1, <4>2 DEF InTransaction, InBlock, Opening, CallOK
    <3> QED BY <1>2, <3>1
  <2> QED BY <1>0, <1>5, <2>1 DEF CountKept, Undisturbed
<1>13. AdmissionKept'
  <2>1. \A d, e \in Callers :
           /\ call'[d].op \in Creators /\ call'[e].op \in Creators /\ call'[d].x = call'[e].x
           => d = e
    BY <1>0, <1>2, MintedStays
  <2>2. ASSUME Undisturbed, NEW r \in DOMAIN runs' \ DOMAIN saved'[2]
        PROVE  \E e \in Callers : call'[e].op \in Creators /\ call'[e].at = "commit" /\ call'[e].x = r
    <3>1. CASE r \in DOMAIN runs
      <4>1. PICK e \in Callers : call[e].op \in Creators /\ call[e].at = "commit" /\ call[e].x = r
        BY <1>0, <1>5, <2>2, <3>1 DEF AdmissionKept, Creators
      <4>2. call'[e] = call[e]
        BY <1>2, <4>1 DEF Others
      <4> QED BY <4>1, <4>2
    <3>2. CASE r \notin DOMAIN runs
      <4>1. call[c].op # "create_key" /\ r = call[c].x
        BY <1>7, <2>2, <3>2
      <4> QED BY <1>0, <1>2, <4>1 DEF Creators
    <3> QED BY <3>1, <3>2
  <2>3. ASSUME Undisturbed, NEW e \in Callers, call'[e].op = "admit_run", call'[e].at \in Admitted
        PROVE  call'[e].on \in DOMAIN sess'
    <3>1. call[e].op = "admit_run" /\ call[e].at \in Admitted /\ call'[e].on = call[e].on
      BY <1>2, <2>3 DEF Others, Admitted
    <3> QED BY <1>0, <1>1, <2>3, <3>1 DEF AdmissionKept, Admitted
  <2> QED BY <1>5, <2>1, <2>2, <2>3 DEF AdmissionKept, Creators, Admitted, Undisturbed
<1> QED BY <1>5, <1>9, <1>11, <1>12, <1>13 DEF ConnInv

-----------------------------------------------------------------------------
(* The statements                                                          *)

Resting == {"read", "list", "reset"} \cup Opening
Running(c) == c \in Callers /\ call[c].at \notin {"idle"} \cup Opening \cup Ends

LEMMA Parts ==
  ASSUME TypeOK, ConnInv
  PROVE  /\ LostTogether /\ OneTransaction /\ CountKept /\ AdmissionKept /\ CapacityWithoutDrops
         /\ CallsTyped /\ SavedTyped /\ ViewTyped
BY DEF ConnInv, TypeOK, CallsTyped, SavedTyped, ViewTyped

\* Every call is of a known kind, at a known place.
LEMMA KnownCall ==
  ASSUME CallsTyped, NEW c \in Callers
  PROVE  /\ call[c] \in CallRecord /\ CallOK(call[c]) /\ call[c].at \in Stages
         /\ call[c].op \in {"free", "mutate", "truncate", "update", "finish", "expire"} \cup Transactional
         /\ call[c].expected \in 0 .. MaxRevision
BY DEF CallsTyped, CallRecord

\* A statement inside the transaction of its call.
LEMMA InsideWork ==
  ASSUME TypeOK, ConnInv, NEW c, Running(c), InTransaction(c), Statement,
         NEW step \in Stages \ Resting, Goto(c, step), CallOK(call'[c]),
         ViewTyped', Fewer, Undisturbed => Ready(c)
  PROVE  (TypeOK /\ ConnInv)'
<1>1. CallsTyped /\ c \in Callers
  BY Parts DEF Running
<1>2. /\ call' \in [Callers -> CallRecord] /\ Others(c)
      /\ call'[c].at = step /\ call'[c].op = call[c].op /\ call'[c].on = call[c].on
      /\ call'[c].x = call[c].x /\ call'[c].lost = call[c].lost
  BY <1>1, GotoIs
<1>3. CallsTyped'
  BY <1>1, <1>2, CallMoved
<1>4. InTransaction(c)'
  BY <1>2 DEF InTransaction, InBlock, Opening, Resting
<1>5. Works(c)
  BY <1>1, <1>2, <1>3, <1>4 DEF Works, Running, Resting, Opening
<1> QED BY <1>5, FewerWork

\* A statement of a call that is in no transaction: the call ends, or goes on.
LEMMA LastWork ==
  ASSUME TypeOK, ConnInv, NEW c, Running(c), ~InTransaction(c), Statement, Return(c),
         ViewTyped', Fewer, DOMAIN sess \subseteq DOMAIN sess'
  PROVE  (TypeOK /\ ConnInv)'
<1>1. CallsTyped /\ c \in Callers
  BY Parts DEF Running
<1>2. CallsTyped' /\ Others(c) /\ call'[c] = Free
  BY <1>1, ReturnIs
<1>3. Works(c)
  BY <1>1, <1>2, FreeIs DEF Works, Running
<1>4. Ready(c)
  BY <1>2, FreeIs DEF Ready
<1> QED BY <1>3, <1>4, FewerWork

LEMMA OutsideWork ==
  ASSUME TypeOK, ConnInv, NEW c, Running(c), ~InTransaction(c), Statement,
         NEW step \in Stages \ (Admitted \cup {"insert", "autocommit", "open"}),
         Goto(c, step) \/ \E record \in SessionRecord \cup RunRecord : Seen(c, record, step),
         CallOK(call'[c]), step \in Resting \/ call[c].op \notin Transactional,
         ViewTyped', Fewer, DOMAIN sess \subseteq DOMAIN sess'
  PROVE  (TypeOK /\ ConnInv)'
<1>1. CallsTyped /\ c \in Callers
  BY Parts DEF Running
<1>2. /\ call' \in [Callers -> CallRecord] /\ Others(c)
      /\ call'[c].at = step /\ call'[c].op = call[c].op /\ call'[c].on = call[c].on
      /\ call'[c].x = call[c].x /\ call'[c].lost = call[c].lost
  <2>1. CASE Goto(c, step)
    BY <1>1, <2>1, GotoIs
  <2>2. CASE \E record \in SessionRecord \cup RunRecord : Seen(c, record, step)
    <3>1. PICK record \in SessionRecord \cup RunRecord : Seen(c, record, step)
      BY <2>2
    <3> QED BY <1>1, <3>1, SeenIs
  <2> QED BY <2>1, <2>2
<1>3. CallsTyped'
  BY <1>1, <1>2, CallMoved
<1>4. ~InTransaction(c)'
  BY <1>2 DEF InTransaction, InBlock, Opening, Resting
<1>5. Works(c)
  BY <1>1, <1>2, <1>3, <1>4 DEF Works, Running
<1>6. Ready(c)
  BY <1>2 DEF Ready
<1> QED BY <1>5, <1>6, FewerWork

\* What a statement does to the rows.
LEMMA ViewStays ==
  ASSUME ViewTyped, UNCHANGED View
  PROVE  ViewTyped' /\ Fewer /\ DOMAIN sess \subseteq DOMAIN sess'
BY DEF View, ViewTyped, Fewer

LEMMA SessionsGo ==
  ASSUME ViewTyped, NEW S, sess' = Without(sess, S), column' = Without(column, S), UNCHANGED <<runs, keys>>
  PROVE  ViewTyped' /\ Fewer /\ DOMAIN sess' = DOMAIN sess \ S
BY DEF ViewTyped, ViewOK, Fewer, Without

LEMMA RowsGo ==
  ASSUME ViewTyped, NEW R, NEW K, UNCHANGED <<sess, column>>,
         runs' = Without(runs, R) \/ runs' = runs, keys' = Without(keys, K) \/ keys' = keys
  PROVE  ViewTyped' /\ Fewer /\ DOMAIN sess \subseteq DOMAIN sess'
<1>1. DOMAIN runs' \subseteq DOMAIN runs /\ \A r \in DOMAIN runs' : runs'[r] = runs[r]
  BY DEF Without
<1>2. DOMAIN keys' \subseteq DOMAIN keys /\ \A k \in DOMAIN keys' : keys'[k] = keys[k]
  BY DEF Without
<1>3. IsFiniteSet(DOMAIN runs') /\ IsFiniteSet(DOMAIN keys')
  BY <1>1, <1>2, FS_Subset DEF ViewTyped, ViewOK
<1>4. runs' \in [DOMAIN runs' -> RunRecord] /\ DOMAIN runs' \subseteq Runs
      /\ \A r \in DOMAIN runs' : runs'[r].sid = SessionOf[r]
  BY <1>1 DEF ViewTyped, ViewOK, Without
<1>5. keys' \in [DOMAIN keys' -> KeyRecord] /\ DOMAIN keys' \subseteq Keys
      /\ \A k \in DOMAIN keys' : keys'[k].sid = SessionOf[k]
  BY <1>2 DEF ViewTyped, ViewOK, Without
<1> QED BY <1>1, <1>2, <1>3, <1>4, <1>5 DEF ViewTyped, ViewOK, Fewer

\* One session is written, at a revision its column may take.
LEMMA SessionWritten ==
  ASSUME ViewTyped, NEW s \in DOMAIN sess, NEW record \in SessionRecord, NEW rev \in 1 .. MaxRevision,
         sess' = [sess EXCEPT ![s] = record], column' = [column EXCEPT ![s] = rev] \/ column' = column,
         UNCHANGED <<runs, keys>>
  PROVE  ViewTyped' /\ Fewer /\ DOMAIN sess \subseteq DOMAIN sess'
BY DEF ViewTyped, ViewOK, Fewer

LEMMA Records ==
  ASSUME NEW d \in SessionRecord, NEW keep \in 1 .. MaxRevision, NEW age \in Ages
  PROVE  /\ Room(d, 1) => Appended(d, 1) \in SessionRecord
         /\ d.rev > keep => [Shortened(d, keep) EXCEPT !.idle = age] \in SessionRecord
<1>0. /\ MaxRevision \in Nat \ {0} /\ MaxEvents \in Nat /\ 0 \in Ages
      /\ d.rev \in 1 .. MaxRevision /\ d.len \in 0 .. MaxEvents /\ d.idle \in Ages
      /\ d = [rev |-> d.rev, len |-> d.len, idle |-> d.idle]
  BY StoreAssumption DEF MaxEvents, Ages, SessionRecord
<1>1. ASSUME Room(d, 1) PROVE Appended(d, 1) \in SessionRecord
  BY <1>0, <1>1 DEF Room, Appended, SessionRecord
<1>2. ASSUME d.rev > keep PROVE [Shortened(d, keep) EXCEPT !.idle = age] \in SessionRecord
  <2>1. PICK len \in 0 .. MaxEvents :
          len = IF d.len > d.rev - keep THEN d.len - (d.rev - keep) ELSE 0
    BY <1>0, <1>2
  <2>2. Shortened(d, keep) = [d EXCEPT !.rev = keep, !.len = len]
    BY <2>1 DEF Shortened
  <2>3. Shortened(d, keep) \in SessionRecord
    BY <2>2 DEF SessionRecord
  <2> QED BY <2>3 DEF SessionRecord
<1> QED BY <1>1, <1>2

-----------------------------------------------------------------------------
(* Calls that run outside transactions                                     *)

LEMMA ReadsKept ==
  ASSUME TypeOK, ConnInv, NEW c \in Callers,
         \/ ReadToMutate(c) \/ ReadToTruncate(c) \/ ReadRun(c) \/ CheckDelete(c) \/ CheckRuns(c)
         \/ CheckRun(c) \/ ReadKey(c)
  PROVE  (TypeOK /\ ConnInv)'
<1>0. /\ CallsTyped /\ ViewTyped /\ CallOK(call[c]) /\ call[c].expected \in 0 .. MaxRevision
      /\ {"read", "list", "begin", "cas", "write"} \subseteq Stages \ (Admitted \cup {"insert", "autocommit", "open"})
  BY Parts, KnownCall DEF Stages, Admitted
<1>1. /\ Running(c) /\ Statement /\ UNCHANGED View
      /\ call[c].at \in {"read", "list"}
  BY DEF ReadToMutate, ReadToTruncate, ReadRun, CheckDelete, CheckRuns, CheckRun, ReadKey, Read, At,
         Running, View, Opening, Ends
<1>2. ~InTransaction(c) /\ ViewTyped' /\ Fewer /\ DOMAIN sess \subseteq DOMAIN sess'
  BY <1>0, <1>1, ViewStays DEF InTransaction, InBlock, Opening
<1>3. CASE Return(c)
  BY <1>1, <1>2, <1>3, LastWork
<1>4. ASSUME ~Return(c), ReadToMutate(c) \/ ReadToTruncate(c)
      PROVE  (TypeOK /\ ConnInv)'
  <2>1. PICK step \in {"cas", "write"} :
          /\ call[c].on \in DOMAIN sess /\ Seen(c, sess[call[c].on], step)
          /\ \/ step = "cas" /\ call[c].op = "mutate" /\ sess[call[c].on].rev = call[c].expected
             \/ step = "write" /\ call[c].op = "truncate" /\ sess[call[c].on].rev > call[c].expected
    BY <1>4 DEF ReadToMutate, ReadToTruncate, At
  <2>2. sess[call[c].on] \in SessionRecord
    BY <1>0, <2>1 DEF ViewTyped, ViewOK
  <2>3. /\ call'[c].at = step /\ call'[c].op = call[c].op /\ call'[c].on = call[c].on
        /\ call'[c].x = call[c].x /\ call'[c].expected = call[c].expected
        /\ call'[c].seen = sess[call[c].on] /\ call'[c].lost = call[c].lost
    BY <1>0, <2>1, <2>2, SeenIs
  <2>4. CallOK(call'[c])
    BY <1>0, <1>1, <2>1, <2>2, <2>3 DEF CallOK, Transactional
  <2>5. call[c].op \notin Transactional
    BY <2>1 DEF Transactional
  <2> QED BY <1>0, <1>1, <1>2, <2>1, <2>2, <2>4, <2>5, OutsideWork
<1>5. ASSUME ~Return(c), ReadRun(c)
      PROVE  (TypeOK /\ ConnInv)'
  <2>1. call[c].op = "update" /\ call[c].x \in DOMAIN runs /\ Seen(c, runs[call[c].x], "write")
    BY <1>5 DEF ReadRun, At
  <2>2. runs[call[c].x] \in RunRecord /\ runs[call[c].x].sid = SessionOf[call[c].x]
    BY <1>0, <2>1 DEF ViewTyped, ViewOK
  <2>3. /\ call'[c].at = "write" /\ call'[c].op = call[c].op /\ call'[c].on = call[c].on
        /\ call'[c].x = call[c].x /\ call'[c].expected = call[c].expected
        /\ call'[c].seen = runs[call[c].x] /\ call'[c].lost = call[c].lost
    BY <1>0, <2>1, <2>2, SeenIs
  <2>4. CallOK(call'[c])
    BY <1>0, <1>1, <2>1, <2>2, <2>3 DEF CallOK, Transactional
  <2>5. call[c].op \notin Transactional
    BY <2>1 DEF Transactional
  <2> QED BY <1>0, <1>1, <1>2, <2>1, <2>2, <2>4, <2>5, OutsideWork
<1>6. ASSUME ~Return(c), CheckDelete(c) \/ CheckRuns(c) \/ CheckRun(c) \/ ReadKey(c)
      PROVE  (TypeOK /\ ConnInv)'
  <2>1. PICK step \in {"list", "begin", "write"} :
          /\ Goto(c, step)
          /\ \/ step = "list" /\ call[c].op = "delete"
             \/ step = "begin" /\ call[c].op \in {"delete", "create_run", "create_key"}
             \/ step = "write" /\ call[c].op = "finish"
    BY <1>6 DEF CheckDelete, CheckRuns, CheckRun, ReadKey, At
  <2>2. /\ call'[c].at = step /\ call'[c].op = call[c].op /\ call'[c].on = call[c].on
        /\ call'[c].x = call[c].x /\ call'[c].expected = call[c].expected
        /\ call'[c].seen = call[c].seen /\ call'[c].lost = call[c].lost
    BY <1>0, <2>1, GotoIs
  <2>3. CallOK(call'[c])
    BY <1>0, <1>1, <2>1, <2>2 DEF CallOK, Transactional, Opening, Ends
  <2>4. step \in Resting \/ call[c].op \notin Transactional
    BY <2>1 DEF Transactional, Resting, Opening
  <2> QED BY <1>0, <1>1, <1>2, <2>1, <2>3, <2>4, OutsideWork
<1> QED
  BY <1>3, <1>4, <1>5, <1>6

LEMMA SessionWritesKept ==
  ASSUME TypeOK, ConnInv, NEW c \in Callers, CompareAndSwap(c) \/ Truncate(c)
  PROVE  (TypeOK /\ ConnInv)'
<1>0. /\ CallsTyped /\ ViewTyped /\ CallOK(call[c]) /\ call[c].expected \in 0 .. MaxRevision
      /\ "read" \in Stages \ (Admitted \cup {"insert", "autocommit", "open"}) /\ MaxRevision \in Nat \ {0}
  BY Parts, KnownCall, StoreAssumption DEF Stages, Admitted
<1>1. CASE CompareAndSwap(c)
  <2>1. /\ Running(c) /\ Statement /\ call[c].op = "mutate" /\ call[c].at = "cas"
        /\ ~InTransaction(c)
    BY <1>1 DEF CompareAndSwap, At, Running, InTransaction, InBlock, Opening, Transactional, Ends
  <2>2. CASE Matches(c) /\ Append(c) /\ Return(c)
    <3>1. PICK s : s = call[c].on
      OBVIOUS
    <3>2. /\ s \in DOMAIN sess /\ column[s] = call[c].expected /\ call[c].seen \in SessionRecord
          /\ call[c].seen.rev = call[c].expected /\ Room(call[c].seen, 1)
          /\ call[c].expected \in 1 .. MaxRevision
      BY <1>0, <2>1, <2>2, <3>1 DEF Matches, CallOK
    <3>3. PICK record \in SessionRecord : record = Appended(call[c].seen, 1)
      BY <1>0, <3>2, Records DEF SessionRecord
    <3>4. PICK rev \in 1 .. MaxRevision : rev = column[s] + 1
      BY <1>0, <3>2 DEF Room
    <3>5. /\ sess' = [sess EXCEPT ![s] = record] /\ column' = [column EXCEPT ![s] = rev]
          /\ UNCHANGED <<runs, keys>>
      BY <2>2, <3>1, <3>3, <3>4 DEF Append
    <3>6. ViewTyped' /\ Fewer /\ DOMAIN sess \subseteq DOMAIN sess'
      BY <1>0, <3>2, <3>5, SessionWritten
    <3> QED BY <2>1, <2>2, <3>6, LastWork
  <2>3. CASE Again(c) /\ UNCHANGED View
    <3>1. /\ CallsTyped' /\ Others(c)
          /\ call'[c] = Free \/ (call'[c].op = "mutate" /\ call'[c].at = "read" /\ call'[c].lost = call[c].lost)
      BY <1>0, <2>1, <2>3, AgainIs
    <3>2. Works(c)
      BY <2>1, <3>1, FreeIs DEF Works, Running
    <3>3. Ready(c)
      BY <3>1, FreeIs DEF Ready
    <3>4. ViewTyped' /\ Fewer /\ DOMAIN sess \subseteq DOMAIN sess'
      BY <1>0, <2>3, ViewStays
    <3> QED BY <3>2, <3>3, <3>4, FewerWork
  <2> QED BY <1>1, <2>2, <2>3 DEF CompareAndSwap
<1>2. CASE Truncate(c)
  <2>1. /\ Running(c) /\ Statement /\ call[c].op = "truncate" /\ call[c].at = "write"
        /\ ~InTransaction(c) /\ Return(c)
    BY <1>2 DEF Truncate, At, Running, InTransaction, InBlock, Opening, Transactional, Ends
  <2>2. PICK s : s = call[c].on
    OBVIOUS
  <2>3. /\ call[c].seen \in SessionRecord /\ call[c].expected \in 1 .. MaxRevision
        /\ call[c].seen.rev > call[c].expected
    BY <1>0, <2>1 DEF CallOK
  <2>4. CASE s \in DOMAIN sess
    <3>1. sess[s].idle \in Ages
      BY <1>0, <2>4 DEF ViewTyped, ViewOK, SessionRecord
    <3>2. PICK record \in SessionRecord :
            record = [Shortened(call[c].seen, call[c].expected) EXCEPT !.idle = sess[s].idle]
      BY <2>3, <3>1, Records
    <3>3. sess' = [sess EXCEPT ![s] = record] /\ UNCHANGED <<runs, keys, column>>
      BY <1>2, <2>2, <2>4, <3>2 DEF Truncate
    <3>4. ViewTyped' /\ Fewer /\ DOMAIN sess \subseteq DOMAIN sess'
      BY <1>0, <2>4, <3>3, SessionWritten DEF SessionRecord
    <3> QED BY <2>1, <3>4, LastWork
  <2>5. CASE s \notin DOMAIN sess
    <3>1. UNCHANGED View
      BY <1>2, <2>2, <2>5 DEF Truncate, View
    <3>2. ViewTyped' /\ Fewer /\ DOMAIN sess \subseteq DOMAIN sess'
      BY <1>0, <3>1, ViewStays
    <3> QED BY <2>1, <3>2, LastWork
  <2> QED BY <2>4, <2>5
<1> QED BY <1>1, <1>2

LEMMA RowRecords ==
  ASSUME NEW age \in Ages
  PROVE  /\ \A d \in RunRecord, status \in Statuses :
              /\ [d EXCEPT !.status = status, !.idle = age] \in RunRecord
              /\ [d EXCEPT !.status = status, !.idle = age].sid = d.sid
         /\ \A d \in KeyRecord : /\ [d EXCEPT !.done = TRUE] \in KeyRecord
                                 /\ [d EXCEPT !.done = TRUE].sid = d.sid
BY DEF RunRecord, KeyRecord

LEMMA RowWritesKept ==
  ASSUME TypeOK, ConnInv, NEW c \in Callers,
         (\E status \in Statuses : UpdateRun(c, status)) \/ FinishKey(c) \/ ExpireKey(c)
  PROVE  (TypeOK /\ ConnInv)'
<1>0. /\ CallsTyped /\ ViewTyped /\ CallOK(call[c]) /\ 0 \in Ages
  BY Parts, KnownCall, StoreAssumption DEF Ages
<1>1. /\ Running(c) /\ Statement /\ Return(c) /\ UNCHANGED <<sess, column>>
      /\ call[c].op \in {"update", "finish", "expire"}
  BY DEF UpdateRun, FinishKey, ExpireKey, At, Running, Opening, Ends
<1>2. ~InTransaction(c)
  BY <1>1 DEF InTransaction, InBlock, Opening, Transactional
<1>3. ASSUME NEW status \in Statuses, UpdateRun(c, status)
      PROVE  ViewTyped' /\ Fewer /\ DOMAIN sess \subseteq DOMAIN sess'
  <2>1. PICK r : r = call[c].x
    OBVIOUS
  <2>2. call[c].seen \in RunRecord /\ call[c].seen.sid = SessionOf[r]
    BY <1>0, <1>3, <2>1 DEF UpdateRun, At, CallOK
  <2>3. PICK record \in RunRecord :
          /\ record = [call[c].seen EXCEPT !.status = status, !.idle = 0]
          /\ record.sid = SessionOf[r]
    <3>1. PICK d \in RunRecord : d = call[c].seen
      BY <2>2
    <3>2. [d EXCEPT !.status = status, !.idle = 0] \in RunRecord
          /\ [d EXCEPT !.status = status, !.idle = 0].sid = d.sid
      BY <1>0, RowRecords
    <3> QED BY <2>2, <3>1, <3>2
  <2>4. /\ runs' = IF r \in DOMAIN runs THEN [runs EXCEPT ![r] = record] ELSE runs
        /\ UNCHANGED <<sess, keys, column>>
    BY <1>3, <2>1, <2>3 DEF UpdateRun
  <2> QED BY <1>0, <2>3, <2>4 DEF ViewTyped, ViewOK, Fewer
<1>4. ASSUME FinishKey(c)
      PROVE  ViewTyped' /\ Fewer /\ DOMAIN sess \subseteq DOMAIN sess'
  <2>1. PICK k : k = call[c].x
    OBVIOUS
  <2>2. CASE k \in DOMAIN keys
    <3>1. PICK record \in KeyRecord : record = [keys[k] EXCEPT !.done = TRUE] /\ record.sid = keys[k].sid
      <4>1. keys[k] \in KeyRecord
        BY <1>0, <2>2 DEF ViewTyped, ViewOK
      <4> QED BY <1>0, <4>1, RowRecords
    <3>2. keys' = [keys EXCEPT ![k] = record] /\ UNCHANGED <<sess, runs, column>>
      BY <1>4, <2>1, <2>2, <3>1 DEF FinishKey
    <3> QED BY <1>0, <2>2, <3>1, <3>2 DEF ViewTyped, ViewOK, Fewer
  <2>3. CASE k \notin DOMAIN keys
    <3>1. UNCHANGED View
      BY <1>4, <2>1, <2>3 DEF FinishKey, View
    <3> QED BY <1>0, <3>1, ViewStays
  <2> QED BY <2>2, <2>3
<1>5. ASSUME ExpireKey(c)
      PROVE  ViewTyped' /\ Fewer /\ DOMAIN sess \subseteq DOMAIN sess'
  BY <1>0, <1>5, RowsGo DEF ExpireKey
<1>6. ViewTyped' /\ Fewer /\ DOMAIN sess \subseteq DOMAIN sess'
  BY <1>3, <1>4, <1>5
<1> QED BY <1>1, <1>2, <1>6, LastWork

-----------------------------------------------------------------------------
(* The statements of transactions                                          *)

LEMMA PurgeKept ==
  ASSUME TypeOK, ConnInv, NEW c \in Callers, Purge(c)
  PROVE  (TypeOK /\ ConnInv)'
<1>0. /\ CallsTyped /\ ViewTyped /\ CallOK(call[c])
      /\ call[c].op \in {"free", "mutate", "truncate", "update", "finish", "expire"} \cup Transactional
  BY Parts, KnownCall
<1>1. PICK step \in {"runs", "session"} :
        Goto(c, step) /\ (step = "runs" <=> call[c].op = "sweep")
  BY DEF Purge
<1>2. /\ Running(c) /\ Statement /\ call[c].at = "purge" /\ step \in Stages \ Resting
  BY <1>1 DEF Purge, Running, Stages, Resting, Opening, Ends
<1>3. call[c].op \in {"create_session", "admit_run", "sweep"}
  BY <1>0, <1>2 DEF CallOK, Opening, Ends, Transactional
<1>4. InTransaction(c)
  BY <1>2, <1>3 DEF InTransaction, InBlock, Opening, Transactional
<1>5. /\ call'[c].at = step /\ call'[c].op = call[c].op /\ call'[c].on = call[c].on
      /\ call'[c].x = call[c].x /\ call'[c].lost = call[c].lost
  BY <1>0, <1>1, <1>2, GotoIs
<1>6. CallOK(call'[c])
  BY <1>0, <1>1, <1>2, <1>3, <1>5 DEF CallOK, Transactional, Opening, Ends
<1>7. ViewTyped' /\ Fewer
  BY <1>0, SessionsGo DEF Purge
<1>8. Ready(c)
  BY <1>1, <1>5 DEF Ready, Admitted
<1> QED BY <1>1, <1>2, <1>4, <1>6, <1>7, <1>8, InsideWork

LEMMA EnsureSessionKept ==
  ASSUME TypeOK, ConnInv, NEW c \in Callers, EnsureSession(c)
  PROVE  (TypeOK /\ ConnInv)'
<1>0. /\ CallsTyped /\ ViewTyped /\ CallOK(call[c])
      /\ call[c].op \in {"free", "mutate", "truncate", "update", "finish", "expire"} \cup Transactional
  BY Parts, KnownCall
<1>1. Running(c) /\ Statement /\ call[c].at = "session" /\ UNCHANGED <<runs, keys>>
  BY DEF EnsureSession, Running, Opening, Ends
<1>2. call[c].op \in {"create_session", "admit_run"}
  BY <1>0, <1>1 DEF CallOK, Opening, Ends, Transactional
<1>3. InTransaction(c)
  BY <1>1, <1>2 DEF InTransaction, InBlock, Opening, Transactional
<1>4. PICK s : s = call[c].on
  OBVIOUS
<1>5. s \in Sessions
  BY <1>0, <1>2, <1>4, CallAssumption DEF CallOK
<1>6. PICK step \in {"rollback", "room", "commit"} :
        /\ Goto(c, step)
        /\ step = "room" => call[c].op = "admit_run"
        /\ step = "commit" => call[c].op = "create_session"
        /\ step # "rollback" => s \in DOMAIN sess'
  <2>1. CASE Goto(c, "rollback")
    BY <2>1
  <2>2. CASE /\ sess' = IF s \in DOMAIN sess THEN sess ELSE With(sess, s, NewSession)
             /\ Goto(c, IF call[c].op = "admit_run" THEN "room" ELSE "commit")
    <3>1. s \in DOMAIN sess'
      BY <2>2 DEF With
    <3> QED BY <1>2, <2>2, <3>1
  <2> QED BY <1>4, <2>1, <2>2 DEF EnsureSession
<1>7. step \in Stages \ Resting
  BY <1>6 DEF Stages, Resting, Opening
<1>8. /\ call'[c].at = step /\ call'[c].op = call[c].op /\ call'[c].on = call[c].on
      /\ call'[c].x = call[c].x /\ call'[c].lost = call[c].lost
  BY <1>0, <1>6, <1>7, GotoIs
<1>9. CallOK(call'[c])
  BY <1>0, <1>1, <1>2, <1>6, <1>8 DEF CallOK, Transactional, Opening, Ends
<1>10. ViewTyped' /\ Fewer
  <2>1. CASE UNCHANGED <<sess, column>>
    <3>1. UNCHANGED View
      BY <1>1, <2>1 DEF View
    <3> QED BY <1>0, <3>1, ViewStays
  <2>2. CASE s \notin DOMAIN sess /\ sess' = With(sess, s, NewSession) /\ column' = With(column, s, 1)
    <3>1. NewSession \in SessionRecord /\ 1 \in 1 .. MaxRevision
      BY StoreAssumption DEF NewSession, SessionRecord, MaxEvents, Ages
    <3>2. DOMAIN sess' = DOMAIN sess \cup {s} /\ sess' \in [DOMAIN sess' -> SessionRecord]
      BY <1>0, <2>2, <3>1 DEF ViewTyped, ViewOK, With
    <3>3. column' \in [DOMAIN sess' -> 1 .. MaxRevision]
      BY <1>0, <2>2, <3>1, <3>2 DEF ViewTyped, ViewOK, With
    <3> QED BY <1>0, <1>1, <1>5, <3>2, <3>3 DEF ViewTyped, ViewOK, Fewer
  <2> QED BY <1>4, <2>1, <2>2 DEF EnsureSession
<1>11. Ready(c)
  BY <1>4, <1>6, <1>8 DEF Ready, Admitted
<1> QED BY <1>1, <1>3, <1>6, <1>7, <1>9, <1>10, <1>11, InsideWork

LEMMA DeletesKept ==
  ASSUME TypeOK, ConnInv, NEW c \in Callers, DeleteRows(c) \/ DeleteSession(c)
  PROVE  (TypeOK /\ ConnInv)'
<1>0. /\ CallsTyped /\ ViewTyped /\ CallOK(call[c])
  BY Parts, KnownCall
<1>1. PICK step \in {"session_row", "commit"} : Goto(c, step)
  BY DEF DeleteRows, DeleteSession
<1>2. /\ Running(c) /\ Statement /\ call[c].op = "delete" /\ InTransaction(c)
      /\ step \in Stages \ Resting
  BY <1>1 DEF DeleteRows, DeleteSession, At, Running, InTransaction, InBlock, Opening, Ends,
              Transactional, Stages, Resting
<1>3. /\ call'[c].at = step /\ call'[c].op = call[c].op /\ call'[c].on = call[c].on
      /\ call'[c].x = call[c].x /\ call'[c].lost = call[c].lost
  BY <1>0, <1>1, <1>2, GotoIs
<1>4. CallOK(call'[c])
  BY <1>0, <1>1, <1>2, <1>3 DEF CallOK, Transactional, Opening, Ends
<1>5. ViewTyped' /\ Fewer
  <2>1. CASE DeleteRows(c)
    BY <1>0, <2>1, RowsGo DEF DeleteRows
  <2>2. CASE DeleteSession(c)
    BY <1>0, <2>2, SessionsGo DEF DeleteSession
  <2> QED BY <2>1, <2>2
<1>6. Ready(c)
  BY <1>1, <1>2, <1>3 DEF Ready
<1> QED BY <1>1, <1>2, <1>4, <1>5, <1>6, InsideWork

LEMMA SweepsKept ==
  ASSUME TypeOK, ConnInv, NEW c \in Callers, SweepRuns(c) \/ SweepKeys(c) \/ Reconcile(c)
  PROVE  (TypeOK /\ ConnInv)'
<1>0. /\ CallsTyped /\ ViewTyped /\ CallOK(call[c]) /\ 0 \in Ages
  BY Parts, KnownCall, StoreAssumption DEF Ages
<1>1. PICK step \in {"keys", "reconcile", "commit"} : Goto(c, step)
  BY DEF SweepRuns, SweepKeys, Reconcile
<1>2. /\ Running(c) /\ Statement /\ call[c].op = "sweep" /\ InTransaction(c)
      /\ step \in Stages \ Resting
  BY <1>1 DEF SweepRuns, SweepKeys, Reconcile, At, Running, InTransaction, InBlock, Opening, Transactional,
              Stages, Resting, Ends
<1>3. /\ call'[c].at = step /\ call'[c].op = call[c].op /\ call'[c].on = call[c].on
      /\ call'[c].x = call[c].x /\ call'[c].lost = call[c].lost
  BY <1>0, <1>1, <1>2, GotoIs
<1>4. CallOK(call'[c])
  BY <1>0, <1>1, <1>2, <1>3 DEF CallOK, Transactional, Opening, Ends
<1>5. ViewTyped' /\ Fewer
  <2>1. CASE SweepRuns(c)
    BY <1>0, <2>1, RowsGo DEF SweepRuns
  <2>2. CASE SweepKeys(c)
    BY <1>0, <2>2, RowsGo DEF SweepKeys
  <2>3. CASE Reconcile(c)
    <3>1. /\ DOMAIN runs' = DOMAIN runs /\ UNCHANGED <<sess, keys, column>>
          /\ \A r \in DOMAIN runs : runs'[r] = runs[r]
                                    \/ runs'[r] = [runs[r] EXCEPT !.status = "ended", !.idle = 0]
      BY <2>3 DEF Reconcile
    <3>2. \A r \in DOMAIN runs : runs'[r] \in RunRecord /\ runs'[r].sid = SessionOf[r]
      <4>1. \A r \in DOMAIN runs : runs[r] \in RunRecord /\ runs[r].sid = SessionOf[r]
        BY <1>0 DEF ViewTyped, ViewOK
      <4>2. "ended" \in Statuses
        BY DEF Statuses
      <4>3. ASSUME NEW r \in DOMAIN runs
            PROVE  runs'[r] \in RunRecord /\ runs'[r].sid = SessionOf[r]
        <5>1. PICK d \in RunRecord : d = runs[r] /\ d.sid = SessionOf[r]
          BY <4>1
        <5>2. [d EXCEPT !.status = "ended", !.idle = 0] \in RunRecord
              /\ [d EXCEPT !.status = "ended", !.idle = 0].sid = d.sid
          BY <1>0, <4>2, RowRecords
        <5> QED BY <3>1, <5>1, <5>2
      <4> QED BY <4>3
    <3>3. runs' \in [DOMAIN runs -> RunRecord]
      BY <2>3, <3>1, <3>2 DEF Reconcile
    <3> QED BY <1>0, <3>1, <3>2, <3>3 DEF ViewTyped, ViewOK, Fewer
  <2> QED BY <2>1, <2>2, <2>3
<1>6. Ready(c)
  BY <1>1, <1>2, <1>3 DEF Ready
<1> QED BY <1>1, <1>2, <1>4, <1>5, <1>6, InsideWork

\* What was counted and what was admitted is still so at the next statement of the
\* transaction.
LEMMA MakeRoomKept ==
  ASSUME TypeOK, ConnInv, NEW c \in Callers, MakeRoom(c)
  PROVE  (TypeOK /\ ConnInv)'
<1>0. /\ CallsTyped /\ ViewTyped /\ CallOK(call[c]) /\ AdmissionKept
      /\ call[c].op \in {"free", "mutate", "truncate", "update", "finish", "expire"} \cup Transactional
  BY Parts, KnownCall
<1>1. Running(c) /\ Statement /\ call[c].at = "room" /\ UNCHANGED <<sess, keys, column>>
  BY DEF MakeRoom, Running, Opening, Ends
<1>2. call[c].op \in Creators /\ call[c].x \in Runs /\ call[c].on = SessionOf[call[c].x]
  BY <1>0, <1>1 DEF CallOK, Opening, Ends, Transactional, Creators
<1>3. InTransaction(c)
  BY <1>1, <1>2 DEF InTransaction, InBlock, Opening, Transactional, Creators
<1>4. Undisturbed /\ call[c].op = "admit_run" => call[c].on \in DOMAIN sess
  BY <1>0, <1>1 DEF AdmissionKept
<1>5. ASSUME NEW step \in {"commit", "insert", "rollback"}, Goto(c, step), UNCHANGED runs,
             step = "insert" => Fits(call[c].on, {})
      PROVE  (TypeOK /\ ConnInv)'
  <2>1. step \in Stages \ Resting
    BY DEF Stages, Resting, Opening
  <2>2. /\ call'[c].at = step /\ call'[c].op = call[c].op /\ call'[c].on = call[c].on
        /\ call'[c].x = call[c].x /\ call'[c].lost = call[c].lost
    BY <1>0, <1>5, <2>1, GotoIs
  <2>3. CallOK(call'[c])
    BY <1>0, <1>2, <1>5, <2>2 DEF CallOK, Transactional, Opening, Ends, Creators
  <2>4. UNCHANGED View
    BY <1>1, <1>5 DEF View
  <2>5. ViewTyped' /\ Fewer
    BY <1>0, <2>4, ViewStays
  <2>6. step = "insert" => RoomToInsert(call[c])'
    BY <1>2, <1>5, <2>2 DEF RoomToInsert, Fits, RunsOf, Creators
  <2>7. Undisturbed => Ready(c)
    BY <1>1, <1>4, <2>2, <2>6 DEF Ready
  <2> QED BY <1>1, <1>3, <1>5, <2>1, <2>3, <2>5, <2>7, InsideWork
<1>6. ASSUME NEW r, runs' = Without(runs, {r}), UNCHANGED call
      PROVE  (TypeOK /\ ConnInv)'
  <2>1. CallsTyped' /\ Others(c)
    BY <1>0, <1>6 DEF CallsTyped, Others
  <2>2. Works(c)
    BY <1>1, <1>6, <2>1 DEF Works, InTransaction, InBlock, Opening, Running
  <2>3. ViewTyped' /\ Fewer
    BY <1>0, <1>1, <1>6, RowsGo
  <2>4. Undisturbed => Ready(c)
    BY <1>1, <1>4, <1>6 DEF Ready
  <2> QED BY <1>3, <2>2, <2>3, <2>4, FewerWork
<1>7. \/ \E step \in {"commit", "insert", "rollback"} :
           Goto(c, step) /\ UNCHANGED runs /\ (step = "insert" => Fits(call[c].on, {}))
      \/ \E r : runs' = Without(runs, {r}) /\ UNCHANGED call
  BY DEF MakeRoom
<1> QED BY <1>5, <1>6, <1>7

LEMMA CountKeysKept ==
  ASSUME TypeOK, ConnInv, NEW c \in Callers, CountKeys(c)
  PROVE  (TypeOK /\ ConnInv)'
<1>0. CallsTyped /\ ViewTyped /\ CallOK(call[c])
  BY Parts, KnownCall
<1>1. PICK step \in {"insert", "rollback"} :
        Goto(c, step) /\ (step = "insert" => KeyFits(call[c].on))
  BY DEF CountKeys
<1>2. /\ Running(c) /\ Statement /\ call[c].op = "create_key" /\ InTransaction(c) /\ UNCHANGED View
      /\ step \in Stages \ Resting
  BY <1>1 DEF CountKeys, At, Running, InTransaction, InBlock, Opening, Transactional, Stages, Resting, Ends
<1>3. /\ call'[c].at = step /\ call'[c].op = call[c].op /\ call'[c].on = call[c].on
      /\ call'[c].x = call[c].x /\ call'[c].lost = call[c].lost
  BY <1>0, <1>1, <1>2, GotoIs
<1>4. CallOK(call'[c])
  BY <1>0, <1>1, <1>2, <1>3 DEF CallOK, Transactional, Opening, Ends
<1>5. ViewTyped' /\ Fewer
  BY <1>0, <1>2, ViewStays
<1>6. UNCHANGED keys
  BY <1>2 DEF View
<1>7. step = "insert" => RoomToInsert(call[c])'
  BY <1>1, <1>2, <1>3, <1>6 DEF RoomToInsert, KeyFits, KeysOf
<1>8. Ready(c)
  BY <1>2, <1>3, <1>7 DEF Ready
<1> QED BY <1>1, <1>2, <1>4, <1>5, <1>8, InsideWork

LEMMA InsertsKept ==
  ASSUME TypeOK, ConnInv, NEW c \in Callers, InsertRun(c) \/ InsertKey(c)
  PROVE  (TypeOK /\ ConnInv)'
<1>1. call[c].at = "insert"
  BY DEF InsertRun, InsertKey, At
<1> QED BY <1>1, InsertWork

-----------------------------------------------------------------------------
(* Transactions begin and end                                              *)

\* Runs are created by one call at a time.
OneMinter ==
  \A d, e \in Callers :
     call[d].op \in Creators /\ call[e].op \in Creators /\ call[d].x = call[e].x => d = e

LEMMA InsertsInside ==
  ASSUME CallsTyped, NEW e \in Callers,
         call[e].at = "insert" \/ (call[e].op \in Creators /\ call[e].at \in Admitted)
  PROVE  InTransaction(e)
<1>1. CASE call[e].at = "insert"
  BY <1>1, InsertsInto DEF InTransaction, InBlock, Opening, Transactional
<1>2. CASE call[e].op \in Creators /\ call[e].at \in Admitted
  BY <1>2 DEF InTransaction, InBlock, Opening, Transactional, Creators, Admitted
<1> QED BY <1>1, <1>2

\* Once a connection was lost only what does not depend on it is promised.
LEMMA AfterADrop ==
  ASSUME ~Undisturbed', LostTogether', OneMinter'
  PROVE  ConnInv'
BY DEF ConnInv, OneTransaction, CountKept, AdmissionKept, CapacityWithoutDrops, OneMinter, Creators

\* The depth counts the calls between __aenter__ and __aexit__.
LEMMA DepthIs ==
  ASSUME TypeOK, NEW c \in Callers, Others(c)
  PROVE  /\ (InBlock(c)' <=> InBlock(c)) /\ depth' = depth => depth' = Cardinality(Blocks')
         /\ InBlock(c) /\ ~InBlock(c)' /\ depth' = depth - 1 => depth' = Cardinality(Blocks')
         /\ ~InBlock(c) /\ InBlock(c)' /\ depth' = depth + 1 => depth' = Cardinality(Blocks')
<1>1. IsFiniteSet(Blocks) /\ depth = Cardinality(Blocks)
  BY CallAssumption, FS_Subset DEF Blocks, TypeOK
<1>2. \A e \in Callers \ {c} : InBlock(e)' <=> InBlock(e)
  BY DEF Others, InBlock
<1>3. ASSUME InBlock(c)' <=> InBlock(c), depth' = depth
      PROVE  depth' = Cardinality(Blocks')
  <2>1. Blocks' = Blocks
    BY <1>2, <1>3 DEF Blocks
  <2> QED BY <1>1, <1>3, <2>1
<1>4. ASSUME InBlock(c), ~InBlock(c)', depth' = depth - 1
      PROVE  depth' = Cardinality(Blocks')
  <2>1. Blocks' = Blocks \ {c} /\ c \in Blocks
    BY <1>2, <1>4 DEF Blocks
  <2> QED BY <1>1, <1>4, <2>1, FS_RemoveElement
<1>5. ASSUME ~InBlock(c), InBlock(c)', depth' = depth + 1
      PROVE  depth' = Cardinality(Blocks')
  <2>1. Blocks' = Blocks \cup {c} /\ c \notin Blocks
    BY <1>2, <1>5 DEF Blocks
  <2> QED BY <1>1, <1>5, <2>1, FS_AddElement
<1> QED BY <1>3, <1>4, <1>5

\* A step of one call that touches neither rows nor transactions.
LEMMA QuietStep ==
  ASSUME TypeOK, ConnInv, NEW c \in Callers, Others(c), CallsTyped', UNCHANGED <<View, drops, shared>>,
         SavedTyped', Undisturbed => saved' = saved,
         auto' \in BOOLEAN, conn' \in {"up", "broken", "closed"},
         depth' = Cardinality(Blocks'), calls' \in 0 .. MaxCalls,
         LostTogether', OneTransaction', OneMinter',
         call'[c].at \notin {"insert"} \cup Admitted, call[c].at # "commit"
  PROVE  (TypeOK /\ ConnInv)'
<1>0. /\ LostTogether /\ OneTransaction /\ CountKept /\ AdmissionKept /\ CapacityWithoutDrops
      /\ CallsTyped /\ SavedTyped /\ ViewTyped
  BY Parts
<1>1. sess' = sess /\ runs' = runs /\ keys' = keys /\ column' = column /\ drops' = drops /\ shared' = shared
  BY DEF View
<1>2. ViewTyped' /\ (Undisturbed' <=> Undisturbed)
  BY <1>0, <1>1 DEF ViewTyped, Undisturbed
<1>4. TypeOK'
  BY <1>1, <1>2 DEF TypeOK, ViewTyped, SavedTyped, CallsTyped, Blocks
<1>5. CapacityWithoutDrops'
  BY <1>0, <1>1, <1>2 DEF CapacityWithoutDrops, RunsOf, KeysOf
<1>6. CountKept'
  <2>1. ASSUME Undisturbed, NEW e \in Callers, call'[e].at = "insert"
        PROVE  RoomToInsert(call[e])'
    <3>1. call'[e] = call[e]
      BY <2>1 DEF Others
    <3>2. RoomToInsert(call[e])
      BY <1>0, <2>1, <3>1 DEF CountKept, RoomToInsert
    <3> QED BY <1>1, <3>1, <3>2 DEF RoomToInsert, Fits, KeyFits, RunsOf, KeysOf
  <2> QED BY <1>0, <1>2, <2>1 DEF CountKept, RoomToInsert
<1>7. AdmissionKept'
  <2>1. ASSUME Undisturbed, saved # <<>>, NEW r \in DOMAIN runs \ DOMAIN saved[2]
        PROVE  \E e \in Callers : call'[e].op \in Creators /\ call'[e].at = "commit" /\ call'[e].x = r
    <3>1. PICK e \in Callers : call[e].op \in Creators /\ call[e].at = "commit" /\ call[e].x = r
      BY <1>0, <2>1 DEF AdmissionKept, Creators
    <3> QED BY <3>1 DEF Others
  <2>2. ASSUME Undisturbed, NEW e \in Callers, call'[e].op = "admit_run", call'[e].at \in Admitted
        PROVE  call'[e].on \in DOMAIN sess
    BY <1>0, <2>2 DEF AdmissionKept, Others, Admitted
  <2> QED BY <1>1, <1>2, <2>1, <2>2 DEF AdmissionKept, OneMinter, Creators, Admitted
<1> QED BY <1>4, <1>5, <1>6, <1>7 DEF ConnInv

LEMMA MintersStay ==
  ASSUME TypeOK, ConnInv, NEW c \in Callers, Others(c),
         call'[c].op \in Creators => call'[c].op = call[c].op /\ call'[c].x = call[c].x
  PROVE  OneMinter'
BY Parts, MintedStays DEF OneMinter

LEMMA RequestsKept ==
  ASSUME TypeOK, ConnInv, NEW c \in Callers, Requests(c)
  PROVE  (TypeOK /\ ConnInv)'
<1>0. /\ LostTogether /\ OneTransaction /\ AdmissionKept /\ CallsTyped
  BY Parts
<1>1. PICK op, on, x, expected :
        /\ Start(c, op, on, x, expected)
        /\ op \in {"mutate", "truncate", "update", "finish", "expire"} \cup Transactional
        /\ on \in Sessions \cup {Nothing} /\ x \in Runs \cup Keys \cup 1 .. 3 \cup {Nothing}
        /\ expected \in 0 .. MaxRevision
        /\ op \in {"create_session", "delete"} => on \in Sessions
        /\ op \in {"mutate", "truncate"} => on \in Sessions /\ expected \in 1 .. MaxRevision
        /\ op = "mutate" => x = 1
        /\ op \in Creators => x \in Runs /\ on = SessionOf[x] /\ Minted(x)
        /\ op = "update" => x \in Runs
        /\ op \in {"create_key", "finish", "expire"} => x \in Keys
        /\ op = "create_key" => on = SessionOf[x]
  <2>0. MaxRevision \in Nat /\ 0 \in 0 .. MaxRevision /\ 1 .. MaxRevision \subseteq 0 .. MaxRevision /\ 1 \in 1 .. 3
    BY StoreAssumption
  <2>1. CASE \E s \in Sessions : \/ Start(c, "create_session", s, Nothing, 0)
                                 \/ Start(c, "delete", s, Nothing, 0)
    BY <2>0, <2>1 DEF Transactional, Creators
  <2>2. CASE \E s \in Sessions, rev \in 1 .. MaxRevision :
                Start(c, "mutate", s, 1, rev) \/ Start(c, "truncate", s, Nothing, rev)
    BY <2>0, <2>2 DEF Transactional, Creators
  <2>3. CASE \E r \in Runs : \/ Minted(r) /\ Start(c, "create_run", SessionOf[r], r, 0)
                             \/ Minted(r) /\ Start(c, "admit_run", SessionOf[r], r, 0)
                             \/ Start(c, "update", SessionOf[r], r, 0)
    <3>1. \A r \in Runs : SessionOf[r] \in Sessions
      BY CallAssumption
    <3> QED BY <2>0, <2>3, <3>1 DEF Transactional, Creators
  <2>4. CASE \E k \in Keys, op \in {"create_key", "finish", "expire"} : Start(c, op, SessionOf[k], k, 0)
    <3>1. \A k \in Keys : SessionOf[k] \in Sessions
      BY CallAssumption
    <3> QED BY <2>0, <2>4, <3>1 DEF Transactional, Creators
  <2>5. CASE Start(c, "sweep", Nothing, Nothing, 0)
    BY <2>0, <2>5 DEF Transactional, Creators
  <2> QED BY <2>1, <2>2, <2>3, <2>4, <2>5 DEF Requests
<1>2. PICK at \in {"begin", "read"} :
        at = IF op \in {"create_session", "admit_run", "sweep"} THEN "begin" ELSE "read"
  OBVIOUS
<1>3. /\ call[c].op = "free" /\ calls < MaxCalls /\ calls' = calls + 1
      /\ call' = [call EXCEPT ![c] = [Free EXCEPT !.op = op, !.on = on, !.x = x,
                                                  !.expected = expected, !.at = at]]
      /\ UNCHANGED <<sess, runs, keys, column, saved, auto, conn, depth, drops, shared>>
  BY <1>1, <1>2 DEF Start, connVars
<1>4. /\ call'[c] = [op |-> op, at |-> at, on |-> on, x |-> x, expected |-> expected,
                     seen |-> Nothing, lost |-> FALSE]
      /\ Others(c) /\ DOMAIN call' = Callers
  BY <1>0, <1>3 DEF Free, CallsTyped, Others
<1>5. call'[c] \in CallRecord
  BY <1>1, <1>2, <1>4 DEF CallRecord, Stages
<1>6. CallOK(call'[c])
  BY <1>1, <1>2, <1>4 DEF CallOK, Transactional, Opening, Ends, Creators
<1>7. CallsTyped'
  <2>1. call' \in [Callers -> CallRecord]
    BY <1>0, <1>3, <1>5, <1>4 DEF CallsTyped, Others
  <2> QED BY <1>0, <1>4, <1>6, <2>1, CallMoved
<1>8. OneMinter'
  BY <1>0, <1>1, <1>4 DEF OneMinter, AdmissionKept, Minted, Others, Creators
<1>9. ~InBlock(c) /\ ~InBlock(c)' /\ ~InTransaction(c)' /\ ~call'[c].lost
  <2>1. call[c].op = "free"
    BY <1>3
  <2>2. call'[c].at = at /\ call'[c].lost = FALSE
    BY <1>4
  <2> QED BY <1>2, <2>1, <2>2 DEF InTransaction, InBlock, Opening, Transactional
<1>10. LostTogether' /\ OneTransaction'
  <2>1. \A e \in Callers : /\ InTransaction(e)' => InTransaction(e)
                           /\ InBlock(e)' => (InBlock(e) /\ call'[e].lost = call[e].lost)
                           /\ call'[e].lost => call[e].lost
    BY <1>4, <1>9 DEF Others, InTransaction, InBlock, Opening
  <2> QED BY <1>0, <1>3, <2>1 DEF LostTogether, OneTransaction, Undisturbed
<1>11. /\ auto' \in BOOLEAN /\ conn' \in {"up", "broken", "closed"} /\ calls' \in 0 .. MaxCalls
       /\ UNCHANGED <<View, saved, drops, shared>> /\ SavedTyped' /\ depth' = Cardinality(Blocks')
  <2>1. depth' = Cardinality(Blocks')
    BY <1>3, <1>4, <1>9, DepthIs
  <2>2. SavedTyped'
    BY <1>3, Parts DEF SavedTyped
  <2> QED BY <1>3, <2>1, <2>2, CallAssumption DEF TypeOK, View
<1>12. call'[c].at \notin {"insert"} \cup Admitted /\ call[c].at # "commit"
  BY <1>0, <1>2, <1>3, <1>4, KnownCall DEF CallOK, Admitted
<1> QED BY <1>4, <1>7, <1>8, <1>9, <1>10, <1>11, <1>12, QuietStep

\* A call that finds the connection gone leaves; when its transaction was on it, by way of
\* the rollback.
LEMMA FailuresKept ==
  ASSUME TypeOK, ConnInv, NEW c \in Callers, StatementFails(c)
  PROVE  (TypeOK /\ ConnInv)'
<1>0. /\ LostTogether /\ OneTransaction /\ AdmissionKept /\ CallsTyped /\ CallOK(call[c])
      /\ call[c].at \in Stages
  BY Parts, KnownCall
<1>1. /\ conn = "broken" /\ conn' = "closed" /\ call[c].at \notin {"idle"} \cup Opening \cup Ends
      /\ IF call[c].lost THEN Goto(c, "rollback") ELSE Return(c)
      /\ UNCHANGED <<View, saved, auto, depth, calls, drops, shared>>
  BY DEF StatementFails, Reached, countVars, View
<1>2. ~Undisturbed /\ ~Undisturbed'
  BY <1>0, <1>1 DEF OneTransaction, Undisturbed
<1>3. InBlock(c) <=> call[c].lost
  <2>1. CASE call[c].lost
    <3>1. call[c].op \in Transactional /\ call[c].at \notin {"read", "list", "begin"}
      BY <1>0, <2>1 DEF CallOK
    <3> QED BY <1>1, <2>1, <3>1 DEF InTransaction, InBlock, Opening, Ends
  <2>2. CASE ~call[c].lost
    BY <1>0, <1>1, <2>2 DEF LostTogether
  <2> QED BY <2>1, <2>2
<1>4. CASE ~call[c].lost
  <2>1. CallsTyped' /\ Others(c) /\ call'[c] = Free
    BY <1>0, <1>1, <1>4, ReturnIs
  <2>2. OneMinter'
    BY <2>1, FreeIs, MintersStay DEF Creators
  <2>3. (InBlock(c)' <=> InBlock(c)) /\ call'[c].at \notin {"insert"} \cup Admitted
    BY <1>3, <1>4, <2>1, FreeIs DEF InTransaction, InBlock, Opening, Transactional, Admitted
  <2>4. LostTogether' /\ OneTransaction'
    BY <1>1, <1>2 DEF LostTogether, OneTransaction
  <2>5. auto' \in BOOLEAN /\ conn' \in {"up", "broken", "closed"} /\ calls' \in 0 .. MaxCalls
    BY <1>1 DEF TypeOK
  <2>6. depth' = Cardinality(Blocks')
    BY <1>1, <2>1, <2>3, DepthIs
  <2>7. SavedTyped' /\ call[c].at # "commit"
    BY <1>1, Parts DEF SavedTyped, Ends
  <2> QED BY <1>1, <2>1, <2>2, <2>3, <2>4, <2>5, <2>6, <2>7, QuietStep
<1>5. CASE call[c].lost
  <2>1. "rollback" \in Stages
    BY DEF Stages
  <2>2. /\ call' \in [Callers -> CallRecord] /\ Others(c)
        /\ call'[c].at = "rollback" /\ call'[c].op = call[c].op /\ call'[c].on = call[c].on
        /\ call'[c].x = call[c].x /\ call'[c].lost = call[c].lost
    BY <1>0, <1>1, <1>5, <2>1, GotoIs
  <2>3. call[c].op \in Transactional
    BY <1>3, <1>5 DEF InTransaction, InBlock, Opening
  <2>4. CallOK(call'[c])
    BY <1>0, <2>2, <2>3 DEF CallOK, Transactional, Opening, Ends
  <2>5. CallsTyped'
    BY <1>0, <2>2, <2>4, CallMoved
  <2>6. InBlock(c)' <=> InBlock(c)
    BY <1>3, <1>5, <2>2, <2>3 DEF InTransaction, InBlock, Opening
  <2>7. Blocks' = Blocks
    BY <2>2, <2>6 DEF Blocks, Others, InTransaction, InBlock, Opening
  <2>8. TypeOK'
    <3>1. ViewTyped' /\ SavedTyped'
      BY <1>1, Parts DEF ViewTyped, SavedTyped, View
    <3> QED BY <1>1, <2>5, <2>7, <3>1 DEF TypeOK, ViewTyped, SavedTyped, CallsTyped, Blocks
  <2>9. OneMinter'
    BY <2>2, MintersStay
  <2>10. LostTogether'
    BY <1>1 DEF LostTogether
  <2> QED BY <1>2, <2>8, <2>9, <2>10, AfterADrop
<1> QED BY <1>4, <1>5

LEMMA ResetKept ==
  ASSUME TypeOK, ConnInv, NEW c \in Callers, Reset(c)
  PROVE  (TypeOK /\ ConnInv)'
<1>0. LostTogether /\ OneTransaction /\ CallsTyped
  BY Parts
<1>1. /\ call[c].at = "reset" /\ Return(c) /\ UNCHANGED <<View, saved, conn, depth, calls, drops, shared>>
      /\ auto' = TRUE \/ auto' = auto
  BY DEF Reset, countVars, View
<1>2. CallsTyped' /\ Others(c) /\ call'[c] = Free
  BY <1>0, <1>1, ReturnIs
<1>3. OneMinter'
  BY <1>2, FreeIs, MintersStay DEF Creators
<1>4. /\ ~InBlock(c) /\ ~InBlock(c)' /\ ~InTransaction(c)'
      /\ call'[c].at \notin {"insert"} \cup Admitted /\ call[c].at # "commit"
  BY <1>1, <1>2, FreeIs DEF InTransaction, InBlock, Opening, Transactional, Admitted
<1>5. LostTogether' /\ OneTransaction'
  <2>1. \A e \in Callers : /\ InTransaction(e)' => InTransaction(e)
                           /\ InBlock(e)' => (InBlock(e) /\ call'[e].lost = call[e].lost)
                           /\ call'[e].lost => call[e].lost
    BY <1>2, <1>4, FreeIs DEF Others, InTransaction, InBlock, Opening
  <2> QED BY <1>0, <1>1, <2>1 DEF LostTogether, OneTransaction, Undisturbed
<1>6. auto' \in BOOLEAN /\ conn' \in {"up", "broken", "closed"} /\ calls' \in 0 .. MaxCalls
  BY <1>1 DEF TypeOK
<1>7. depth' = Cardinality(Blocks')
  BY <1>1, <1>2, <1>4, DepthIs
<1>8. SavedTyped'
  BY <1>1, Parts DEF SavedTyped
<1> QED BY <1>1, <1>2, <1>3, <1>4, <1>5, <1>6, <1>7, <1>8, QuietStep

\* What the places of a call are while its transaction opens.
LEMMA OpeningIs ==
  ASSUME TypeOK, ConnInv, NEW c \in Callers, call[c].at \in Opening
  PROVE  /\ CallsTyped /\ CallOK(call[c]) /\ call[c].op \in Transactional
         /\ ~InTransaction(c) /\ (InBlock(c) <=> call[c].at # "begin")
         /\ call[c].at = "begin" => ~call[c].lost
<1>1. /\ CallsTyped /\ CallOK(call[c])
      /\ call[c].op \in {"free", "mutate", "truncate", "update", "finish", "expire"} \cup Transactional
  BY Parts, KnownCall
<1>2. call[c].op \in Transactional
  BY <1>1 DEF CallOK, Opening
<1> QED BY <1>1, <1>2 DEF InTransaction, InBlock, Opening, CallOK

\* A call that is refused its transaction leaves the others as they are.
LEMMA GaveUp ==
  ASSUME TypeOK, ConnInv, NEW c \in Callers, call[c].at \in {"autocommit", "open"}, GiveUp(c),
         UNCHANGED <<View, saved, calls, drops, shared>>, auto' \in BOOLEAN,
         conn' = conn \/ (conn = "broken" /\ conn' = "closed")
  PROVE  (TypeOK /\ ConnInv)'
<1>0. LostTogether /\ OneTransaction /\ CallsTyped /\ SavedTyped
  BY Parts
<1>1. InBlock(c) /\ ~InTransaction(c)
  BY OpeningIs DEF Opening
<1>2. CallsTyped' /\ Others(c) /\ call'[c] = Free /\ depth' = depth - 1
  BY <1>0, ReturnIs DEF GiveUp
<1>3. OneMinter'
  BY <1>2, FreeIs, MintersStay DEF Creators
<1>4. ~InBlock(c)' /\ ~InTransaction(c)' /\ call'[c].at \notin {"insert"} \cup Admitted
  BY <1>2, FreeIs DEF InBlock, InTransaction, Transactional, Admitted
<1>5. depth' = Cardinality(Blocks')
  BY <1>1, <1>2, <1>4, DepthIs
<1>6. \A e \in Callers : /\ InTransaction(e)' => InTransaction(e)
                         /\ InBlock(e)' => (InBlock(e) /\ call'[e].lost = call[e].lost)
                         /\ call'[e].lost => call[e].lost
  BY <1>2, <1>4, FreeIs DEF Others, InTransaction, InBlock
<1>7. LostTogether'
  BY <1>0, <1>6 DEF LostTogether
<1>8. OneTransaction'
  <2>1. Undisturbed => conn' = conn
    BY <1>0 DEF OneTransaction
  <2> QED BY <1>0, <1>6, <2>1 DEF OneTransaction, Undisturbed
<1>9. /\ SavedTyped' /\ conn' \in {"up", "broken", "closed"} /\ calls' \in 0 .. MaxCalls
      /\ call[c].at # "commit"
  BY <1>0 DEF SavedTyped, TypeOK
<1> QED BY <1>2, <1>3, <1>4, <1>5, <1>7, <1>8, <1>9, QuietStep

LEMMA EnterKept ==
  ASSUME TypeOK, ConnInv, NEW c \in Callers, Enter(c)
  PROVE  (TypeOK /\ ConnInv)'
<1>0. LostTogether /\ OneTransaction /\ CallsTyped /\ SavedTyped
  BY Parts
<1>1. /\ call[c].at = "begin" /\ UNCHANGED <<View, calls, drops, shared>> /\ depth' = depth + 1
      /\ \/ conn = "closed" /\ conn' = "up" /\ saved' = <<>> /\ auto' = TRUE
         \/ conn # "closed" /\ UNCHANGED <<conn, saved, auto>>
  BY DEF Enter, countVars, View
<1>2. CallOK(call[c]) /\ call[c].op \in Transactional /\ ~InBlock(c) /\ ~InTransaction(c)
  BY <1>1, OpeningIs DEF Opening
<1>3. PICK gone \in BOOLEAN : gone <=> conn = "broken"
  OBVIOUS
<1>4. PICK d \in CallRecord : d = call[c]
  BY <1>0 DEF CallsTyped
<1>5. /\ call' = [call EXCEPT ![c] = [d EXCEPT !.at = "autocommit", !.lost = gone]]
  BY <1>0, <1>3, <1>4 DEF Enter, CallsTyped
<1>6. /\ call'[c] = [d EXCEPT !.at = "autocommit", !.lost = gone] /\ Others(c)
  BY <1>0, <1>5 DEF CallsTyped, Others
<1>7. /\ call'[c] \in CallRecord /\ call'[c].at = "autocommit" /\ call'[c].lost = gone
      /\ call'[c].op = d.op /\ call'[c].on = d.on /\ call'[c].x = d.x
      /\ call'[c].expected = d.expected /\ call'[c].seen = d.seen
  BY <1>6 DEF CallRecord, Stages
<1>8. CallOK(call'[c])
  BY <1>2, <1>4, <1>7 DEF CallOK, Transactional, Opening, Ends
<1>9. CallsTyped'
  <2>1. call' \in [Callers -> CallRecord]
    BY <1>0, <1>5, <1>6, <1>7 DEF CallsTyped, Others
  <2> QED BY <1>0, <1>6, <1>8, <2>1, CallMoved
<1>10. InBlock(c)' /\ ~InTransaction(c)'
  BY <1>2, <1>4, <1>7 DEF InBlock, InTransaction, Opening
<1>11. depth' = Cardinality(Blocks')
  BY <1>1, <1>2, <1>6, <1>10, DepthIs
<1>12. OneMinter'
  BY <1>4, <1>6, <1>7, MintersStay
<1>13. \A e \in Callers \ {c} : /\ InTransaction(e)' <=> InTransaction(e)
                                /\ InBlock(e)' <=> InBlock(e)
                                /\ call'[e].lost = call[e].lost
  BY <1>6 DEF Others, InTransaction, InBlock
<1>14. LostTogether'
  <2>1. conn' = "broken" => conn = "broken"
    BY <1>1
  <2>2. conn' = "broken" => call'[c].lost
    BY <1>3, <1>7, <2>1, Zenon
  <2>3. ASSUME conn' = "broken", NEW e \in Callers \ {c}, InBlock(e)' PROVE call'[e].lost
    <3>1. InBlock(e) /\ call'[e].lost = call[e].lost
      BY <1>13, <2>3
    <3>2. call[e].lost
      BY <1>0, <2>1, <2>3, <3>1 DEF LostTogether
    <3> QED BY <3>1, <3>2
  <2> QED BY <2>2, <2>3 DEF LostTogether
<1>15. OneTransaction'
  <2> SUFFICES ASSUME Undisturbed
               PROVE  OneTransaction'
    BY <1>1 DEF OneTransaction, Undisturbed
  <2>1. /\ conn' = "up" /\ ~gone
    BY <1>0, <1>1, <1>3 DEF OneTransaction, TypeOK
  <2>2. saved' = saved
    BY <1>0, <1>1 DEF OneTransaction
  <2>3. ~call'[c].lost /\ ~InTransaction(c)'
    BY <1>7, <1>10, <2>1
  <2>4. \A e \in Callers \ {c} : ~call'[e].lost /\ (InTransaction(e)' => InTransaction(e))
    <3>1. ASSUME NEW e \in Callers \ {c}
          PROVE  ~call'[e].lost /\ (InTransaction(e)' => InTransaction(e))
      <4>1. call'[e].lost = call[e].lost /\ ~call[e].lost
        BY <1>0, <1>13, <3>1 DEF OneTransaction
      <4> QED BY <1>13, <3>1, <4>1
    <3> QED BY <3>1
  <2>5. \A e \in Callers : ~call'[e].lost /\ (InTransaction(e)' => InTransaction(e))
    BY <2>3, <2>4
  <2> QED BY <1>0, <2>1, <2>2, <2>5 DEF OneTransaction
<1>16. /\ SavedTyped' /\ auto' \in BOOLEAN /\ conn' \in {"up", "broken", "closed"}
       /\ calls' \in 0 .. MaxCalls /\ (Undisturbed => saved' = saved)
  <2>1. Undisturbed => saved' = saved
    BY <1>0, <1>1 DEF OneTransaction
  <2> QED BY <1>0, <1>1, <2>1 DEF SavedTyped, TypeOK
<1>17. call'[c].at \notin {"insert"} \cup Admitted /\ call[c].at # "commit"
  BY <1>1, <1>7 DEF Admitted
<1> QED BY <1>1, <1>6, <1>9, <1>11, <1>12, <1>14, <1>15, <1>16, <1>17, QuietStep

LEMMA SetAutocommitKept ==
  ASSUME TypeOK, ConnInv, NEW c \in Callers, SetAutocommit(c)
  PROVE  (TypeOK /\ ConnInv)'
<1>0. LostTogether /\ OneTransaction /\ CallsTyped /\ SavedTyped
  BY Parts
<1>1. /\ call[c].at = "autocommit" /\ UNCHANGED <<View, saved, conn, calls, drops, shared>>
      /\ auto' = auto \/ auto' = FALSE
  BY DEF SetAutocommit, countVars, View
<1>2. CallOK(call[c]) /\ call[c].op \in Transactional /\ InBlock(c) /\ ~InTransaction(c)
  BY <1>1, OpeningIs DEF Opening
<1>3. auto' \in BOOLEAN
  BY <1>1 DEF TypeOK
<1>4. CASE GiveUp(c)
  BY <1>1, <1>3, <1>4, GaveUp
<1>5. CASE Goto(c, "open") /\ depth' = depth
  <2>1. "open" \in Stages
    BY DEF Stages
  <2>2. /\ call' \in [Callers -> CallRecord] /\ Others(c)
        /\ call'[c].at = "open" /\ call'[c].op = call[c].op /\ call'[c].on = call[c].on
        /\ call'[c].x = call[c].x /\ call'[c].lost = call[c].lost
    BY <1>0, <1>5, <2>1, GotoIs
  <2>3. CallOK(call'[c])
    BY <1>2, <2>2 DEF CallOK, Transactional, Opening, Ends
  <2>4. CallsTyped'
    BY <1>0, <2>2, <2>3, CallMoved
  <2>5. InBlock(c)' /\ ~InTransaction(c)' /\ call'[c].at \notin {"insert"} \cup Admitted
    BY <1>2, <2>2 DEF InBlock, InTransaction, Opening, Admitted
  <2>6. depth' = Cardinality(Blocks')
    BY <1>2, <1>5, <2>2, <2>5, DepthIs
  <2>7. OneMinter'
    BY <2>2, MintersStay
  <2>8. \A e \in Callers : /\ InTransaction(e)' <=> InTransaction(e)
                           /\ InBlock(e)' <=> InBlock(e)
                           /\ call'[e].lost = call[e].lost
    BY <1>2, <2>2, <2>5 DEF Others, InTransaction, InBlock
  <2>9. LostTogether' /\ OneTransaction'
    BY <1>0, <1>1, <2>8 DEF LostTogether, OneTransaction, Undisturbed
  <2>10. SavedTyped' /\ conn' \in {"up", "broken", "closed"} /\ calls' \in 0 .. MaxCalls
    BY <1>0, <1>1 DEF SavedTyped, TypeOK
  <2> QED BY <1>1, <1>3, <2>2, <2>4, <2>5, <2>6, <2>7, <2>9, <2>10, QuietStep
<1> QED BY <1>4, <1>5 DEF SetAutocommit

LEMMA BeginTransactionKept ==
  ASSUME TypeOK, ConnInv, NEW c \in Callers, BeginTransaction(c)
  PROVE  (TypeOK /\ ConnInv)'
<1>0. /\ LostTogether /\ OneTransaction /\ CountKept /\ AdmissionKept /\ CapacityWithoutDrops
      /\ CallsTyped /\ SavedTyped /\ ViewTyped
  BY Parts
<1>1. call[c].at = "open" /\ UNCHANGED <<View, auto, calls, drops>>
  BY DEF BeginTransaction, View
<1>2. CallOK(call[c]) /\ call[c].op \in Transactional /\ InBlock(c) /\ ~InTransaction(c)
  BY <1>1, OpeningIs DEF Opening
<1>3. CASE call[c].lost
  <2>1. /\ GiveUp(c) /\ conn' = IF conn = "broken" THEN "closed" ELSE conn
        /\ UNCHANGED <<saved, shared>>
    BY <1>3 DEF BeginTransaction
  <2>2. auto' \in BOOLEAN
    BY <1>1 DEF TypeOK
  <2> QED BY <1>1, <2>1, <2>2, GaveUp
<1>4. CASE ~call[c].lost
  <2>1. PICK step \in {"purge", "room", "count", "rows"} : step = FirstStep[call[c].op]
    BY <1>2 DEF FirstStep, Transactional
  <2>2. /\ call[c].op \in {"create_session", "admit_run", "sweep"} => step = "purge"
        /\ call[c].op = "create_run" => step = "room"
        /\ call[c].op = "create_key" => step = "count"
        /\ call[c].op = "delete" => step = "rows"
    BY <2>1 DEF FirstStep, Transactional
  <2>3. /\ Goto(c, step) /\ conn' = conn /\ depth' = depth
        /\ saved' = IF saved = <<>> THEN View ELSE saved
        /\ shared' = (shared \/ \E d \in Callers : InTransaction(d))
    BY <1>4, <2>1 DEF BeginTransaction
  <2>4. step \in Stages \ Resting
    BY <2>1 DEF Stages, Resting, Opening
  <2>5. /\ call' \in [Callers -> CallRecord] /\ Others(c)
        /\ call'[c].at = step /\ call'[c].op = call[c].op /\ call'[c].on = call[c].on
        /\ call'[c].x = call[c].x /\ call'[c].lost = call[c].lost
    BY <1>0, <2>3, <2>4, GotoIs
  <2>6. CallOK(call'[c])
    BY <1>2, <2>2, <2>5 DEF CallOK, Transactional, Opening, Ends
  <2>7. CallsTyped'
    BY <1>0, <2>5, <2>6, CallMoved
  <2>8. InBlock(c)'
    BY <1>2, <2>4, <2>5 DEF InBlock, Resting
  <2>9. depth' = Cardinality(Blocks')
    BY <1>2, <2>3, <2>5, <2>8, DepthIs
  <2>10. saved' # <<>> /\ (saved = <<>> => /\ saved' = <<sess, runs, keys, column>>
                                           /\ saved'[1] = sess /\ saved'[2] = runs
                                           /\ saved'[3] = keys /\ saved'[4] = column)
    BY <2>3 DEF View
  <2>11. SavedTyped' /\ ViewTyped'
    <3>1. ViewTyped'
      BY <1>0, <1>1 DEF ViewTyped, View
    <3>2. CASE saved = <<>>
      BY <1>0, <2>10, <3>1, <3>2 DEF SavedTyped, ViewTyped
    <3>3. CASE saved # <<>>
      <4>1. saved' = saved
        BY <2>3, <3>3
      <4>2. SavedTyped
        BY <1>0
      <4> QED BY <3>1, <4>1, <4>2 DEF SavedTyped
    <3> QED BY <3>1, <3>2, <3>3
  <2>12. shared' \in BOOLEAN /\ (Undisturbed' => Undisturbed)
    BY <1>1, <2>3 DEF Undisturbed, TypeOK
  <2>13. TypeOK'
    BY <1>1, <2>3, <2>7, <2>9, <2>11, <2>12 DEF TypeOK, ViewTyped, SavedTyped, CallsTyped, Blocks
  <2>14. \A e \in Callers : (InBlock(e)' <=> InBlock(e)) /\ call'[e].lost = call[e].lost
    BY <1>2, <2>5, <2>8 DEF Others, InBlock
  <2>15. LostTogether'
    BY <1>0, <2>3, <2>14 DEF LostTogether
  <2>16. OneMinter'
    BY <2>5, MintersStay
  <2>17. ASSUME Undisturbed'
         PROVE  ConnInv'
    <3>1. Undisturbed /\ \A e \in Callers : ~InTransaction(e)
      BY <2>3, <2>12, <2>17 DEF Undisturbed
    <3>2. \A e \in Callers : InTransaction(e)' => e = c
      BY <2>5, <3>1 DEF Others, InTransaction, InBlock
    <3>3. OneTransaction'
      <4>1. /\ conn # "broken" /\ \A e \in Callers : ~call'[e].lost
        BY <1>0, <2>14, <3>1 DEF OneTransaction
      <4>2. conn = "up" /\ \A e \in Callers : InBlock(e)' => conn = "up"
        BY <1>0, <1>2, <3>1 DEF OneTransaction
      <4> QED BY <2>3, <2>10, <3>2, <4>1, <4>2 DEF OneTransaction
    <3>4. CapacityWithoutDrops'
      BY <1>0, <1>1, <3>1 DEF CapacityWithoutDrops, RunsOf, KeysOf, View
    <3>5. \A e \in Callers : call'[e].at # "insert"
      <4>1. \A e \in Callers : call[e].at # "insert"
        BY <1>0, <3>1, InsertsInside
      <4> QED BY <2>1, <2>5, <4>1 DEF Others
    <3>6. CountKept'
      <4>1. ASSUME NEW s \in Sessions
            PROVE  /\ Cardinality(RunsIn(saved'[2], s)) <= MaxRuns
                   /\ Cardinality(RunsIn(saved'[3], s)) <= MaxKeys
        <5>1. CASE saved = <<>>
          <6>1. RunsIn(saved'[2], s) = RunsOf(s) /\ RunsIn(saved'[3], s) = KeysOf(s)
            BY <1>0, <2>10, <5>1, SameRows
          <6> QED BY <1>0, <3>1, <6>1 DEF CapacityWithoutDrops
        <5>2. CASE saved # <<>>
          BY <1>0, <2>3, <3>1, <5>2 DEF CountKept
        <5> QED BY <5>1, <5>2
      <4> QED BY <3>5, <4>1 DEF CountKept
    <3>7. \A e \in Callers : ~(call'[e].op = "admit_run" /\ call'[e].at \in Admitted)
      <4>1. \A e \in Callers : ~(call[e].op \in Creators /\ call[e].at \in Admitted)
        BY <1>0, <3>1, InsertsInside
      <4> QED BY <2>2, <2>5, <4>1 DEF Others, Creators, Admitted
    <3>8. DOMAIN runs' \ DOMAIN saved'[2] = {}
      <4>1. runs' = runs
        BY <1>1 DEF View
      <4>2. CASE saved = <<>>
        BY <2>10, <4>1, <4>2
      <4>3. CASE saved # <<>>
        <5>1. ASSUME NEW r \in DOMAIN runs \ DOMAIN saved[2]
              PROVE  FALSE
          <6>1. PICK e \in Callers : call[e].op \in Creators /\ call[e].at = "commit"
            BY <1>0, <3>1, <4>3, <5>1 DEF AdmissionKept, Creators
          <6> QED BY <1>0, <3>1, <6>1, InsertsInside DEF Admitted
        <5> QED BY <2>3, <4>1, <4>3, <5>1
      <4> QED BY <4>2, <4>3
    <3>9. AdmissionKept'
      BY <2>16, <3>7, <3>8 DEF AdmissionKept, OneMinter, Creators, Admitted
    <3> QED BY <2>15, <3>3, <3>4, <3>6, <3>9 DEF ConnInv
  <2> QED BY <2>13, <2>15, <2>16, <2>17, AfterADrop
<1> QED BY <1>3, <1>4

LEMMA LeaveKept ==
  ASSUME TypeOK, ConnInv, NEW c \in Callers, Leave(c)
  PROVE  (TypeOK /\ ConnInv)'
<1>0. /\ LostTogether /\ OneTransaction /\ CountKept /\ AdmissionKept /\ CapacityWithoutDrops
      /\ CallsTyped /\ SavedTyped /\ ViewTyped /\ CallOK(call[c])
      /\ call[c].op \in {"free", "mutate", "truncate", "update", "finish", "expire"} \cup Transactional
  BY Parts, KnownCall
<1>1. /\ call[c].at \in {"commit", "rollback"} /\ depth' = depth - 1 /\ UNCHANGED <<auto, calls, drops, shared>>
      /\ InTransaction(c) /\ InBlock(c)
  <2>1. call[c].op \in Transactional
    BY <1>0 DEF Leave, CallOK
  <2> QED BY <2>1 DEF Leave, countVars, InTransaction, InBlock, Opening
<1>2. /\ CallsTyped' /\ Others(c) /\ ~InTransaction(c)' /\ ~InBlock(c)' /\ OneMinter'
      /\ call'[c].at \notin {"insert"} \cup Admitted /\ (call'[c].lost => call[c].lost)
  <2>1. CASE Return(c)
    <3>1. CallsTyped' /\ Others(c) /\ call'[c] = Free
      BY <1>0, <2>1, ReturnIs
    <3>2. OneMinter'
      BY <3>1, FreeIs, MintersStay DEF Creators
    <3> QED BY <3>1, <3>2, FreeIs DEF InTransaction, InBlock, Opening, Transactional, Admitted
  <2>2. CASE Goto(c, "reset")
    <3>1. "reset" \in Stages
      BY DEF Stages
    <3>2. /\ call' \in [Callers -> CallRecord] /\ Others(c)
          /\ call'[c].at = "reset" /\ call'[c].op = call[c].op /\ call'[c].on = call[c].on
          /\ call'[c].x = call[c].x /\ call'[c].lost = call[c].lost
      BY <1>0, <2>2, <3>1, GotoIs
    <3>3. CallOK(call'[c])
      BY <1>0, <1>1, <3>2 DEF CallOK, Transactional, Opening, Ends, InTransaction, InBlock
    <3>4. CallsTyped'
      BY <1>0, <3>2, <3>3, CallMoved
    <3>5. OneMinter'
      BY <3>2, MintersStay
    <3> QED BY <3>2, <3>4, <3>5 DEF InTransaction, InBlock, Opening, Admitted
  <2> QED BY <2>1, <2>2 DEF Leave
<1>3. depth' = Cardinality(Blocks')
  BY <1>1, <1>2, DepthIs
<1>4. \/ call[c].lost /\ UNCHANGED View /\ saved' = saved
         /\ conn' = IF conn = "broken" THEN "closed" ELSE conn
      \/ ~call[c].lost /\ UNCHANGED View /\ saved' = <<>> /\ conn' = conn
      \/ ~call[c].lost /\ saved # <<>> /\ Show(saved) /\ saved' = <<>> /\ conn' = conn
  BY DEF Leave, View
<1>5. ViewTyped' /\ SavedTyped'
  <2>1. CASE UNCHANGED View /\ (saved' = saved \/ saved' = <<>>)
    BY <1>0, <2>1 DEF ViewTyped, SavedTyped, View
  <2>2. CASE saved # <<>> /\ Show(saved) /\ saved' = <<>>
    BY <1>0, <2>2 DEF ViewTyped, SavedTyped, Show
  <2> QED BY <1>4, <2>1, <2>2
<1>6. auto' \in BOOLEAN /\ conn' \in {"up", "broken", "closed"}
  BY <1>1, <1>4 DEF TypeOK
<1>7. TypeOK'
  <2>1. calls' \in 0 .. MaxCalls /\ drops' \in 0 .. MaxDrops /\ shared' \in BOOLEAN
    BY <1>1 DEF TypeOK
  <2> QED BY <1>2, <1>3, <1>5, <1>6, <2>1 DEF TypeOK, ViewTyped, SavedTyped, CallsTyped, Blocks
<1>8. LostTogether'
  BY <1>0, <1>1, <1>4 DEF LostTogether
<1>9. ASSUME Undisturbed
      PROVE  ConnInv'
  <2>1. /\ ~call[c].lost /\ saved' = <<>> /\ conn' = conn /\ conn = "up"
        /\ \A e \in Callers : ~call[e].lost
        /\ \A e \in Callers : InTransaction(e) => e = c
    BY <1>0, <1>1, <1>4, <1>9 DEF OneTransaction
  <2>2. \A e \in Callers : ~InTransaction(e)' /\ ~call'[e].lost
    BY <1>2, <2>1 DEF Others, InTransaction, InBlock, Opening
  <2>3. OneTransaction'
    BY <2>1, <2>2 DEF OneTransaction
  <2>4. CapacityWithoutDrops'
    <3>1. CASE UNCHANGED View
      BY <1>0, <1>1, <3>1 DEF CapacityWithoutDrops, RunsOf, KeysOf, View, Undisturbed
    <3>2. CASE saved # <<>> /\ Show(saved)
      <4>1. ASSUME NEW s \in Sessions
            PROVE  Cardinality(RunsOf(s)') <= MaxRuns /\ Cardinality(KeysOf(s)') <= MaxKeys
        <5>1. RunsOf(s)' = RunsIn(saved[2], s) /\ KeysOf(s)' = RunsIn(saved[3], s)
          BY <1>5, <3>2 DEF ViewTyped, ViewOK, RunsOf, KeysOf, RunsIn, Show
        <5> QED BY <1>0, <1>9, <3>2, <5>1 DEF CountKept
      <4> QED BY <4>1 DEF CapacityWithoutDrops
    <3> QED BY <1>4, <3>1, <3>2
  <2>5. \A e \in Callers : /\ call'[e].at # "insert"
                           /\ ~(call'[e].op = "admit_run" /\ call'[e].at \in Admitted)
    <3>1. \A e \in Callers \ {c} : /\ call[e].at # "insert"
                                   /\ ~(call[e].op \in Creators /\ call[e].at \in Admitted)
      BY <1>0, <2>1, InsertsInside
    <3> QED BY <1>2, <3>1 DEF Others, Creators
  <2>6. CountKept'
    BY <2>1, <2>5 DEF CountKept
  <2>7. AdmissionKept'
    BY <1>2, <2>1, <2>5 DEF AdmissionKept, OneMinter, Creators, Admitted
  <2> QED BY <1>8, <2>3, <2>4, <2>6, <2>7 DEF ConnInv
<1> QED BY <1>1, <1>2, <1>7, <1>8, <1>9, AfterADrop DEF Undisturbed

-----------------------------------------------------------------------------
(* The connection drops, and time passes                                   *)

LEMMA AnswerLostKept ==
  ASSUME TypeOK, ConnInv, NEW c \in Callers, AnswerLost(c)
  PROVE  (TypeOK /\ ConnInv)'
<1>0. /\ CallsTyped /\ SavedTyped /\ ViewTyped /\ CallOK(call[c]) /\ MaxRevision \in Nat \ {0}
      /\ drops \in 0 .. MaxDrops /\ drops < MaxDrops
  BY Parts, KnownCall, StoreAssumption DEF TypeOK, AnswerLost
<1>1. /\ call[c].op = "mutate" /\ call[c].at = "cas" /\ Matches(c) /\ Append(c) /\ Again(c)
      /\ conn = "up" /\ drops' = drops + 1 /\ UNCHANGED <<saved, auto, conn, depth, calls, shared>>
  BY DEF AnswerLost, At, connVars
<1>2. /\ CallsTyped' /\ Others(c)
      /\ call'[c] = Free \/ (call'[c].op = "mutate" /\ call'[c].at = "read" /\ call'[c].lost = call[c].lost)
  BY <1>0, <1>1, AgainIs
<1>3. ViewTyped'
  <2>1. PICK s : s = call[c].on
    OBVIOUS
  <2>2. /\ s \in DOMAIN sess /\ column[s] = call[c].expected /\ call[c].seen \in SessionRecord
        /\ call[c].seen.rev = call[c].expected /\ Room(call[c].seen, 1)
        /\ call[c].expected \in 1 .. MaxRevision
    BY <1>0, <1>1, <2>1 DEF Matches, CallOK
  <2>3. PICK record \in SessionRecord : record = Appended(call[c].seen, 1)
    BY <1>0, <2>2, Records DEF SessionRecord
  <2>4. PICK rev \in 1 .. MaxRevision : rev = column[s] + 1
    BY <1>0, <2>2 DEF Room
  <2>5. /\ sess' = [sess EXCEPT ![s] = record] /\ column' = [column EXCEPT ![s] = rev]
        /\ UNCHANGED <<runs, keys>>
    BY <1>1, <2>1, <2>3, <2>4 DEF Append
  <2> QED BY <1>0, <2>2, <2>5, SessionWritten
<1>4. ~InBlock(c) /\ ~InBlock(c)'
  BY <1>1, <1>2, FreeIs DEF InTransaction, InBlock, Opening, Transactional
<1>5. Blocks' = Blocks
  BY <1>2, <1>4 DEF Blocks, Others, InTransaction, InBlock, Opening
<1>6. drops' \in 0 .. MaxDrops /\ ~Undisturbed'
  BY <1>0, <1>1, CallAssumption DEF Undisturbed
<1>7. TypeOK'
  <2>1. SavedTyped'
    BY <1>0, <1>1 DEF SavedTyped
  <2> QED BY <1>1, <1>2, <1>3, <1>5, <1>6, <2>1 DEF TypeOK, ViewTyped, SavedTyped, CallsTyped, Blocks
<1>8. OneMinter'
  BY <1>1, <1>2, FreeIs, MintersStay DEF Creators
<1>9. LostTogether'
  BY <1>1 DEF LostTogether
<1> QED BY <1>6, <1>7, <1>8, <1>9, AfterADrop

LEMMA DropKept ==
  ASSUME TypeOK, ConnInv, Drop
  PROVE  (TypeOK /\ ConnInv)'
<1>0. /\ CallsTyped /\ SavedTyped /\ ViewTyped /\ AdmissionKept
      /\ drops \in 0 .. MaxDrops /\ drops < MaxDrops
  BY Parts DEF TypeOK, Drop
<1>1. /\ conn' = "broken" /\ drops' = drops + 1 /\ saved' = <<>> /\ UNCHANGED <<auto, depth, calls, shared>>
      /\ UNCHANGED View \/ (saved # <<>> /\ Show(saved))
  BY DEF Drop, View
<1>2. \A e \in Callers : call'[e] = IF InBlock(e) \/ call[e].at = "reset"
                                    THEN [call[e] EXCEPT !.lost = TRUE] ELSE call[e]
  BY DEF Drop
<1>3. ASSUME NEW e \in Callers
      PROVE  /\ call'[e] \in CallRecord /\ CallOK(call'[e])
             /\ call'[e].op = call[e].op /\ call'[e].at = call[e].at /\ call'[e].x = call[e].x
             /\ InBlock(e) => call'[e].lost
  <2>1. /\ call[e] \in CallRecord /\ CallOK(call[e])
        /\ call[e].op \in {"free", "mutate", "truncate", "update", "finish", "expire"} \cup Transactional
    BY <1>0, KnownCall
  <2>2. CASE ~(InBlock(e) \/ call[e].at = "reset")
    BY <1>2, <2>1, <2>2
  <2>3. CASE InBlock(e) \/ call[e].at = "reset"
    <3>1. PICK d \in CallRecord : d = call[e]
      BY <2>1
    <3>2. call'[e] = [d EXCEPT !.lost = TRUE]
      BY <1>2, <2>3, <3>1
    <3>3. /\ call'[e] \in CallRecord /\ call'[e].op = d.op /\ call'[e].at = d.at /\ call'[e].on = d.on
          /\ call'[e].x = d.x /\ call'[e].expected = d.expected /\ call'[e].seen = d.seen /\ call'[e].lost
      BY <3>2 DEF CallRecord
    <3>4. d.op \in Transactional /\ d.at \notin {"read", "list", "begin"}
      BY <2>1, <2>3, <3>1 DEF InTransaction, InBlock, Opening, CallOK
    <3>5. CallOK(call'[e])
      BY <2>1, <3>1, <3>3, <3>4 DEF CallOK, Transactional
    <3> QED BY <3>1, <3>3, <3>5
  <2> QED BY <2>2, <2>3
<1>4. CallsTyped'
  <2>1. call' \in [Callers -> CallRecord]
    BY <1>3 DEF Drop
  <2> QED BY <1>3, <2>1 DEF CallsTyped
<1>5. Blocks' = Blocks
  BY <1>3 DEF Blocks, InTransaction, InBlock, Opening
<1>6. ViewTyped' /\ SavedTyped'
  <2>1. CASE UNCHANGED View
    BY <1>0, <1>1, <2>1 DEF ViewTyped, SavedTyped, View
  <2>2. CASE saved # <<>> /\ Show(saved)
    BY <1>0, <1>1, <2>2 DEF ViewTyped, SavedTyped, Show
  <2> QED BY <1>1, <2>1, <2>2
<1>7. drops' \in 0 .. MaxDrops /\ ~Undisturbed'
  BY <1>0, <1>1, CallAssumption DEF Undisturbed
<1>8. TypeOK'
  BY <1>1, <1>4, <1>5, <1>6, <1>7 DEF TypeOK, ViewTyped, SavedTyped, CallsTyped, Blocks
<1>9. OneMinter'
  BY <1>0, <1>3 DEF OneMinter, AdmissionKept, Creators
<1>10. LostTogether'
  BY <1>3, <1>5 DEF LostTogether, Blocks
<1> QED BY <1>7, <1>8, <1>9, <1>10, AfterADrop

LEMMA OlderAge ==
  ASSUME NEW age \in Ages
  PROVE  (IF age > Ttl THEN age ELSE age + 1) \in Ages
BY StoreAssumption DEF Ages

LEMMA TickKept ==
  ASSUME TypeOK, ConnInv, Tick
  PROVE  (TypeOK /\ ConnInv)'
<1>0. /\ LostTogether /\ OneTransaction /\ CountKept /\ AdmissionKept /\ CapacityWithoutDrops
      /\ CallsTyped /\ SavedTyped /\ ViewTyped
  BY Parts
<1>1. /\ \A e \in Callers : call[e].op = "free"
      /\ saved = <<>> /\ sess' = Older(sess) /\ runs' = Older(runs) /\ keys' = Older(keys)
      /\ UNCHANGED <<column, saved, auto, conn, depth, call, calls, drops, shared>>
  BY DEF Tick, connVars, countVars
<1>2. /\ DOMAIN sess' = DOMAIN sess /\ sess' \in [DOMAIN sess -> SessionRecord]
  <2>1. ASSUME NEW s \in DOMAIN sess PROVE sess'[s] \in SessionRecord
    <3>1. PICK d \in SessionRecord : d = sess[s]
      BY <1>0 DEF ViewTyped, ViewOK
    <3>2. PICK age \in Ages : age = IF d.idle > Ttl THEN d.idle ELSE d.idle + 1
      BY OlderAge DEF SessionRecord
    <3>3. sess'[s] = [d EXCEPT !.idle = age]
      BY <1>1, <3>1, <3>2 DEF Older
    <3> QED BY <3>3 DEF SessionRecord
  <2> QED BY <1>1, <2>1 DEF Older
<1>3. /\ DOMAIN runs' = DOMAIN runs /\ runs' \in [DOMAIN runs -> RunRecord]
      /\ \A r \in DOMAIN runs : runs'[r].sid = runs[r].sid
  <2>1. ASSUME NEW r \in DOMAIN runs PROVE runs'[r] \in RunRecord /\ runs'[r].sid = runs[r].sid
    <3>1. PICK d \in RunRecord : d = runs[r]
      BY <1>0 DEF ViewTyped, ViewOK
    <3>2. PICK age \in Ages : age = IF d.idle > Ttl THEN d.idle ELSE d.idle + 1
      BY OlderAge DEF RunRecord
    <3>3. runs'[r] = [d EXCEPT !.idle = age]
      BY <1>1, <3>1, <3>2 DEF Older
    <3> QED BY <3>1, <3>3 DEF RunRecord
  <2> QED BY <1>1, <2>1 DEF Older
<1>4. /\ DOMAIN keys' = DOMAIN keys /\ keys' \in [DOMAIN keys -> KeyRecord]
      /\ \A k \in DOMAIN keys : keys'[k].sid = keys[k].sid
  <2>1. ASSUME NEW k \in DOMAIN keys PROVE keys'[k] \in KeyRecord /\ keys'[k].sid = keys[k].sid
    <3>1. PICK d \in KeyRecord : d = keys[k]
      BY <1>0 DEF ViewTyped, ViewOK
    <3>2. PICK age \in Ages : age = IF d.idle > Ttl THEN d.idle ELSE d.idle + 1
      BY OlderAge DEF KeyRecord
    <3>3. keys'[k] = [d EXCEPT !.idle = age]
      BY <1>1, <3>1, <3>2 DEF Older
    <3> QED BY <3>1, <3>3 DEF KeyRecord
  <2> QED BY <1>1, <2>1 DEF Older
<1>5. ViewTyped'
  BY <1>0, <1>1, <1>2, <1>3, <1>4 DEF ViewTyped, ViewOK
<1>6. TypeOK'
  <2>1. SavedTyped'
    BY <1>1 DEF SavedTyped
  <2>2. CallsTyped' /\ Blocks' = Blocks
    BY <1>0, <1>1 DEF CallsTyped, Blocks, InTransaction, InBlock, Opening
  <2> QED BY <1>1, <1>5, <2>1, <2>2 DEF TypeOK, ViewTyped, SavedTyped, CallsTyped, Blocks
<1>7. LostTogether' /\ OneTransaction'
  BY <1>0, <1>1 DEF LostTogether, OneTransaction, InTransaction, InBlock, Opening, Undisturbed
<1>8. CapacityWithoutDrops'
  <2>1. \A s \in Sessions : RunsOf(s)' = RunsOf(s) /\ KeysOf(s)' = KeysOf(s)
    BY <1>3, <1>4 DEF RunsOf, KeysOf
  <2> QED BY <1>0, <1>1, <2>1 DEF CapacityWithoutDrops, Undisturbed
<1>9. \A e \in Callers : call'[e].at # "insert"
  BY <1>0, <1>1, InsertsInto
<1>10. CountKept' /\ AdmissionKept'
  BY <1>0, <1>1, <1>9 DEF CountKept, AdmissionKept
<1> QED BY <1>6, <1>7, <1>8, <1>10 DEF ConnInv

-----------------------------------------------------------------------------
(* The invariant                                                           *)

LEMMA Initially ==
  ASSUME Init
  PROVE  TypeOK /\ ConnInv
<1>1. /\ sess = <<>> /\ runs = <<>> /\ keys = <<>> /\ column = <<>> /\ saved = <<>> /\ auto = TRUE
      /\ conn = "closed" /\ depth = 0 /\ calls = 0 /\ drops = 0 /\ shared = FALSE
      /\ call = [c \in Callers |-> Free]
  BY DEF Init, StoreInit
<1>2. DOMAIN sess = {} /\ DOMAIN runs = {} /\ DOMAIN keys = {} /\ DOMAIN column = {}
  BY <1>1
<1>3. ViewTyped /\ SavedTyped
  <2>1. IsFiniteSet({})
    BY FS_EmptySet
  <2>2. /\ sess \in [DOMAIN sess -> SessionRecord] /\ runs \in [DOMAIN runs -> RunRecord]
        /\ keys \in [DOMAIN keys -> KeyRecord] /\ column \in [DOMAIN sess -> 1 .. MaxRevision]
    BY <1>1, <1>2
  <2> QED BY <1>1, <1>2, <2>1, <2>2 DEF ViewTyped, ViewOK, SavedTyped
<1>4. CallsTyped /\ \A e \in Callers : ~InTransaction(e) /\ ~InBlock(e) /\ call[e] = Free
  BY <1>1, FreeIs DEF CallsTyped, InTransaction, InBlock, Opening, Transactional
<1>5. depth = Cardinality(Blocks)
  <2>1. Blocks = {}
    BY <1>4 DEF Blocks
  <2> QED BY <1>1, <2>1, FS_EmptySet
<1>6. TypeOK
  <2>1. calls \in 0 .. MaxCalls /\ drops \in 0 .. MaxDrops
    BY <1>1, CallAssumption
  <2>2. auto \in BOOLEAN /\ shared \in BOOLEAN /\ conn \in {"up", "broken", "closed"}
    BY <1>1, Zenon
  <2> QED BY <1>3, <1>4, <1>5, <2>1, <2>2 DEF TypeOK, ViewTyped, SavedTyped, CallsTyped, Blocks
<1>7. CapacityWithoutDrops
  <2>1. \A s \in Sessions : RunsOf(s) = {} /\ KeysOf(s) = {}
    BY <1>2 DEF RunsOf, KeysOf
  <2> QED BY <2>1, FS_EmptySet, StoreAssumption DEF CapacityWithoutDrops
<1>8. LostTogether /\ OneTransaction /\ CountKept /\ AdmissionKept
  BY <1>1, <1>4, FreeIs DEF LostTogether, OneTransaction, CountKept, AdmissionKept
<1> QED BY <1>6, <1>7, <1>8 DEF ConnInv

LEMMA StepKept ==
  ASSUME TypeOK, ConnInv, [Next]_vars
  PROVE  (TypeOK /\ ConnInv)'
<1>1. CASE UNCHANGED vars
  <2>1. /\ UNCHANGED <<sess, runs, keys, column, saved, auto, conn, depth, call, calls, drops, shared>>
    BY <1>1 DEF vars
  <2>2. TypeOK'
    BY <2>1 DEF TypeOK, InTransaction, InBlock, Opening
  <2>3. LostTogether' /\ OneTransaction'
    BY <2>1, Parts DEF LostTogether, OneTransaction, InTransaction, InBlock, Opening, Undisturbed
  <2>4. CapacityWithoutDrops'
    BY <2>1, Parts DEF CapacityWithoutDrops, RunsOf, KeysOf, Undisturbed
  <2>5. CountKept'
    BY <2>1, Parts DEF CountKept, Fits, KeyFits, RunsOf, KeysOf, Undisturbed
  <2>6. AdmissionKept'
    BY <2>1, Parts DEF AdmissionKept, Undisturbed
  <2> QED BY <2>2, <2>3, <2>4, <2>5, <2>6 DEF ConnInv
<1>2. ASSUME NEW c \in Callers,
             \/ Requests(c) \/ StatementFails(c) \/ Enter(c) \/ SetAutocommit(c)
             \/ BeginTransaction(c) \/ Leave(c) \/ Reset(c)
             \/ CompareAndSwap(c) \/ AnswerLost(c) \/ Truncate(c)
      PROVE  (TypeOK /\ ConnInv)'
  BY <1>2, RequestsKept, FailuresKept, EnterKept, SetAutocommitKept, BeginTransactionKept,
     LeaveKept, ResetKept, SessionWritesKept, AnswerLostKept
<1>3. ASSUME NEW c \in Callers,
             \/ ReadToMutate(c) \/ ReadToTruncate(c) \/ CheckDelete(c) \/ CheckRuns(c) \/ CheckRun(c)
             \/ ReadRun(c) \/ ReadKey(c)
      PROVE  (TypeOK /\ ConnInv)'
  BY <1>3, ReadsKept
<1>4. ASSUME NEW c \in Callers,
             \/ Purge(c) \/ EnsureSession(c) \/ DeleteRows(c) \/ DeleteSession(c) \/ MakeRoom(c)
             \/ InsertRun(c) \/ CountKeys(c) \/ InsertKey(c)
      PROVE  (TypeOK /\ ConnInv)'
  BY <1>4, PurgeKept, EnsureSessionKept, DeletesKept, MakeRoomKept, InsertsKept, CountKeysKept
<1>5. ASSUME NEW c \in Callers,
             \/ \E status \in Statuses : UpdateRun(c, status)
             \/ FinishKey(c) \/ ExpireKey(c) \/ SweepRuns(c) \/ SweepKeys(c) \/ Reconcile(c)
      PROVE  (TypeOK /\ ConnInv)'
  BY <1>5, RowWritesKept, SweepsKept
<1>6. CASE Drop \/ Tick
  BY <1>6, DropKept, TickKept
<1> QED BY <1>1, <1>2, <1>3, <1>4, <1>5, <1>6 DEF Next

\* The connection and the rows keep to the invariant of the model whatever the calls, the
\* database and the network do (_PsycopgDb and _PsycopgTxn, postgres_backend.py).
THEOREM ConnectionsKept == Spec => [](TypeOK /\ ConnInv)
<1>1. Init => TypeOK /\ ConnInv
  BY Initially
<1>2. TypeOK /\ ConnInv /\ [Next]_vars => (TypeOK /\ ConnInv)'
  BY StepKept
<1> QED BY <1>1, <1>2, PTL DEF Spec

\* Counting and inserting in separate statements of interleaved calls never stores one run
\* or key more than the limit of a session, as long as the connection holds.
THEOREM CapacityWithoutDropsKept == Spec => []CapacityWithoutDrops
<1>1. ConnInv => CapacityWithoutDrops
  BY DEF ConnInv
<1> QED BY <1>1, ConnectionsKept, PTL

-----------------------------------------------------------------------------
(* Admission is one transaction                                            *)

AdmittedWhole ==
  \A c \in Callers : call[c].op = "admit_run" /\ call[c].x \in Appeared =>
     Committed'[2][call[c].x].sid \in DOMAIN Committed'[1]

LEMMA NothingAppears ==
  ASSUME \/ saved' = saved /\ (saved # <<>> \/ DOMAIN runs' \subseteq DOMAIN runs)
         \/ saved = <<>> /\ saved' = View
  PROVE  AdmittedWhole
<1>1. CASE saved' = saved /\ saved # <<>>
  BY <1>1 DEF AdmittedWhole, Appeared, Committed
<1>2. CASE saved' = saved /\ saved = <<>> /\ DOMAIN runs' \subseteq DOMAIN runs
  <2>1. Committed = View /\ Committed' = View'
    BY <1>2 DEF Committed
  <2>2. Committed[2] = runs /\ Committed'[2] = runs'
    BY <2>1 DEF View
  <2> QED BY <1>2, <2>2 DEF AdmittedWhole, Appeared
<1>3. CASE saved = <<>> /\ saved' = View
  <2>1. View # <<>>
    BY DEF View
  <2>2. Committed' = Committed
    BY <1>3, <2>1 DEF Committed
  <2> QED BY <2>2 DEF AdmittedWhole, Appeared
<1> QED BY <1>1, <1>2, <1>3

\* Outside transactions a statement commits by itself, and inserts no run.
LEMMA StatementAdmits ==
  ASSUME TypeOK, ConnInv, Undisturbed, Statement, saved # <<>> \/ DOMAIN runs' \subseteq DOMAIN runs
  PROVE  AdmittedWhole
<1>1. SavedTyped /\ ViewTyped /\ (conn = "up" \/ (conn = "closed" /\ saved = <<>>))
  BY Parts DEF OneTransaction, TypeOK
<1>2. /\ saved' = saved \/ saved' = <<>> \/ (saved = <<>> /\ saved' = View)
      /\ conn = "up" => saved' = saved \/ (saved = <<>> /\ saved' = View)
  BY <1>1, StatementIs
<1>3. saved' = saved \/ (saved = <<>> /\ saved' = View)
  BY <1>1, <1>2
<1> QED BY <1>3, NothingAppears

LEMMA CommitAdmits ==
  ASSUME TypeOK, ConnInv, Undisturbed, NEW c \in Callers, Leave(c)
  PROVE  AdmittedWhole
<1>0. /\ OneTransaction /\ AdmissionKept /\ CallsTyped /\ ViewTyped /\ CallOK(call[c])
      /\ call[c].op \in {"free", "mutate", "truncate", "update", "finish", "expire"} \cup Transactional
  BY Parts, KnownCall
<1>1. call[c].at \in {"commit", "rollback"} /\ InTransaction(c)
  <2>1. call[c].op \in Transactional
    BY <1>0 DEF Leave, CallOK
  <2> QED BY <2>1 DEF Leave, InTransaction, InBlock, Opening
<1>2. ~call[c].lost /\ saved # <<>>
  BY <1>0, <1>1 DEF OneTransaction
<1>3. saved' = <<>> /\ IF call[c].at = "commit" THEN UNCHANGED View ELSE Show(saved)
  BY <1>2 DEF Leave
<1>4. Committed = saved /\ Committed' = View'
  BY <1>2, <1>3 DEF Committed
<1>5. Committed'[1] = sess' /\ Committed'[2] = runs'
  BY <1>4 DEF View
<1>6. CASE call[c].at = "commit"
  <2>1. sess' = sess /\ runs' = runs
    BY <1>3, <1>6 DEF View
  <2> SUFFICES ASSUME NEW d \in Callers, call[d].op = "admit_run", call[d].x \in Appeared
               PROVE  runs[call[d].x].sid \in DOMAIN sess
    BY <1>5, <2>1 DEF AdmittedWhole
  <2>2. call[d].x \in DOMAIN runs \ DOMAIN saved[2]
    BY <1>4, <1>5, <2>1 DEF Appeared
  <2>3. PICK e \in Callers : call[e].op \in Creators /\ call[e].at = "commit" /\ call[e].x = call[d].x
    BY <1>0, <1>2, <2>2 DEF AdmissionKept, Creators
  <2>4. e = d
    BY <1>0, <2>3 DEF AdmissionKept, Creators
  <2>5. call[d].on \in DOMAIN sess
    BY <1>0, <2>3, <2>4 DEF AdmissionKept
  <2>6. CallOK(call[d])
    BY <1>0, KnownCall
  <2>7. call[d].on = SessionOf[call[d].x]
    BY <2>6 DEF CallOK
  <2>8. runs[call[d].x].sid = SessionOf[call[d].x]
    BY <1>0, <2>2 DEF ViewTyped, ViewOK
  <2> QED BY <2>5, <2>7, <2>8
<1>7. CASE call[c].at # "commit"
  <2>1. runs' = saved[2]
    BY <1>3, <1>7 DEF Show
  <2> QED BY <1>4, <1>5, <2>1 DEF AdmittedWhole, Appeared
<1> QED BY <1>6, <1>7

LEMMA StepAdmits ==
  ASSUME TypeOK, ConnInv, Next, Undisturbed'
  PROVE  AdmittedWhole
<1>0. drops \in Nat
  BY CallAssumption DEF TypeOK
<1>1. ASSUME NEW c \in Callers, Requests(c) \/ StatementFails(c) \/ Reset(c)
      PROVE  AdmittedWhole
  <2>1. saved' = saved /\ runs' = runs
    BY <1>1 DEF Requests, Start, connVars, StatementFails, Reset
  <2> QED BY <2>1, NothingAppears
<1>2. ASSUME NEW c \in Callers, Enter(c) \/ SetAutocommit(c) \/ BeginTransaction(c)
      PROVE  AdmittedWhole
  <2>1. Undisturbed /\ runs' = runs
    BY <1>2 DEF Enter, SetAutocommit, BeginTransaction, countVars, Undisturbed
  <2>2. conn = "closed" => saved = <<>>
    BY <2>1, Parts DEF OneTransaction
  <2>3. saved' = saved \/ (saved = <<>> /\ saved' = View)
    BY <1>2, <2>2 DEF Enter, SetAutocommit, BeginTransaction
  <2> QED BY <2>1, <2>3, NothingAppears
<1>3. ASSUME NEW c \in Callers, Leave(c)
      PROVE  AdmittedWhole
  <2>1. Undisturbed
    BY <1>3 DEF Leave, countVars, Undisturbed
  <2> QED BY <1>3, <2>1, CommitAdmits
<1>4. ASSUME NEW c \in Callers,
             \/ ReadToMutate(c) \/ ReadToTruncate(c) \/ CheckDelete(c) \/ CheckRuns(c) \/ CheckRun(c)
             \/ ReadRun(c) \/ ReadKey(c) \/ CompareAndSwap(c) \/ Truncate(c) \/ Purge(c)
             \/ EnsureSession(c) \/ DeleteSession(c) \/ CountKeys(c) \/ InsertKey(c) \/ FinishKey(c)
             \/ ExpireKey(c) \/ SweepKeys(c)
      PROVE  AdmittedWhole
  <2>1. Statement /\ runs' = runs
    <3>1. CASE \/ ReadToMutate(c) \/ ReadToTruncate(c) \/ CheckDelete(c) \/ CheckRuns(c) \/ CheckRun(c)
               \/ ReadRun(c) \/ ReadKey(c)
      BY <3>1 DEF ReadToMutate, ReadToTruncate, CheckDelete, CheckRuns, CheckRun, ReadRun, ReadKey, Read
    <3>2. CASE CompareAndSwap(c)
      BY <3>2 DEF CompareAndSwap, Append, View
    <3>3. CASE \/ Truncate(c) \/ Purge(c) \/ EnsureSession(c) \/ DeleteSession(c) \/ InsertKey(c)
               \/ FinishKey(c) \/ ExpireKey(c) \/ SweepKeys(c)
      BY <3>3 DEF Truncate, Purge, EnsureSession, DeleteSession, InsertKey, FinishKey, ExpireKey, SweepKeys
    <3>4. CASE CountKeys(c)
      BY <3>4 DEF CountKeys, View
    <3> QED BY <1>4, <3>1, <3>2, <3>3, <3>4
  <2>2. Undisturbed
    BY <2>1 DEF Statement, countVars, Undisturbed
  <2> QED BY <2>1, <2>2, StatementAdmits
<1>5. ASSUME NEW c \in Callers,
             \/ DeleteRows(c) \/ MakeRoom(c) \/ SweepRuns(c) \/ Reconcile(c)
             \/ \E status \in Statuses : UpdateRun(c, status)
      PROVE  AdmittedWhole
  <2>1. Statement /\ DOMAIN runs' \subseteq DOMAIN runs
    <3>1. CASE DeleteRows(c) \/ SweepRuns(c)
      BY <3>1 DEF DeleteRows, SweepRuns, Without
    <3>2. CASE MakeRoom(c)
      BY <3>2 DEF MakeRoom, Without
    <3>3. CASE Reconcile(c)
      BY <3>3 DEF Reconcile
    <3>4. CASE \E status \in Statuses : UpdateRun(c, status)
      BY <3>4 DEF UpdateRun
    <3> QED BY <1>5, <3>1, <3>2, <3>3, <3>4
  <2>2. Undisturbed
    BY <2>1 DEF Statement, countVars, Undisturbed
  <2> QED BY <2>1, <2>2, StatementAdmits
<1>6. ASSUME NEW c \in Callers, InsertRun(c)
      PROVE  AdmittedWhole
  <2>1. Statement /\ call[c].at = "insert" /\ CallsTyped /\ OneTransaction
    BY <1>6, Parts DEF InsertRun
  <2>2. Undisturbed
    BY <2>1 DEF Statement, countVars, Undisturbed
  <2>3. InTransaction(c)
    BY <2>1, InsertsInside
  <2>4. saved # <<>>
    BY <2>1, <2>2, <2>3 DEF OneTransaction
  <2> QED BY <2>1, <2>2, <2>4, StatementAdmits
<1>7. CASE Tick
  <2>1. saved' = saved /\ DOMAIN runs' = DOMAIN runs
    BY <1>7 DEF Tick, connVars, Older
  <2> QED BY <2>1, NothingAppears
<1>8. ASSUME NEW c \in Callers PROVE ~AnswerLost(c)
  BY <1>0 DEF AnswerLost, Undisturbed
<1>9. ~Drop
  BY <1>0 DEF Drop, Undisturbed
<1> QED BY <1>1, <1>2, <1>3, <1>4, <1>5, <1>6, <1>7, <1>8, <1>9 DEF Next

\* As long as the connection holds, an admitted run appears in the database together with
\* its session, however the statements of other calls fall into or around the transaction of
\* its admission (admit_run, postgres_backend.py).
THEOREM AdmissionsAreWhole == Spec => AdmittedTogether
<1>1. TypeOK /\ ConnInv /\ [Next]_vars
        => [Undisturbed' => \A c \in Callers : call[c].op = "admit_run" /\ call[c].x \in Appeared =>
              Committed'[2][call[c].x].sid \in DOMAIN Committed'[1]]_vars
  BY StepAdmits DEF AdmittedWhole
<1> QED BY <1>1, ConnectionsKept, PTL DEF Spec, AdmittedTogether
=============================================================================
