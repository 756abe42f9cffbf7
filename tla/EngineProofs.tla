---------------------------- MODULE EngineProofs -----------------------------
(***************************************************************************)
(* Theorems about the engine.  McpManager: for any servers, tools, filters *)
(* and agents.                                                             *)
(* RunLimits: for any parts, usages and limits, and a run of any length.   *)
(***************************************************************************)
EXTENDS McpManager, RunLimits, FiniteSetTheorems, SequenceTheorems, WellFoundedInduction, NaturalsInduction, TLAPS

-----------------------------------------------------------------------------
(* Names                                                                   *)

\* The n-th of the first positions is n.
LEMMA NthOfPrefix ==
  ASSUME NEW n \in Nat, NEW i \in 1 .. n
  PROVE  Nth(1 .. n, i) = i
<1>1. ASSUME NEW k \in 1 .. n
      PROVE  Cardinality({j \in 1 .. n : j <= k}) = k
  <2>1. {j \in 1 .. n : j <= k} = 1 .. k
    OBVIOUS
  <2>2. Cardinality(1 .. k) = k
    BY FS_Interval
  <2> QED BY <2>1, <2>2
<1>2. \A k \in 1 .. n : Cardinality({j \in 1 .. n : j <= k}) = i <=> k = i
  BY <1>1
<1> QED BY <1>2, Zenon DEF Nth

\* A server admits no more than it offers, and the first tools if its filters keep a prefix.
LEMMA AdmittedTools ==
  ASSUME NEW s \in Names
  PROVE  /\ DOMAIN Admitted(s) \subseteq DOMAIN Tools[s]
         /\ PrefixFilter(s) => \A i \in DOMAIN Admitted(s) : Admitted(s)[i] = Tools[s][i]
<1>1. Tools[s] \in Seq(ToSet(Tools[s])) /\ MaxTools[s] \in Nat
  BY McpAssumption DEF McpAssumption
<1>2. PICK len \in Nat : len = Len(Tools[s]) /\ DOMAIN Tools[s] = 1 .. len
  BY <1>1
<1>3. /\ Kept(s) \subseteq 1 .. len
      /\ IsFiniteSet(1 .. len) /\ Cardinality(1 .. len) = len
  <2>1. Kept(s) \subseteq DOMAIN Tools[s]
    BY DEF Kept
  <2>2. IsFiniteSet(1 .. len) /\ Cardinality(1 .. len) = IF 1 > len THEN 0 ELSE len - 1 + 1
    BY FS_Interval
  <2> QED BY <1>2, <2>1, <2>2
<1>4. PICK passing \in 0 .. len : passing = Cardinality(Kept(s))
  <2>1. Cardinality(Kept(s)) <= len /\ IsFiniteSet(Kept(s))
    BY <1>3, FS_Subset
  <2>2. Cardinality(Kept(s)) \in Nat
    BY <2>1, FS_CardinalityType
  <2> QED BY <2>1, <2>2
<1>5. PICK m \in 0 .. passing : m = Min({Cardinality(Kept(s)), MaxTools[s]})
  <2>1. CASE passing <= MaxTools[s]
    BY <1>1, <1>4, <2>1 DEF Min
  <2>2. CASE ~(passing <= MaxTools[s])
    BY <1>1, <1>4, <2>2 DEF Min
  <2> QED BY <2>1, <2>2
<1>6. Admitted(s) = [n \in 1 .. m |-> Tools[s][Nth(Kept(s), n)]]
  BY <1>5 DEF Admitted
<1>7. DOMAIN Admitted(s) \subseteq DOMAIN Tools[s]
  BY <1>2, <1>6
<1>8. ASSUME PrefixFilter(s), NEW i \in DOMAIN Admitted(s)
      PROVE  Admitted(s)[i] = Tools[s][i]
  <2>1. PICK n \in Nat : Kept(s) = 1 .. n
    BY <1>1, <1>8 DEF PrefixFilter
  <2>2. n = passing
    BY <1>4, <2>1, FS_Interval
  <2>3. i \in 1 .. n
    BY <1>6, <1>8, <2>2
  <2>4. Nth(Kept(s), i) = i
    BY <2>1, <2>3, NthOfPrefix
  <2> QED BY <1>6, <1>8, <2>4
<1> QED BY <1>7, <1>8

\* The name at a position: of what was admitted there, which is what is offered there if the
\* filters keep a prefix.
LEMMA FinalName ==
  ASSUME NEW S \in SUBSET Names, NEW s \in S
  PROVE  /\ DOMAIN Finals(S)[s] = DOMAIN Admitted(s) /\ DOMAIN Admitted(s) \subseteq DOMAIN Tools[s]
         /\ \A i \in DOMAIN Admitted(s) :
              /\ Finals(S)[s][i] = IF Taken(S, s, Admitted(s)[i]) THEN <<s, Admitted(s)[i]>>
                                   ELSE <<Admitted(s)[i]>>
              /\ PrefixFilter(s) => Admitted(s)[i] = Tools[s][i]
<1>1. Finals(S)[s] = [i \in DOMAIN Admitted(s) |->
                        IF Taken(S, s, Admitted(s)[i]) THEN <<s, Admitted(s)[i]>> ELSE <<Admitted(s)[i]>>]
  BY DEF Finals
<1>2. DOMAIN Finals(S)[s] = DOMAIN Admitted(s)
  BY <1>1, Zenon
<1>3. \A i \in DOMAIN Admitted(s) :
        Finals(S)[s][i] = IF Taken(S, s, Admitted(s)[i]) THEN <<s, Admitted(s)[i]>>
                          ELSE <<Admitted(s)[i]>>
  BY <1>1, Zenon
<1> QED BY <1>2, <1>3, AdmittedTools

\* A raw name and a name with its server are never the same, and tell what they are made of.
LEMMA NamesTell ==
  ASSUME NEW s, NEW t, NEW a, NEW b, NEW p \in BOOLEAN, NEW q \in BOOLEAN,
         (IF p THEN <<s, a>> ELSE <<a>>) = (IF q THEN <<t, b>> ELSE <<b>>)
  PROVE  a = b /\ p = q /\ (p => s = t)
<1>1. Len(<<a>>) = 1 /\ Len(<<b>>) = 1 /\ Len(<<s, a>>) = 2 /\ Len(<<t, b>>) = 2
  OBVIOUS
<1>2. CASE p = TRUE /\ q = TRUE
  <2>1. <<s, a>> = <<t, b>>
    BY <1>2
  <2> QED BY <1>2, <2>1
<1>3. CASE p = FALSE /\ q = FALSE
  <2>1. <<a>> = <<b>>
    BY <1>3
  <2> QED BY <1>3, <2>1
<1>4. CASE p = TRUE /\ q = FALSE
  BY <1>1, <1>4
<1>5. CASE p = FALSE /\ q = TRUE
  BY <1>1, <1>5
<1> QED BY <1>2, <1>3, <1>4, <1>5

\* No two servers that take part have a name in common, and no two tools of a server whose
\* filters keep a prefix.
LEMMA NamesApart ==
  ASSUME NEW S \in SUBSET Names, NEW s \in S, NEW t \in S,
         NEW i \in DOMAIN Finals(S)[s], NEW j \in DOMAIN Finals(S)[t],
         Finals(S)[s][i] = Finals(S)[t][j]
  PROVE  s = t /\ (PrefixFilter(s) => i = j)
<1> DEFINE a == Admitted(s)[i]
           b == Admitted(t)[j]
<1>1. /\ Finals(S)[s][i] = (IF Taken(S, s, a) THEN <<s, a>> ELSE <<a>>)
      /\ i \in DOMAIN Admitted(s) /\ i \in DOMAIN Tools[s]
      /\ PrefixFilter(s) => a = Tools[s][i]
  BY FinalName
<1>2. /\ Finals(S)[t][j] = (IF Taken(S, t, b) THEN <<t, b>> ELSE <<b>>)
      /\ j \in DOMAIN Admitted(t) /\ j \in DOMAIN Tools[t]
      /\ PrefixFilter(t) => b = Tools[t][j]
  BY FinalName
<1>3. a \in ToSet(Admitted(s)) /\ b \in ToSet(Admitted(t))
  BY <1>1, <1>2 DEF ToSet
<1> HIDE DEF a, b
<1>4. a = b /\ Taken(S, s, a) = Taken(S, t, b) /\ (Taken(S, s, a) => s = t)
  <2>1. Taken(S, s, a) \in BOOLEAN /\ Taken(S, t, b) \in BOOLEAN
    BY DEF Taken
  <2>2. (IF Taken(S, s, a) THEN <<s, a>> ELSE <<a>>) = (IF Taken(S, t, b) THEN <<t, b>> ELSE <<b>>)
    BY <1>1, <1>2
  <2> QED BY <2>1, <2>2, NamesTell
<1>5. s = t
  <2>1. CASE Taken(S, s, a)
    BY <1>4, <2>1
  <2>2. CASE ~Taken(S, s, a)
    <3>1. PICK k \in DOMAIN Servers, l \in DOMAIN Servers : Servers[k] = s /\ Servers[l] = t
      BY DEF Names, ToSet
    <3>2. DOMAIN Servers = 1 .. Len(Servers) /\ Len(Servers) \in Nat
      BY McpAssumption DEF McpAssumption
    <3>3. k \in Nat /\ l \in Nat
      BY <3>2
    <3>5. ~(k < l)
      BY <1>3, <1>4, <2>2, <3>1 DEF Taken
    <3>6. ~(l < k)
      BY <1>3, <1>4, <2>2, <3>1 DEF Taken
    <3> QED BY <3>1, <3>3, <3>5, <3>6
  <2> QED BY <2>1, <2>2
<1>6. ASSUME PrefixFilter(s)
      PROVE  i = j
  <2>1. Tools[s][i] = Tools[s][j]
    BY <1>1, <1>2, <1>4, <1>5, <1>6
  <2>2. IsInjective(Tools[s])
    BY McpAssumption DEF McpAssumption
  <2> QED BY <1>1, <1>2, <1>5, <2>1, <2>2 DEF IsInjective
<1> QED BY <1>5, <1>6

-----------------------------------------------------------------------------
(* Attaching                                                               *)

\* A renaming touches the name of an object only.
LEMMA RenamedObject ==
  ASSUME NEW names, NEW s, NEW raw, NEW object,
         object = [server |-> s, raw |-> raw, name |-> object.name]
  PROVE  Rename(names, object) = [server |-> s, raw |-> raw, name |-> Rename(names, object).name]
<1> DEFINE partner == {i \in DOMAIN Tools[object.server] \cap DOMAIN names[object.server] :
                         <<Tools[object.server][i]>> = object.name}
<1>1. Rename(names, object) =
        IF partner = {} THEN object
        ELSE [object EXCEPT !.name = names[object.server][CHOOSE i \in partner : TRUE]]
  BY DEF Rename
<1> HIDE DEF partner
<1>2. CASE partner = {}
  BY <1>1, <1>2
<1>3. CASE partner # {}
  <2> DEFINE new == names[object.server][CHOOSE i \in partner : TRUE]
  <2>1. Rename(names, object) = [object EXCEPT !.name = new]
    BY <1>1, <1>3
  <2> HIDE DEF new
  <2>2. [object EXCEPT !.name = new] = [server |-> s, raw |-> raw, name |-> new]
    OBVIOUS
  <2>3. Rename(names, object) = [server |-> s, raw |-> raw, name |-> new]
    BY <2>1, <2>2
  <2>4. Rename(names, object).name = new
    BY <2>3
  <2> QED BY <2>3, <2>4
<1> QED BY <1>2, <1>3

\* A tool with its raw name gets the final name at its position.
LEMMA RenamedFirst ==
  ASSUME NEW S \in SUBSET Names, NEW s \in S, NEW i \in DOMAIN Tools[s],
         NEW object, object.server = s, object.name = <<Tools[s][i]>>,
         object = [server |-> s, raw |-> Tools[s][i], name |-> object.name]
  PROVE  Rename(Finals(S), object).name = Given(Finals(S), s, i)
<1>1. IsInjective(Tools[s])
  BY McpAssumption DEF McpAssumption
<1> DEFINE partner == {j \in DOMAIN Tools[s] \cap DOMAIN Finals(S)[s] : <<Tools[s][j]>> = <<Tools[s][i]>>}
<1>2. partner = IF i \in DOMAIN Finals(S)[s] THEN {i} ELSE {}
  <2>1. \A j \in DOMAIN Tools[s] : <<Tools[s][j]>> = <<Tools[s][i]>> => j = i
    BY <1>1 DEF IsInjective
  <2> QED BY <2>1
<1>3. Rename(Finals(S), object) =
        IF partner = {} THEN object
        ELSE [object EXCEPT !.name = Finals(S)[s][CHOOSE j \in partner : TRUE]]
  BY DEF Rename
<1> HIDE DEF partner
<1>5. CASE i \in DOMAIN Finals(S)[s]
  <2>1. partner = {i} /\ (CHOOSE j \in partner : TRUE) = i
    BY <1>2, <1>5
  <2>2. Rename(Finals(S), object) = [object EXCEPT !.name = Finals(S)[s][i]]
    BY <1>3, <2>1
  <2>3. [object EXCEPT !.name = Finals(S)[s][i]].name = Finals(S)[s][i]
    OBVIOUS
  <2> QED BY <1>5, <2>2, <2>3 DEF Given
<1>6. CASE i \notin DOMAIN Finals(S)[s]
  BY <1>2, <1>3, <1>6 DEF Given
<1> QED BY <1>5, <1>6

\* A tool that already has a final name gets the one it has with more servers: a raw name may
\* become one with the server, and the other way it never goes.
LEMMA RenamedAgain ==
  ASSUME NEW T \in SUBSET Names, NEW S \in SUBSET T, NEW s \in S, PrefixFilter(s),
         NEW i \in DOMAIN Tools[s],
         NEW object, object.server = s, object.name = Given(Finals(S), s, i),
         object = [server |-> s, raw |-> Tools[s][i], name |-> object.name]
  PROVE  Rename(Finals(T), object).name = Given(Finals(T), s, i)
<1> DEFINE raw == Tools[s][i]
<1>1. S \in SUBSET Names /\ s \in T
  OBVIOUS
<1>2. /\ DOMAIN Finals(S)[s] = DOMAIN Admitted(s) /\ DOMAIN Finals(T)[s] = DOMAIN Admitted(s)
      /\ i \in DOMAIN Admitted(s) =>
           /\ Finals(S)[s][i] = IF Taken(S, s, raw) THEN <<s, raw>> ELSE <<raw>>
           /\ Finals(T)[s][i] = IF Taken(T, s, raw) THEN <<s, raw>> ELSE <<raw>>
  <2>1. ASSUME NEW U \in SUBSET Names, s \in U, i \in DOMAIN Admitted(s)
        PROVE  Finals(U)[s][i] = IF Taken(U, s, raw) THEN <<s, raw>> ELSE <<raw>>
    <3>1. /\ Finals(U)[s][i] = IF Taken(U, s, Admitted(s)[i]) THEN <<s, Admitted(s)[i]>>
                               ELSE <<Admitted(s)[i]>>
          /\ Admitted(s)[i] = raw
      BY <2>1, FinalName
    <3> QED BY <3>1, Zenon
  <2>2. DOMAIN Finals(S)[s] = DOMAIN Admitted(s) /\ DOMAIN Finals(T)[s] = DOMAIN Admitted(s)
    BY <1>1, FinalName
  <2> QED BY <1>1, <2>1, <2>2
<1>3. Taken(S, s, raw) => Taken(T, s, raw)
  BY DEF Taken
<1>6. CASE i \in DOMAIN Admitted(s) /\ Taken(S, s, raw)
  <2>1. object.name = <<s, raw>>
    BY <1>2, <1>6 DEF Given
  <2>2. {j \in DOMAIN Tools[s] \cap DOMAIN Finals(T)[s] : <<Tools[s][j]>> = object.name} = {}
    <3>1. \A j \in DOMAIN Tools[s] : <<Tools[s][j]>> # <<s, raw>>
      <4>1. \A x : Len(<<x>>) = 1
        OBVIOUS
      <4>2. Len(<<s, raw>>) = 2
        OBVIOUS
      <4> QED BY <4>1, <4>2
    <3> QED BY <2>1, <3>1
  <2>3. Rename(Finals(T), object) = object
    BY <2>1, <2>2 DEF Rename
  <2>4. Given(Finals(T), s, i) = <<s, raw>>
    BY <1>2, <1>3, <1>6 DEF Given
  <2> QED BY <2>1, <2>3, <2>4
<1>7. CASE ~(i \in DOMAIN Admitted(s) /\ Taken(S, s, raw))
  <2>1. object.name = <<raw>>
    BY <1>2, <1>7 DEF Given
  <2> QED BY <1>1, <2>1, RenamedFirst
<1> QED BY <1>6, <1>7

LEMMA AttachKept ==
  ASSUME McpInv, NEW s \in Names, Attach(s)
  PROVE  McpInv'
<1> DEFINE objects == [tools EXCEPT ![s] = Objects(s)]
<1>1. known \in SUBSET Names /\ final = Finals(known) /\ known' = known \cup {s} /\ final' = Finals(known')
  BY DEF McpInv, Attach
<1>2. /\ tools' = [t \in Names |-> [i \in DOMAIN objects[t] |-> Rename(final', objects[t][i])]]
      /\ surface' = Surfaces(final', tools')
  BY DEF Attach
<1>3. tools = [t \in Names |-> tools[t]]
  BY DEF McpInv
<1>4. objects = [t \in Names |-> IF t = s THEN Objects(s) ELSE tools[t]]
  BY <1>3
<1> HIDE DEF objects
<1>5. ASSUME NEW t \in Names, NEW i \in DOMAIN tools'[t]
      PROVE  /\ i \in DOMAIN Tools[t]
             /\ tools'[t][i] = [server |-> t, raw |-> Tools[t][i], name |-> tools'[t][i].name]
             /\ PrefixFilter(t) => tools'[t][i].name = Given(final', t, i)
  <2> DEFINE object == objects[t][i]
  <2>1. i \in DOMAIN objects[t] /\ tools'[t][i] = Rename(final', object)
    BY <1>2, <1>5
  <2>2. known' \in SUBSET Names /\ s \in known' /\ known \in SUBSET known'
    BY <1>1
  <2>3. CASE t = s
    <3>1. /\ i \in DOMAIN Tools[s]
          /\ object = [server |-> s, raw |-> Tools[s][i], name |-> <<Tools[s][i]>>]
      BY <1>4, <2>1, <2>3 DEF Objects
    <3> HIDE DEF object
    <3>2. /\ object.server = s /\ object.name = <<Tools[s][i]>>
          /\ object = [server |-> s, raw |-> Tools[s][i], name |-> object.name]
      BY <3>1
    <3>3. Rename(Finals(known'), object).name = Given(Finals(known'), s, i)
      BY <2>2, <3>1, <3>2, RenamedFirst
    <3>4. Rename(final', object)
            = [server |-> s, raw |-> Tools[s][i], name |-> Rename(final', object).name]
      BY <3>2, RenamedObject
    <3> QED BY <1>1, <2>1, <2>3, <3>1, <3>3, <3>4
  <2>4. CASE t # s
    <3>1. object = tools[t][i] /\ i \in DOMAIN tools[t]
      BY <1>4, <2>1, <2>4
    <3> HIDE DEF object
    <3>2. /\ i \in DOMAIN Tools[t]
          /\ object = [server |-> t, raw |-> Tools[t][i], name |-> object.name]
          /\ PrefixFilter(t) => object.name = Given(final, t, i)
      BY <3>1 DEF McpInv
    <3>3. object.server = t
      BY <3>2
    <3>4. Rename(final', object)
            = [server |-> t, raw |-> Tools[t][i], name |-> Rename(final', object).name]
      BY <3>2, RenamedObject
    <3>5. ASSUME PrefixFilter(t)
          PROVE  Rename(Finals(known'), object).name = Given(Finals(known'), t, i)
      <4>1. object.name = Given(Finals(known), t, i)
        BY <1>1, <3>2, <3>5
      <4>2. CASE t \in known
        BY <2>2, <3>2, <3>3, <3>5, <4>1, <4>2, RenamedAgain
      <4>3. CASE t \notin known
        <5>1. t \notin known'
          BY <1>1, <2>4, <4>3
        <5>2. Finals(known)[t] = <<>> /\ Finals(known')[t] = <<>>
          BY <4>3, <5>1 DEF Finals
        <5>3. Given(Finals(known), t, i) = <<Tools[t][i]>> /\ Given(Finals(known'), t, i) = <<Tools[t][i]>>
          BY <5>2 DEF Given
        <5>4. Rename(Finals(known'), object) = object
          BY <3>3, <5>2 DEF Rename
        <5> QED BY <4>1, <5>3, <5>4
      <4> QED BY <4>2, <4>3
    <3> QED BY <1>1, <2>1, <3>2, <3>4, <3>5
  <2> QED BY <2>3, <2>4
<1>6. tools' = [t \in Names |-> tools'[t]]
  BY <1>2
<1>7. known' \subseteq Names
  BY <1>1
<1> QED BY <1>1, <1>2, <1>5, <1>6, <1>7 DEF McpInv

LEMMA DetachKept ==
  ASSUME McpInv, NEW s \in Names, Detach(s)
  PROVE  McpInv'
<1>1. /\ known' = known /\ final' = final /\ surface' = Surfaces(final', tools')
      /\ tools' = [tools EXCEPT ![s] = <<>>]
  BY DEF Detach
<1>2. tools = [t \in Names |-> tools[t]]
  BY DEF McpInv
<1>3. tools' = [t \in Names |-> IF t = s THEN <<>> ELSE tools[t]]
  BY <1>1, <1>2
<1>4. tools' = [t \in Names |-> tools'[t]]
  BY <1>3
<1>5. ASSUME NEW t \in Names, NEW i \in DOMAIN tools'[t]
      PROVE  t # s /\ tools'[t] = tools[t]
  BY <1>3, <1>5
<1>6. ASSUME NEW t \in Names, NEW i \in DOMAIN tools'[t]
      PROVE  /\ i \in DOMAIN Tools[t]
             /\ tools'[t][i] = [server |-> t, raw |-> Tools[t][i], name |-> tools'[t][i].name]
             /\ PrefixFilter(t) => tools'[t][i].name = Given(final', t, i)
  BY <1>1, <1>5, <1>6 DEF McpInv
<1>7. known' \subseteq Names /\ final' = Finals(known')
  BY <1>1 DEF McpInv
<1> QED BY <1>1, <1>4, <1>6, <1>7 DEF McpInv

LEMMA McpInitially ==
  ASSUME McpInit
  PROVE  McpInv
<1>1. \A s \in Names : tools[s] = <<>> /\ ToSet(tools[s]) = {} /\ DOMAIN tools[s] = {}
  BY DEF McpInit, ToSet
<1>2. Surfaces(final, tools) = [a \in Agents |-> {}]
  BY <1>1 DEF Surfaces
<1>3. tools = [s \in Names |-> tools[s]]
  BY DEF McpInit
<1> QED BY <1>1, <1>2, <1>3 DEF McpInit, McpInv

LEMMA McpKept ==
  ASSUME McpInv, [McpNext]_mcpVars
  PROVE  McpInv'
<1>1. CASE UNCHANGED toolVars
  <2>1. known' = known /\ final' = final /\ tools' = tools /\ surface' = surface
    BY <1>1 DEF toolVars
  <2>2. known' \subseteq Names /\ final' = Finals(known') /\ surface' = Surfaces(final', tools')
    BY <2>1 DEF McpInv
  <2>3. tools' = [s \in Names |-> tools'[s]]
    BY <2>1 DEF McpInv
  <2>4. ASSUME NEW t \in Names, NEW i \in DOMAIN tools'[t]
        PROVE  /\ i \in DOMAIN Tools[t]
               /\ tools'[t][i] = [server |-> t, raw |-> Tools[t][i], name |-> tools'[t][i].name]
               /\ PrefixFilter(t) => tools'[t][i].name = Given(final', t, i)
    BY <2>1, <2>4 DEF McpInv
  <2> QED BY <2>2, <2>3, <2>4 DEF McpInv
<1>2. CASE \E s \in Names : Connect(s)
  BY <1>2, AttachKept DEF Connect
<1>3. CASE \E s \in Names : Probe(s) \/ CloseToolset(s)
  BY <1>3, DetachKept DEF Probe, CloseToolset
<1>4. CASE \E s \in Names : Drop(s) \/ Return(s)
  BY <1>1, <1>4 DEF Drop, Return
<1>5. CASE Close \/ Closed
  BY <1>1, <1>5 DEF Close, Closed
<1>6. CASE UNCHANGED mcpVars
  BY <1>1, <1>6 DEF mcpVars
<1> QED BY <1>2, <1>3, <1>4, <1>5, <1>6 DEF McpNext, Reconcile, Closing

\* The name of a tool an agent has is one of its server's final names, and the one at the
\* position of the tool if the filters of the server keep a prefix.
SurfaceNamed ==
  \A a \in Agents : \A t \in surface[a] :
    /\ t.server \in known
    /\ \E i \in DOMAIN Tools[t.server] \cap DOMAIN final[t.server] :
         /\ t.name = final[t.server][i]
         /\ PrefixFilter(t.server) => t.raw = Tools[t.server][i]

LEMMA OnSurface ==
  ASSUME McpInv
  PROVE  SurfaceNamed
<1> SUFFICES ASSUME NEW a \in Agents, NEW t \in surface[a]
             PROVE  /\ t.server \in known
                    /\ \E i \in DOMAIN Tools[t.server] \cap DOMAIN final[t.server] :
                         /\ t.name = final[t.server][i]
                         /\ PrefixFilter(t.server) => t.raw = Tools[t.server][i]
  BY DEF SurfaceNamed
<1>2. known \in SUBSET Names /\ final = Finals(known)
  BY DEF McpInv
<1>3. PICK s \in Names : t \in ToSet(tools[s]) /\ t.name \in ToSet(final[t.server])
  BY DEF McpInv, Surfaces
<1>4. PICK i \in DOMAIN tools[s] : t = tools[s][i]
  BY <1>3 DEF ToSet
<1>5. /\ i \in DOMAIN Tools[s]
      /\ t = [server |-> s, raw |-> Tools[s][i], name |-> t.name]
      /\ PrefixFilter(s) => t.name = Given(final, s, i)
  BY <1>4 DEF McpInv
<1>6. t.server = s /\ t.raw = Tools[s][i]
  BY <1>5
<1>7. PICK j \in DOMAIN final[s] : t.name = final[s][j]
  BY <1>3, <1>6 DEF ToSet
<1>8. s \in known
  <2>1. s \notin known => final[s] = <<>>
    BY <1>2 DEF Finals
  <2> QED BY <1>7, <2>1
<1>9. /\ DOMAIN final[s] = DOMAIN Admitted(s) /\ DOMAIN Admitted(s) \subseteq DOMAIN Tools[s]
      /\ final[s][j] = IF Taken(known, s, Admitted(s)[j]) THEN <<s, Admitted(s)[j]>>
                       ELSE <<Admitted(s)[j]>>
      /\ PrefixFilter(s) => Admitted(s)[j] = Tools[s][j]
  BY <1>2, <1>7, <1>8, FinalName
<1>10. ASSUME PrefixFilter(s)
       PROVE  Tools[s][i] = Tools[s][j]
  <2>1. CASE i \in DOMAIN final[s]
    <3>1. final[s][i] = final[s][j]
      BY <1>5, <1>7, <1>10, <2>1 DEF Given
    <3>2. i = j
      BY <1>2, <1>7, <1>8, <1>10, <2>1, <3>1, NamesApart
    <3> QED BY <3>2
  <2>2. CASE i \notin DOMAIN final[s]
    <3>1. final[s][j] = <<Tools[s][i]>>
      BY <1>5, <1>7, <1>10, <2>2 DEF Given
    <3>2. Taken(known, s, Tools[s][j]) \in BOOLEAN /\ FALSE \in BOOLEAN
      BY DEF Taken
    <3>3. (IF FALSE THEN <<s, Tools[s][i]>> ELSE <<Tools[s][i]>>) = <<Tools[s][i]>>
      OBVIOUS
    <3>4. (IF Taken(known, s, Tools[s][j]) THEN <<s, Tools[s][j]>> ELSE <<Tools[s][j]>>)
            = (IF FALSE THEN <<s, Tools[s][i]>> ELSE <<Tools[s][i]>>)
      BY <1>9, <1>10, <3>1, <3>3
    <3> QED BY <3>2, <3>4, NamesTell
  <2> QED BY <2>1, <2>2
<1> QED BY <1>6, <1>7, <1>8, <1>9, <1>10

LEMMA FoundByName ==
  ASSUME McpInv, NEW s \in known, NEW i \in DOMAIN Tools[s] \cap DOMAIN final[s]
  PROVE  /\ LookupTool(final[s][i])[1] = s
         /\ PrefixFilter(s) => LookupTool(final[s][i]) = <<s, Tools[s][i]>>
<1>1. known \in SUBSET Names /\ final = Finals(known)
  BY DEF McpInv
<1>2. \A t \in known : \A j \in DOMAIN final[t] :
        final[t][j] = final[s][i] => t = s /\ (PrefixFilter(s) => j = i)
  BY <1>1, NamesApart
<1> DEFINE name == final[s][i]
           Pairs(t) == {j \in DOMAIN Tools[t] \cap DOMAIN final[t] : final[t][j] = name}
           Holders == {k \in DOMAIN Servers : Servers[k] \in known /\ Pairs(Servers[k]) # {}}
<1>3. i \in Pairs(s) /\ \A t \in known : Pairs(t) # {} => t = s
  BY <1>2
<1>4. PICK k \in DOMAIN Servers : Servers[k] = s
  BY <1>1 DEF Names, ToSet
<1>5. Holders = {k}
  <2>1. \A l \in DOMAIN Servers : Servers[l] = s => l = k
    BY <1>4, McpAssumption DEF McpAssumption, IsInjective
  <2> QED BY <1>3, <1>4, <2>1
<1>6. k \in Nat /\ i \in Nat
  <2>1. DOMAIN Servers = 1 .. Len(Servers) /\ DOMAIN Tools[s] = 1 .. Len(Tools[s])
    BY <1>1, McpAssumption DEF McpAssumption
  <2> QED BY <2>1
<1>7. Min({k}) = k /\ Min({i}) = i
  BY <1>6 DEF Min
<1>8. LookupTool(name) = <<Servers[Min(Holders)], Tools[Servers[Min(Holders)]][Min(Pairs(Servers[Min(Holders)]))]>>
  BY DEF LookupTool
<1>9. PrefixFilter(s) => Pairs(s) = {i}
  BY <1>2
<1> HIDE DEF Pairs, Holders, name
<1>10. LookupTool(name) = <<s, Tools[s][Min(Pairs(s))]>>
  BY <1>4, <1>5, <1>7, <1>8
<1>11. LookupTool(name)[1] = s
  BY <1>10
<1>12. PrefixFilter(s) => LookupTool(name) = <<s, Tools[s][i]>>
  BY <1>7, <1>9, <1>10
<1> QED BY <1>11, <1>12 DEF name

-----------------------------------------------------------------------------
(* Theorems                                                                *)

\* The names are those of all the servers that ever were connected, and every tool that is
\* attached is an object of its server, under the name of its position if the server's filters
\* keep a prefix, whatever the order in which the servers came.
THEOREM NamesAreCurrent == McpSpec => []McpInv
<1>1. McpInit => McpInv
  BY McpInitially
<1>2. McpInv /\ [McpNext]_mcpVars => McpInv'
  BY McpKept
<1> QED BY <1>1, <1>2, PTL DEF McpSpec

\* HITL-02: lookup_tool resolves the name of a tool an agent has to its server, and to the raw
\* name of that very tool if the server's filters keep a prefix.
THEOREM NamesResolve == McpSpec => []ToolNamesResolve
<1>1. McpInv => ToolNamesResolve
  <2> SUFFICES ASSUME McpInv, NEW a \in Agents, NEW t \in surface[a]
               PROVE  /\ LookupTool(t.name)[1] = t.server
                      /\ PrefixFilter(t.server) => LookupTool(t.name) = Tool(t)
    BY DEF ToolNamesResolve
  <2>1. /\ t.server \in known
        /\ \E i \in DOMAIN Tools[t.server] \cap DOMAIN final[t.server] :
             /\ t.name = final[t.server][i]
             /\ PrefixFilter(t.server) => t.raw = Tools[t.server][i]
    BY OnSurface DEF SurfaceNamed
  <2>2. PICK i \in DOMAIN Tools[t.server] \cap DOMAIN final[t.server] :
             /\ t.name = final[t.server][i]
             /\ PrefixFilter(t.server) => t.raw = Tools[t.server][i]
    BY <2>1
  <2>3. /\ LookupTool(final[t.server][i])[1] = t.server
        /\ PrefixFilter(t.server) => LookupTool(final[t.server][i]) = <<t.server, Tools[t.server][i]>>
    BY <2>1, FoundByName
  <2> QED BY <2>2, <2>3 DEF Tool
<1>3. McpSpec => []McpInv
  BY NamesAreCurrent
<1> QED BY <1>1, <1>3, PTL

LEMMA StepKeepsNames ==
  ASSUME McpInv, McpInv', SurfaceNamed, SurfaceNamed', [McpNext]_mcpVars,
         known = Names, NEW a \in Agents, NEW t \in surface[a], NEW u \in surface'[a]
  PROVE  /\ t.name = u.name => t.server = u.server
         /\ PrefixFilter(t.server) => (t.name = u.name <=> Tool(t) = Tool(u))
<1>1. known \in SUBSET Names /\ final = Finals(known) /\ known' \in SUBSET Names /\ final' = Finals(known')
  <2>1. final' = Finals(known)'
    BY DEF McpInv
  <2> QED BY <2>1 DEF McpInv, Finals
<1>2. known' = known /\ final' = final
  <2>1. known \subseteq known'
    BY DEF McpNext, Reconcile, Closing, Connect, Probe, CloseToolset, Closed, Close, Drop,
           Return, Attach, Detach, toolVars, mcpVars
  <2>2. known' = known
    BY <1>1, <2>1
  <2> QED BY <1>1, <2>2
<1> DEFINE s == t.server
           v == u.server
<1>3. PICK i \in DOMAIN Tools[s] \cap DOMAIN final[s] :
        t.name = final[s][i] /\ (PrefixFilter(s) => t.raw = Tools[s][i])
  BY DEF SurfaceNamed
<1>4. PICK j \in DOMAIN Tools[v] \cap DOMAIN final'[v] :
        u.name = final'[v][j] /\ (PrefixFilter(v) => u.raw = Tools[v][j])
  BY DEF SurfaceNamed
<1>5. s \in known /\ v \in known
  BY <1>2 DEF SurfaceNamed
<1>6. j \in DOMAIN final[v] /\ u.name = final[v][j]
  BY <1>2, <1>4
<1> HIDE DEF s, v
<1>7. ASSUME t.name = u.name
      PROVE  s = v /\ (PrefixFilter(s) => i = j)
  <2>1. i \in DOMAIN Finals(known)[s] /\ j \in DOMAIN Finals(known)[v]
    BY <1>1, <1>3, <1>6
  <2>2. Finals(known)[s][i] = Finals(known)[v][j]
    BY <1>1, <1>3, <1>6, <1>7
  <2> QED BY <1>1, <1>5, <2>1, <2>2, NamesApart
<1>8. Tool(t) = Tool(u) <=> (s = v /\ t.raw = u.raw)
  BY DEF Tool, s, v
<1>9. ASSUME PrefixFilter(s), s = v, t.raw = u.raw
      PROVE  t.name = u.name
  <2>1. IsInjective(Tools[s])
    BY <1>1, <1>5, McpAssumption DEF McpAssumption
  <2>2. Tools[s][i] = Tools[s][j] /\ i \in DOMAIN Tools[s] /\ j \in DOMAIN Tools[s]
    BY <1>3, <1>4, <1>9
  <2>3. i = j
    BY <2>1, <2>2 DEF IsInjective
  <2> QED BY <1>3, <1>6, <1>9, <2>3
<1>10. ASSUME PrefixFilter(s), t.name = u.name
       PROVE  s = v /\ t.raw = u.raw
  BY <1>3, <1>4, <1>7, <1>10
<1> QED BY <1>7, <1>8, <1>9, <1>10 DEF s, v

\* Once every server has been connected, a reconnect gives no name to a tool of another server,
\* and the tools of a server whose filters keep a prefix the names they had.
THEOREM NamesAreStable == McpSpec => NamesStay
<1>1. McpInv => SurfaceNamed
  BY OnSurface
<1>2. McpInv /\ McpInv' /\ SurfaceNamed /\ SurfaceNamed' /\ [McpNext]_mcpVars =>
        [known = Names =>
           \A a \in Agents : \A t \in surface[a], u \in surface'[a] :
             /\ t.name = u.name => t.server = u.server
             /\ PrefixFilter(t.server) => (t.name = u.name <=> Tool(t) = Tool(u))]_mcpVars
  BY StepKeepsNames
<1>3. McpSpec => []McpInv
  BY NamesAreCurrent
<1> QED BY <1>1, <1>2, <1>3, PTL DEF NamesStay, McpSpec

-----------------------------------------------------------------------------
(* Induction                                                               *)

\* A set of natural numbers has a least element.
LEMMA NatMin ==
  ASSUME NEW T \in SUBSET Nat, T # {}
  PROVE  \E x \in T : \A y \in T : x <= y
<1>1. IsWellFoundedOn(OpToRel(<, Nat), Nat)
  BY NatLessThanWellFounded
<1>2. PICK x \in T : \A y \in T : ~(<<y, x>> \in OpToRel(<, Nat))
  BY <1>1, WFMin
<1>3. \A y \in T : ~(y < x)
  BY <1>2 DEF OpToRel
<1> QED BY <1>3

\* Induction, on a set of natural numbers.
LEMMA Induct ==
  ASSUME NEW T, 0 \in T, \A n \in Nat : n \in T => n + 1 \in T
  PROVE  \A n \in Nat : n \in T
<1> SUFFICES ASSUME NEW n \in Nat, n \notin T
             PROVE  FALSE
  OBVIOUS
<1> DEFINE U == {m \in Nat : m \notin T}
<1>1. PICK x \in U : \A y \in U : x <= y
  <2>1. U \in SUBSET Nat /\ U # {}
    OBVIOUS
  <2> HIDE DEF U
  <2> QED BY <2>1, NatMin
<1>2. x \in Nat \ {0} /\ x - 1 \in Nat /\ x = (x - 1) + 1
  BY <1>1
<1>3. x - 1 \in T
  BY <1>1, <1>2
<1> QED BY <1>1, <1>2, <1>3

\* A function is defined by its value at 0 and by a step from each number to the next.
Steps(m, V) == [1 .. m -> [V -> V]]
Follows(f, m, base, step) == f[0] = base /\ \A n \in 1 .. m : f[n] = step[n][f[n - 1]]
Defined(m, V, base, step) == \E f \in [0 .. m -> V] : Follows(f, m, base, step)

LEMMA Recursion ==
  ASSUME NEW m \in Nat, NEW V, NEW base \in V, NEW step \in Steps(m, V)
  PROVE  Defined(m, V, base, step)
<1> USE DEF Steps
<1> DEFINE Good(k, f) == f[0] = base /\ \A n \in 1 .. k : f[n] = step[n][f[n - 1]]
           T == {k \in Nat : k <= m => \E f \in [0 .. k -> V] : Good(k, f)}
<1>1. 0 \in T
  <2>1. [i \in 0 .. 0 |-> base] \in [0 .. 0 -> V] /\ Good(0, [i \in 0 .. 0 |-> base])
    OBVIOUS
  <2> QED BY <2>1
<1>2. ASSUME NEW k \in Nat, k \in T
      PROVE  k + 1 \in T
  <2> SUFFICES ASSUME k + 1 <= m
               PROVE  \E g \in [0 .. k + 1 -> V] : Good(k + 1, g)
    OBVIOUS
  <2>1. PICK f \in [0 .. k -> V] : Good(k, f)
    BY <1>2
  <2> DEFINE g == [i \in 0 .. k + 1 |-> IF i = k + 1 THEN step[k + 1][f[k]] ELSE f[i]]
  <2>2. step[k + 1][f[k]] \in V
    <3>1. f[k] \in V /\ k + 1 \in 1 .. m
      OBVIOUS
    <3> QED BY <3>1
  <2>3. g \in [0 .. k + 1 -> V]
    BY <2>2
  <2>4. g[0] = base /\ g[k + 1] = step[k + 1][g[k]]
    BY <2>1
  <2>5. ASSUME NEW n \in 1 .. k
        PROVE  g[n] = step[n][g[n - 1]]
    BY <2>1, <2>5
  <2>6. Good(k + 1, g)
    <3>1. \A n \in 1 .. k + 1 : n \in 1 .. k \/ n = k + 1
      OBVIOUS
    <3>2. g[k + 1] = step[k + 1][g[(k + 1) - 1]]
      BY <2>4
    <3> HIDE DEF g
    <3> QED BY <2>4, <2>5, <3>1, <3>2
  <2> HIDE DEF g, Good
  <2> QED BY <2>3, <2>6
<1>3. m \in T
  <2> HIDE DEF T
  <2>1. \A k \in Nat : k \in T => k + 1 \in T
    BY <1>2
  <2>2. \A k \in Nat : k \in T
    BY <1>1, <2>1, Induct
  <2> QED BY <2>2
<1>4. \E f \in [0 .. m -> V] : Good(m, f)
  BY <1>3
<1> QED BY <1>4 DEF Defined, Follows

-----------------------------------------------------------------------------
(* The bytes of a text                                                     *)

\* Upto(text)[n] are the bytes of its first n code points.
Upto(text) == CHOOSE f : f = [n \in 0 .. Len(text) |-> IF n = 0 THEN 0 ELSE f[n - 1] + text[n]]

LEMMA UptoExists ==
  ASSUME NEW text \in Seq(Points)
  PROVE  /\ Upto(text) \in [0 .. Len(text) -> Nat]
         /\ Upto(text)[0] = 0
         /\ \A n \in 1 .. Len(text) : Upto(text)[n] = Upto(text)[n - 1] + text[n]
         /\ Bytes(text) = Upto(text)[Len(text)]
<1> DEFINE m == Len(text)
           step == [n \in 1 .. m |-> [v \in Nat |-> v + text[n]]]
<1>1. m \in Nat /\ \A n \in 1 .. m : text[n] \in Nat
  BY DEF Points
<1>2. step \in [1 .. m -> [Nat -> Nat]]
  BY <1>1
<1>3. PICK f \in [0 .. m -> Nat] : f[0] = 0 /\ \A n \in 1 .. m : f[n] = step[n][f[n - 1]]
  <2>1. 0 \in Nat /\ step \in Steps(m, Nat)
    BY <1>2 DEF Steps
  <2> HIDE DEF m, step
  <2>2. Defined(m, Nat, 0, step)
    BY <1>1, <2>1, Recursion
  <2> QED BY <2>2 DEF Defined, Follows
<1>4. \A n \in 1 .. m : f[n] = f[n - 1] + text[n]
  <2> TAKE n \in 1 .. m
  <2>1. n - 1 \in 0 .. m
    BY <1>1
  <2>2. f[n - 1] \in Nat
    BY <1>3, <2>1
  <2> QED BY <1>3, <2>2
<1>5. f = [n \in 0 .. m |-> IF n = 0 THEN 0 ELSE f[n - 1] + text[n]]
  <2>1. \A n \in 0 .. m : f[n] = IF n = 0 THEN 0 ELSE f[n - 1] + text[n]
    <3> TAKE n \in 0 .. m
    <3>1. n = 0 \/ n \in 1 .. m
      BY <1>1
    <3> QED BY <1>3, <1>4, <3>1
  <2> HIDE DEF m
  <2> QED BY <1>3, <2>1
<1>6. Upto(text) = [n \in 0 .. m |-> IF n = 0 THEN 0 ELSE Upto(text)[n - 1] + text[n]]
  BY <1>5 DEF Upto
<1> DEFINE g == Upto(text)
<1>7. g[0] = 0
  BY <1>1, <1>6
<1>8. \A n \in 1 .. m : g[n] = g[n - 1] + text[n]
  BY <1>1, <1>6
<1>9. g \in [0 .. m -> Nat]
  <2> DEFINE T == {n \in Nat : n <= m => g[n] \in Nat}
  <2>1. 0 \in T
    BY <1>7
  <2>2. ASSUME NEW n \in Nat, n \in T
        PROVE  n + 1 \in T
    <3> SUFFICES ASSUME n + 1 <= m
                 PROVE  g[n + 1] \in Nat
      OBVIOUS
    <3> HIDE DEF g, m
    <3>1. n + 1 \in 1 .. m /\ (n + 1) - 1 = n /\ g[n] \in Nat
      BY <1>1, <2>2
    <3>2. g[n + 1] = g[n] + text[n + 1] /\ text[n + 1] \in Nat
      BY <1>1, <1>8, <3>1
    <3> QED BY <3>1, <3>2
  <2>3. \A n \in Nat : n \in T
    <3> HIDE DEF T
    <3> QED BY <2>1, <2>2, Induct
  <2>4. \A n \in 0 .. m : g[n] \in Nat
    BY <1>1, <2>3
  <2>5. g = [n \in 0 .. m |-> g[n]]
    BY <1>6
  <2> HIDE DEF g, m
  <2> QED BY <2>4, <2>5
<1>10. Bytes(text) = Upto(text)[m]
  BY DEF Bytes, Upto
<1> QED BY <1>7, <1>8, <1>9, <1>10

LEMMA UptoStep ==
  ASSUME NEW text \in Seq(Points), NEW n \in Nat, n + 1 <= Len(text)
  PROVE  /\ Upto(text)[n] \in Nat /\ Upto(text)[n + 1] \in Nat
         /\ text[n + 1] \in Points /\ Upto(text)[n + 1] = Upto(text)[n] + text[n + 1]
<1>1. Len(text) \in Nat /\ n \in 0 .. Len(text) /\ n + 1 \in 1 .. Len(text) /\ n + 1 \in 0 .. Len(text)
  OBVIOUS
<1>2. text[n + 1] \in Points
  BY <1>1
<1>3. (n + 1) - 1 = n
  OBVIOUS
<1> QED BY <1>1, <1>2, <1>3, UptoExists

\* Texts with the same beginning have the same bytes there.
LEMMA UptoAgrees ==
  ASSUME NEW s \in Seq(Points), NEW t \in Seq(Points), NEW m \in Nat, m <= Len(s), m <= Len(t),
         \A i \in 1 .. m : s[i] = t[i]
  PROVE  Upto(s)[m] = Upto(t)[m]
<1> DEFINE T == {n \in Nat : n <= m => Upto(s)[n] = Upto(t)[n]}
<1>1. 0 \in T
  BY UptoExists
<1>2. ASSUME NEW n \in Nat, n \in T
      PROVE  n + 1 \in T
  <2> SUFFICES ASSUME n + 1 <= m
               PROVE  Upto(s)[n + 1] = Upto(t)[n + 1]
    OBVIOUS
  <2>1. n + 1 <= Len(s) /\ n + 1 <= Len(t) /\ n + 1 \in 1 .. m
    OBVIOUS
  <2>2. Upto(s)[n + 1] = Upto(s)[n] + s[n + 1] /\ Upto(t)[n + 1] = Upto(t)[n] + t[n + 1]
    BY <2>1, UptoStep
  <2>3. Upto(s)[n] = Upto(t)[n] /\ s[n + 1] = t[n + 1]
    BY <1>2, <2>1
  <2> QED BY <2>2, <2>3
<1>3. m \in T
  <2> HIDE DEF T
  <2> QED BY <1>1, <1>2, Induct
<1> QED BY <1>3

LEMMA PrefixBytes ==
  ASSUME NEW text \in Seq(Points), NEW n \in 0 .. Len(text)
  PROVE  /\ SubSeq(text, 1, n) \in Seq(Points) /\ Len(SubSeq(text, 1, n)) = n
         /\ Bytes(SubSeq(text, 1, n)) = Upto(text)[n]
<1>1. /\ SubSeq(text, 1, n) \in Seq(Points) /\ Len(SubSeq(text, 1, n)) = n
      /\ \A i \in 1 .. n : SubSeq(text, 1, n)[i] = text[i]
  OBVIOUS
<1>2. Bytes(SubSeq(text, 1, n)) = Upto(SubSeq(text, 1, n))[n]
  BY <1>1, UptoExists
<1>3. n \in Nat /\ n <= Len(text) /\ n <= Len(SubSeq(text, 1, n))
  BY <1>1
<1> QED BY <1>1, <1>2, <1>3, UptoAgrees

LEMMA BytesTyped ==
  ASSUME NEW text \in Seq(Points)
  PROVE  Bytes(text) \in Nat /\ Len(text) \in Nat /\ Bytes(text) = Upto(text)[Len(text)]
<1>1. Len(text) \in 0 .. Len(text)
  OBVIOUS
<1> QED BY <1>1, UptoExists

LEMMA NoBytes == Bytes(<<>>) = 0
<1>1. <<>> \in Seq(Points) /\ Len(<<>>) = 0
  OBVIOUS
<1> QED BY <1>1, UptoExists

\* Every code point has a byte.
LEMMA UptoRises ==
  ASSUME NEW text \in Seq(Points), NEW k \in 0 .. Len(text), NEW n \in 0 .. k
  PROVE  /\ Upto(text)[n] \in Nat /\ Upto(text)[k] \in Nat
         /\ Upto(text)[n] <= Upto(text)[k] /\ (n < k => Upto(text)[n] < Upto(text)[k])
<1> DEFINE T == {d \in Nat : n + d <= Len(text) =>
                   /\ Upto(text)[n + d] \in Nat /\ Upto(text)[n] <= Upto(text)[n + d]
                   /\ d > 0 => Upto(text)[n] < Upto(text)[n + d]}
<1>0. n \in Nat /\ n \in 0 .. Len(text) /\ Len(text) \in Nat /\ k \in Nat
  OBVIOUS
<1>1. Upto(text)[n] \in Nat
  BY <1>0, UptoExists
<1>2. 0 \in T
  <2>1. n + 0 = n
    BY <1>0
  <2> QED BY <1>1, <2>1
<1>3. ASSUME NEW d \in Nat, d \in T
      PROVE  d + 1 \in T
  <2> SUFFICES ASSUME n + (d + 1) <= Len(text)
               PROVE  /\ Upto(text)[n + (d + 1)] \in Nat
                      /\ Upto(text)[n] < Upto(text)[n + (d + 1)]
    BY <1>0, <1>1
  <2>1. n + d \in Nat /\ (n + d) + 1 <= Len(text) /\ n + d <= Len(text) /\ n + (d + 1) = (n + d) + 1
    BY <1>0
  <2>2. /\ Upto(text)[n + d] \in Nat /\ Upto(text)[(n + d) + 1] \in Nat /\ text[(n + d) + 1] \in Points
        /\ Upto(text)[(n + d) + 1] = Upto(text)[n + d] + text[(n + d) + 1]
    BY <2>1, UptoStep
  <2>3. Upto(text)[n] <= Upto(text)[n + d]
    BY <1>3, <2>1
  <2>4. PICK p \in 1 .. 4 : p = text[(n + d) + 1]
    BY <2>2 DEF Points
  <2>5. PICK u \in Nat, v \in Nat : u = Upto(text)[n] /\ v = Upto(text)[n + d]
    BY <1>1, <2>2
  <2>6. u <= v /\ Upto(text)[(n + d) + 1] = v + p
    BY <2>2, <2>3, <2>4, <2>5
  <2>7. u < v + p /\ v + p \in Nat
    BY <2>6
  <2> QED BY <2>1, <2>5, <2>6, <2>7
<1>4. k - n \in Nat /\ k - n \in T
  <2>1. k - n \in Nat
    BY <1>0
  <2> HIDE DEF T
  <2> QED BY <1>2, <1>3, <2>1, Induct
<1>5. n + (k - n) = k /\ (n < k => k - n > 0)
  BY <1>0
<1> QED BY <1>1, <1>4, <1>5

LEMMA BytesAdd ==
  ASSUME NEW s \in Seq(Points), NEW t \in Seq(Points)
  PROVE  /\ s \o t \in Seq(Points) /\ Len(s \o t) = Len(s) + Len(t)
         /\ Bytes(s \o t) = Bytes(s) + Bytes(t)
<1>1. /\ s \o t \in Seq(Points) /\ Len(s \o t) = Len(s) + Len(t)
      /\ Len(s) \in Nat /\ Len(t) \in Nat
      /\ \A i \in 1 .. Len(s) : (s \o t)[i] = s[i]
      /\ \A i \in 1 .. Len(t) : (s \o t)[Len(s) + i] = t[i]
  OBVIOUS
<1> DEFINE T == {n \in Nat : n <= Len(t) => Upto(s \o t)[Len(s) + n] = Bytes(s) + Upto(t)[n]}
<1>2. 0 \in T
  <2>1. Upto(s \o t)[Len(s)] = Upto(s)[Len(s)]
    <3>1. Len(s) <= Len(s \o t) /\ Len(s) <= Len(s)
      BY <1>1
    <3> QED BY <1>1, <3>1, UptoAgrees
  <2>2. Upto(t)[0] = 0 /\ Bytes(s) \in Nat /\ Bytes(s) = Upto(s)[Len(s)]
    BY UptoExists, BytesTyped
  <2>3. Len(s) + 0 = Len(s)
    BY <1>1
  <2> QED BY <2>1, <2>2, <2>3
<1>3. ASSUME NEW n \in Nat, n \in T
      PROVE  n + 1 \in T
  <2> SUFFICES ASSUME n + 1 <= Len(t)
               PROVE  Upto(s \o t)[Len(s) + (n + 1)] = Bytes(s) + Upto(t)[n + 1]
    OBVIOUS
  <2>1. /\ Len(s) + n \in Nat /\ (Len(s) + n) + 1 <= Len(s \o t) /\ n <= Len(t)
        /\ Len(s) + (n + 1) = (Len(s) + n) + 1 /\ n + 1 \in 1 .. Len(t)
    BY <1>1
  <2>2. Upto(s \o t)[(Len(s) + n) + 1] = Upto(s \o t)[Len(s) + n] + (s \o t)[(Len(s) + n) + 1]
    BY <1>1, <2>1, UptoStep
  <2>3. (s \o t)[(Len(s) + n) + 1] = t[n + 1]
    BY <1>1, <2>1
  <2>4. /\ Upto(t)[n] \in Nat /\ Upto(t)[n + 1] = Upto(t)[n] + t[n + 1] /\ t[n + 1] \in Points
        /\ Bytes(s) \in Nat
    BY UptoStep, BytesTyped
  <2>5. Upto(s \o t)[Len(s) + n] = Bytes(s) + Upto(t)[n]
    BY <1>3, <2>1
  <2>6. PICK p \in 1 .. 4 : p = t[n + 1]
    BY <2>4 DEF Points
  <2>7. PICK b \in Nat, u \in Nat : b = Bytes(s) /\ u = Upto(t)[n]
    BY <2>4
  <2> QED BY <2>1, <2>2, <2>3, <2>4, <2>5, <2>6, <2>7
<1>4. Len(t) \in T
  <2> HIDE DEF T
  <2> QED BY <1>1, <1>2, <1>3, Induct
<1>5. Upto(s \o t)[Len(s) + Len(t)] = Bytes(s) + Upto(t)[Len(t)]
  BY <1>1, <1>4
<1> QED BY <1>1, <1>5, BytesTyped

-----------------------------------------------------------------------------
(* The text of an event                                                    *)

\* TextUpto(parts)[n] is the text of the first n parts.
TextUpto(parts) ==
  CHOOSE f : f = [n \in 0 .. Len(parts) |-> IF n = 0 THEN <<>> ELSE f[n - 1] \o PartText(parts[n])]

LEMMA PartTextTyped ==
  ASSUME NEW p \in Parts
  PROVE  PartText(p) \in Seq(Points)
BY LimitsAssumption DEF LimitsAssumption, PartText

LEMMA ConcatTyped ==
  ASSUME NEW s \in Seq(Points), NEW t \in Seq(Points)
  PROVE  s \o t \in Seq(Points)
OBVIOUS

LEMMA TextUptoExists ==
  ASSUME NEW parts \in Seq(Parts)
  PROVE  /\ TextUpto(parts) \in [0 .. Len(parts) -> Seq(Points)]
         /\ TextUpto(parts)[0] = <<>>
         /\ \A n \in 1 .. Len(parts) : TextUpto(parts)[n] = TextUpto(parts)[n - 1] \o PartText(parts[n])
         /\ TextOf(parts) = TextUpto(parts)[Len(parts)]
<1> DEFINE m == Len(parts)
           step == [n \in 1 .. m |-> [v \in Seq(Points) |-> v \o PartText(parts[n])]]
<1>1. m \in Nat /\ \A n \in 1 .. m : PartText(parts[n]) \in Seq(Points)
  <2>1. m \in Nat /\ \A n \in 1 .. m : parts[n] \in Parts
    OBVIOUS
  <2> QED BY <2>1, PartTextTyped
<1>2. step \in [1 .. m -> [Seq(Points) -> Seq(Points)]]
  BY <1>1, ConcatTyped
<1>3. PICK f \in [0 .. m -> Seq(Points)] : f[0] = <<>> /\ \A n \in 1 .. m : f[n] = step[n][f[n - 1]]
  <2>1. <<>> \in Seq(Points) /\ step \in Steps(m, Seq(Points))
    BY <1>2 DEF Steps
  <2> HIDE DEF m, step
  <2>2. Defined(m, Seq(Points), <<>>, step)
    BY <1>1, <2>1, Recursion
  <2> QED BY <2>2 DEF Defined, Follows
<1>4. \A n \in 1 .. m : f[n] = f[n - 1] \o PartText(parts[n])
  <2> TAKE n \in 1 .. m
  <2>1. n - 1 \in 0 .. m
    BY <1>1
  <2>2. f[n - 1] \in Seq(Points)
    BY <1>3, <2>1
  <2> QED BY <1>3, <2>2
<1>5. f = [n \in 0 .. m |-> IF n = 0 THEN <<>> ELSE f[n - 1] \o PartText(parts[n])]
  <2>1. \A n \in 0 .. m : f[n] = IF n = 0 THEN <<>> ELSE f[n - 1] \o PartText(parts[n])
    <3> TAKE n \in 0 .. m
    <3>1. n = 0 \/ n \in 1 .. m
      BY <1>1
    <3> QED BY <1>3, <1>4, <3>1
  <2> HIDE DEF m
  <2> QED BY <1>3, <2>1
<1>6. TextUpto(parts) = [n \in 0 .. m |-> IF n = 0 THEN <<>> ELSE TextUpto(parts)[n - 1] \o PartText(parts[n])]
  BY <1>5 DEF TextUpto
<1> DEFINE g == TextUpto(parts)
<1>7. g[0] = <<>>
  BY <1>1, <1>6
<1>8. \A n \in 1 .. m : g[n] = g[n - 1] \o PartText(parts[n])
  <2>1. \A n \in 0 .. m : g[n] = IF n = 0 THEN <<>> ELSE g[n - 1] \o PartText(parts[n])
    BY <1>6, Zenon
  <2>2. \A n \in 1 .. m : n \in 0 .. m /\ n # 0
    BY <1>1
  <2> HIDE DEF g, m
  <2> QED BY <2>1, <2>2, Zenon
<1>9. g \in [0 .. m -> Seq(Points)]
  <2> DEFINE T == {n \in Nat : n <= m => g[n] \in Seq(Points)}
  <2>1. 0 \in T
    BY <1>7
  <2>2. ASSUME NEW n \in Nat, n \in T
        PROVE  n + 1 \in T
    <3> SUFFICES ASSUME n + 1 <= m
                 PROVE  g[n + 1] \in Seq(Points)
      OBVIOUS
    <3> HIDE DEF g, m
    <3>1. n + 1 \in 1 .. m /\ (n + 1) - 1 = n /\ g[n] \in Seq(Points)
      BY <1>1, <2>2
    <3>2. g[n + 1] = g[n] \o PartText(parts[n + 1]) /\ PartText(parts[n + 1]) \in Seq(Points)
      BY <1>1, <1>8, <3>1
    <3> QED BY <3>1, <3>2, ConcatTyped
  <2>3. \A n \in Nat : n \in T
    <3> HIDE DEF T
    <3> QED BY <2>1, <2>2, Induct
  <2>4. \A n \in 0 .. m : g[n] \in Seq(Points)
    BY <1>1, <2>3
  <2>5. g = [n \in 0 .. m |-> g[n]]
    BY <1>6
  <2> HIDE DEF g, m
  <2> QED BY <2>4, <2>5
<1>10. TextOf(parts) = TextUpto(parts)[m]
  BY DEF TextOf, TextUpto
<1> QED BY <1>7, <1>8, <1>9, <1>10

LEMMA TextOfTyped ==
  ASSUME NEW parts \in Seq(Parts)
  PROVE  TextOf(parts) \in Seq(Points) /\ TextOf(parts) = TextUpto(parts)[Len(parts)]
<1>1. Len(parts) \in 0 .. Len(parts)
  OBVIOUS
<1> QED BY <1>1, TextUptoExists

LEMMA NoText == TextOf(<<>>) = <<>>
<1>1. <<>> \in Seq(Parts) /\ Len(<<>>) = 0
  OBVIOUS
<1> QED BY <1>1, TextUptoExists

\* The text of an event is that of its first part, and then that of the rest.
LEMMA TextOfFirst ==
  ASSUME NEW parts \in Seq(Parts), parts # <<>>
  PROVE  /\ Head(parts) \in Parts /\ Tail(parts) \in Seq(Parts)
         /\ TextOf(parts) = PartText(Head(parts)) \o TextOf(Tail(parts))
<1>1. /\ Head(parts) \in Parts /\ Head(parts) = parts[1] /\ Tail(parts) \in Seq(Parts)
      /\ Len(parts) \in Nat \ {0} /\ Len(Tail(parts)) = Len(parts) - 1
      /\ \A i \in 1 .. Len(parts) - 1 : Tail(parts)[i] = parts[i + 1]
  OBVIOUS
<1> DEFINE p == PartText(Head(parts))
           T == {n \in Nat : n + 1 <= Len(parts) =>
                   TextUpto(parts)[n + 1] = p \o TextUpto(Tail(parts))[n]}
<1>2. p \in Seq(Points)
  BY <1>1, PartTextTyped
<1>3. 0 \in T
  <2>1. 1 \in 1 .. Len(parts) /\ 1 - 1 = 0 /\ 0 + 1 = 1
    BY <1>1
  <2>2. TextUpto(parts)[1] = <<>> \o p
    <3>1. TextUpto(parts)[1] = TextUpto(parts)[1 - 1] \o PartText(parts[1])
      BY <2>1, TextUptoExists
    <3>2. TextUpto(parts)[0] = <<>> /\ p = PartText(parts[1])
      BY <1>1, TextUptoExists
    <3> HIDE DEF p
    <3> QED BY <2>1, <3>1, <3>2
  <2>3. TextUpto(Tail(parts))[0] = <<>>
    BY <1>1, TextUptoExists
  <2>4. <<>> \o p = p /\ p \o <<>> = p
    <3> HIDE DEF p
    <3> QED BY <1>2, ConcatEmptySeq
  <2> HIDE DEF p
  <2> QED BY <2>1, <2>2, <2>3, <2>4
<1>4. ASSUME NEW n \in Nat, n \in T
      PROVE  n + 1 \in T
  <2>0. n + 1 \in Nat
    OBVIOUS
  <2> SUFFICES ASSUME (n + 1) + 1 <= Len(parts)
               PROVE  TextUpto(parts)[(n + 1) + 1] = p \o TextUpto(Tail(parts))[n + 1]
    BY <2>0, Zenon
  <2> DEFINE q == PartText(parts[(n + 1) + 1])
             t == TextUpto(Tail(parts))[n]
  <2>1. /\ (n + 1) + 1 \in 1 .. Len(parts) /\ ((n + 1) + 1) - 1 = n + 1
        /\ n + 1 \in 1 .. Len(Tail(parts)) /\ (n + 1) - 1 = n /\ n \in 0 .. Len(Tail(parts))
        /\ n + 1 \in 1 .. Len(parts) - 1 /\ n + 1 <= Len(parts)
    BY <1>1
  <2>2. TextUpto(parts)[(n + 1) + 1] = TextUpto(parts)[n + 1] \o q
    BY <2>1, TextUptoExists
  <2>3. TextUpto(Tail(parts))[n + 1] = t \o q
    <3>1. TextUpto(Tail(parts))[n + 1] = t \o PartText(Tail(parts)[n + 1])
      BY <1>1, <2>1, TextUptoExists
    <3> QED BY <1>1, <2>1, <3>1
  <2>4. TextUpto(parts)[n + 1] = p \o t
    BY <1>4, <2>1
  <2>5. t \in Seq(Points) /\ q \in Seq(Points)
    <3>1. parts[(n + 1) + 1] \in Parts
      BY <2>1
    <3> QED BY <1>1, <2>1, <3>1, TextUptoExists, PartTextTyped
  <2> HIDE DEF p, q, t
  <2>6. (p \o t) \o q = p \o (t \o q)
    BY <1>2, <2>5, ConcatAssociative
  <2> QED BY <2>2, <2>3, <2>4, <2>6
<1>5. Len(parts) - 1 \in T
  <2>1. Len(parts) - 1 \in Nat
    BY <1>1
  <2> HIDE DEF T
  <2> QED BY <1>3, <1>4, <2>1, Induct
<1>6. TextUpto(parts)[Len(parts)] = p \o TextUpto(Tail(parts))[Len(Tail(parts))]
  <2>1. (Len(parts) - 1) + 1 = Len(parts)
    BY <1>1
  <2> QED BY <1>1, <1>5, <2>1
<1> QED BY <1>1, <1>6, TextOfTyped

-----------------------------------------------------------------------------
(* The largest prefix                                                      *)

LEMMA NatMax ==
  ASSUME NEW m \in Nat, NEW T \in SUBSET (0 .. m), T # {}
  PROVE  \E x \in T : \A y \in T : y <= x
<1> DEFINE U == {d \in Nat : m - d \in T}
<1>1. U \in SUBSET Nat /\ U # {}
  <2>1. PICK y \in T : y \in 0 .. m
    OBVIOUS
  <2>2. m - y \in Nat /\ m - (m - y) = y
    BY <2>1
  <2> QED BY <2>1, <2>2
<1>2. PICK d \in U : \A e \in U : d <= e
  <2> HIDE DEF U
  <2> QED BY <1>1, NatMin
<1>3. m - d \in T /\ d \in Nat
  OBVIOUS
<1>4. \A y \in T : y <= m - d
  <2> TAKE y \in T
  <2>1. y \in 0 .. m /\ m - y \in Nat /\ m - (m - y) = y
    OBVIOUS
  <2>2. m - y \in U
    BY <2>1
  <2> QED BY <1>2, <1>3, <2>1, <2>2
<1> QED BY <1>3, <1>4

LEMMA SameText ==
  ASSUME NEW s \in Seq(Points), NEW t \in Seq(Points), NEW n \in Nat, Len(s) = n, Len(t) = n,
         \A i \in 1 .. n : s[i] = t[i]
  PROVE  s = t
BY SeqEqual

LEMMA WholeText ==
  ASSUME NEW text \in Seq(Points)
  PROVE  SubSeq(text, 1, Len(text)) = text
OBVIOUS

\* The beginning of two texts one behind the other.
LEMMA CutInFirst ==
  ASSUME NEW s \in Seq(Points), NEW t \in Seq(Points), NEW n \in 0 .. Len(s)
  PROVE  n \in 0 .. Len(s \o t) /\ SubSeq(s \o t, 1, n) = SubSeq(s, 1, n)
<1>1. s \o t \in Seq(Points) /\ Len(s \o t) = Len(s) + Len(t) /\ Len(s) \in Nat /\ Len(t) \in Nat
  OBVIOUS
<1>2. n \in 0 .. Len(s \o t) /\ n \in Nat
  BY <1>1
<1>3. /\ SubSeq(s \o t, 1, n) \in Seq(Points) /\ Len(SubSeq(s \o t, 1, n)) = n
      /\ SubSeq(s, 1, n) \in Seq(Points) /\ Len(SubSeq(s, 1, n)) = n
  BY <1>1, <1>2, PrefixBytes
<1>4. \A i \in 1 .. n : SubSeq(s \o t, 1, n)[i] = SubSeq(s, 1, n)[i]
  BY <1>1, <1>2
<1> QED BY <1>2, <1>3, <1>4, SameText

LEMMA CutInSecond ==
  ASSUME NEW s \in Seq(Points), NEW t \in Seq(Points), NEW n \in 0 .. Len(t)
  PROVE  /\ Len(s) + n \in 0 .. Len(s \o t)
         /\ SubSeq(s \o t, 1, Len(s) + n) = s \o SubSeq(t, 1, n)
<1>1. s \o t \in Seq(Points) /\ Len(s \o t) = Len(s) + Len(t) /\ Len(s) \in Nat /\ Len(t) \in Nat
  OBVIOUS
<1>2. Len(s) + n \in 0 .. Len(s \o t) /\ Len(s) + n \in Nat /\ n \in Nat
  BY <1>1
<1>3. /\ SubSeq(s \o t, 1, Len(s) + n) \in Seq(Points) /\ Len(SubSeq(s \o t, 1, Len(s) + n)) = Len(s) + n
      /\ SubSeq(t, 1, n) \in Seq(Points) /\ Len(SubSeq(t, 1, n)) = n
  BY <1>1, <1>2, PrefixBytes
<1>4. s \o SubSeq(t, 1, n) \in Seq(Points) /\ Len(s \o SubSeq(t, 1, n)) = Len(s) + n
  BY <1>3, BytesAdd
<1>5. \A i \in 1 .. Len(s) + n : SubSeq(s \o t, 1, Len(s) + n)[i] = (s \o SubSeq(t, 1, n))[i]
  <2> TAKE i \in 1 .. Len(s) + n
  <2>1. SubSeq(s \o t, 1, Len(s) + n)[i] = (s \o t)[i]
    BY <1>1, <1>2
  <2>2. CASE i <= Len(s)
    BY <1>1, <1>2, <1>3, <2>1, <2>2
  <2>3. CASE ~(i <= Len(s))
    <3>1. i - Len(s) \in 1 .. n /\ i \in Int
      BY <1>1, <1>2, <2>3
    <3>2. (s \o t)[i] = t[i - Len(s)]
      BY <1>1, <1>2, <2>3
    <3>3. (s \o SubSeq(t, 1, n))[i] = SubSeq(t, 1, n)[i - Len(s)]
      BY <1>1, <1>2, <1>3, <2>3
    <3>4. SubSeq(t, 1, n)[i - Len(s)] = t[i - Len(s)]
      BY <1>1, <1>2, <3>1
    <3> QED BY <2>1, <3>2, <3>3, <3>4
  <2> QED BY <2>2, <2>3
<1> QED BY <1>2, <1>3, <1>4, <1>5, SameText

\* A prefix that fits, and with one code point more does not, is the largest one that fits.
LEMMA LargestPrefix ==
  ASSUME NEW text \in Seq(Points), NEW room \in Nat, NEW n \in 0 .. Len(text),
         Bytes(SubSeq(text, 1, n)) <= room,
         n < Len(text) => Bytes(SubSeq(text, 1, n + 1)) > room
  PROVE  CodepointPrefix(text, room) = SubSeq(text, 1, n)
<1> DEFINE F == {k \in 0 .. Len(text) : Bytes(SubSeq(text, 1, k)) <= room}
<1>1. n \in F /\ Len(text) \in Nat
  OBVIOUS
<1>2. \A k \in F : n >= k
  <2> SUFFICES ASSUME NEW k \in F, n < k
               PROVE  FALSE
    BY <1>1
  <2>1. n + 1 \in 0 .. k /\ k \in 0 .. Len(text) /\ n < Len(text) /\ n + 1 \in 0 .. Len(text)
    BY <1>1
  <2>2. Upto(text)[n + 1] <= Upto(text)[k] /\ Upto(text)[n + 1] \in Nat /\ Upto(text)[k] \in Nat
    BY <2>1, UptoRises
  <2>3. Upto(text)[n + 1] > room
    BY <2>1, PrefixBytes
  <2>4. Upto(text)[k] <= room
    BY <2>1, PrefixBytes
  <2> QED BY <2>2, <2>3, <2>4
<1>3. \A x \in F : (\A k \in F : x >= k) => x = n
  BY <1>1, <1>2
<1>4. Max(F) = n
  <2> HIDE DEF F
  <2> QED BY <1>1, <1>2, <1>3 DEF Max
<1> QED BY <1>4 DEF CodepointPrefix

LEMMA PrefixExists ==
  ASSUME NEW text \in Seq(Points), NEW room \in Nat
  PROVE  \E n \in 0 .. Len(text) :
           /\ CodepointPrefix(text, room) = SubSeq(text, 1, n)
           /\ Bytes(SubSeq(text, 1, n)) <= room
           /\ n < Len(text) => Bytes(SubSeq(text, 1, n + 1)) > room
<1> DEFINE F == {k \in 0 .. Len(text) : Bytes(SubSeq(text, 1, k)) <= room}
<1>1. 0 \in F /\ Len(text) \in Nat
  <2>1. 0 \in 0 .. Len(text)
    OBVIOUS
  <2>2. Bytes(SubSeq(text, 1, 0)) = 0
    BY <2>1, PrefixBytes, UptoExists
  <2> QED BY <2>1, <2>2
<1>2. PICK n \in F : \A k \in F : k <= n
  <2>1. F \in SUBSET (0 .. Len(text)) /\ F # {}
    BY <1>1
  <2> HIDE DEF F
  <2> QED BY <1>1, <2>1, NatMax
<1>3. n < Len(text) => Bytes(SubSeq(text, 1, n + 1)) > room
  <2> SUFFICES ASSUME n < Len(text), ~(Bytes(SubSeq(text, 1, n + 1)) > room)
               PROVE  FALSE
    OBVIOUS
  <2>1. n + 1 \in 0 .. Len(text)
    BY <1>1
  <2>2. Bytes(SubSeq(text, 1, n + 1)) \in Nat
    BY <2>1, PrefixBytes, BytesTyped
  <2>3. n + 1 \in F
    BY <2>1, <2>2
  <2> QED BY <1>2, <2>3
<1> QED BY <1>3, LargestPrefix

LEMMA AllFits ==
  ASSUME NEW text \in Seq(Points), NEW room \in Nat, Bytes(text) <= room
  PROVE  CodepointPrefix(text, room) = text
<1>1. Len(text) \in 0 .. Len(text) /\ SubSeq(text, 1, Len(text)) = text
  BY WholeText
<1>2. ~(Len(text) < Len(text))
  OBVIOUS
<1> QED BY <1>1, <1>2, LargestPrefix

\* To cut a text is to cut it behind what is known to fit.
LEMMA CutBehind ==
  ASSUME NEW s \in Seq(Points), NEW t \in Seq(Points), NEW room \in Nat, Bytes(s) <= room
  PROVE  CodepointPrefix(s \o t, room) = s \o CodepointPrefix(t, room - Bytes(s))
<1>1. Bytes(s) \in Nat /\ room - Bytes(s) \in Nat /\ s \o t \in Seq(Points)
      /\ Len(s \o t) = Len(s) + Len(t) /\ Len(s) \in Nat /\ Len(t) \in Nat
  BY BytesTyped, BytesAdd
<1>2. PICK n \in 0 .. Len(t) :
        /\ CodepointPrefix(t, room - Bytes(s)) = SubSeq(t, 1, n)
        /\ Bytes(SubSeq(t, 1, n)) <= room - Bytes(s)
        /\ n < Len(t) => Bytes(SubSeq(t, 1, n + 1)) > room - Bytes(s)
  BY <1>1, PrefixExists
<1>3. /\ SubSeq(s \o t, 1, Len(s) + n) = s \o SubSeq(t, 1, n)
      /\ Len(s) + n \in 0 .. Len(s \o t)
  BY CutInSecond
<1>4. Bytes(SubSeq(s \o t, 1, Len(s) + n)) <= room
  <2>1. SubSeq(t, 1, n) \in Seq(Points) /\ Bytes(SubSeq(t, 1, n)) \in Nat
    BY PrefixBytes, BytesTyped
  <2>2. Bytes(s \o SubSeq(t, 1, n)) = Bytes(s) + Bytes(SubSeq(t, 1, n))
    BY <2>1, BytesAdd
  <2>3. PICK b \in Nat, c \in Nat : b = Bytes(s) /\ c = Bytes(SubSeq(t, 1, n))
    BY <1>1, <2>1
  <2>4. c <= room - b /\ Bytes(SubSeq(s \o t, 1, Len(s) + n)) = b + c
    BY <1>2, <1>3, <2>2, <2>3
  <2>5. b + c <= room
    BY <2>4
  <2> QED BY <2>4, <2>5
<1>5. Len(s) + n < Len(s \o t) => Bytes(SubSeq(s \o t, 1, (Len(s) + n) + 1)) > room
  <2> SUFFICES ASSUME Len(s) + n < Len(s \o t)
               PROVE  Bytes(SubSeq(s \o t, 1, (Len(s) + n) + 1)) > room
    OBVIOUS
  <2>1. n < Len(t) /\ n + 1 \in 0 .. Len(t) /\ (Len(s) + n) + 1 = Len(s) + (n + 1)
    BY <1>1
  <2>2. SubSeq(s \o t, 1, (Len(s) + n) + 1) = s \o SubSeq(t, 1, n + 1)
    BY <2>1, CutInSecond
  <2>3. SubSeq(t, 1, n + 1) \in Seq(Points) /\ Bytes(SubSeq(t, 1, n + 1)) \in Nat
    BY <2>1, PrefixBytes, BytesTyped
  <2>4. Bytes(s \o SubSeq(t, 1, n + 1)) = Bytes(s) + Bytes(SubSeq(t, 1, n + 1))
    BY <2>3, BytesAdd
  <2>5. Bytes(SubSeq(t, 1, n + 1)) > room - Bytes(s)
    BY <1>2, <2>1
  <2>6. PICK b \in Nat, c \in Nat : b = Bytes(s) /\ c = Bytes(SubSeq(t, 1, n + 1))
    BY <1>1, <2>3
  <2>7. c > room - b /\ Bytes(SubSeq(s \o t, 1, (Len(s) + n) + 1)) = b + c
    BY <2>2, <2>4, <2>5, <2>6
  <2>8. b + c > room
    BY <2>7
  <2> QED BY <2>7, <2>8
<1> QED BY <1>1, <1>2, <1>3, <1>4, <1>5, LargestPrefix

\* What follows a text that does not fit, or that begins where nothing fits, is not reached.
LEMMA CutBefore ==
  ASSUME NEW s \in Seq(Points), NEW t \in Seq(Points), NEW room \in Nat,
         room = 0 \/ Bytes(s) > room
  PROVE  CodepointPrefix(s \o t, room) = CodepointPrefix(s, room)
<1>1. PICK n \in 0 .. Len(s) :
        /\ CodepointPrefix(s, room) = SubSeq(s, 1, n)
        /\ Bytes(SubSeq(s, 1, n)) <= room
        /\ n < Len(s) => Bytes(SubSeq(s, 1, n + 1)) > room
  BY PrefixExists
<1>2. /\ s \o t \in Seq(Points) /\ Len(s \o t) = Len(s) + Len(t)
      /\ Len(s) \in Nat /\ Len(t) \in Nat /\ Bytes(s) \in Nat
  BY BytesAdd, BytesTyped
<1>3. n \in 0 .. Len(s \o t) /\ SubSeq(s \o t, 1, n) = SubSeq(s, 1, n)
  BY CutInFirst
<1>4. n < Len(s \o t) => Bytes(SubSeq(s \o t, 1, n + 1)) > room
  <2> SUFFICES ASSUME n < Len(s \o t)
               PROVE  Bytes(SubSeq(s \o t, 1, n + 1)) > room
    OBVIOUS
  <2>1. CASE n < Len(s)
    <3>1. n + 1 \in 0 .. Len(s)
      BY <1>2, <2>1
    <3> QED BY <1>1, <2>1, <3>1, CutInFirst
  <2>2. CASE ~(n < Len(s))
    <3>1. n = Len(s)
      BY <1>2, <2>2
    <3>2. room = 0
      <4>1. Bytes(s) <= room
        BY <1>1, <3>1, WholeText
      <4> QED BY <1>2, <4>1
    <3>3. n + 1 \in 0 .. Len(s \o t) /\ n \in 0 .. n + 1 /\ n < n + 1
      BY <1>2
    <3>4. /\ Upto(s \o t)[n] < Upto(s \o t)[n + 1]
          /\ Upto(s \o t)[n] \in Nat /\ Upto(s \o t)[n + 1] \in Nat
      BY <1>2, <3>3, UptoRises
    <3>5. Bytes(SubSeq(s \o t, 1, n + 1)) = Upto(s \o t)[n + 1]
      BY <1>2, <3>3, PrefixBytes
    <3> QED BY <3>2, <3>4, <3>5
  <2> QED BY <2>1, <2>2
<1> QED BY <1>1, <1>2, <1>3, <1>4, LargestPrefix

-----------------------------------------------------------------------------
(* A run under its limits                                                  *)

LimiterType == [iterations : Nat, output : Nat, outputHit : BOOLEAN, tokens : Nat, over : BOOLEAN]

LEMMA LimitTypes ==
  ASSUME LimitsTypeOK
  PROVE  /\ limits \in Limits /\ limits.output \in Nat /\ limits.iterations \in Nat /\ limits.budget \in Nat
         /\ limiter \in LimiterType /\ limiter.iterations \in Nat /\ limiter.output \in Nat
         /\ limiter.outputHit \in BOOLEAN /\ limiter.tokens \in Nat /\ limiter.over \in BOOLEAN
         /\ kept \in Seq(Points) /\ written \in Seq(Points) /\ todo \in Seq(Parts)
BY LimitsAssumption DEF LimitsAssumption, LimitsTypeOK, LimiterType

\* What a step of the loop leaves: the tokens that were counted stay within the budget, or the
\* run is over it.
BudgetKept == limits.budget > 0 /\ ~limiter.over => limiter.tokens <= limits.budget

LEMMA GoesOn ==
  ASSUME NEW rest, limits' = limits, todo' = rest,
         run' = (IF rest = <<>> THEN AfterEvent(limiter') ELSE "converting"),
         limiter'.outputHit => rest = <<>>, BudgetKept'
  PROVE  StopsKept' /\ (limiter'.outputHit => run' \notin {"looping", "converting"})
<1>1. CASE rest = <<>>
  <2>1. run' = AfterEvent(limiter')
    BY <1>1
  <2>2. CASE IterationHit(limiter') \/ ~MayCallAgain(limiter')
    <3>1. run' = "finishing"
      BY <2>1, <2>2 DEF AfterEvent
    <3>2. (IterationHit(limiter) \/ ~MayCallAgain(limiter))'
      BY <2>2 DEF IterationHit, MayCallAgain
    <3> QED BY <1>1, <3>1, <3>2 DEF StopsKept, BudgetKept
  <2>3. CASE ~(IterationHit(limiter') \/ ~MayCallAgain(limiter'))
    <3>1. run' = "looping"
      BY <2>1, <2>3 DEF AfterEvent
    <3>2. ~limiter'.outputHit
      BY <2>3 DEF MayCallAgain
    <3> QED BY <1>1, <3>1, <3>2 DEF StopsKept, BudgetKept
  <2> QED BY <2>2, <2>3
<1>2. CASE rest # <<>>
  <2>1. run' = "converting" /\ ~limiter'.outputHit
    BY <1>2
  <2> QED BY <1>2, <2>1 DEF StopsKept, BudgetKept
<1> QED BY <1>1, <1>2

LEMMA TextUnchanged ==
  ASSUME TextKept, UNCHANGED <<limits, limiter, kept, todo, written>>, run' \notin {"looping", "converting"}
  PROVE  TextKept'
BY DEF TextKept

LEMMA TypesUnchanged ==
  ASSUME LimitsTypeOK, UNCHANGED <<limits, limiter, kept, todo, written>>
  PROVE  LimitsTypeOK'
BY DEF LimitsTypeOK

LEMMA EventKept ==
  ASSUME LimitsInv, NEW parts \in Contents, NEW usage \in Usages, NEW failed \in BOOLEAN,
         Event(parts, usage, failed)
  PROVE  LimitsInv'
<1>1. /\ run = "looping" /\ limits' = limits /\ kept' = kept /\ limiter' = Observe(usage)
      /\ todo' = (IF failed THEN <<>> ELSE parts) /\ written' = written \o TextOf(todo')
      /\ run' = (IF todo' = <<>> THEN AfterEvent(limiter') ELSE "converting")
  BY DEF Event
<1>2. LimitsTypeOK /\ StopsKept /\ TextKept
  BY DEF LimitsInv
<1>3. PICK used \in Nat : used = Max({usage, 0})
  <2>1. usage \in Nat \/ usage = -1
    BY LimitsAssumption DEF LimitsAssumption, NoUsage
  <2>2. CASE usage \in Nat
    BY <2>2 DEF Max
  <2>3. CASE usage = -1
    BY <2>3 DEF Max
  <2> QED BY <2>1, <2>2, <2>3
<1>4. PICK total \in Nat : total = limiter.tokens + used
  BY <1>2, LimitTypes
<1>5. PICK now \in BOOLEAN : now = (limiter.over \/ (limits.budget > 0 /\ total > limits.budget))
  OBVIOUS
<1>6. limiter' = [limiter EXCEPT !.tokens = total, !.over = now]
  BY <1>1, <1>3, <1>4, <1>5 DEF Observe
<1>7. /\ limiter' \in LimiterType /\ limiter'.output = limiter.output
      /\ limiter'.outputHit = limiter.outputHit /\ limiter'.tokens = total /\ limiter'.over = now
  BY <1>2, <1>6, LimitTypes DEF LimiterType
<1>8. todo' \in Seq(Parts)
  BY <1>1, LimitsAssumption DEF LimitsAssumption
<1>9. LimitsTypeOK'
  <2>1. TextOf(todo') \in Seq(Points)
    BY <1>8, TextOfTyped
  <2>2. written' \in Seq(Points)
    BY <1>1, <1>2, <2>1, ConcatTyped, LimitTypes
  <2>3. limiter' \in [iterations : Nat, output : Nat, outputHit : BOOLEAN, tokens : Nat, over : BOOLEAN]
    BY <1>7 DEF LimiterType
  <2> QED BY <1>1, <1>2, <1>8, <2>2, <2>3, LimitTypes DEF LimitsTypeOK
<1>10. ~limiter.outputHit /\ ~limiter'.outputHit
  BY <1>1, <1>2, <1>7 DEF TextKept
<1>11. BudgetKept'
  <2>1. limits.budget > 0 /\ ~now => ~(total > limits.budget)
    BY <1>5, Zenon
  <2>2. limits.budget > 0 /\ ~now => total <= limits.budget
    <3>1. limits.budget \in Nat
      BY <1>2, LimitTypes
    <3> QED BY <2>1, <3>1
  <2> QED BY <1>1, <1>7, <2>2, Zenon DEF BudgetKept
<1>12. StopsKept'
  BY <1>1, <1>10, <1>11, GoesOn
<1>13. TextKept'
  <2>1. todo = <<>> /\ written = kept \o TextOf(todo)
    BY <1>1, <1>2, <1>10 DEF StopsKept, TextKept
  <2>2. written = kept
    BY <1>2, <2>1, NoText, ConcatEmptySeq, LimitTypes
  <2>3. written' = kept' \o TextOf(todo')
    BY <1>1, <2>2
  <2>4. limiter'.output = Bytes(kept') /\ Bytes(kept') <= limits'.output
    BY <1>1, <1>2, <1>7 DEF TextKept
  <2>5. written' = kept' \o TextOf(todo)'
    BY <2>3 DEF TextOf, PartText
  <2> QED BY <1>10, <2>4, <2>5 DEF TextKept
<1> QED BY <1>9, <1>12, <1>13 DEF LimitsInv

\* The first part of what is to be converted.
LEMMA NextPart ==
  ASSUME LimitsInv, run = "converting"
  PROVE  /\ todo # <<>> /\ Head(todo) \in Parts /\ Tail(todo) \in Seq(Parts)
         /\ TextOf(todo) = PartText(Head(todo)) \o TextOf(Tail(todo))
         /\ TextOf(Tail(todo)) \in Seq(Points)
         /\ ~limiter.outputHit /\ written = kept \o TextOf(todo)
<1>1. todo # <<>> /\ todo \in Seq(Parts)
  BY LimitTypes DEF LimitsInv, StopsKept
<1>2. ~limiter.outputHit /\ written = kept \o TextOf(todo)
  BY DEF LimitsInv, TextKept
<1> QED BY <1>1, <1>2, TextOfFirst, TextOfTyped

\* A part without a text.
LEMMA NoTextKept ==
  ASSUME LimitsInv, run = "converting", PartText(Head(todo)) = <<>>, Converted(Tail(todo)),
         UNCHANGED <<limits, kept, written>>,
         limiter' \in LimiterType, limiter'.output = limiter.output,
         limiter'.outputHit = limiter.outputHit, limiter'.tokens = limiter.tokens, limiter'.over = limiter.over
  PROVE  LimitsInv'
<1>1. LimitsTypeOK /\ StopsKept /\ TextKept
  BY DEF LimitsInv
<1>2. /\ todo' = Tail(todo)
      /\ run' = IF Tail(todo) = <<>> THEN AfterEvent(limiter') ELSE "converting"
  BY DEF Converted
<1>3. TextOf(todo) = TextOf(Tail(todo))
  <2>1. TextOf(Tail(todo)) \in Seq(Points)
    BY NextPart
  <2>2. TextOf(todo) = <<>> \o TextOf(Tail(todo))
    BY NextPart
  <2> QED BY <2>1, <2>2, ConcatEmptySeq
<1>4. LimitsTypeOK'
  <2>1. limiter' \in [iterations : Nat, output : Nat, outputHit : BOOLEAN, tokens : Nat, over : BOOLEAN]
    BY DEF LimiterType
  <2> QED BY <1>1, <1>2, <2>1, NextPart DEF LimitsTypeOK
<1>5. BudgetKept'
  BY <1>1 DEF BudgetKept, StopsKept
<1>6. StopsKept'
  BY <1>2, <1>5, NextPart, GoesOn
<1>7. written' = kept' \o TextOf(todo)'
  <2>1. written' = kept' \o TextOf(todo')
    BY <1>2, <1>3, NextPart
  <2> QED BY <2>1 DEF TextOf, PartText
<1>8. TextKept'
  BY <1>1, <1>7, NextPart DEF TextKept
<1> QED BY <1>4, <1>6, <1>8 DEF LimitsInv

\* A text that fits is kept, and goes on; one that does not is cut, and is the last.
LEMMA ConvertTextKept ==
  ASSUME LimitsInv, ConvertText
  PROVE  LimitsInv'
<1> DEFINE p == Head(todo).points
           rest == TextOf(Tail(todo))
<1>1. /\ run = "converting" /\ Head(todo).kind = "text"
      /\ kept' = kept \o Allowed(p) /\ limiter' = Reserve(p)
      /\ Converted(IF limiter'.outputHit THEN <<>> ELSE Tail(todo))
      /\ limits' = limits /\ written' = written
  BY DEF ConvertText, modelVars
<1>2. LimitsTypeOK /\ StopsKept /\ TextKept
  BY DEF LimitsInv
<1>3. /\ kept \in Seq(Points) /\ limits.output \in Nat /\ limiter \in LimiterType
      /\ limiter.output = Bytes(kept) /\ Bytes(kept) \in Nat /\ Bytes(kept) <= limits.output
      /\ limiter.outputHit = FALSE
  <2>1. limiter.outputHit \in BOOLEAN /\ ~limiter.outputHit
    BY <1>1, <1>2, LimitTypes, NextPart
  <2> QED BY <1>2, <2>1, LimitTypes, BytesTyped DEF TextKept
<1>4. p \in Seq(Points) /\ rest \in Seq(Points) /\ written = kept \o (p \o rest) /\ p \o rest \in Seq(Points)
  <2>1. PartText(Head(todo)) = p
    BY <1>1 DEF PartText
  <2>2. p \in Seq(Points)
    BY <1>1, <2>1, NextPart, PartTextTyped
  <2>3. rest \in Seq(Points) /\ written = kept \o (p \o rest)
    BY <1>1, <2>1, NextPart
  <2> QED BY <2>2, <2>3, ConcatTyped
<1> HIDE DEF p, rest
<1>5. PICK room \in Nat : room = Room /\ room = limits.output - Bytes(kept)
  BY <1>3 DEF Room
<1>6. PICK cut \in Seq(Points) : /\ cut = CodepointPrefix(p, room) /\ cut = Allowed(p)
                                 /\ Bytes(cut) <= room /\ Bytes(cut) \in Nat
  <2>1. PICK n \in 0 .. Len(p) : CodepointPrefix(p, room) = SubSeq(p, 1, n) /\ Bytes(SubSeq(p, 1, n)) <= room
    BY <1>4, PrefixExists
  <2>2. SubSeq(p, 1, n) \in Seq(Points) /\ Bytes(SubSeq(p, 1, n)) \in Nat
    BY <1>4, PrefixBytes, BytesTyped
  <2> QED BY <1>5, <2>1, <2>2 DEF Allowed
<1>7. PICK hit \in BOOLEAN : hit = (room <= 0 \/ Bytes(p) > room)
  OBVIOUS
<1>8. PICK out \in Nat : out = limiter.output + Bytes(cut)
  BY <1>3, <1>6
<1>9. limiter' = [limiter EXCEPT !.output = out, !.outputHit = hit]
  <2>1. limiter' = [limiter EXCEPT !.output = limiter.output + Bytes(Allowed(p)),
                                   !.outputHit = limiter.outputHit \/ Room <= 0 \/ Bytes(p) > Room]
    BY <1>1 DEF Reserve
  <2>2. hit = (limiter.outputHit \/ Room <= 0 \/ Bytes(p) > Room)
    BY <1>3, <1>5, <1>7
  <2> QED BY <1>6, <1>8, <2>1, <2>2
<1>10. /\ limiter' \in LimiterType /\ limiter'.output = out /\ limiter'.outputHit = hit
       /\ limiter'.tokens = limiter.tokens /\ limiter'.over = limiter.over
  BY <1>3, <1>9 DEF LimiterType
<1>11. PICK next \in Seq(Parts) : next = IF hit THEN <<>> ELSE Tail(todo)
  <2>1. <<>> \in Seq(Parts)
    OBVIOUS
  <2>2. Tail(todo) \in Seq(Parts)
    BY <1>1, NextPart
  <2> QED BY <2>1, <2>2, Zenon
<1>12. todo' = next /\ run' = IF next = <<>> THEN AfterEvent(limiter') ELSE "converting"
  BY <1>1, <1>10, <1>11 DEF Converted
<1>13. StopsKept' /\ (limiter'.outputHit => run' \notin {"looping", "converting"})
  <2>1. BudgetKept'
    BY <1>1, <1>2, <1>10 DEF BudgetKept, StopsKept
  <2>2. limiter'.outputHit => next = <<>>
    BY <1>10, <1>11
  <2> QED BY <1>1, <1>12, <2>1, <2>2, GoesOn
<1>14. kept' = kept \o cut /\ kept' \in Seq(Points) /\ Bytes(kept') = Bytes(kept) + Bytes(cut)
  BY <1>1, <1>3, <1>6, BytesAdd
<1>15. LimitsTypeOK'
  <2>1. limiter' \in [iterations : Nat, output : Nat, outputHit : BOOLEAN, tokens : Nat, over : BOOLEAN]
    BY <1>10 DEF LimiterType
  <2> QED BY <1>1, <1>2, <1>12, <1>14, <2>1 DEF LimitsTypeOK
<1>16. limiter'.output = Bytes(kept') /\ Bytes(kept') <= limits'.output
  <2>1. PICK b \in Nat, c \in Nat : b = Bytes(kept) /\ c = Bytes(cut)
    BY <1>3, <1>6
  <2>2. out = b + c /\ Bytes(kept') = b + c /\ room = limits.output - b /\ c <= room
    BY <1>3, <1>5, <1>6, <1>8, <1>14, <2>1
  <2>3. b + c <= limits.output
    BY <1>3, <2>2
  <2> QED BY <1>1, <1>10, <2>2, <2>3
<1>17. CASE hit
  <2>1. room = 0 \/ Bytes(p) > room
    <3>1. room <= 0 \/ Bytes(p) > room
      BY <1>7, <1>17, Zenon
    <3>2. room <= 0 => room = 0
      OBVIOUS
    <3> QED BY <3>1, <3>2, Zenon
  <2>2. CodepointPrefix(p \o rest, room) = cut
    BY <1>4, <1>6, <2>1, CutBefore
  <2>3. CodepointPrefix(written, limits.output) = kept \o CodepointPrefix(p \o rest, limits.output - Bytes(kept))
    BY <1>3, <1>4, CutBehind
  <2>4. kept' = CodepointPrefix(written', limits'.output)
    BY <1>1, <1>5, <1>14, <2>2, <2>3
  <2>5. kept' = CodepointPrefix(written, limits.output)'
    BY <2>4 DEF CodepointPrefix, Bytes
  <2>6. TextKept'
    BY <1>10, <1>13, <1>16, <1>17, <2>5 DEF TextKept
  <2> QED BY <1>13, <1>15, <2>6 DEF LimitsInv
<1>18. CASE ~hit
  <2>1. Bytes(p) <= room
    <3>1. Bytes(p) \in Nat
      BY <1>4, BytesTyped
    <3>2. ~(Bytes(p) > room)
      BY <1>7, <1>18, Zenon
    <3> QED BY <3>1, <3>2
  <2>2. cut = p
    BY <1>4, <1>6, <2>1, AllFits
  <2>3. written = (kept \o p) \o rest
    <3>1. kept \in Seq(Points) /\ p \in Seq(Points) /\ rest \in Seq(Points)
      BY <1>3, <1>4
    <3>2. (kept \o p) \o rest = kept \o (p \o rest)
      BY <3>1, ConcatAssociative
    <3> QED BY <1>4, <3>2
  <2>4. written' = kept' \o TextOf(todo')
    BY <1>1, <1>11, <1>12, <1>14, <1>18, <2>2, <2>3 DEF rest
  <2>5. written' = kept' \o TextOf(todo)'
    BY <2>4 DEF TextOf, PartText
  <2>6. TextKept'
    BY <1>10, <1>16, <1>18, <2>5 DEF TextKept
  <2> QED BY <1>13, <1>15, <2>6 DEF LimitsInv
<1> QED BY <1>17, <1>18

LEMMA ConvertOtherKept ==
  ASSUME LimitsInv, ConvertCall \/ ConvertResponse
  PROVE  LimitsInv'
<1>1. LimitsTypeOK
  BY DEF LimitsInv
<1>2. CASE ConvertCall
  <2>1. run = "converting" /\ PartText(Head(todo)) = <<>> /\ Converted(Tail(todo))
        /\ UNCHANGED <<limits, kept, written>>
    BY <1>2 DEF ConvertCall, PartText, modelVars
  <2>2. limiter' = limiter \/ limiter' = [limiter EXCEPT !.iterations = limiter.iterations + 1]
    BY <1>2 DEF ConvertCall
  <2>3. limiter.iterations + 1 \in Nat /\ limiter \in LimiterType
    BY <1>1, LimitTypes
  <2>4. /\ limiter' \in LimiterType /\ limiter'.output = limiter.output
        /\ limiter'.outputHit = limiter.outputHit /\ limiter'.tokens = limiter.tokens
        /\ limiter'.over = limiter.over
    BY <2>2, <2>3 DEF LimiterType
  <2> QED BY <2>1, <2>4, NoTextKept
<1>3. CASE ConvertResponse
  <2>1. run = "converting" /\ PartText(Head(todo)) = <<>> /\ Converted(Tail(todo))
        /\ UNCHANGED <<limits, limiter, kept, written>>
    BY <1>3 DEF ConvertResponse, PartText, modelVars
  <2>2. limiter' \in LimiterType
    BY <1>1, <2>1, LimitTypes
  <2> QED BY <2>1, <2>2, NoTextKept
<1> QED BY <1>2, <1>3

\* The ends: nothing that is kept changes.
LEMMA EndsKept ==
  ASSUME LimitsInv, ModelEnds \/ ConvertGated \/ FinishFailed \/ Deadline \/ Cut
  PROVE  LimitsInv'
<1>1. LimitsTypeOK /\ StopsKept /\ TextKept
  BY DEF LimitsInv
<1>2. UNCHANGED <<limits, limiter, kept, todo, written>>
  BY DEF ModelEnds, ConvertGated, FinishFailed, Deadline, Cut, Ends, modelVars
<1>3. run' \in {"finishing", "awaiting_approval", "failed", "cut"}
  BY DEF ModelEnds, ConvertGated, FinishFailed, Deadline, Cut, Ends
<1>4. LimitsTypeOK' /\ TextKept'
  BY <1>1, <1>2, <1>3, TypesUnchanged, TextUnchanged
<1>5. run' = "finishing" => todo' = <<>> /\ said' = "all"
  BY <1>1, <1>2 DEF ModelEnds, ConvertGated, FinishFailed, Deadline, Cut, Ends, StopsKept
<1>6. StopsKept'
  BY <1>1, <1>2, <1>3, <1>5 DEF StopsKept
<1> QED BY <1>4, <1>6 DEF LimitsInv

LEMMA SucceededKept ==
  ASSUME LimitsInv, FinishSucceeded
  PROVE  LimitsInv'
<1>1. LimitsTypeOK /\ StopsKept /\ TextKept
  BY DEF LimitsInv
<1>2. /\ UNCHANGED <<limits, limiter, kept, todo, written>> /\ said' = said
      /\ run = "finishing" /\ run' = "succeeded" /\ ~limiter.over
      /\ finish' = <<Finalize[1], Finalize[2]>>
  BY DEF FinishSucceeded, Ends, modelVars
<1>3. LimitsTypeOK' /\ TextKept'
  BY <1>1, <1>2, TypesUnchanged, TextUnchanged
<1>4. finish' = Finalize
  BY <1>2 DEF Finalize
<1>5. Finalize' = Finalize /\ IterationHit(limiter)' = IterationHit(limiter)
        /\ MayCallAgain(limiter)' = MayCallAgain(limiter)
  BY <1>2 DEF Finalize, IterationHit, MayCallAgain
<1>6. StopsKept'
  BY <1>1, <1>2, <1>4, <1>5 DEF StopsKept
<1> QED BY <1>3, <1>6 DEF LimitsInv

LEMMA LimitsInitially ==
  ASSUME LimitsInit
  PROVE  LimitsInv
<1>1. LimitsTypeOK
  BY DEF LimitsInit, LimitsTypeOK
<1>2. limits.output \in Nat /\ limiter.output = 0 /\ limiter.outputHit = FALSE /\ limiter.tokens = 0
        /\ limits.budget \in Nat
  BY <1>1, LimitTypes DEF LimitsInit
<1>3. StopsKept
  BY <1>2 DEF LimitsInit, StopsKept
<1>4. written = kept \o TextOf(todo)
  <2>1. <<>> \in Seq(Points)
    OBVIOUS
  <2>2. TextOf(todo) = <<>> /\ kept = <<>> /\ written = <<>>
    BY NoText DEF LimitsInit
  <2> QED BY <2>1, <2>2, ConcatEmptySeq
<1>5. TextKept
  BY <1>2, <1>4, NoBytes DEF LimitsInit, TextKept
<1> QED BY <1>1, <1>3, <1>5 DEF LimitsInv

LEMMA LimitsKept ==
  ASSUME LimitsInv, [LimitsNext]_vars
  PROVE  LimitsInv'
<1>1. CASE UNCHANGED vars
  BY <1>1 DEF vars, modelVars, LimitsInv, LimitsTypeOK, StopsKept, TextKept, Finalize, IterationHit, MayCallAgain
<1>2. CASE \E parts \in Contents, usage \in Usages, failed \in BOOLEAN : Event(parts, usage, failed)
  BY <1>2, EventKept
<1>3. CASE ModelEnds \/ ConvertGated \/ FinishFailed \/ Deadline \/ Cut
  BY <1>3, EndsKept
<1>4. CASE ConvertText
  BY <1>4, ConvertTextKept
<1>5. CASE ConvertCall \/ ConvertResponse
  BY <1>5, ConvertOtherKept
<1>6. CASE FinishSucceeded
  BY <1>6, SucceededKept
<1> QED BY <1>1, <1>2, <1>3, <1>4, <1>5, <1>6 DEF LimitsNext

-----------------------------------------------------------------------------
(* Theorems                                                                *)

\* The bytes of the answer are counted and never exceed maxOutputBytes; until the limit what is
\* kept and what is still to be converted are all the text, and the loop ends for a reason.
THEOREM LimitsKeepTheText == LimitsSpec => []LimitsInv
<1>1. LimitsInit => LimitsInv
  BY LimitsInitially
<1>2. LimitsInv /\ [LimitsNext]_vars => LimitsInv'
  BY LimitsKept
<1> QED BY <1>1, <1>2, PTL DEF LimitsSpec

\* A run that ends with "stop" has kept all the text of its events, and the model ended it
\* itself or the tokens are exactly the budget.
THEOREM StopIsWhole == LimitsSpec => []StopMeansWhole
<1>1. LimitsInv => StopMeansWhole
  <2> SUFFICES ASSUME LimitsInv, run = "succeeded", finish[1] = "stop"
               PROVE  /\ kept = written
                      /\ said = "all" \/ (limits.budget > 0 /\ limiter.tokens = limits.budget)
    BY DEF StopMeansWhole
  <2>1. LimitsTypeOK /\ StopsKept /\ TextKept
    BY DEF LimitsInv
  <2>2. ~limiter.over /\ finish = Finalize /\ todo = <<>>
    BY <2>1 DEF StopsKept
  <2>3. ~IterationHit(limiter) /\ ~limiter.outputHit
    <3>1. <<"length", "iteration_limit">>[1] # "stop" /\ <<"length", "output_limit">>[1] # "stop"
      OBVIOUS
    <3> QED BY <2>2, <3>1 DEF Finalize
  <2>4. kept = written
    <3>1. written = kept \o TextOf(todo) /\ kept \in Seq(Points)
      BY <2>1, <2>3, LimitTypes DEF TextKept
    <3> QED BY <2>2, <3>1, NoText, ConcatEmptySeq
  <2>5. said = "all" \/ ~MayCallAgain(limiter)
    BY <2>1, <2>3 DEF StopsKept
  <2>6. CASE ~MayCallAgain(limiter)
    <3>1. limits.budget > 0 /\ limiter.tokens >= limits.budget
      BY <2>2, <2>3, <2>6 DEF MayCallAgain
    <3>2. limiter.tokens <= limits.budget /\ limiter.tokens \in Nat /\ limits.budget \in Nat
      BY <2>1, <2>2, <3>1, LimitTypes DEF StopsKept
    <3> QED BY <2>4, <3>1, <3>2
  <2> QED BY <2>4, <2>5, <2>6
<1> QED BY <1>1, LimitsKeepTheText, PTL

\* The answer that is put together delta by delta is at every moment a prefix of the text, and
\* at the limit the largest one of whole code points that fits.
THEOREM AnswerIsCutOnce == LimitsSpec => []AnswerIsLargestPrefix
<1>1. LimitsInv => AnswerIsLargestPrefix
  <2> SUFFICES ASSUME LimitsInv
               PROVE  AnswerIsLargestPrefix
    OBVIOUS
  <2>1. LimitsTypeOK /\ TextKept
    BY DEF LimitsInv
  <2>2. kept \in Seq(Points) /\ written \in Seq(Points) /\ todo \in Seq(Parts) /\ limits.output \in Nat
    BY <2>1, LimitTypes
  <2>3. \E n \in 0 .. Len(written) : kept = SubSeq(written, 1, n)
    <3>1. CASE limiter.outputHit
      BY <2>1, <2>2, <3>1, PrefixExists DEF TextKept
    <3>2. CASE ~limiter.outputHit
      <4>1. written = kept \o TextOf(todo) /\ TextOf(todo) \in Seq(Points)
        BY <2>1, <2>2, <3>2, TextOfTyped DEF TextKept
      <4>2. Len(kept) \in 0 .. Len(kept) /\ SubSeq(kept, 1, Len(kept)) = kept
        BY <2>2, WholeText
      <4> QED BY <2>2, <4>1, <4>2, CutInFirst
    <3> QED BY <3>1, <3>2
  <2>4. IsPrefix(kept, written)
    <3>1. PICK n \in 0 .. Len(written) : kept = SubSeq(written, 1, n)
      BY <2>3
    <3>2. Len(kept) = n /\ Len(written) \in Nat
      BY <2>2, <3>1, PrefixBytes
    <3>3. SubSeq(kept, 1, Len(kept)) = kept
      BY <2>2, WholeText
    <3> QED BY <3>1, <3>2, <3>3 DEF IsPrefix
  <2> QED BY <2>1, <2>4 DEF TextKept, AnswerIsLargestPrefix
<1> QED BY <1>1, LimitsKeepTheText, PTL
==============================================================================
