------------------------ MODULE ConfigDeliveryProofs ------------------------
(***************************************************************************)
(* Theorems about ConfigDelivery, for any contents, any number of edits,   *)
(* failures, crashes and deletions, and any interleaving of operator,      *)
(* watcher and reload manager.                                             *)
(***************************************************************************)
EXTENDS ConfigDelivery, SequenceTheorems, TLAPS

-----------------------------------------------------------------------------
(* Steps of the operator                                                   *)

LEMMA ConfigMapApplied ==
  ASSUME ApplyConfigMap
  PROVE  cm' = [version |-> work.version, content |-> work.content,
                uid |-> IF cm.version = 0 THEN cm.uid + 1 ELSE cm.uid]
BY DEF ApplyConfigMap, DesiredConfigMap

\* A resource that a step works on is one that was there.
LEMMA ThereType ==
  ASSUME NEW r \in Resource \cup {Absent}
  PROVE  /\ r.version \in 0 .. MaxEdits
         /\ r.version # 0 <=> r # Absent
         /\ r # Absent => r \in Resource /\ r.version \in 1 .. MaxEdits /\ r.content \in Contents
BY OperatorAssumption DEF OperatorAssumption, Resource, Absent

LEMMA ResourceVersion ==
  ASSUME NEW r \in Resource
  PROVE  r.version \in Nat \ {0} /\ r.version <= MaxEdits
BY OperatorAssumption DEF OperatorAssumption, Resource

LEMMA NotifyType ==
  ASSUME backlog \in Seq(Resource), NEW r \in Resource, NEW watched \in BOOLEAN
  PROVE  Notify(r, watched) \in Seq(Resource)
BY DEF Notify

LEMMA FailType ==
  ASSUME failures \in 0 .. MaxFailures, MayFail
  PROVE  failures' \in 0 .. MaxFailures
BY OperatorAssumption DEF OperatorAssumption, MayFail

LEMMA OperatorTypeStep ==
  ASSUME TypeOK, WorkIsThere, Forward, OperatorNext \/ Environment
  PROVE  OperatorType'
<1> USE DEF TypeOK, OperatorType
<1>0. /\ at \in {"validate", "deploy", "service", "status"} =>
           work \in Resource /\ cr \in Resource /\ work.version \in 1 .. MaxEdits
      /\ work.version \in 0 .. MaxEdits /\ cr.version \in 0 .. MaxEdits
  BY ThereType, OperatorAssumption DEF OperatorAssumption, WorkIsThere, Forward
<1>1. ASSUME NEW c \in Contents, Edit(c)
      PROVE  OperatorType'
  <2>1. cr' \in Resource
    BY <1>0, <1>1, OperatorAssumption DEF OperatorAssumption, Edit, Resource
  <2> QED BY <1>1, <2>1, NotifyType DEF Edit
<1>2. CASE DeleteConfigMap
  <2>1. cm' \in [version : 0 .. MaxEdits, uid : Nat, content : Contents]
    BY <1>2, OperatorAssumption DEF OperatorAssumption, DeleteConfigMap
  <2> QED BY <1>2, <2>1, FailType DEF DeleteConfigMap
<1>3. CASE Crash
  <2>1. backlog' \in Seq(Resource)
    BY <1>3 DEF Crash
  <2>2. failures' \in 0 .. MaxFailures
    BY <1>3, FailType DEF Crash
  <2> QED BY <1>3, <2>1, <2>2 DEF Crash, kubeVars
<1>4. CASE List
  BY <1>4 DEF List, kubeVars
<1>5. CASE ListFails
  BY <1>5, FailType DEF ListFails, kubeVars
<1>6. CASE OpenWatch
  <2>1. cr.version # 0 => cr \in Resource
    BY ThereType
  <2> QED BY <1>6, <2>1 DEF OpenWatch, kubeVars
<1>7. CASE WatchEvent
  <2>1. Head(backlog) \in Resource /\ Tail(backlog) \in Seq(Resource)
    BY <1>7 DEF WatchEvent
  <2> QED BY <1>7, <2>1 DEF WatchEvent, kubeVars
<1>8. CASE WatchEnds
  <2>1. backlog' \in Seq(Resource)
    BY <1>8 DEF WatchEnds
  <2> QED BY <1>8, <2>1 DEF WatchEnds, kubeVars
<1>9. ASSUME NEW ready \in BOOLEAN, Patch(ready), at \in {"validate", "status"}
      PROVE  /\ status' \in [ready : BOOLEAN, observed : 0 .. MaxEdits]
             /\ backlog' \in Seq(Resource) /\ failures' \in 0 .. MaxFailures
  BY <1>0, <1>9, NotifyType, FailType DEF Patch
<1>10. CASE Refuse
  BY <1>9, <1>10 DEF Refuse, Reconciled
<1>11. CASE ApplyConfigMap
  <2>1. /\ cm'.version = work.version /\ cm'.content = work.content
        /\ cm' \in [version : 0 .. MaxEdits, uid : Nat, content : Contents]
    BY <1>0, <1>11, ConfigMapApplied, ThereType DEF ApplyConfigMap, WorkIsThere
  <2> QED BY <1>11, <2>1 DEF ApplyConfigMap
<1>12. CASE Deploy
  BY <1>0, <1>12 DEF Deploy, DesiredDeployment
<1>13. CASE ApplyService
  BY <1>0, <1>13 DEF ApplyService, DesiredService
<1>14. CASE CallFails
  BY <1>14, FailType DEF CallFails, kubeVars, Reconciled
<1>15. CASE PatchStatus
  BY <1>9, <1>15 DEF PatchStatus, Reconciled
<1> QED
  BY <1>1, <1>2, <1>3, <1>4, <1>5, <1>6, <1>7, <1>8, <1>10, <1>11, <1>12, <1>13, <1>14, <1>15
     DEF OperatorNext, Environment

-----------------------------------------------------------------------------
(* Steps of the watcher and of the reload manager                          *)

LEMMA RebuildType ==
  ASSUME ReloadType
  PROVE  /\ rebuild.at = "check" => /\ rebuild.config \in Contents
                                    /\ rebuild.version \in 1 .. MaxEdits
                                    /\ rebuild.manager \in DOMAIN managers
         /\ rebuild.at = "close" => rebuild.manager \in DOMAIN managers
         /\ rebuild = Idle <=> rebuild.at = "idle"
BY DEF ReloadType, Idle

\* The configuration that is applied is one the user wrote.
LEMMA OverlayType ==
  ASSUME TypeOK, WorkIsThere, wat \in {"apply", "applying"}
  PROVE  overlay.content \in Contents /\ overlay.version \in 1 .. MaxEdits
BY ThereType DEF TypeOK, WatcherType, WorkIsThere

LEMMA BuildType ==
  ASSUME TypeOK, WorkIsThere, Applying, Build(overlay.content, overlay.version)
  PROVE  ReloadType' /\ failures' \in 0 .. MaxFailures
<1> USE DEF TypeOK, OperatorType, ReloadType
<1>1. /\ UNCHANGED <<config, source, generation, gate, serving>>
      /\ managers \in Seq({"open", "closed"}) /\ rebuild = Idle
  BY DEF Build, Applying
<1>2. CASE managers' = Append(managers, "open")
           /\ rebuild' = Replacement(overlay.content, overlay.version) /\ UNCHANGED failures
  <2>1. /\ managers' \in Seq({"open", "closed"}) /\ Len(managers') = Len(managers) + 1
        /\ DOMAIN managers = 1 .. Len(managers) /\ DOMAIN managers' = 1 .. Len(managers')
        /\ Len(managers) \in Nat
    BY <1>1, <1>2
  <2>2. serving' \in [runner : Configs, manager : DOMAIN managers']
    BY <1>1, <2>1
  <2>3. rebuild' \in [at : {"check"}, config : Contents, version : 1 .. MaxEdits,
                      manager : DOMAIN managers']
    BY <1>2, <2>1, OverlayType DEF Replacement, Applying
  <2> QED BY <1>1, <1>2, <2>1, <2>2, <2>3
<1>3. CASE MayFail /\ UNCHANGED <<managers, rebuild>>
  BY <1>1, <1>3, FailType
<1> QED BY <1>2, <1>3 DEF Build

LEMMA ApplyingType ==
  ASSUME TypeOK, WorkIsThere, Applying
  PROVE  TypeOK'
<1> USE DEF TypeOK
<1>1. CASE Ignore(overlay.content)
  BY <1>1 DEF Applying, Ignore, reloadVars, kubeVars, OperatorType, ReloadType, WatcherType
<1>2. CASE ApplyLive(overlay.content, overlay.version)
  <2>1. overlay.content \in Configs /\ overlay.version \in 0 .. MaxEdits
    BY OverlayType DEF Applying, Configs
  <2>2. ReloadType'
    BY <1>2, <2>1 DEF ApplyLive, ReloadType
  <2> QED BY <1>2, <2>2 DEF Applying, ApplyLive, kubeVars, OperatorType, WatcherType
<1>3. CASE Build(overlay.content, overlay.version)
  <2>1. OperatorType' /\ WatcherType'
    BY <1>3, BuildType DEF Applying, kubeVars, OperatorType, WatcherType
  <2> QED BY <1>3, <2>1, BuildType
<1> QED BY <1>1, <1>2, <1>3 DEF Applying

LEMMA RebuildingType ==
  ASSUME TypeOK, Rebuilding
  PROVE  TypeOK'
<1> USE DEF TypeOK
<1>1. CASE RebuildFails
  <2>1. ReloadType'
    BY <1>1 DEF RebuildFails, ReloadType
  <2>2. OperatorType' /\ WatcherType'
    BY <1>1, FailType DEF RebuildFails, Rebuilding, kubeVars, watcherVars, OperatorType, WatcherType
  <2> QED BY <2>1, <2>2
<1>2. CASE Swap
  <2>1. /\ rebuild.config \in Configs /\ rebuild.version \in 0 .. MaxEdits
        /\ rebuild.manager \in DOMAIN managers /\ serving.manager \in DOMAIN managers
    BY <1>2, RebuildType DEF Swap, Configs, ReloadType
  <2>2. ReloadType'
    BY <1>2, <2>1 DEF Swap, ReloadType
  <2>3. OperatorType' /\ WatcherType'
    BY <1>2 DEF Swap, Rebuilding, kubeVars, watcherVars, OperatorType, WatcherType
  <2> QED BY <2>2, <2>3
<1>3. CASE CloseRetired
  <2>1. managers' = [managers EXCEPT ![rebuild.manager] = "closed"]
    BY <1>3 DEF CloseRetired
  <2>2. managers \in Seq({"open", "closed"}) /\ rebuild.manager \in 1 .. Len(managers)
    BY <1>3, RebuildType DEF CloseRetired, ReloadType
  <2>3. managers' \in Seq({"open", "closed"}) /\ DOMAIN managers' = DOMAIN managers
    BY <2>1, <2>2, ExceptSeq
  <2>4. ReloadType'
    BY <1>3, <2>3 DEF CloseRetired, ReloadType
  <2>5. OperatorType' /\ WatcherType'
    BY <1>3 DEF CloseRetired, Rebuilding, kubeVars, watcherVars, OperatorType, WatcherType
  <2> QED BY <2>4, <2>5
<1> QED BY <1>1, <1>2, <1>3 DEF Rebuilding, ReloadNext

\* What is read is there: a resource, never Absent.
LEMMA ReadType ==
  ASSUME OperatorType, WorkIsThere, cm.version # 0
  PROVE  Read \in Resource /\ Read.version = cm.version /\ Read # Absent
BY DEF OperatorType, WorkIsThere, Read, Resource, Absent

LEMMA WatcherTypeStep ==
  ASSUME TypeOK, WorkIsThere, WatcherNext, UNCHANGED <<at, work, backlog, watching, reloadVars>>
  PROVE  TypeOK'
<1> USE DEF TypeOK
<1>1. /\ UNCHANGED <<cr, cm, deployed, status>>
      /\ news' \in {news, "none"} /\ (MayFail \/ UNCHANGED failures)
  BY DEF WatcherNext, GetAndApply, GetFails, Event, DeletedEvent, EndOfWatch, kubeVars
<1>2. OperatorType'
  <2>1. failures' \in 0 .. MaxFailures /\ news' \in {"none", "changed", "deleted"}
    BY <1>1, FailType DEF OperatorType
  <2> QED BY <1>1, <2>1 DEF OperatorType
<1>3. ReloadType'
  BY DEF ReloadType, reloadVars
<1>4. WatcherType'
  <2>1. CASE GetAndApply
    <3>1. cm.uid \in Nat
      BY DEF OperatorType
    <3>2. Read \in Resource
      BY <2>1, ReadType DEF GetAndApply
    <3> QED BY <2>1, <3>1, <3>2 DEF GetAndApply, WatcherType
  <2>2. CASE GetFails
    BY <2>2 DEF GetFails, watcherVars, WatcherType
  <2>3. CASE Event
    BY <2>3, ReadType DEF Event, WatcherType, WorkIsThere
  <2>4. CASE DeletedEvent \/ EndOfWatch
    BY <2>4 DEF DeletedEvent, EndOfWatch, WatcherType
  <2> QED BY <2>1, <2>2, <2>3, <2>4 DEF WatcherNext
<1> QED BY <1>2, <1>3, <1>4

LEMMA TypeStep ==
  ASSUME TypeOK, WorkIsThere, Forward, [Next]_vars
  PROVE  TypeOK'
<1>1. CASE (OperatorNext \/ Environment) /\ UNCHANGED <<reloadVars, watcherVars>>
  BY <1>1, OperatorTypeStep DEF TypeOK, ReloadType, WatcherType, reloadVars, watcherVars
<1>2. CASE Applied
  BY <1>2 DEF Applied, operatorVars, kubeVars, reloadVars, TypeOK, OperatorType, ReloadType, WatcherType
<1>3. CASE UNCHANGED vars
  BY <1>3 DEF vars, operatorVars, kubeVars, reloadVars, watcherVars,
              TypeOK, OperatorType, ReloadType, WatcherType
<1> QED BY <1>1, <1>2, <1>3, ApplyingType, RebuildingType, WatcherTypeStep
     DEF Next, Runtime, Operate

-----------------------------------------------------------------------------
(* The order of versions along the way                                     *)

LEMMA VersionTypes ==
  ASSUME TypeOK
  PROVE  /\ cr.version \in Nat /\ work.version \in Nat /\ cm.version \in Nat
         /\ status.observed \in Nat /\ deployed.deployment \in Nat /\ deployed.service \in Nat
         /\ source \in Nat /\ overlay.version \in Nat
         /\ Len(backlog) \in Nat /\ DOMAIN backlog = 1 .. Len(backlog)
         /\ \A i \in DOMAIN backlog : backlog[i] \in Resource /\ backlog[i].version \in Nat
<1>1. /\ cr.version \in Nat /\ work.version \in Nat /\ overlay.version \in Nat
  BY ThereType DEF TypeOK, OperatorType, WatcherType
<1>2. Len(backlog) \in Nat /\ DOMAIN backlog = 1 .. Len(backlog) /\ \A i \in DOMAIN backlog : backlog[i] \in Resource
  BY DEF TypeOK, OperatorType
<1>3. \A i \in DOMAIN backlog : backlog[i].version \in Nat
  BY <1>2 DEF Resource
<1>4. cm.version \in Nat
  BY DEF TypeOK, OperatorType
<1> QED BY <1>1, <1>2, <1>3, <1>4 DEF TypeOK, OperatorType, ReloadType

LEMMA NotifyRising ==
  ASSUME NEW first \in Nat, NEW last \in Nat, NEW r \in Resource, NEW watched \in BOOLEAN,
         backlog \in Seq(Resource), Rising(backlog, first, last), first <= last,
         last <= r.version
  PROVE  Rising(Notify(r, watched), first, r.version)
<1> DEFINE events == Notify(r, watched)
<1>1. /\ \A i \in DOMAIN backlog : backlog[i] \in Resource /\ backlog[i].version \in Nat
      /\ r.version \in Nat
  BY ResourceVersion
<1>2. CASE ~watched
  BY <1>1, <1>2 DEF Notify, Rising
<1>3. CASE watched
  <2>1. /\ Len(backlog) \in Nat /\ DOMAIN backlog = 1 .. Len(backlog)
        /\ DOMAIN events = 1 .. Len(backlog) + 1
        /\ \A i \in DOMAIN backlog : events[i] = backlog[i]
        /\ events[Len(backlog) + 1] = r
    BY <1>3 DEF Notify
  <2> HIDE DEF events
  <2>2. \A i \in DOMAIN events :
          i = Len(backlog) + 1 \/ (i \in DOMAIN backlog /\ events[i] = backlog[i])
    BY <2>1
  <2>3. \A i \in DOMAIN events : first <= events[i].version /\ events[i].version <= r.version
    BY <1>1, <2>1, <2>2 DEF Rising
  <2>4. ASSUME NEW i \in DOMAIN events, NEW j \in DOMAIN events, i <= j
        PROVE  events[i].version <= events[j].version
    <3>1. CASE j = Len(backlog) + 1
      BY <2>1, <2>3, <3>1
    <3>2. CASE j \in DOMAIN backlog
      <4>1. i \in DOMAIN backlog
        BY <2>1, <2>4, <3>2
      <4> QED BY <2>1, <2>4, <3>2, <4>1 DEF Rising
    <3> QED BY <2>2, <3>1, <3>2
  <2>5. Rising(events, first, r.version)
    BY <2>3, <2>4 DEF Rising
  <2> QED BY <2>5 DEF events
<1> QED BY <1>2, <1>3

LEMMA TailRising ==
  ASSUME NEW events \in Seq(Resource), events # <<>>, NEW first \in Nat, NEW last \in Nat,
         Rising(events, first, last)
  PROVE  /\ first <= Head(events).version /\ Head(events).version <= last
         /\ Rising(Tail(events), Head(events).version, last)
<1>1. /\ Len(events) \in Nat \ {0} /\ DOMAIN events = 1 .. Len(events) /\ Head(events) = events[1]
      /\ DOMAIN Tail(events) = 1 .. Len(events) - 1
      /\ \A i \in DOMAIN Tail(events) : Tail(events)[i] = events[i + 1]
  OBVIOUS
<1>2. \A i \in DOMAIN events : events[i].version \in Nat
  BY ResourceVersion
<1> QED BY <1>1, <1>2 DEF Rising

\* The operator keeps the resource it works on, or goes on to one that is not older.
LEMMA ForwardStep ==
  ASSUME TypeOK, WorkIsThere, Forward, OperatorNext \/ Environment
  PROVE  Forward' /\ work.version <= work'.version
<1> USE DEF Forward
<1>0. /\ cr.version \in Nat /\ work.version \in Nat /\ backlog \in Seq(Resource)
      /\ at \in {"validate", "deploy", "service", "status"} => cr \in Resource
      /\ watching \in BOOLEAN
  BY VersionTypes, ThereType, OperatorAssumption
     DEF OperatorAssumption, TypeOK, OperatorType, WorkIsThere
<1>1. ASSUME NEW c \in Contents, Edit(c)
      PROVE  Forward' /\ work.version <= work'.version
  <2>1. /\ cr' \in Resource /\ cr'.version = cr.version + 1 /\ work' = work
        /\ backlog' = Notify(cr', watching) /\ UNCHANGED <<at, watching>>
    BY <1>0, <1>1, OperatorAssumption DEF OperatorAssumption, Edit, Resource
  <2>2. Rising(backlog', work.version, cr'.version)
    BY <1>0, <2>1, NotifyRising
  <2> QED BY <1>0, <2>1, <2>2 DEF Notify
<1>2. CASE DeleteConfigMap \/ ListFails \/ ApplyConfigMap \/ Deploy \/ ApplyService \/ CallFails
  <2>1. UNCHANGED <<cr, work, backlog, watching>>
    BY <1>2 DEF DeleteConfigMap, ListFails, ApplyConfigMap, Deploy, ApplyService, CallFails, kubeVars
  <2>2. at' \in {"list", "open"} => ~watching
    BY <1>2 DEF DeleteConfigMap, ListFails, ApplyConfigMap, Deploy, ApplyService, CallFails,
                kubeVars, Reconciled
  <2> QED BY <1>0, <2>1, <2>2
<1>3. CASE Crash \/ WatchEnds \/ List
  <2>1. /\ cr' = cr /\ work' \in {work, cr} /\ backlog' = <<>> /\ ~watching'
    BY <1>3 DEF Crash, WatchEnds, List, kubeVars
  <2> QED BY <1>0, <2>1 DEF Rising
<1>4. CASE OpenWatch
  <2>1. /\ UNCHANGED <<cr, work>> /\ watching' /\ at' = "watch"
        /\ backlog' = <<>> \/ backlog' = <<cr>>
    BY <1>4 DEF OpenWatch, kubeVars
  <2> QED BY <1>0, <2>1 DEF Rising
<1>5. CASE WatchEvent
  <2>1. /\ work.version <= work'.version /\ work'.version <= cr.version
        /\ Rising(backlog', work'.version, cr.version)
    BY <1>0, <1>5, TailRising DEF WatchEvent
  <2> QED BY <1>5, <2>1 DEF WatchEvent, kubeVars
<1>6. CASE Refuse \/ PatchStatus
  <2>1. UNCHANGED <<cr, work, watching>> /\ at' = Reconciled /\ at \in {"validate", "status"}
        /\ backlog' \in {backlog, Notify(cr, watching)}
    BY <1>6 DEF Refuse, PatchStatus, Patch
  <2>2. Rising(backlog', work.version, cr.version)
    BY <1>0, <2>1, NotifyRising
  <2> QED BY <1>0, <2>1, <2>2 DEF Reconciled, Notify
<1> QED BY <1>1, <1>2, <1>3, <1>4, <1>5, <1>6 DEF OperatorNext, Environment

\* The ConfigMap changes in two steps only, the overlay when it is read.
LEMMA ConfigMapKept ==
  ASSUME [Next]_vars, ~ApplyConfigMap, ~DeleteConfigMap
  PROVE  cm' = cm /\ news' \in {news, "none"}
BY DEF Next, vars, operatorVars, kubeVars, Runtime, WatcherNext, GetAndApply, GetFails, Event,
       DeletedEvent, EndOfWatch, Applying, Rebuilding, Applied, Operate, OperatorNext, Environment,
       Edit, Crash, List, ListFails, OpenWatch, WatchEvent, WatchEnds, Refuse, Deploy, ApplyService,
       CallFails, PatchStatus

LEMMA OverlayKept ==
  ASSUME [Next]_vars, ~GetAndApply, ~(Event /\ overlay' = Read)
  PROVE  overlay' = overlay /\ (wat' \in {"apply", "applying"} => wat \in {"apply", "applying"})
BY DEF Next, vars, watcherVars, Runtime, WatcherNext, GetFails, Event, DeletedEvent, EndOfWatch,
       Applying, Rebuilding, Applied, Operate

LEMMA ThereStep ==
  ASSUME TypeOK, WorkIsThere, Forward, TypeOK', [Next]_vars
  PROVE  WorkIsThere'
<1>1. at' \in {"validate", "deploy", "service", "status"} => work' # Absent
  <2>1. CASE UNCHANGED work /\ at \in {"validate", "deploy", "service", "status"}
    BY <2>1 DEF WorkIsThere
  <2>2. CASE List
    BY <2>2 DEF List, Absent
  <2>3. CASE WatchEvent
    <3>1. work' \in Resource
      BY <2>3 DEF WatchEvent, TypeOK, OperatorType
    <3> QED BY <3>1, ResourceVersion DEF Absent
  <2> QED
    BY <2>1, <2>2, <2>3
       DEF Next, vars, operatorVars, kubeVars, Runtime, WatcherNext, Applying, Rebuilding, Applied,
           Operate, OperatorNext, Environment, Edit, DeleteConfigMap, Crash, ListFails, OpenWatch,
           WatchEnds, Refuse, ApplyConfigMap, Deploy, ApplyService, CallFails, PatchStatus, Reconciled
<1>2. /\ news' = "changed" => cm'.version # 0
      /\ cm'.version # 0 => cm' \in [version : 1 .. MaxEdits, uid : Nat, content : Contents]
  <2>1. CASE ApplyConfigMap
    <3>1. work.version \in 1 .. MaxEdits /\ work.content \in Contents /\ cm.uid \in Nat
      BY <2>1, ThereType DEF ApplyConfigMap, WorkIsThere, TypeOK, OperatorType
    <3> QED BY <2>1, <3>1, ConfigMapApplied
  <2>2. CASE DeleteConfigMap
    BY <2>2 DEF DeleteConfigMap, TypeOK, OperatorType
  <2> QED BY <2>1, <2>2, ConfigMapKept DEF WorkIsThere
<1>3. wat' \in {"apply", "applying"} => overlay' # Absent
  <2>1. CASE GetAndApply \/ (Event /\ overlay' = Read)
    BY <2>1, ReadType DEF GetAndApply, Event, WorkIsThere, TypeOK
  <2> QED BY <2>1, OverlayKept DEF WorkIsThere
<1> QED BY <1>1, <1>2, <1>3 DEF WorkIsThere

-----------------------------------------------------------------------------
(* What is applied follows what is worked on                               *)

\* Work is taken from the list or from a watch, and from nowhere else.
LEMMA WorkMoves ==
  ASSUME TypeOK, WorkIsThere, Forward, [Next]_vars
  PROVE  /\ work.version <= work'.version
         /\ at \in {"validate", "deploy", "service", "status"} => work' = work
<1>1. CASE OperatorNext \/ Environment
  BY <1>1, ForwardStep
     DEF Environment, Edit, DeleteConfigMap, Crash, kubeVars, OperatorNext, List, ListFails, OpenWatch,
         WatchEvent, WatchEnds, Refuse, ApplyConfigMap, Deploy, ApplyService, CallFails, PatchStatus
<1>2. CASE UNCHANGED work
  BY <1>2, VersionTypes
<1> QED
  BY <1>1, <1>2 DEF Next, vars, operatorVars, Runtime, Applying, Rebuilding, Applied, Operate

LEMMA AppliedStep ==
  ASSUME TypeOK, WorkIsThere, Forward, InOrderOfCalls, ReadyMeansApplied, TypeOK', [Next]_vars
  PROVE  InOrderOfCalls' /\ ReadyMeansApplied'
<1> USE DEF InOrderOfCalls, ReadyMeansApplied
<1>0. /\ work.version <= work'.version /\ work.version \in Nat /\ work'.version \in Nat
      /\ at \in {"validate", "deploy", "service", "status"} => work' = work
      /\ cm.version \in Nat /\ status.observed \in Nat
      /\ deployed.deployment \in Nat /\ deployed.service \in Nat
  BY WorkMoves, VersionTypes, ThereType DEF TypeOK, OperatorType
<1>1. CASE ApplyConfigMap
  BY <1>0, <1>1, ConfigMapApplied DEF ApplyConfigMap
<1>2. CASE DeleteConfigMap
  <2>1. cm'.version = 0
    BY <1>2 DEF DeleteConfigMap, TypeOK, OperatorType
  <2> QED BY <1>0, <1>2, <2>1 DEF DeleteConfigMap
<1>3. CASE Deploy
  <2>1. deployed'.deployment = work.version /\ deployed'.service = deployed.service
    BY <1>3 DEF Deploy, DesiredDeployment, TypeOK, OperatorType
  <2> QED BY <1>0, <1>3, <2>1 DEF Deploy
<1>4. CASE ApplyService
  <2>1. deployed'.service = work.version /\ deployed'.deployment = deployed.deployment
    BY <1>4 DEF ApplyService, DesiredService, TypeOK, OperatorType
  <2> QED BY <1>0, <1>4, <2>1 DEF ApplyService
<1>5. CASE Refuse
  <2>1. status' \in {status, [ready |-> FALSE, observed |-> work.version]}
    BY <1>5 DEF Refuse, Patch
  <2> QED BY <1>0, <1>5, <2>1 DEF Refuse, Reconciled
<1>6. CASE PatchStatus
  <2>1. status' \in {status, [ready |-> TRUE, observed |-> work.version]}
    BY <1>6 DEF PatchStatus, Patch
  <2> QED BY <1>0, <1>6, <2>1 DEF PatchStatus, Reconciled
<1>7. ASSUME UNCHANGED <<cm, deployed, status>>,
             \/ at' \in {"list", "open", "watch", "validate"}
             \/ at' = at /\ work' = work
      PROVE  InOrderOfCalls' /\ ReadyMeansApplied'
  BY <1>0, <1>7
<1>8. CASE List \/ OpenWatch \/ WatchEvent \/ WatchEnds \/ CallFails \/ Crash
  <2>1. /\ UNCHANGED <<cm, deployed, status>>
        /\ at' \in {"list", "open", "watch", "validate"}
    BY <1>8 DEF List, OpenWatch, WatchEvent, WatchEnds, CallFails, Crash, kubeVars, Reconciled
  <2> QED BY <1>7, <2>1
<1>9. CASE UNCHANGED <<cm, deployed, status, at, work>>
  BY <1>7, <1>9
<1> QED
  BY <1>1, <1>2, <1>3, <1>4, <1>5, <1>6, <1>8, <1>9
     DEF Next, vars, operatorVars, kubeVars, Runtime, WatcherNext, GetAndApply, GetFails, Event,
         DeletedEvent, EndOfWatch, Applying, Rebuilding, Applied, Operate, OperatorNext, Environment,
         Edit, ListFails

-----------------------------------------------------------------------------
(* What serves follows what is applied                                     *)

LEMMA BehindStep ==
  ASSUME TypeOK, WorkIsThere, Forward, InOrderOfCalls, Behind, TypeOK', [Next]_vars
  PROVE  Behind'
<1> USE DEF Behind
<1>0. /\ work.version <= work'.version /\ work.version \in Nat /\ work'.version \in Nat
      /\ cm.version \in Nat /\ cm'.version \in Nat /\ overlay.version \in Nat /\ source \in Nat
      /\ cm.version <= work.version
      /\ rebuild = Idle <=> rebuild.at = "idle"
  <2>1. /\ work.version <= work'.version /\ work.version \in Nat /\ cm.version \in Nat
        /\ overlay.version \in Nat /\ source \in Nat
    BY WorkMoves, VersionTypes
  <2>2. work'.version \in Nat /\ cm'.version \in Nat
    <3>1. work' \in Resource \cup {Absent} /\ cm'.version \in Nat
      BY DEF TypeOK, OperatorType
    <3> QED BY <3>1, ThereType
  <2>3. cm.version <= work.version
    BY DEF InOrderOfCalls
  <2>4. rebuild = Idle <=> rebuild.at = "idle"
    BY RebuildType DEF TypeOK
  <2> QED BY <2>1, <2>2, <2>3, <2>4
<1>1. CASE UNCHANGED <<reloadVars, watcherVars>>
  <2>1. cm'.version # 0 => overlay.version <= cm'.version
    <3>1. CASE ApplyConfigMap
      BY <1>0, <3>1, ConfigMapApplied
    <3>2. CASE DeleteConfigMap
      BY <3>2 DEF DeleteConfigMap, TypeOK, OperatorType
    <3> QED BY <3>1, <3>2, ConfigMapKept
  <2> QED BY <1>0, <1>1, <2>1 DEF reloadVars, watcherVars
<1>2. CASE WatcherNext /\ UNCHANGED <<at, work, backlog, watching, reloadVars>>
  <2>1. cm' = cm /\ wat # "applying" /\ wat' # "applying"
    BY <1>2 DEF WatcherNext, GetAndApply, GetFails, Event, DeletedEvent, EndOfWatch, kubeVars, watcherVars
  <2>2. overlay' = overlay \/ (cm.version # 0 /\ overlay' = Read)
    BY <1>2 DEF WatcherNext, GetAndApply, GetFails, Event, DeletedEvent, EndOfWatch, watcherVars, WorkIsThere
  <2>3. /\ overlay.version <= overlay'.version /\ overlay'.version \in Nat
        /\ overlay'.version <= work.version /\ (cm.version # 0 => overlay'.version <= cm.version)
    BY <1>0, <2>2, ReadType DEF TypeOK
  <2> QED BY <1>0, <1>2, <2>1, <2>3 DEF reloadVars
<1>3. CASE Applying
  <2>1. UNCHANGED <<cm, work, overlay>> /\ wat' = "applying" /\ rebuild = Idle
    BY <1>3 DEF Applying, kubeVars
  <2>2. /\ source' \in {source, overlay.version}
        /\ rebuild' \in {Idle, Replacement(overlay.content, overlay.version)}
    BY <1>3, <2>1 DEF Applying, Ignore, ApplyLive, Build, reloadVars
  <2> QED BY <1>0, <2>1, <2>2 DEF Replacement, Idle
<1>4. CASE Rebuilding
  <2>1. UNCHANGED <<cm, work, overlay, wat>>
    BY <1>4 DEF Rebuilding, kubeVars, watcherVars
  <2>2. source' = source \/ (rebuild.at = "check" /\ source' = rebuild.version)
    BY <1>4 DEF Rebuilding, ReloadNext, RebuildFails, Swap, CloseRetired
  <2>3. rebuild'.at # "check" /\ rebuild.at # "idle"
    BY <1>4 DEF Rebuilding, ReloadNext, RebuildFails, Swap, CloseRetired, Idle
  <2> QED BY <1>0, <2>1, <2>2, <2>3
<1>5. CASE Applied
  BY <1>5, <1>0 DEF Applied, operatorVars, kubeVars, reloadVars, Idle
<1> QED BY <1>1, <1>2, <1>3, <1>4, <1>5 DEF Next, vars, Runtime, Operate

\* The configuration is never replaced by an older one.
LEMMA SourceStep ==
  ASSUME TypeOK, Behind, [Next]_vars
  PROVE  source' >= source
<1>0. source \in Nat /\ overlay.version \in Nat /\ source <= overlay.version
  BY VersionTypes DEF Behind
<1>1. CASE Applying
  <2>1. source' \in {source, overlay.version}
    BY <1>1 DEF Applying, Ignore, ApplyLive, Build, reloadVars
  <2> QED BY <1>0, <2>1
<1>2. CASE Rebuilding
  <2>1. source' = source \/ (rebuild.at = "check" /\ source' = rebuild.version)
    BY <1>2 DEF Rebuilding, ReloadNext, RebuildFails, Swap, CloseRetired
  <2> QED BY <1>0, <2>1 DEF Behind
<1>3. CASE UNCHANGED reloadVars
  BY <1>0, <1>3 DEF reloadVars
<1> QED BY <1>1, <1>2, <1>3 DEF Next, vars, Runtime, Applied, Operate

LEMMA ServingStep ==
  ASSUME TypeOK, WorkIsThere, Behind, Replaceable, OneGenerationServes, [Next]_vars
  PROVE  Replaceable' /\ OneGenerationServes'
<1> USE DEF Replaceable, OneGenerationServes
<1>0. /\ managers \in Seq({"open", "closed"}) /\ DOMAIN managers = 1 .. Len(managers)
      /\ Len(managers) \in Nat /\ serving.manager \in DOMAIN managers
      /\ rebuild = Idle <=> rebuild.at = "idle"
  BY RebuildType DEF TypeOK, ReloadType
<1>1. CASE Applying
  <2>1. rebuild = Idle /\ serving' = serving
    BY <1>1 DEF Applying, Ignore, ApplyLive, Build, reloadVars
  <2>2. CASE Ignore(overlay.content)
    BY <2>1, <2>2 DEF Ignore, reloadVars
  <2>3. CASE ApplyLive(overlay.content, overlay.version)
    <3>1. overlay.content.model = config.model
      BY <2>3 DEF ApplyLive, Category
    <3> QED BY <2>1, <2>3, <3>1 DEF ApplyLive
  <2>4. CASE managers' = Append(managers, "open") /\ config' = config
             /\ rebuild' = Replacement(overlay.content, overlay.version)
    BY <1>0, <2>1, <2>4 DEF Replacement
  <2>5. CASE UNCHANGED <<managers, rebuild, config>>
    BY <2>1, <2>5
  <2> QED BY <1>1, <2>2, <2>3, <2>4, <2>5 DEF Applying, Build
<1>2. CASE RebuildFails
  BY <1>0, <1>2 DEF RebuildFails, Idle
<1>3. CASE Swap
  <2>1. /\ config' = rebuild.config /\ managers' = managers
        /\ serving'.runner = rebuild.config /\ serving'.manager = rebuild.manager
        /\ rebuild'.at = "close" /\ rebuild'.manager = serving.manager
        /\ rebuild.at = "check"
    BY <1>3 DEF Swap
  <2> QED BY <1>0, <2>1
<1>4. CASE CloseRetired
  <2>1. /\ rebuild.at = "close" /\ UNCHANGED <<config, serving>> /\ rebuild'.at = "idle"
        /\ rebuild' = Idle
        /\ managers' = [managers EXCEPT ![rebuild.manager] = "closed"]
    BY <1>4 DEF CloseRetired, Idle
  <2>2. managers'[serving.manager] = managers[serving.manager]
    BY <1>0, <2>1
  <2> QED BY <2>1, <2>2
<1>5. CASE UNCHANGED reloadVars
  BY <1>5 DEF reloadVars
<1> QED
  BY <1>1, <1>2, <1>3, <1>4, <1>5 DEF Next, vars, Runtime, Rebuilding, ReloadNext, Applied, Operate

-----------------------------------------------------------------------------
(* The theorems                                                            *)

LEMMA Initially ==
  ASSUME Init
  PROVE  TypeOK /\ DeliveryInv
<1> USE DEF Init, OperatorInit, ReloadInit, WatcherInit
<1>1. OperatorType
  <2>1. backlog \in Seq(Resource) /\ failures \in 0 .. MaxFailures
    BY OperatorAssumption DEF OperatorAssumption
  <2>2. deployed \in [deployment : 0 .. MaxEdits, service : 0 .. MaxEdits]
    BY OperatorAssumption DEF OperatorAssumption
  <2>3. status \in [ready : BOOLEAN, observed : 0 .. MaxEdits]
    BY OperatorAssumption DEF OperatorAssumption
  <2> QED BY <2>1, <2>2, <2>3 DEF OperatorType, Absent
<1>2. ReloadType
  BY OperatorAssumption DEF OperatorAssumption, ReloadType, Configs
<1>3. WatcherType
  BY DEF WatcherType, Absent
<1>4. WorkIsThere /\ Forward /\ InOrderOfCalls /\ Behind
  BY DEF WorkIsThere, Forward, Rising, InOrderOfCalls, Behind, Absent, Idle
<1>5. Replaceable /\ ReadyMeansApplied /\ OneGenerationServes
  BY DEF Replaceable, Idle, ReadyMeansApplied, OneGenerationServes
<1> QED BY <1>1, <1>2, <1>3, <1>4, <1>5 DEF TypeOK, DeliveryInv

LEMMA Inductive ==
  ASSUME TypeOK, DeliveryInv, [Next]_vars
  PROVE  TypeOK' /\ DeliveryInv'
<1> USE DEF DeliveryInv
<1>1. TypeOK'
  BY TypeStep
<1>2. WorkIsThere'
  BY <1>1, ThereStep
<1>3. Forward'
  <2>1. CASE OperatorNext \/ Environment
    BY <2>1, ForwardStep
  <2>2. CASE UNCHANGED <<cr, at, work, backlog, watching>>
    BY <2>2 DEF Forward, Rising
  <2> QED
    BY <2>1, <2>2
       DEF Next, vars, operatorVars, kubeVars, Runtime, WatcherNext, GetAndApply, GetFails, Event,
           DeletedEvent, EndOfWatch, Applying, Rebuilding, Applied, Operate
<1>4. InOrderOfCalls' /\ ReadyMeansApplied'
  BY <1>1, AppliedStep
<1>5. Behind'
  BY <1>1, BehindStep
<1>6. Replaceable' /\ OneGenerationServes'
  BY ServingStep
<1> QED BY <1>1, <1>2, <1>3, <1>4, <1>5, <1>6

\* The configuration, the objects of the cluster, the events of the watches and the components
\* that serve are what the code makes of them, and the order of versions from the resource to
\* what serves is never broken.
THEOREM DeliveryKept == Spec => [](TypeOK /\ DeliveryInv)
<1>1. Init => TypeOK /\ DeliveryInv
  BY Initially
<1>2. TypeOK /\ DeliveryInv /\ [Next]_vars => (TypeOK /\ DeliveryInv)'
  BY Inductive
<1> QED BY <1>1, <1>2, PTL DEF Spec

\* A resource that is said to be ready at a version has been applied at that version
\* (operator.py: the status is patched last), whatever fails or crashes in between.
THEOREM ReadyIsApplied == Spec => []ReadyMeansApplied
<1>1. TypeOK /\ DeliveryInv => ReadyMeansApplied
  BY DEF DeliveryInv
<1> QED BY <1>1, DeliveryKept, PTL

\* At every moment requests meet the components of one generation, open ones (reload.py).
THEOREM ServesOneGeneration == Spec => []OneGenerationServes
<1>1. TypeOK /\ DeliveryInv => OneGenerationServes
  BY DEF DeliveryInv
<1> QED BY <1>1, DeliveryKept, PTL

\* The configuration never goes back to an older version of the resource, over lists, watches,
\* crashes of the operator and rebuilds that take their time.
THEOREM NeverReturns == Spec => NeverGoesBack
<1>1. TypeOK /\ DeliveryInv /\ [Next]_vars => [source' >= source]_vars
  BY SourceStep DEF DeliveryInv
<1> QED BY <1>1, DeliveryKept, PTL DEF Spec, NeverGoesBack
=============================================================================
