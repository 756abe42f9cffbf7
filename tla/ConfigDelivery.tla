--------------------------- MODULE ConfigDelivery ---------------------------
(***************************************************************************)
(* From the custom resource to the components that serve: the operator,    *)
(* the watcher of one runtime and its reload manager over one API server.  *)
(***************************************************************************)
EXTENDS ConfigWatcher

vars == <<operatorVars, reloadVars, watcherVars>>

Init == OperatorInit /\ ReloadInit /\ WatcherInit

\* The watcher awaits apply_tier8, so one apply is under way at a time.
Applying ==
  /\ wat = "apply" /\ rebuild = Idle
  /\ \/ Ignore(overlay.content) \/ ApplyLive(overlay.content, overlay.version)
     \/ Build(overlay.content, overlay.version)
  /\ wat' = "applying"
  /\ UNCHANGED <<kubeVars, at, work, backlog, watching, seen, overlay>>
Rebuilding ==
  /\ ReloadNext
  /\ UNCHANGED <<kubeVars, at, work, backlog, watching, watcherVars>>
Applied ==
  /\ wat = "applying" /\ rebuild = Idle
  /\ wat' = "watch"
  /\ UNCHANGED <<operatorVars, reloadVars, seen, overlay>>

Runtime ==
  \/ WatcherNext /\ UNCHANGED <<at, work, backlog, watching, reloadVars>>
  \/ Applying \/ Rebuilding \/ Applied
Operate == OperatorNext /\ UNCHANGED <<reloadVars, watcherVars>>

Next == Runtime \/ Operate \/ (Environment /\ UNCHANGED <<reloadVars, watcherVars>>)

\* Both loops go on whatever fails; watches time out. No user has to edit.
Spec == Init /\ [][Next]_vars /\ WF_vars(Runtime) /\ WF_vars(Operate)

-----------------------------------------------------------------------------
\* What a user wrote may be refused, by the operator or the runtime, or need a restart.
Deliverable ==
  /\ cr.version # 0 /\ cr.content.flaw = "none" /\ cr.content.port = config.port

\* Level-triggered delivery: however edits, failed calls, lost watches, crashes, deletions of
\* the ConfigMap and failed rebuilds interleave, once the users have stopped the runtime runs
\* what they wrote last, for good, unless it may not be applied.
Settles == <>[](Deliverable => config = cr.content)

\* The configuration never goes back to an older version of the resource, whatever lists and
\* watches the operator and the watcher read it from.
NeverGoesBack == [][source' >= source]_vars

\* A resource that is said to be ready at a version has been applied at that version: the
\* ConfigMap (unless it was deleted by hand), the Deployment and the Service.
ReadyMeansApplied ==
  status.ready => /\ cm.version # 0 => cm.version >= status.observed
                  /\ deployed.deployment >= status.observed
                  /\ deployed.service >= status.observed

\* Requests never see half of two generations (ENG-01): at every moment, also while a rebuild
\* is under way or after it failed, the runner that serves was built for the model the
\* configuration names, and its manager is started and not closed.
OneGenerationServes ==
  serving.runner.model = config.model /\ managers[serving.manager] = "open"

-----------------------------------------------------------------------------
(* The inductive invariant behind the safety properties                    *)

Resource == [version : 1 .. MaxEdits, content : Contents]
Configs == Contents \cup {BootConfig}

OperatorType ==
  /\ cr \in Resource \cup {Absent} /\ work \in Resource \cup {Absent}
  /\ cm \in [version : {0}, uid : Nat] \cup [version : 0 .. MaxEdits, uid : Nat, content : Contents]
  /\ deployed \in [deployment : 0 .. MaxEdits, service : 0 .. MaxEdits]
  /\ status \in [ready : BOOLEAN, observed : 0 .. MaxEdits]
  /\ at \in {"list", "open", "watch", "validate", "deploy", "service", "status"}
  /\ backlog \in Seq(Resource) /\ watching \in BOOLEAN
  /\ news \in {"none", "changed", "deleted"} /\ failures \in 0 .. MaxFailures

ReloadType ==
  /\ config \in Configs /\ source \in 0 .. MaxEdits /\ generation \in Nat
  /\ gate \in {c.cap : c \in Configs}
  /\ managers \in Seq({"open", "closed"})
  /\ serving \in [runner : Configs, manager : DOMAIN managers]
  /\ rebuild \in {Idle}
       \cup [at : {"check"}, config : Contents, version : 1 .. MaxEdits, manager : DOMAIN managers]
       \cup [at : {"close"}, manager : DOMAIN managers]

WatcherType ==
  /\ wat \in {"get", "watch", "apply", "applying"} /\ seen \in Nat
  /\ overlay \in Resource \cup {Absent}

\* The variables hold what the code stores in them.
TypeOK == OperatorType /\ ReloadType /\ WatcherType

\* A step of the operator or the watcher works on a resource that was there.
WorkIsThere ==
  /\ at \in {"validate", "deploy", "service", "status"} => work # Absent
  /\ news = "changed" => cm.version # 0
  /\ cm.version # 0 => cm \in [version : 1 .. MaxEdits, uid : Nat, content : Contents]
  /\ wat \in {"apply", "applying"} => overlay # Absent

\* Events whose versions rise from the first to the last.
Rising(events, first, last) ==
  /\ \A i \in DOMAIN events : first <= events[i].version /\ events[i].version <= last
  /\ \A i, j \in DOMAIN events : i <= j => events[i].version <= events[j].version

\* The operator never turns to an older version: what is listed or watched is not older than
\* what it worked on, and nothing of an earlier watch is left.
Forward ==
  /\ work.version <= cr.version
  /\ Rising(backlog, work.version, cr.version)
  /\ ~watching => backlog = <<>>
  /\ at \in {"list", "open"} => ~watching

\* What was applied is of a version the operator has worked on, in the order of its calls.
InOrderOfCalls ==
  /\ cm.version <= work.version /\ status.observed <= work.version
  /\ deployed.deployment <= work.version /\ deployed.service <= work.version
  /\ at \in {"deploy", "service", "status"} => cm.version \in {0, work.version}
  /\ at \in {"service", "status"} => deployed.deployment = work.version
  /\ at = "status" => deployed.service = work.version

\* The runtime is never ahead of what it read, nor that of what is there to be read.
Behind ==
  /\ source <= overlay.version /\ overlay.version <= work.version
  /\ cm.version # 0 => overlay.version <= cm.version
  /\ rebuild # Idle => wat = "applying"
  /\ rebuild.at = "check" => rebuild.version = overlay.version

\* A replacement under way is whole, and is not what serves; what is to be closed is not either.
Replaceable ==
  /\ rebuild.at = "check" => managers[rebuild.manager] = "open"
  /\ rebuild # Idle => rebuild.manager # serving.manager

DeliveryInv == /\ WorkIsThere /\ Forward /\ InOrderOfCalls /\ Behind /\ Replaceable
               /\ ReadyMeansApplied /\ OneGenerationServes
=============================================================================
