------------------------------ MODULE Operator ------------------------------
(***************************************************************************)
(* The AgentConfig operator (src/k8s_operator): it lists the custom        *)
(* resources, reconciles each into a ConfigMap, a Deployment and a Service *)
(* with a status, then watches until the watch ends and lists again. One   *)
(* resource; every call to the API server may fail. The API server and its *)
(* users are the environment.                                              *)
(***************************************************************************)
EXTENDS Integers, Sequences

CONSTANTS Contents,     \* what users write
          MaxEdits,     \* bound of the model: edits of the resource
          MaxFailures   \* bound of the model: failed calls, crashes, deletions by hand

\* A content is a configuration (the fields cap, model and port stand for the settings that
\* apply live, by a rebuild and after a restart) and its flaw: what the operator's own
\* validation refuses ("bad"), what only the runtime refuses ("unfit"), or none.
ASSUME OperatorAssumption ==
  /\ MaxEdits \in Nat /\ MaxFailures \in Nat
  /\ \A c \in Contents : c.flaw \in {"none", "bad", "unfit"}

VARIABLES
  cr,         \* the resource; version 0 is absent
  cm,         \* the ConfigMap and the version of the resource it was made from; 0 is absent
  deployed,   \* the versions the Deployment and the Service were made from
  status,     \* what the status of the resource says
  at,         \* where the operator is
  work,       \* the resource it is reconciling
  backlog,    \* events of the open watch it has not handled
  watching,   \* its watch is open
  news,       \* what the watch of the runtime has to deliver about the ConfigMap
  failures

kubeVars == <<cr, cm, deployed, status, news>>
operatorVars == <<kubeVars, at, work, backlog, watching, failures>>

Absent == [version |-> 0]

MayFail == failures < MaxFailures /\ failures' = failures + 1

\* What an open watch of the resource sees.
Notify(now, watched) == IF watched THEN Append(backlog, now) ELSE backlog

-----------------------------------------------------------------------------
(* The environment *)

Edit(c) ==
  /\ cr.version < MaxEdits
  /\ cr' = [version |-> cr.version + 1, content |-> c]
  /\ backlog' = Notify(cr', watching)
  /\ UNCHANGED <<cm, deployed, status, news, at, work, watching, failures>>

\* Someone deletes the ConfigMap by hand. A watch that has a deletion to deliver ends with
\* it; a change it had not delivered finds nothing to read, or another uid.
DeleteConfigMap ==
  /\ MayFail
  /\ cm.version # 0
  /\ cm' = [cm EXCEPT !.version = 0]
  /\ news' = "deleted"
  /\ UNCHANGED <<cr, deployed, status, at, work, backlog, watching>>

\* The operator dies and is started again; it keeps nothing.
Crash ==
  /\ MayFail
  /\ at # "list"
  /\ at' = "list" /\ watching' = FALSE /\ backlog' = <<>>
  /\ UNCHANGED <<kubeVars, work>>

-----------------------------------------------------------------------------
(* run_operator *)

Reconciled == IF watching THEN "watch" ELSE "open"

List ==
  /\ at = "list"
  /\ work' = cr
  /\ at' = IF cr.version = 0 THEN "open" ELSE "validate"
  /\ UNCHANGED <<kubeVars, backlog, watching, failures>>

ListFails == at = "list" /\ MayFail /\ UNCHANGED <<kubeVars, at, work, backlog, watching>>

\* Mutant: the new watch goes on with what the last one had not delivered.
OpenWatchKeeping ==
  /\ at = "open"
  /\ at' = "watch" /\ watching' = TRUE
  /\ backlog' = IF work.version = 0 THEN <<>> ELSE <<cr, work>>
  /\ UNCHANGED <<kubeVars, work, failures>>

\* A watch without a resource version begins with the state of the resource.
OpenWatch ==
  /\ at = "open"
  /\ at' = "watch" /\ watching' = TRUE
  /\ backlog' = IF cr.version = 0 THEN <<>> ELSE <<cr>>
  /\ UNCHANGED <<kubeVars, work, failures>>

WatchEvent ==
  /\ at = "watch" /\ backlog # <<>>
  /\ work' = Head(backlog) /\ backlog' = Tail(backlog)
  /\ at' = "validate"
  /\ UNCHANGED <<kubeVars, watching, failures>>

\* The resync timeout or the loss of the watch: what was not delivered is lost, and the next
\* list makes up for it.
WatchEnds ==
  /\ at = "watch"
  /\ at' = "list" /\ watching' = FALSE /\ backlog' = <<>>
  /\ UNCHANGED <<kubeVars, work, failures>>

-----------------------------------------------------------------------------
(* reconcile: validate, ConfigMap, Deployment, Service, status *)

\* A status is patched at best effort, and the patch is itself an event of the watch.
Patch(ready) ==
  \/ /\ status' = [ready |-> ready, observed |-> work.version]
     /\ backlog' = Notify(cr, watching)
     /\ UNCHANGED failures
  \/ MayFail /\ UNCHANGED <<status, backlog>>

\* No spec, no image: nothing is applied.
Refuse ==
  /\ at = "validate" /\ work.content.flaw = "bad"
  /\ at' = Reconciled
  /\ Patch(FALSE)
  /\ UNCHANGED <<cr, cm, deployed, news, work, watching>>

\* What the resource asks for. Each object names the version it was made from; the
\* ConfigMap carries the spec as it is, the two others only its name and its image.
DesiredConfigMap(uid) == [version |-> work.version, content |-> work.content, uid |-> uid]
DesiredDeployment == work.version
DesiredService == work.version

\* Read and replace, or create: whatever the ConfigMap holds is written over.
ApplyConfigMap ==
  /\ at = "validate" /\ work.content.flaw # "bad"
  /\ cm' = DesiredConfigMap(IF cm.version = 0 THEN cm.uid + 1 ELSE cm.uid)
  /\ news' = IF news = "deleted" THEN news ELSE "changed"
  /\ at' = "deploy"
  /\ UNCHANGED <<cr, deployed, status, work, backlog, watching, failures>>

Deploy ==
  /\ at = "deploy"
  /\ deployed' = [deployed EXCEPT !.deployment = DesiredDeployment]
  /\ at' = "service"
  /\ UNCHANGED <<cr, cm, status, news, work, backlog, watching, failures>>

ApplyService ==
  /\ at = "service"
  /\ deployed' = [deployed EXCEPT !.service = DesiredService]
  /\ at' = "status"
  /\ UNCHANGED <<cr, cm, status, news, work, backlog, watching, failures>>

Calling == at \in {"validate", "deploy", "service"} /\ work.content.flaw # "bad"

\* Mutant: a call that fails is logged and the reconcile goes on to its status.
CallFailsOn ==
  /\ Calling /\ MayFail
  /\ at' = "status"
  /\ UNCHANGED <<kubeVars, work, backlog, watching>>

\* A call that fails ends this reconcile: logged, without a status.
CallFails ==
  /\ Calling /\ MayFail
  /\ at' = Reconciled
  /\ UNCHANGED <<kubeVars, work, backlog, watching>>

PatchStatus ==
  /\ at = "status"
  /\ at' = Reconciled
  /\ Patch(TRUE)
  /\ UNCHANGED <<cr, cm, deployed, news, work, watching>>

OperatorInit ==
  /\ cr = Absent /\ work = Absent
  /\ cm = [version |-> 0, uid |-> 0]
  /\ deployed = [deployment |-> 0, service |-> 0]
  /\ status = [ready |-> FALSE, observed |-> 0]
  /\ at = "list" /\ backlog = <<>> /\ watching = FALSE /\ news = "none" /\ failures = 0

OperatorNext ==
  \/ List \/ ListFails \/ OpenWatch \/ WatchEvent \/ WatchEnds
  \/ Refuse \/ ApplyConfigMap \/ Deploy \/ ApplyService \/ CallFails \/ PatchStatus
Environment == (\E c \in Contents : Edit(c)) \/ DeleteConfigMap \/ Crash
=============================================================================
