--------------------------- MODULE ConfigWatcher ---------------------------
(***************************************************************************)
(* The watcher of the runtime (src/app/watcher/watcher.py): it reads the   *)
(* ConfigMap, applies what it holds, follows a watch and reads again when  *)
(* the watch ends. The events of the watch are abstracted to whether one   *)
(* is to come: the watcher never looks at what an event carries, it reads  *)
(* the ConfigMap.                                                          *)
(***************************************************************************)
EXTENDS Reload

VARIABLES
  wat,      \* where the watcher is
  seen,     \* the uid of the ConfigMap it follows
  overlay   \* what it read, to be applied

watcherVars == <<wat, seen, overlay>>

Read == [version |-> cm.version, content |-> cm.content]

\* Mutant: what was read before is not applied again.
GetUnread ==
  /\ wat = "get" /\ cm.version # 0
  /\ seen' = cm.uid /\ overlay' = Read
  /\ wat' = IF Read = overlay THEN "watch" ELSE "apply"
  /\ news' = "none"
  /\ UNCHANGED <<cr, cm, deployed, status, failures>>

\* Read the ConfigMap. When there is none, or the read failed (the client makes None of every
\* error), the fallback raises and the watcher backs off: only its health record changes.
GetAndApply ==
  /\ wat = "get" /\ cm.version # 0
  /\ seen' = cm.uid /\ overlay' = Read
  /\ wat' = "apply" /\ news' = "none"
  /\ UNCHANGED <<cr, cm, deployed, status, failures>>

GetFails == wat = "get" /\ cm.version # 0 /\ MayFail /\ UNCHANGED <<kubeVars, watcherVars>>

\* An event: read again; a failed read or another object is skipped.
Event ==
  /\ wat = "watch" /\ news = "changed"
  /\ news' = "none"
  /\ \/ /\ cm.uid = seen
        /\ overlay' = Read /\ wat' = "apply"
        /\ UNCHANGED failures
     \/ MayFail /\ UNCHANGED <<overlay, wat>>
  /\ UNCHANGED <<cr, cm, deployed, status, seen>>

\* A deletion ends the watch, in the error of the fallback.
DeletedEvent ==
  /\ wat = "watch" /\ news = "deleted"
  /\ wat' = "get" /\ news' = "none"
  /\ UNCHANGED <<cr, cm, deployed, status, seen, overlay, failures>>

\* The timeout of the watch, 410, or the loss of the connection: back off and read again.
EndOfWatch ==
  /\ wat = "watch"
  /\ wat' = "get"
  /\ UNCHANGED <<kubeVars, seen, overlay, failures>>

WatcherInit == wat = "get" /\ seen = 0 /\ overlay = [version |-> 0]
WatcherNext == GetAndApply \/ GetFails \/ Event \/ DeletedEvent \/ EndOfWatch
=============================================================================
