---------------------------- MODULE SessionStore ----------------------------
(***************************************************************************)
(* What StorageBackend promises whatever the backend (contract.py): how a  *)
(* step may change each record. A backend is strict when retention leaves  *)
(* alone what is in use; Redis is not, since its keys expire by themselves *)
(* and it updates a run in two calls: a run that was deleted in between is *)
(* written back, and its indexes do not list it.                           *)
(***************************************************************************)
EXTENDS StoreState

VARIABLES strict, listed   \* listed: the runs the backend finds by their session

vars == <<sess, runs, keys, strict, listed>>

Stored(f) == DOMAIN f

\* A session is created at revision 1, appended to one revision at a time, cut back to
\* an earlier revision, and deleted when none of the runs listed is under way.
SessionStep(s) ==
  \/ s \notin Stored(sess) /\ s \notin Stored(sess')
  \/ /\ s \notin Stored(sess) /\ s \in Stored(sess')
     /\ sess'[s] = NewSession
  \/ /\ s \in Stored(sess) /\ s \notin Stored(sess')
     /\ Live(s) \cap listed = {} \/ (~strict /\ sess[s].idle + 1 >= Ttl)
  \/ /\ s \in Stored(sess) /\ s \in Stored(sess')
     /\ \/ sess'[s].rev = sess[s].rev /\ sess'[s].len = sess[s].len
        \/ \E n \in 1 .. 2 : sess'[s] = Appended(sess[s], n)
        \/ \E keep \in 1 .. sess[s].rev : sess'[s] = Shortened(sess[s], keep)

\* A run is admitted into a stored session, ends, and is forgotten once it has ended:
\* with its session, for its age, or for one more run of its session.
RunStep(r) ==
  \/ r \notin Stored(runs) /\ r \notin Stored(runs')
  \/ /\ r \notin Stored(runs) /\ r \in Stored(runs')
     /\ \/ runs'[r].status = "live" /\ runs'[r].idle = 0 /\ runs'[r].sid \in Stored(sess')
        \/ ~strict /\ r \notin listed'
  \/ /\ r \in Stored(runs) /\ r \notin Stored(runs')
     /\ runs[r].status = "ended"
     /\ \/ runs[r].sid \notin Stored(sess')
        \/ runs[r].idle >= Ttl
        \/ Cardinality(RunsOf(runs[r].sid)) >= MaxRuns
  \/ /\ r \in Stored(runs) /\ r \in Stored(runs')
     /\ runs'[r].sid = runs[r].sid

\* What a key answered is not taken back while the key is stored.
KeyStep(k) ==
  \/ k \notin Stored(keys)
  \/ k \notin Stored(keys')
  \/ keys'[k].sid = keys[k].sid /\ (keys[k].done => keys'[k].done)

Next ==
  /\ \A s \in Sessions : SessionStep(s)
  /\ \A r \in Runs : RunStep(r)
  /\ \A k \in Keys : KeyStep(k)
  /\ UNCHANGED strict

Spec == StoreInit /\ [][Next]_vars
=============================================================================
