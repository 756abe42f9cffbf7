--------------------------- MODULE SessionHistory ---------------------------
(***************************************************************************)
(* The history of one session as the runs on it write it.                  *)
(*                                                                         *)
(* ADK appends every event of a run through the session service its runner *)
(* was built with, which compares the revision of the session with an      *)
(* anchor that all runs of the service share.  A run that succeeded        *)
(* appends its turn, and one that failed takes back what was appended      *)
(* since its admission.  Runs on one session may overlap, in one service   *)
(* or in those of several processes, or of the generations a rebuild       *)
(* leaves running.                                                         *)
(*                                                                         *)
(* A revision is one append.  The truncation is that of the memory, file   *)
(* and Redis backends, where the record has one revision.                  *)
(***************************************************************************)
EXTENDS Naturals, FiniteSets, Sequences

CONSTANTS Runs, Services, ServiceOf, MaxEvents

ASSUME HistoryAssumption ==
  ServiceOf \in [Runs -> Services] /\ MaxEvents \in Nat

VARIABLES
  revision,    \* of the session's record
  events,      \* of the session's record: each is the run and what it is
  anchor,      \* _revisions of each service: a run reads the session before it appends
  pc,          \* where each run is
  admission,   \* admit_revision, and (history) the events it was admitted over
  expected,    \* the revision the run is about to compare
  read,        \* the events of the ADK session object of the run
  overlapped,  \* history: the runs that were under way with this one
  truncated    \* history: the runs that truncated

record      == <<revision, events>>
past        == <<overlapped, truncated>>
historyVars == <<record, anchor, pc, admission, expected, read, past>>

Under(r) == pc[r] \notin {"idle", "done"}
To(r, stage) == pc' = [pc EXCEPT ![r] = stage]
Key(r) == ServiceOf[r]
Events(r) == Cardinality({i \in DOMAIN read[r] : read[r][i] = <<r, "event">>})

\* The new run and those under way overlap.
Admit(r) ==
  /\ pc[r] = "idle"
  /\ To(r, "admitted")
  /\ admission' = [admission EXCEPT ![r] = [revision |-> revision, events |-> events]]
  /\ overlapped' = [q \in Runs |-> IF q = r THEN {o \in Runs : Under(o)}
                                   ELSE IF Under(q) THEN overlapped[q] \cup {r} ELSE overlapped[q]]
  /\ UNCHANGED <<record, anchor, expected, read, truncated>>

\* The ADK runner reads the session; its service notes the revision once it has the record.
GetSession(r) ==
  /\ pc[r] = "admitted"
  /\ To(r, "reading")
  /\ expected' = [expected EXCEPT ![r] = revision]
  /\ read' = [read EXCEPT ![r] = events]
  /\ UNCHANGED <<record, anchor, admission, past>>

NoteRead(r) ==
  /\ pc[r] = "reading"
  /\ To(r, "running")
  /\ anchor' = [anchor EXCEPT ![Key(r)] = expected[r]]
  /\ UNCHANGED <<record, admission, expected, read, past>>

\* Mutant: the revision is that of the record, not that of the reading.
AppendToCurrent(r) ==
  /\ pc[r] = "running" /\ Events(r) < MaxEvents
  /\ To(r, "appending")
  /\ expected' = [expected EXCEPT ![r] = revision]
  /\ UNCHANGED <<record, anchor, admission, read, past>>

\* The anchor is taken before the event is added to the session object and stored.
AppendEvent(r) ==
  /\ pc[r] = "running" /\ Events(r) < MaxEvents
  /\ To(r, "appending")
  /\ expected' = [expected EXCEPT ![r] = anchor[Key(r)]]
  /\ UNCHANGED <<record, anchor, admission, read, past>>

Swap(r, new) ==
  /\ revision = expected[r]
  /\ revision' = revision + 1
  /\ events' = events \o new

StoreEvent(r) ==
  /\ pc[r] = "appending"
  /\ Swap(r, <<<<r, "event">>>>)
  /\ To(r, "appended")
  /\ read' = [read EXCEPT ![r] = Append(@, <<r, "event">>)]
  /\ UNCHANGED <<anchor, admission, expected, past>>

NoteAppend(r) ==
  /\ pc[r] = "appended"
  /\ To(r, "running")
  /\ anchor' = [anchor EXCEPT ![Key(r)] = expected[r] + 1]
  /\ UNCHANGED <<record, admission, expected, read, past>>

\* The ADK loop ended without an error: the turn is appended to what is there now.
ReadRevision(r) ==
  /\ pc[r] = "running"
  /\ To(r, "committing")
  /\ expected' = [expected EXCEPT ![r] = revision]
  /\ UNCHANGED <<record, anchor, admission, read, past>>

CommitSuccess(r) ==
  /\ pc[r] = "committing"
  /\ Swap(r, <<<<r, "user">>, <<r, "model">>>>)
  /\ To(r, "done")
  /\ UNCHANGED <<anchor, admission, expected, read, past>>

\* RevisionConflict leaves the run through its last handler, which writes no history.
Conflict(r) ==
  /\ pc[r] \in {"appending", "committing"} /\ revision # expected[r]
  /\ To(r, "done")
  /\ UNCHANGED <<record, anchor, admission, expected, read, past>>

\* A run with an error event, or over its budget: as many events are dropped as revisions
\* were counted since the admission, whoever wrote them.
Truncate(r) ==
  /\ pc[r] = "running"
  /\ To(r, "done")
  /\ LET kept == admission[r].revision
         drop == revision - kept
     IN  IF revision <= kept THEN UNCHANGED record
         ELSE /\ revision' = kept
              /\ events' = SubSeq(events, 1, Len(events) - drop)
  /\ truncated' = truncated \cup {r}
  /\ UNCHANGED <<anchor, admission, expected, read, overlapped>>

\* A cancellation, a closed generator, a pause, an exception, or a crash. A write under
\* way was stored or was not.
Interrupt(r) ==
  /\ Under(r)
  /\ To(r, "done")
  /\ UNCHANGED <<record, anchor, admission, expected, read, past>>

HistoryInit ==
  /\ revision = 1 /\ events = <<>>
  /\ anchor = [p \in Services |-> 1]
  /\ pc = [r \in Runs |-> "idle"]
  /\ admission = [r \in Runs |-> [revision |-> 1, events |-> <<>>]]
  /\ expected = [r \in Runs |-> 0] /\ read = [r \in Runs |-> <<>>]
  /\ overlapped = [r \in Runs |-> {}] /\ truncated = {}

HistoryNext ==
  \E r \in Runs :
    \/ Admit(r) \/ GetSession(r) \/ NoteRead(r)
    \/ AppendEvent(r) \/ StoreEvent(r) \/ NoteAppend(r)
    \/ ReadRevision(r) \/ CommitSuccess(r)
    \/ Conflict(r) \/ Truncate(r) \/ Interrupt(r)

HistorySpec == HistoryInit /\ [][HistoryNext]_historyVars

-----------------------------------------------------------------------------
Stages == {"idle", "admitted", "reading", "running", "appending", "appended", "committing", "done"}

Entry == Runs \X {"event", "user", "model"}

HistoryTypeOK ==
  /\ revision \in Nat \ {0} /\ events \in Seq(Entry)
  /\ anchor \in [Services -> Nat] /\ pc \in [Runs -> Stages]
  /\ admission \in [Runs -> [revision : Nat \ {0}, events : Seq(Entry)]]
  /\ expected \in [Runs -> Nat] /\ read \in [Runs -> Seq(Entry)]
  /\ truncated \subseteq Runs /\ overlapped \in [Runs -> SUBSET Runs]

\* No run of the same service, and none that took anything back, was under way with r.
Apart(r) == \A q \in overlapped[r] : Key(q) # Key(r) /\ q \notin truncated

\* SES-09, ENG-06: what a run writes goes on from what the run read.  An event of a run is
\* stored right behind the history its model was shown, whatever other services append in
\* the meantime; the turn of a run that ran alone follows its events; and one that failed
\* alone leaves the history it was admitted over, to the event.  (Runs of one service share
\* the anchor, and a truncation counts revisions again from a lower one: neither promises
\* this to the runs it overlaps.)
HistoryContinues ==
  [][\A r \in Runs :
       /\ pc[r] = "appending" /\ pc'[r] = "appended" /\ Apart(r) =>
            events' = Append(read[r], <<r, "event">>)
       /\ overlapped[r] = {} /\ pc[r] = "committing" /\ events' # events =>
            events' = read[r] \o <<<<r, "user">>, <<r, "model">>>>
       /\ overlapped[r] = {} /\ r \in truncated' \ truncated =>
            record' = <<admission[r].revision, admission[r].events>>]_historyVars

-----------------------------------------------------------------------------
(* The inductive invariant behind it                                       *)

OverlapsKnown == \A q, r \in Runs : Under(q) /\ Under(r) /\ q # r => q \in overlapped[r]

\* The revision of the record whose events are what the run has read.
HasRead(r) == pc[r] \in {"reading", "running", "appending", "appended"}
Version(r) == CASE pc[r] = "running" -> anchor[Key(r)]
                [] pc[r] = "appended" -> expected[r] + 1
                [] OTHER -> expected[r]

\* While nobody takes anything back, one revision has one history.
ReadKept ==
  \A r \in Runs : HasRead(r) /\ Apart(r) =>
    revision >= Version(r) /\ (revision = Version(r) => events = read[r])

\* Alone, a run sees every write, and has written one event for each revision.
AloneKept ==
  \A r \in Runs : Under(r) /\ overlapped[r] = {} =>
    /\ HasRead(r) \/ pc[r] = "committing" => events = read[r]
    /\ revision >= admission[r].revision
    /\ Len(events) = Len(admission[r].events) + (revision - admission[r].revision)
    /\ SubSeq(events, 1, Len(admission[r].events)) = admission[r].events

HistoryInv == OverlapsKnown /\ ReadKept /\ AloneKept
=============================================================================
