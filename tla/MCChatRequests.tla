--------------------------- MODULE MCChatRequests ---------------------------
(* ChatRequests for TLC: two requests, one key they may share. *)
EXTENDS ChatRequests

CONSTANTS q1, q2, k1, nokey

MCRequest == {q1, q2}
MCKey == {k1}

\* What no action and no property reads any more is the same for all: the answer, a verdict
\* that is not to be stored, and of a request that has ended how it came to it.
Ended(r) == pc[r] = "done" /\ r \notin caught
Owns(r) == key[r] # NoKey /\ r \in owner[key[r]]

ViewOfRun(r) ==
  IF Ended(r) /\ ~Owns(r) /\ ~turn[r] /\ run[r] \notin {"created", "awaiting_approval"}
  THEN "over" ELSE run[r]

Asked(r) == Owns(r) \/ (r \in caught /\ run[r] = "created")

ViewOfRequest(r) ==
  CASE pc[r] = "done" -> IF Asked(r) THEN <<result[r]>> ELSE <<>>
    [] pc[r] = "release" -> <<key[r], IF Asked(r) THEN result[r] ELSE "">>
    [] OTHER -> <<key[r], mode[r], result[r], IF pc[r] \in {"commit", "store"} THEN verdict[r] ELSE "">>

MCView ==
  <<turn, idem, owner, phase, limit, inFlight, registry, caught, restarts, pc, doomed,
    {r \in detached : ~Ended(r)},
    [r \in Request |-> <<ViewOfRun(r), ViewOfRequest(r)>>]>>
=============================================================================
