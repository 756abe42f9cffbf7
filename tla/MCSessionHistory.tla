-------------------------- MODULE MCSessionHistory --------------------------
(* SessionHistory for TLC: two runs of one service and one of another. A    *)
(* run that is not under way has forgotten what it read.                    *)
EXTENDS SessionHistory, TLC

CONSTANTS r1, r2, r3, s1, s2

MCServiceOf == [r \in {r1, r2, r3} |-> IF r = r3 THEN s2 ELSE s1]

MCSymmetry == Permutations({r1, r2})

MCView ==
  <<record, anchor, pc, truncated,
    [r \in Runs |-> IF Under(r) THEN <<admission[r], read[r], overlapped[r]>> ELSE <<>>],
    [r \in Runs |-> IF pc[r] \in {"reading", "appending", "appended", "committing"} THEN expected[r] ELSE 0]>>
=============================================================================
