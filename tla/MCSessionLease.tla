--------------------------- MODULE MCSessionLease ---------------------------
(* Constants of the run of SessionLease: two callers in one process, one in another. *)
EXTENDS SessionLease, TLC

CONSTANTS c1, c2, c3, p1, p2

MCProcessOf == (c1 :> p1) @@ (c2 :> p1) @@ (c3 :> p2)
=============================================================================
