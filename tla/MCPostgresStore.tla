-------------------------- MODULE MCPostgresStore ---------------------------
(* Constants of the runs of PostgresStore. *)
EXTENDS PostgresStore, TLC

MCSessionOf == [x \in Runs \cup Keys |-> CHOOSE s \in Sessions : TRUE]

Symmetry == Permutations(Callers) \cup Permutations(Runs)
=============================================================================
