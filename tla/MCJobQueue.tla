----------------------------- MODULE MCJobQueue -----------------------------
(* Instances of JobQueue for TLC. *)
EXTENDS JobQueue, TLC

CONSTANTS w1, w2, w3, j1, j2

(* All processes on one host. *)
OneHost == [w \in Workers |-> "h1"]

(* w1 and w2 share a host; w3 runs on another. *)
TwoHosts == [w \in Workers |-> IF w = w3 THEN "h2" ELSE "h1"]

Symmetry == Permutations({w1, w2}) \cup Permutations(Callers)

=============================================================================
