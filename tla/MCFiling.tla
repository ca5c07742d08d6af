------------------------------ MODULE MCFiling ------------------------------
(* Instances of Filing for TLC. *)
EXTENDS Filing, TLC

CONSTANTS r1, r2, s1

(* Two recordings of one name, as two recorders produce them, and a        *)
(* sidecar of the first.                                                   *)
SameName == r1 :> "take" @@ r2 :> "take" @@ s1 :> "peaks"

ParentOf == s1 :> r1

NoParent == [s \in {} |-> r1]

=============================================================================
