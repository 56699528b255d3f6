--------------------------- MODULE MCDwnDataStore ---------------------------
(* Instances of DwnDataStore. *)
EXTENDS DwnDataStore, TLC

CONSTANTS k1, k2, t1

OneTenant == [k \in {k1, k2} |-> t1]

Symmetry == Permutations(Key) \cup Permutations(Data) \cup Permutations(Caller)
=============================================================================
