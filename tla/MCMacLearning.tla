--------------------------- MODULE MCMacLearning ---------------------------
(* MacLearning on a small instance. *)
EXTENDS MacLearning, TLC

Symmetry == Permutations(Vlan) \union Permutations(Mac) \union
            Permutations(Index) \union Permutations(Intf)
=============================================================================
