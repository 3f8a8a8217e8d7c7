---------------------------- MODULE MCDurability ----------------------------
(* Small instances of Durability. *)
EXTENDS Durability, TLC

OneDataset == [m \in Members |-> CHOOSE ds \in Datasets : TRUE]

Symmetry == Permutations(Members)
=============================================================================
