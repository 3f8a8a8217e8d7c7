----------------------------- MODULE MCWritePath -----------------------------
(* Small instances of WritePath. *)
EXTENDS WritePath, TLC

\* All members in one dataset.
OneDataset == [m \in Members |-> CHOOSE ds \in Datasets : TRUE]

Symmetry == Permutations(Members)
=============================================================================
