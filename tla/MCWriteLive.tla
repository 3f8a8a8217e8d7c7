----------------------------- MODULE MCWriteLive -----------------------------
(* A small instance of WriteLive. *)
EXTENDS WriteLive

\* All members in one dataset.
OneDataset == [m \in Members |-> CHOOSE ds \in Datasets : TRUE]
=============================================================================
