------------------------------ MODULE FullTable ------------------------------
(***************************************************************************)
(* The "dataset is out of space" memory of the flush machinery             *)
(* (mvspwfl.c, g_pww_full): a fixed table that remembers which datasets a  *)
(* flush has abended on for lack of space, so that the next write to one   *)
(* of them is refused instead of costing another abend.                    *)
(*                                                                         *)
(* An entry records the dataset and how long ago it was marked             *)
(* (now - when).  An age past FullExpiry reads exactly like an unused      *)
(* entry, so Aged turns it into one: the code drops it lazily, on the next *)
(* lookup that walks over it.                                              *)
(***************************************************************************)
EXTENDS Integers

CONSTANTS Datasets,      \* the exported PDS datasets
          NoDataset,     \* marks an unused entry (when = 0)
          FullRemember,  \* PWW_FULL_REMEMBER, entries of the table
          FullExpiry     \* PWW_FULL_EXPIRY_SEC

ASSUME FullTableAssumption ==
  /\ NoDataset \notin Datasets
  /\ FullRemember \in Nat \ {0}
  /\ FullExpiry \in Nat

FullEntries == 1 .. FullRemember

FullTables ==
  [FullEntries -> [dsname : Datasets \cup {NoDataset}, age : 0 .. FullExpiry + 1]]

Unused == [dsname |-> NoDataset, age |-> FullExpiry + 1]

EmptyFull == [k \in FullEntries |-> Unused]

\* pdsflush_dataset_is_full
IsFull(t, ds) ==
  \E k \in FullEntries : t[k].dsname = ds /\ t[k].age <= FullExpiry

\* The entry mark_full writes: the one that already names ds, otherwise the
\* first of the oldest (an unused entry is older than any other).
EntryFor(t, ds, k) ==
  IF \E j \in FullEntries : t[j].dsname = ds
  THEN t[k].dsname = ds
  ELSE \A j \in FullEntries :
         t[j].age < t[k].age \/ (t[j].age = t[k].age /\ k <= j)

\* pdsflush_dataset_mark_full
MarkFull(t, ds) ==
  [t EXCEPT ![CHOOSE k \in FullEntries : EntryFor(t, ds, k)] =
               [dsname |-> ds, age |-> 0]]

\* pdsflush_dataset_clear_full
ClearFull(t, ds) ==
  [k \in FullEntries |-> IF t[k].dsname = ds THEN Unused ELSE t[k]]

\* One second later.
Aged(t) ==
  [k \in FullEntries |->
     IF t[k].age < FullExpiry THEN [t[k] EXCEPT !.age = @ + 1] ELSE Unused]
=============================================================================
