------------------------------ MODULE Sublists ------------------------------
(***************************************************************************)
(* What a loop leaves that goes through a list and copies some entries of  *)
(* it, one after the other.                                                *)
(***************************************************************************)
EXTENDS Naturals, Sequences

\* The entries of list at these places, in their order.
Sublist(list, places) ==
  LET copied[n \in 0 .. Len(list)] ==
        IF n = 0 THEN <<>>
        ELSE IF n \in places THEN Append(copied[n - 1], list[n]) ELSE copied[n - 1]
  IN copied[Len(list)]
=============================================================================
