---------------------------- MODULE ServiceRounds ----------------------------
(***************************************************************************)
(* What the event loop promises its connections, without its table: a      *)
(* round owes a turn to every connection that was readable when it began,  *)
(* gives each of them one, and no other, before the next round begins.     *)
(***************************************************************************)
CONSTANT Conn        \* what a connection may be

VARIABLES live,      \* the connections being served
          due        \* those still owed a turn in this round

Init == live = {} /\ due = {}

Begin ==
  /\ due = {}
  /\ due' \in SUBSET live
  /\ UNCHANGED live

Join ==
  /\ \E c \in Conn \ live : live' = live \cup {c}
  /\ UNCHANGED due

\* A turn; the connection may end with it.
Turn ==
  \E c \in due :
    /\ due' = due \ {c}
    /\ live' \in {live, live \ {c}}

End == live' = {} /\ due' = {}

Next == Begin \/ Join \/ Turn \/ End

Spec == Init /\ [][Next]_<<live, due>>
=============================================================================
