---------------------------- MODULE ConfigProofs ----------------------------
(***************************************************************************)
(* What the lines of a configuration do to the table of exports, for every *)
(* set of lines, paths and datasets and every limit.                       *)
(*                                                                         *)
(* Every line changes or adds the export of one path at most, takes        *)
(* nothing from it, and adds no dataset but its own (Edited); a line of a  *)
(* block puts its dataset in the block's export or fails the export; what  *)
(* cfg_drop_failed_exports leaves did not fail, and is as it was read      *)
(* (Served).  So what is served is what was written (ServedIsWritten).     *)
(***************************************************************************)
EXTENDS Exports, WellFoundedInduction, TLAPS

-----------------------------------------------------------------------------
(* Numbers and sequences *)

\* Every set of natural numbers that is not empty has a least element, which
\* is what a loop that returns the first match finds.
LEMMA HasLeast ==
  ASSUME NEW T, T \subseteq Nat, T # {}
  PROVE  \E x \in T : \A y \in T : x <= y
<1>1. \E x \in T : \A y \in T : ~(<<y, x>> \in OpToRel(<, Nat))
  BY WFMin, NatLessThanWellFounded, Zenon
<1>2. OpToRel(<, Nat) = {ss \in Nat \X Nat : ss[1] < ss[2]}
  BY Zenon DEF OpToRel
<1>3. \A x, y \in Nat : <<y, x>> \in {ss \in Nat \X Nat : ss[1] < ss[2]} <=> y < x
  BY Zenon
<1>4. \E x \in T : \A y \in T : ~(y < x)
  <2>1. \E x \in T : \A y \in T : ~(<<y, x>> \in {ss \in Nat \X Nat : ss[1] < ss[2]})
    BY <1>1, <1>2, Zenon
  <2>2. QED
    BY Zenon, <1>3, <2>1
<1>5. QED
  BY <1>4

\* A set of numbers up to n has a largest one.
LEMMA HasLast ==
  ASSUME NEW n \in Nat, NEW T, T \subseteq 1 .. n, T # {}
  PROVE  \E x \in T : \A y \in T : y <= x
<1> DEFINE back == {i \in 0 .. n : n - i \in T}
<1>1. PICK k \in T : TRUE
  BY Zenon
<1>2. ASSUME NEW j \in T PROVE j \in 1 .. n /\ n - j \in 0 .. n /\ n - (n - j) = j
  <2>1. j \in 1 .. n
    BY Zenon
  <2>2. QED
    BY <2>1
<1>3. \A j \in T : n - j \in back
  BY Zenon, <1>2
<1>4. back \subseteq Nat /\ back # {}
  <2>1. back \subseteq Nat
    OBVIOUS
  <2>2. QED
    BY Zenon, <1>1, <1>3, <2>1
<1>5. PICK i \in back : \A j \in back : i <= j
  BY Zenon, <1>4, HasLeast
<1>6. n - i \in T /\ i \in 0 .. n
  BY Zenon
<1>7. \A j \in T : j <= n - i
  <2> TAKE j \in T
  <2>1. i <= n - j
    BY Zenon, <1>3, <1>5
  <2>2. j \in 1 .. n
    BY Zenon
  <2> HIDE DEF back
  <2>3. QED
    BY <2>1, <2>2, <1>6
<1>8. QED
  BY Zenon, <1>6, <1>7

\* The one CHOOSE finds is that one.
LEMMA TheLast ==
  ASSUME NEW T, T \subseteq Nat, NEW x \in T, \A y \in T : y <= x
  PROVE  (CHOOSE k \in T : \A j \in T : j <= k) = x
<1> DEFINE c == CHOOSE k \in T : \A j \in T : j <= k
<1>1. c \in T /\ \A j \in T : j <= c
  BY Zenon
<1> HIDE DEF c
<1>2. c <= x /\ x <= c /\ c \in Nat /\ x \in Nat
  BY Zenon, <1>1
<1>3. c = x
  BY <1>2
<1>4. QED
  BY Zenon, <1>3 DEF c

\* A sequence has a length,
LEMMA LenIsNat ==
  ASSUME NEW S, NEW s \in Seq(S)
  PROVE  Len(s) \in Nat
OBVIOUS

\* and one that is not empty a first element and a rest;
LEMMA HeadAndTail ==
  ASSUME NEW S, NEW s \in Seq(S), s # <<>>
  PROVE  Tail(s) \in Seq(S) /\ s[1] \in S
OBVIOUS

\* one element more makes it one longer.
LEMMA AppendedOne ==
  ASSUME NEW S, NEW s \in Seq(S), NEW x \in S
  PROVE  /\ Append(s, x) \in Seq(S) /\ Len(Append(s, x)) = Len(s) + 1
         /\ Append(s, x)[Len(s) + 1] = x
OBVIOUS

-----------------------------------------------------------------------------
(* Sublists *)

\* f holds what the copying loop has copied after each of m entries.
Copies(f, list, places, m) ==
  f = [n \in 0 .. m |-> IF n = 0 THEN <<>>
                        ELSE IF n \in places THEN Append(f[n - 1], list[n]) ELSE f[n - 1]]

\* There is such a function, whatever the list: a recursion over its length.
LEMMA CopiesExist ==
  ASSUME NEW list, NEW places, NEW m \in Nat
  PROVE  \E f : Copies(f, list, places, m)
<1> DEFINE Wrong == {k \in Nat : ~\E f : Copies(f, list, places, k)}
<1> SUFFICES ASSUME Wrong # {} PROVE FALSE
  OBVIOUS
<1>1. PICK k \in Wrong : \A y \in Wrong : k <= y
  BY HasLeast
<1>2. CASE k = 0
  <2> DEFINE f == [n \in 0 .. 0 |-> <<>>]
  <2>1. Copies(f, list, places, 0)
    BY DEF Copies
  <2> QED
    BY Zenon, <1>1, <1>2, <2>1
<1>3. CASE k # 0
  <2>1. k - 1 \in Nat /\ k - 1 \notin Wrong
    BY <1>1, <1>3
  <2>2. PICK f : Copies(f, list, places, k - 1)
    BY <2>1
  <2> DEFINE step == IF k \in places THEN Append(f[k - 1], list[k]) ELSE f[k - 1]
             g == [n \in 0 .. k |-> IF n = k THEN step ELSE f[n]]
  <2>3. \A n \in 0 .. k - 1 : g[n] = f[n]
    BY <1>1
  <2>4. \A n \in 0 .. k : n # 0 => n - 1 \in 0 .. k - 1 /\ (n # k => n \in 0 .. k - 1)
    BY <1>1
  <2>5. \A n \in 0 .. k - 1 : f[n] = (IF n = 0 THEN <<>>
                        ELSE IF n \in places THEN Append(f[n - 1], list[n]) ELSE f[n - 1])
    BY Zenon, <2>2 DEF Copies
  <2>6. \A n \in 0 .. k : g[n] = (IF n = 0 THEN <<>>
                        ELSE IF n \in places THEN Append(g[n - 1], list[n]) ELSE g[n - 1])
    <3> TAKE n \in 0 .. k
    <3>1. CASE n = k
      <4>1. g[k] = step /\ k - 1 \in 0 .. k - 1 /\ k \in 0 .. k
        BY <1>1, <1>3
      <4> HIDE DEF g
      <4>2. g[k] = IF k \in places THEN Append(g[k - 1], list[k]) ELSE g[k - 1]
        BY Zenon, <4>1, <2>3
      <4> QED
        BY Zenon, <3>1, <4>2, <1>3
    <3>2. CASE n # k /\ n = 0
      <4>1. 0 \in 0 .. k - 1
        BY <1>1, <1>3
      <4> HIDE DEF g
      <4>2. g[0] = f[0] /\ f[0] = <<>>
        BY Zenon, <4>1, <2>3, <2>5
      <4> QED
        BY Zenon, <3>2, <4>2
    <3>3. CASE n # k /\ n # 0
      <4>1. n \in 0 .. k - 1 /\ n - 1 \in 0 .. k - 1
        BY Zenon, <2>4, <3>3
      <4> HIDE DEF g
      <4>2. g[n] = f[n] /\ g[n - 1] = f[n - 1]
        BY Zenon, <4>1, <2>3
      <4>3. f[n] = IF n \in places THEN Append(f[n - 1], list[n]) ELSE f[n - 1]
        BY Zenon, <4>1, <2>5, <3>3
      <4> QED
        BY Zenon, <3>3, <4>2, <4>3
    <3> QED
      BY Zenon, <3>1, <3>2, <3>3
  <2>7. Copies(g, list, places, k)
    BY Zenon, <2>6 DEF Copies
  <2> QED
    BY Zenon, <1>1, <2>7
<1> QED
  BY <1>2, <1>3

\* Sublist is what that function has at the end of the list.
LEMMA SublistCopies ==
  ASSUME NEW S, NEW list \in Seq(S), NEW places
  PROVE  \E f : Copies(f, list, places, Len(list)) /\ Sublist(list, places) = f[Len(list)]
<1>1. Len(list) \in Nat
  OBVIOUS
<1> DEFINE c == CHOOSE f : Copies(f, list, places, Len(list))
<1>2. Copies(c, list, places, Len(list))
  BY Zenon, <1>1, CopiesExist
<1>3. Sublist(list, places) = c[Len(list)]
  BY DEF Sublist, Copies
<1> QED
  BY Zenon, <1>2, <1>3

\* r holds the entries of the first n of list that are at these places, in
\* their order: at tells where each comes from.
Selects(r, at, list, places, n) ==
  /\ Len(r) <= n /\ at \in [1 .. Len(r) -> (1 .. n) \cap places]
  /\ \A k \in 1 .. Len(r) : r[k] = list[at[k]]
  /\ \A j, k \in 1 .. Len(r) : j < k => at[j] < at[k]
  /\ \A x \in (1 .. n) \cap places : \E k \in 1 .. Len(r) : at[k] = x

\* One more entry that is copied.
LEMMA SelectsMore ==
  ASSUME NEW S, NEW list \in Seq(S), NEW places, NEW n \in 1 .. Len(list), n \in places,
         NEW r \in Seq(S), NEW at, Selects(r, at, list, places, n - 1)
  PROVE  /\ Append(r, list[n]) \in Seq(S)
         /\ \E to : Selects(Append(r, list[n]), to, list, places, n)
<1> DEFINE q == Append(r, list[n])
           l == Len(r)
           to == [k \in 1 .. l + 1 |-> IF k = l + 1 THEN n ELSE at[k]]
<1>1. /\ q \in Seq(S) /\ Len(q) = l + 1 /\ q[l + 1] = list[n] /\ l \in Nat
      /\ \A k \in 1 .. l : q[k] = r[k]
  OBVIOUS
<1>2. /\ l <= n - 1 /\ at \in [1 .. l -> (1 .. n - 1) \cap places]
      /\ \A k \in 1 .. l : r[k] = list[at[k]]
      /\ \A j, k \in 1 .. l : j < k => at[j] < at[k]
      /\ \A x \in (1 .. n - 1) \cap places : \E k \in 1 .. l : at[k] = x
  BY Zenon DEF Selects
<1> HIDE DEF q, l
<1>3. \A k \in 1 .. l + 1 : k = l + 1 \/ k \in 1 .. l
  BY <1>1
<1>4. \A k \in 1 .. l : to[k] = at[k] /\ at[k] \in 1 .. n - 1 /\ at[k] \in places
  BY <1>1, <1>2
<1>5. to[l + 1] = n /\ l + 1 \in 1 .. l + 1
  BY <1>1
<1>6. l + 1 <= n /\ to \in [1 .. l + 1 -> (1 .. n) \cap places]
  <2>1. \A k \in 1 .. l + 1 : to[k] \in (1 .. n) \cap places
    <3> TAKE k \in 1 .. l + 1
    <3>1. CASE k = l + 1
      BY <3>1, <1>5
    <3>2. CASE k \in 1 .. l
      <4>1. to[k] \in 1 .. n - 1 /\ to[k] \in places
        BY Zenon, <3>2, <1>4
      <4> QED
        BY <4>1
    <3> QED
      BY Zenon, <3>1, <3>2, <1>3
  <2>2. l + 1 <= n
    BY <1>1, <1>2
  <2> QED
    BY Zenon, <2>1, <2>2
<1> HIDE DEF to
<1>7. \A k \in 1 .. l + 1 : q[k] = list[to[k]]
  BY Zenon, <1>1, <1>2, <1>3, <1>4, <1>5
<1>8. \A j, k \in 1 .. l + 1 : j < k => to[j] < to[k]
  <2> TAKE j, k \in 1 .. l + 1
  <2>1. CASE k = l + 1 /\ j < k
    <3>1. j \in 1 .. l
      BY <2>1, <1>1
    <3> QED
      BY <3>1, <2>1, <1>4, <1>5
  <2>2. CASE k # l + 1 /\ j < k
    <3>1. j \in 1 .. l /\ k \in 1 .. l
      BY <2>2, <1>1
    <3> QED
      BY <3>1, <2>2, <1>2, <1>4
  <2> QED
    BY <2>1, <2>2
<1>9. \A x \in (1 .. n) \cap places : \E k \in 1 .. l + 1 : to[k] = x
  <2> TAKE x \in (1 .. n) \cap places
  <2>1. CASE x = n
    BY Zenon, <2>1, <1>5
  <2>2. CASE x # n
    <3>1. x \in (1 .. n - 1) \cap places
      BY <2>2
    <3>2. PICK k \in 1 .. l : at[k] = x
      BY Zenon, <3>1, <1>2
    <3>3. k \in 1 .. l + 1
      BY <1>1
    <3> QED
      BY Zenon, <3>2, <3>3, <1>4
  <2> QED
    BY Zenon, <2>1, <2>2
<1>10. Selects(q, to, list, places, n)
  BY Zenon, <1>1, <1>6, <1>7, <1>8, <1>9 DEF Selects
<1> QED
  BY Zenon, <1>1, <1>10 DEF q

\* One more that is not.
LEMMA SelectsLess ==
  ASSUME NEW list, NEW places, NEW n \in Nat \ {0}, n \notin places,
         NEW r, NEW at, Selects(r, at, list, places, n - 1), Len(r) \in Nat
  PROVE  Selects(r, at, list, places, n)
<1>1. (1 .. n) \cap places = (1 .. n - 1) \cap places
  OBVIOUS
<1>2. Len(r) <= n - 1 => Len(r) <= n
  OBVIOUS
<1> QED
  BY Zenon, <1>1, <1>2 DEF Selects

\* The entries of a sublist are those at its places, in their order.
LEMMA SublistSelects ==
  ASSUME NEW S, NEW list \in Seq(S), NEW places
  PROVE  /\ Sublist(list, places) \in Seq(S)
         /\ \E at : Selects(Sublist(list, places), at, list, places, Len(list))
<1>1. PICK f : Copies(f, list, places, Len(list)) /\ Sublist(list, places) = f[Len(list)]
  BY Zenon, SublistCopies
<1> DEFINE Right(n) == f[n] \in Seq(S) /\ \E at : Selects(f[n], at, list, places, n)
           Wrong == {n \in 0 .. Len(list) : ~Right(n)}
<1>2. \A n \in 0 .. Len(list) : f[n] = (IF n = 0 THEN <<>>
        ELSE IF n \in places THEN Append(f[n - 1], list[n]) ELSE f[n - 1])
  BY Zenon, <1>1 DEF Copies
<1>3. Len(list) \in 0 .. Len(list)
  OBVIOUS
<1>4. SUFFICES ASSUME Wrong # {} PROVE FALSE
  BY Zenon, <1>1, <1>3
<1>10. Wrong \in SUBSET Nat
  OBVIOUS
<1> HIDE DEF Right
<1>5. PICK n \in Wrong : \A y \in Wrong : n <= y
  <2> HIDE DEF Wrong
  <2> QED
    BY Zenon, <1>4, <1>10, HasLeast
<1>6. n \in 0 .. Len(list) /\ ~Right(n)
  OBVIOUS
<1>11. n # 0 => n - 1 \in 0 .. Len(list) /\ n - 1 \notin Wrong
  <2>1. n # 0 => n - 1 \in 0 .. Len(list) /\ ~(n <= n - 1)
    BY <1>6
  <2> HIDE DEF Wrong
  <2> QED
    BY Zenon, <2>1, <1>5
<1> USE DEF Right
<1>7. CASE n = 0
  <2>1. f[0] = <<>>
    BY Zenon, <1>2, <1>6, <1>7
  <2>2. Selects(<<>>, <<>>, list, places, 0) /\ <<>> \in Seq(S)
    BY DEF Selects
  <2> QED
    BY Zenon, <1>6, <1>7, <2>1, <2>2
<1>8. CASE n # 0
  <2>1. /\ n - 1 \in 0 .. Len(list) /\ n \in 1 .. Len(list) /\ n \in Nat \ {0}
        /\ n - 1 \notin Wrong
    <3> HIDE DEF Wrong, Right
    <3> QED
      BY <1>11, <1>6, <1>8
  <2>2. Right(n - 1)
    BY Zenon, <2>1
  <2>3. PICK at : Selects(f[n - 1], at, list, places, n - 1)
    BY Zenon, <2>2
  <2>4. f[n - 1] \in Seq(S) /\ Len(f[n - 1]) \in Nat
    BY <2>2
  <2> HIDE DEF Wrong
  <2>5. CASE n \in places
    <3>1. f[n] = Append(f[n - 1], list[n])
      BY Zenon, <1>2, <1>6, <1>8, <2>5
    <3>2. /\ Append(f[n - 1], list[n]) \in Seq(S)
          /\ \E to : Selects(Append(f[n - 1], list[n]), to, list, places, n)
      BY Zenon, <2>1, <2>3, <2>4, <2>5, SelectsMore
    <3> QED
      BY Zenon, <3>1, <3>2, <1>6
  <2>6. CASE n \notin places
    <3>1. f[n] = f[n - 1]
      BY Zenon, <1>2, <1>6, <1>8, <2>6
    <3> QED
      BY Zenon, <3>1, <2>1, <2>3, <2>4, <2>6, SelectsLess, <1>6
  <2> QED
    BY Zenon, <2>5, <2>6
<1> QED
  BY Zenon, <1>7, <1>8
-----------------------------------------------------------------------------
(* The lines *)

\* BlockOf and what is said with it, of any lines.
Runs(f, rd, n) ==
  f = [k \in 1 .. n + 1 |-> IF k = 1 THEN 0 ELSE NextBlock(f[k - 1], rd[k - 1], k - 1)]

Blocks(rd) == CHOOSE f : Runs(f, rd, Len(rd))

\* There is such a function, whatever the lines.
LEMMA RunsExist ==
  ASSUME NEW rd, NEW m \in Nat
  PROVE  \E f : Runs(f, rd, m)
<1> DEFINE Wrong == {k \in Nat : ~\E f : Runs(f, rd, k)}
<1> SUFFICES ASSUME Wrong # {} PROVE FALSE
  OBVIOUS
<1>1. PICK k \in Wrong : \A y \in Wrong : k <= y
  BY HasLeast
<1>2. CASE k = 0
  <2> DEFINE f == [n \in 1 .. 1 |-> 0]
  <2>1. Runs(f, rd, 0)
    BY DEF Runs
  <2> QED
    BY Zenon, <1>1, <1>2, <2>1
<1>3. CASE k # 0
  <2>1. k - 1 \in Nat /\ k - 1 \notin Wrong
    BY <1>1, <1>3
  <2>2. PICK f : Runs(f, rd, k - 1)
    BY <2>1
  <2> DEFINE g == [n \in 1 .. k + 1 |-> IF n = k + 1 THEN NextBlock(f[k], rd[k], k) ELSE f[n]]
  <2>3. \A n \in 1 .. k : g[n] = f[n]
    BY <1>1
  <2>4. /\ \A n \in 1 .. k + 1 : n # 1 => n - 1 \in 1 .. k /\ (n # k + 1 => n \in 1 .. k)
        /\ k - 1 + 1 = k /\ k + 1 - 1 = k /\ k \in 1 .. k /\ k + 1 \in 1 .. k + 1 /\ k + 1 # 1
        /\ 1 \in 1 .. k
    BY <1>1, <1>3
  <2>5. \A n \in 1 .. k : f[n] = (IF n = 1 THEN 0 ELSE NextBlock(f[n - 1], rd[n - 1], n - 1))
    <3>1. f = [n \in 1 .. k - 1 + 1 |-> IF n = 1 THEN 0 ELSE NextBlock(f[n - 1], rd[n - 1], n - 1)]
      BY Zenon, <2>2 DEF Runs
    <3>2. QED
      BY Zenon, <2>4, <3>1
  <2>6. \A n \in 1 .. k + 1 : g[n] = (IF n = 1 THEN 0 ELSE NextBlock(g[n - 1], rd[n - 1], n - 1))
    <3> TAKE n \in 1 .. k + 1
    <3>1. CASE n = k + 1
      <4>1. g[k + 1] = NextBlock(f[k], rd[k], k)
        BY Zenon, <2>4
      <4> HIDE DEF g
      <4>2. g[n] = NextBlock(g[k], rd[k], k)
        BY Zenon, <4>1, <2>3, <2>4, <3>1
      <4>3. n - 1 = k /\ n # 1
        BY <3>1, <1>1, <1>3
      <4> QED
        BY Zenon, <4>2, <4>3
    <3>2. CASE n # k + 1 /\ n = 1
      <4> HIDE DEF g
      <4>1. g[1] = f[1] /\ f[1] = 0
        BY Zenon, <2>3, <2>4, <2>5
      <4> QED
        BY Zenon, <3>2, <4>1
    <3>3. CASE n # k + 1 /\ n # 1
      <4>1. n \in 1 .. k /\ n - 1 \in 1 .. k
        BY Zenon, <2>4, <3>3
      <4> HIDE DEF g
      <4>2. g[n] = f[n] /\ g[n - 1] = f[n - 1]
        BY Zenon, <4>1, <2>3
      <4>3. f[n] = NextBlock(f[n - 1], rd[n - 1], n - 1)
        BY Zenon, <4>1, <2>5, <3>3
      <4> QED
        BY Zenon, <3>3, <4>2, <4>3
    <3> QED
      BY Zenon, <3>1, <3>2, <3>3
  <2>7. Runs(g, rd, k)
    BY Zenon, <2>6 DEF Runs
  <2> QED
    BY Zenon, <1>1, <2>7
<1> QED
  BY <1>2, <1>3

\* BlockOf is that function for the lines read so far.
LEMMA BlockOfIsBlocks ==
  BlockOf = Blocks(read)
BY Zenon DEF BlockOf, Blocks, Runs

\* The block of the next line follows from the block of this one.
LEMMA BlocksRun ==
  ASSUME NEW S, NEW rd \in Seq(S)
  PROVE  /\ Blocks(rd)[1] = 0
         /\ \A k \in 1 .. Len(rd) : Blocks(rd)[k + 1] = NextBlock(Blocks(rd)[k], rd[k], k)
<1> DEFINE f == Blocks(rd)
<1>1. Runs(f, rd, Len(rd))
  <2>1. Len(rd) \in Nat
    OBVIOUS
  <2>2. QED
    BY Zenon, <2>1, RunsExist DEF Blocks
<1> HIDE DEF f
<1>2. \A k \in 1 .. Len(rd) + 1 : f[k] = IF k = 1 THEN 0 ELSE NextBlock(f[k - 1], rd[k - 1], k - 1)
  BY Zenon, <1>1 DEF Runs
<1>3. /\ 1 \in 1 .. Len(rd) + 1
      /\ \A k \in 1 .. Len(rd) : k + 1 \in 1 .. Len(rd) + 1 /\ k + 1 # 1 /\ k + 1 - 1 = k
  OBVIOUS
<1>4. f[1] = 0
  BY Zenon, <1>2, <1>3
<1>5. \A k \in 1 .. Len(rd) : f[k + 1] = NextBlock(f[k], rd[k], k)
  <2> TAKE k \in 1 .. Len(rd)
  <2> DEFINE j == k + 1
  <2>1. j \in 1 .. Len(rd) + 1 /\ j # 1 /\ j - 1 = k
    OBVIOUS
  <2> HIDE DEF j
  <2>2. f[j] = NextBlock(f[j - 1], rd[j - 1], j - 1)
    BY Zenon, <1>2, <2>1
  <2>3. QED
    BY Zenon, <2>1, <2>2 DEF j
<1>6. QED
  BY Zenon, <1>4, <1>5 DEF f

\* A line more changes no block before it.
LEMMA BlocksKept ==
  ASSUME NEW S, NEW rd \in Seq(S), NEW toks \in S
  PROVE  \A k \in 1 .. Len(rd) + 1 : Blocks(Append(rd, toks))[k] = Blocks(rd)[k]
<1> DEFINE f == Blocks(rd)
           more == Append(rd, toks)
           g == Blocks(more)
           Wrong == {k \in 1 .. Len(rd) + 1 : g[k] # f[k]}
<1>1. /\ more \in Seq(S) /\ Len(more) = Len(rd) + 1 /\ Len(rd) \in Nat
      /\ \A k \in 1 .. Len(rd) : more[k] = rd[k]
  OBVIOUS
<1>2. /\ f[1] = 0 /\ \A k \in 1 .. Len(rd) : f[k + 1] = NextBlock(f[k], rd[k], k)
  BY Zenon, BlocksRun
<1> HIDE DEF f, more
<1>3. /\ g[1] = 0 /\ \A k \in 1 .. Len(more) : g[k + 1] = NextBlock(g[k], more[k], k)
  BY Zenon, <1>1, BlocksRun
<1> HIDE DEF g
<1>4. SUFFICES ASSUME Wrong # {} PROVE FALSE
  BY Zenon DEF f, g, more
<1>5. Wrong \subseteq Nat
  BY <1>1
<1> HIDE DEF Wrong
<1>6. PICK k \in Wrong : \A y \in Wrong : k <= y
  BY Zenon, <1>4, <1>5, HasLeast
<1>7. k \in 1 .. Len(rd) + 1 /\ g[k] # f[k]
  BY Zenon DEF Wrong
<1>8. k # 1
  BY Zenon, <1>2, <1>3, <1>7
<1> DEFINE j == k - 1
<1>9. /\ j \in 1 .. Len(rd) /\ j \in 1 .. Len(more) /\ j \in 1 .. Len(rd) + 1 /\ j + 1 = k
      /\ ~(k <= j)
  BY <1>1, <1>7, <1>8
<1> HIDE DEF j
<1>10. g[j] = f[j]
  BY Zenon, <1>6, <1>9 DEF Wrong
<1>11. g[j + 1] = f[j + 1]
  BY Zenon, <1>1, <1>2, <1>3, <1>9, <1>10
<1>12. QED
  BY Zenon, <1>7, <1>9, <1>11

\* The line a block was opened by is before every line of it, and ends in a brace.
LEMMA BlocksBefore ==
  ASSUME NEW rd \in Seq(Lines)
  PROVE  \A k \in 1 .. Len(rd) + 1 :
           Blocks(rd)[k] # 0 => /\ Blocks(rd)[k] \in 1 .. k - 1 /\ Blocks(rd)[k] \in 1 .. Len(rd)
                                /\ rd[Blocks(rd)[k]][Len(rd[Blocks(rd)[k]])] = "{"
<1> DEFINE f == Blocks(rd)
           Fine(k, b) == b \in 1 .. k - 1 /\ b \in 1 .. Len(rd) /\ rd[b][Len(rd[b])] = "{"
           Wrong == {k \in 1 .. Len(rd) + 1 : f[k] # 0 /\ ~Fine(k, f[k])}
<1>1. /\ f[1] = 0 /\ \A k \in 1 .. Len(rd) : f[k + 1] = NextBlock(f[k], rd[k], k)
  BY Zenon, BlocksRun
<1> HIDE DEF f
<1>2. SUFFICES ASSUME Wrong # {} PROVE FALSE
  BY Zenon DEF f
<1>3. Wrong \subseteq 1 .. Len(rd) + 1 /\ Len(rd) \in Nat
  <2>1. Len(rd) \in Nat
    OBVIOUS
  <2>2. QED
    BY Zenon, <2>1
<1>4. \A k \in 1 .. Len(rd) + 1 : k \in Wrong <=> f[k] # 0 /\ ~Fine(k, f[k])
  BY Zenon
<1> HIDE DEF Wrong
<1>15. Wrong \subseteq Nat
  BY <1>3
<1>16. PICK k \in Wrong : \A y \in Wrong : k <= y
  BY Zenon, <1>2, <1>15, HasLeast
<1>5. k \in 1 .. Len(rd) + 1 /\ f[k] # 0 /\ ~Fine(k, f[k])
  BY Zenon, <1>3, <1>4
<1> HIDE DEF Fine
<1>6. k # 1
  BY Zenon, <1>1, <1>5
<1> DEFINE j == k - 1
<1>7. /\ j \in 1 .. Len(rd) /\ j \in 1 .. Len(rd) + 1 /\ j + 1 = k /\ ~(k <= j)
      /\ j \in 1 .. k - 1
  BY <1>3, <1>5, <1>6
<1>8. ASSUME NEW b \in 1 .. j - 1 PROVE b \in 1 .. k - 1
  <2> HIDE DEF f
  <2> QED
    BY <1>3, <1>5
<1> HIDE DEF j
<1>9. f[j] = 0 \/ Fine(j, f[j])
  BY Zenon, <1>4, <1>16, <1>7
<1>10. f[k] = NextBlock(f[j], rd[j], j)
  BY Zenon, <1>1, <1>7
<1>11. f[k] \in {0, f[j]} \/ (f[k] = j /\ rd[j][Len(rd[j])] = "{")
  BY Zenon, <1>10 DEF NextBlock
<1>12. CASE f[k] = f[j]
  BY Zenon, <1>5, <1>8, <1>9, <1>12 DEF Fine
<1>13. CASE f[k] = j /\ rd[j][Len(rd[j])] = "{"
  BY Zenon, <1>5, <1>7, <1>13 DEF Fine
<1>14. QED
  BY Zenon, <1>5, <1>11, <1>12, <1>13

\* part is toks from off on, and what is left out of toks is not in S.
IsPart(part, toks, off, S) ==
  /\ \A k \in 1 .. Len(part) : k + off \in 1 .. Len(toks) /\ part[k] = toks[k + off]
  /\ \A j \in 1 .. Len(toks) : toks[j] \in S => j - off \in 1 .. Len(part)

\* Of tokens that are not among these, those at either end can be left out.
LEMMA LastOfPart ==
  ASSUME NEW toks \in Seq(Names), NEW part \in Seq(Names), NEW off \in Nat, NEW S,
         IsPart(part, toks, off, S)
  PROVE  LastOf(toks, S) = LastOf(part, S)
<1>0. /\ \A k \in 1 .. Len(part) : k + off \in 1 .. Len(toks) /\ part[k] = toks[k + off]
      /\ \A j \in 1 .. Len(toks) : toks[j] \in S => j - off \in 1 .. Len(part)
  BY Zenon DEF IsPart
<1> DEFINE at == {k \in DOMAIN toks : toks[k] \in S}
           of == {k \in DOMAIN part : part[k] \in S}
           last(T) == CHOOSE k \in T : \A j \in T : j <= k
<1>1. DOMAIN toks = 1 .. Len(toks) /\ DOMAIN part = 1 .. Len(part)
  OBVIOUS
<1>2. /\ LastOf(toks, S) = (IF at = {} THEN Unset ELSE toks[last(at)])
      /\ LastOf(part, S) = (IF of = {} THEN Unset ELSE part[last(of)])
  BY Zenon DEF LastOf
<1>3. \A k \in of : k + off \in at /\ part[k] = toks[k + off]
  BY Zenon, <1>0, <1>1
<1>4. ASSUME NEW j \in at PROVE j - off \in of /\ j - off + off = j /\ j \in Nat
  <2>1. j \in 1 .. Len(toks) /\ j - off \in 1 .. Len(part) /\ toks[j] \in S
    BY Zenon, <1>0, <1>1
  <2>2. j - off + off = j /\ j \in Nat
    BY <2>1
  <2> DEFINE k == j - off
  <2> HIDE DEF k
  <2>3. k \in 1 .. Len(part) /\ k + off = j
    BY Zenon, <2>1, <2>2 DEF k
  <2>4. part[k] \in S
    BY Zenon, <1>0, <2>1, <2>3
  <2>5. QED
    BY Zenon, <1>1, <2>2, <2>3, <2>4 DEF k
<1>5. of \subseteq 1 .. Len(part) /\ of \subseteq Nat /\ at \subseteq Nat /\ Len(part) \in Nat
  OBVIOUS
<1>6. CASE of = {}
  <2>1. at = {}
    BY Zenon, <1>4, <1>6
  <2>2. QED
    BY Zenon, <1>2, <1>6, <2>1
<1>7. CASE of # {}
  <2> HIDE DEF at, of
  <2>1. PICK x \in of : \A y \in of : y <= x
    BY Zenon, <1>5, <1>7, HasLast
  <2>2. last(of) = x
    BY Zenon, <1>5, <2>1, TheLast
  <2>3. x + off \in at /\ part[x] = toks[x + off]
    BY Zenon, <1>3
  <2>4. \A y \in at : y <= x + off
    <3> TAKE y \in at
    <3>1. y - off <= x /\ y - off \in of /\ y \in Nat
      BY Zenon, <1>4, <2>1
    <3>2. x \in Nat
      BY Zenon, <1>5
    <3>3. QED
      BY <3>1, <3>2
  <2> DEFINE z == x + off
  <2> HIDE DEF z
  <2>5. z \in at /\ (\A y \in at : y <= z) /\ part[x] = toks[z]
    BY Zenon, <2>3, <2>4 DEF z
  <2>6. last(at) = z
    BY Zenon, <1>5, <2>5, TheLast
  <2>7. QED
    BY Zenon, <1>2, <1>7, <2>2, <2>5, <2>6
<1>8. QED
  BY Zenon, <1>6, <1>7

\* Where a line is in the section of the exports, as InExports has it.
InSection(rd, k) ==
  LET hs == {j \in 1 .. k - 1 : rd[j][1] \in Headers}
  IN hs = {} \/ rd[CHOOSE j \in hs : \A i \in hs : i <= j][1] = "[exports]"

InLines(rd, k) ==
  /\ rd[k][1] \notin Headers /\ rd[k] # <<"}">> /\ rd[k][Len(rd[k])] # "{"
  /\ InSection(rd, k)

GivesIn(rd, k, path, ds) ==
  LET b == Blocks(rd)[k]
  IN /\ InLines(rd, k)
     /\ IF b = 0 THEN /\ Len(rd[k]) >= 2 /\ rd[k][1] = path /\ rd[k][2] = ds.dsn
                      /\ ds.readonly = SaysRo(rd[k])
        ELSE /\ Len(rd[b]) >= 2 /\ rd[b][1] = path /\ rd[k][1] = ds.dsn
             /\ ds.readonly = (SaysRo(rd[b]) \/ SaysRo(rd[k]))

\* These are what InExports and Gives say of the lines read so far.
LEMMA SameLines ==
  /\ \A k : InExports(k) <=> InLines(read, k)
  /\ \A k, path, ds : Gives(k, path, ds) <=> GivesIn(read, k, path, ds)
<1>1. \A k : InExports(k) <=> InLines(read, k)
  BY Zenon DEF InExports, InLines, InSection
<1>2. ASSUME NEW k, NEW path, NEW ds PROVE Gives(k, path, ds) <=> GivesIn(read, k, path, ds)
  <2> DEFINE b == BlockOf[k]
             c == Blocks(read)[k]
             Said(x) == IF x = 0 THEN /\ Len(read[k]) >= 2 /\ read[k][1] = path
                                      /\ read[k][2] = ds.dsn
                                      /\ ds.readonly = SaysRo(read[k])
                        ELSE /\ Len(read[x]) >= 2 /\ read[x][1] = path /\ read[k][1] = ds.dsn
                             /\ ds.readonly = (SaysRo(read[x]) \/ SaysRo(read[k]))
  <2>1. Gives(k, path, ds) <=> InExports(k) /\ Said(b)
    BY Zenon DEF Gives
  <2>2. GivesIn(read, k, path, ds) <=> InLines(read, k) /\ Said(c)
    BY Zenon DEF GivesIn
  <2>3. b = c
    BY Zenon, BlockOfIsBlocks
  <2> HIDE DEF b, c, Said
  <2>4. QED
    BY Zenon, <1>1, <2>1, <2>2, <2>3
<1>3. QED
  BY Zenon, <1>1, <1>2

\* A header is the only line that changes the section.
LEMMA SectionMoves ==
  ASSUME NEW rd, NEW k \in Nat \ {0}
  PROVE  InSection(rd, k + 1) <=> IF rd[k][1] \in Headers THEN rd[k][1] = "[exports]"
                                  ELSE InSection(rd, k)
<1> DEFINE hs == {j \in 1 .. k - 1 : rd[j][1] \in Headers}
           n == k + 1
           more == {j \in 1 .. n - 1 : rd[j][1] \in Headers}
           last(T) == CHOOSE j \in T : \A i \in T : i <= j
<1>1. \A j : j \in 1 .. n - 1 <=> j \in 1 .. k - 1 \/ j = k
  OBVIOUS
<1> HIDE DEF n
<1>6. InSection(rd, k) <=> hs = {} \/ rd[last(hs)][1] = "[exports]"
  BY Zenon DEF InSection
<1>7. InSection(rd, n) <=> more = {} \/ rd[last(more)][1] = "[exports]"
  BY Zenon DEF InSection
<1>2. /\ InSection(rd, k) <=> hs = {} \/ rd[last(hs)][1] = "[exports]"
      /\ InSection(rd, k + 1) <=> more = {} \/ rd[last(more)][1] = "[exports]"
  BY Zenon, <1>6, <1>7 DEF n
<1>3. CASE rd[k][1] \in Headers
  <2>1. k \in more
    BY Zenon, <1>1, <1>3
  <2>2. more \subseteq Nat /\ \A j \in more : j <= k
    <3>1. \A j \in more : j \in 1 .. k - 1 \/ j = k
      BY Zenon, <1>1
    <3> HIDE DEF more
    <3>2. QED
      BY <3>1
  <2>3. last(more) = k
    <3> HIDE DEF more
    <3> QED
      BY Zenon, <2>1, <2>2, TheLast
  <2>4. QED
    BY Zenon, <1>2, <1>3, <2>1, <2>3
<1>4. CASE rd[k][1] \notin Headers
  <2>1. more = hs
    BY Zenon, <1>1, <1>4
  <2> HIDE DEF more, hs
  <2>2. QED
    BY Zenon, <1>2, <1>4, <2>1
<1>5. QED
  BY Zenon, <1>3, <1>4

\* The section and what a line gives depend on the lines up to it only.
LEMMA SectionKept ==
  ASSUME NEW rd, NEW more, NEW k \in Nat, \A j \in 1 .. k - 1 : more[j] = rd[j]
  PROVE  InSection(more, k) <=> InSection(rd, k)
<1> DEFINE hs == {j \in 1 .. k - 1 : rd[j][1] \in Headers}
           ms == {j \in 1 .. k - 1 : more[j][1] \in Headers}
           last(T) == CHOOSE j \in T : \A i \in T : i <= j
<1>1. ms = hs /\ hs \subseteq 1 .. k - 1
  BY Zenon
<1>2. /\ InSection(rd, k) <=> hs = {} \/ rd[last(hs)][1] = "[exports]"
      /\ InSection(more, k) <=> ms = {} \/ more[last(ms)][1] = "[exports]"
  BY Zenon DEF InSection
<1> HIDE DEF hs, ms
<1>3. CASE hs = {}
  BY Zenon, <1>1, <1>2, <1>3
<1>4. CASE hs # {}
  <2> DEFINE n == k - 1
  <2>1. CASE n \in Nat
    <3>1. hs \subseteq 1 .. n /\ hs \subseteq Nat
      BY <1>1
    <3> HIDE DEF n
    <3>2. PICK x \in hs : \A y \in hs : y <= x
      BY Zenon, <2>1, <3>1, <1>4, HasLast
    <3>3. last(hs) = x
      BY Zenon, <3>1, <3>2, TheLast
    <3>4. more[x] = rd[x]
      BY Zenon, <1>1
    <3>5. QED
      BY Zenon, <1>1, <1>2, <3>3, <3>4
  <2>2. CASE n \notin Nat
    <3>1. 1 .. k - 1 = {}
      BY <2>2
    <3>2. QED
      BY Zenon, <3>1, <1>1, <1>4
  <2>3. QED
    BY Zenon, <2>1, <2>2
<1>5. QED
  BY Zenon, <1>3, <1>4

\* One line more changes nothing of what the lines before it say.
LEMMA GivesKept ==
  ASSUME NEW rd \in Seq(Lines), NEW toks \in Lines, NEW k \in 1 .. Len(rd)
  PROVE  LET more == Append(rd, toks)
         IN /\ InLines(more, k) <=> InLines(rd, k)
            /\ Blocks(more)[k] = Blocks(rd)[k]
            /\ more[k] = rd[k]
            /\ Blocks(rd)[k] # 0 => more[Blocks(rd)[k]] = rd[Blocks(rd)[k]]
            /\ \A path, ds : GivesIn(more, k, path, ds) <=> GivesIn(rd, k, path, ds)
<1> DEFINE more == Append(rd, toks)
<1>1. /\ \A j \in 1 .. Len(rd) : more[j] = rd[j]
      /\ k \in Nat /\ k \in 1 .. Len(rd) + 1 /\ \A j \in 1 .. k - 1 : j \in 1 .. Len(rd)
  OBVIOUS
<1>2. Blocks(more)[k] = Blocks(rd)[k]
  BY Zenon, <1>1, BlocksKept
<1> HIDE DEF more
<1>3. InSection(more, k) <=> InSection(rd, k)
  BY Zenon, <1>1, SectionKept
<1>4. InLines(more, k) <=> InLines(rd, k)
  BY Zenon, <1>1, <1>3 DEF InLines
<1> DEFINE b == Blocks(rd)[k]
<1>5. b # 0 => b \in 1 .. Len(rd)
  BY Zenon, <1>1, BlocksBefore
<1> HIDE DEF b
<1>6. b # 0 => more[b] = rd[b]
  BY Zenon, <1>1, <1>5
<1>7. \A path, ds : GivesIn(more, k, path, ds) <=> GivesIn(rd, k, path, ds)
  <2> TAKE path, ds
  <2>1. CASE b = 0
    BY Zenon, <1>1, <1>2, <1>4, <2>1 DEF GivesIn, b
  <2>2. CASE b # 0
    BY Zenon, <1>1, <1>2, <1>4, <1>6, <2>2 DEF GivesIn, b
  <2>3. QED
    BY Zenon, <2>1, <2>2
<1>8. QED
  BY Zenon, <1>1, <1>2, <1>4, <1>6, <1>7 DEF more, b

\* So for all of them.
LEMMA AllKept ==
  ASSUME NEW rd \in Seq(Lines), NEW toks \in Lines
  PROVE  \A k \in 1 .. Len(rd) :
           /\ InLines(Append(rd, toks), k) <=> InLines(rd, k)
           /\ Blocks(Append(rd, toks))[k] = Blocks(rd)[k]
           /\ \A p, ds : GivesIn(Append(rd, toks), k, p, ds) <=> GivesIn(rd, k, p, ds)
<1> TAKE k \in 1 .. Len(rd)
<1>1. InLines(Append(rd, toks), k) <=> InLines(rd, k)
  BY Zenon, GivesKept
<1>2. Blocks(Append(rd, toks))[k] = Blocks(rd)[k]
  BY Zenon, GivesKept
<1>3. \A p, ds : GivesIn(Append(rd, toks), k, p, ds) <=> GivesIn(rd, k, p, ds)
  BY Zenon, GivesKept
<1>4. QED
  BY Zenon, <1>1, <1>2, <1>3

\* Where the keywords are good, ro is what the last of ro and rw says.
LEMMA KeywordsRo ==
  ASSUME NEW toks, NEW level, ParseKeywords(toks, level) # Bad
  PROVE  ParseKeywords(toks, level).ro = LastOf(toks, {"ro", "rw"})
<1> DEFINE ro == LastOf(toks, {"ro", "rw"})
<1> HIDE DEF ro
<1>1. ASSUME NEW ext, NEW perm, NEW rootperm
      PROVE  [ro |-> ro, ext |-> ext, perm |-> perm, rootperm |-> rootperm].ro = ro
  OBVIOUS
<1>2. QED
  BY Zenon, <1>1 DEF ParseKeywords, ro

\* No path and no dataset is ro or rw.
LEMMA NamesSayNothing ==
  ASSUME NEW name \in Paths \cup Dsns
  PROVE  name \notin {"ro", "rw"} /\ name # "{"
<1>1. name \notin Keywords /\ name # "{"
  BY Zenon, LinesAssumption
<1>2. QED
  BY Zenon, <1>1 DEF Keywords

\* The name before the keywords of a dataset's line is not one of them.
LEMMA LastAfterName ==
  ASSUME NEW toks \in Seq(Names), toks # <<>>, toks[1] \in Dsns
  PROVE  LastOf(toks, {"ro", "rw"}) = LastOf(Tail(toks), {"ro", "rw"})
<1> DEFINE part == Tail(toks)
           S == {"ro", "rw"}
<1>1. /\ part \in Seq(Names) /\ 1 \in Nat
      /\ \A k \in 1 .. Len(part) : k + 1 \in 1 .. Len(toks) /\ part[k] = toks[k + 1]
      /\ \A j \in 1 .. Len(toks) : j = 1 \/ j - 1 \in 1 .. Len(part)
  OBVIOUS
<1>2. toks[1] \notin S
  BY Zenon, NamesSayNothing
<1> HIDE DEF part, S
<1>3. IsPart(part, toks, 1, S)
  BY Zenon, <1>1, <1>2 DEF IsPart
<1>4. LastOf(toks, S) = LastOf(part, S)
  BY Zenon, <1>1, <1>3, LastOfPart
<1>5. QED
  BY Zenon, <1>4 DEF part, S

\* Nor is either of the names before those of a line with a path and a dataset.
LEMMA LastAfterNames ==
  ASSUME NEW toks \in Seq(Names), Len(toks) >= 2, toks[1] \in Paths, toks[2] \in Dsns
  PROVE  LastOf(toks, {"ro", "rw"}) = LastOf(SubSeq(toks, 3, Len(toks)), {"ro", "rw"})
<1> DEFINE part == SubSeq(toks, 3, Len(toks))
           S == {"ro", "rw"}
<1>0. Len(toks) \in Nat
  OBVIOUS
<1>1. /\ part \in Seq(Names) /\ 2 \in Nat
      /\ \A k \in 1 .. Len(part) : k + 2 \in 1 .. Len(toks) /\ part[k] = toks[k + 2]
      /\ \A j \in 1 .. Len(toks) : j = 1 \/ j = 2 \/ j - 2 \in 1 .. Len(part)
  BY <1>0
<1>2. toks[1] \notin S /\ toks[2] \notin S
  BY Zenon, NamesSayNothing
<1> HIDE DEF part, S
<1>3. IsPart(part, toks, 2, S)
  BY Zenon, <1>1, <1>2 DEF IsPart
<1>4. LastOf(toks, S) = LastOf(part, S)
  BY Zenon, <1>1, <1>3, LastOfPart
<1>5. QED
  BY Zenon, <1>4 DEF part, S

\* The keywords of a line that opens a block are between its path and its brace.
LEMMA BlockPart ==
  ASSUME NEW toks \in Seq(Names), NEW n \in Nat, n = Len(toks), n >= 2
  PROVE  LET part == Tail(SubSeq(toks, 1, n - 1))
         IN /\ part \in Seq(Names)
            /\ \A k \in 1 .. Len(part) : k + 1 \in 1 .. n /\ part[k] = toks[k + 1]
            /\ \A j \in 1 .. n : j = 1 \/ j = n \/ j - 1 \in 1 .. Len(part)
<1> DEFINE head == SubSeq(toks, 1, n - 1)
           part == Tail(head)
<1>1. head \in Seq(Names) /\ Len(head) = n - 1 /\ \A k \in 1 .. n - 1 : head[k] = toks[k]
  <2> DEFINE m == n - 1
  <2>1. m \in Nat /\ m <= Len(toks)
    OBVIOUS
  <2> HIDE DEF m
  <2>2. SubSeq(toks, 1, m) \in Seq(Names) /\ Len(SubSeq(toks, 1, m)) = m
        /\ \A k \in 1 .. m : SubSeq(toks, 1, m)[k] = toks[k]
    BY <2>1
  <2>3. QED
    BY Zenon, <2>2 DEF m
<1> HIDE DEF head
<1>2. head # <<>>
  BY <1>1
<1>3. /\ part \in Seq(Names) /\ Len(part) = n - 2
      /\ \A k \in 1 .. n - 2 : part[k] = head[k + 1]
  BY <1>1, <1>2
<1> HIDE DEF part
<1>4. QED
  BY <1>1, <1>3 DEF head, part

\* Nor is the path or the brace of a line that opens a block.
LEMMA LastBetween ==
  ASSUME NEW toks \in Seq(Names), Len(toks) >= 2, toks[1] \in Paths, toks[Len(toks)] = "{"
  PROVE  LastOf(toks, {"ro", "rw"}) = LastOf(Tail(SubSeq(toks, 1, Len(toks) - 1)), {"ro", "rw"})
<1> DEFINE part == Tail(SubSeq(toks, 1, Len(toks) - 1))
           S == {"ro", "rw"}
<1>1. /\ part \in Seq(Names) /\ 1 \in Nat
      /\ \A k \in 1 .. Len(part) : k + 1 \in 1 .. Len(toks) /\ part[k] = toks[k + 1]
  BY Zenon, LenIsNat, BlockPart
<1>2. \A j \in 1 .. Len(toks) : j = 1 \/ j = Len(toks) \/ j - 1 \in 1 .. Len(part)
  BY Zenon, LenIsNat, BlockPart
<1>3. toks[1] \notin S /\ toks[Len(toks)] \notin S
  BY Zenon, NamesSayNothing
<1> HIDE DEF part, S
<1>4. IsPart(part, toks, 1, S)
  BY Zenon, <1>1, <1>2, <1>3 DEF IsPart
<1>5. LastOf(toks, S) = LastOf(part, S)
  BY Zenon, <1>1, <1>4, LastOfPart
<1>6. QED
  BY Zenon, <1>5 DEF part, S

\* So a line whose keywords are good says ro exactly where cfg_parse_keywords
\* finds it to: a dataset's line in a block,
LEMMA DatasetSaysRo ==
  ASSUME NEW toks \in Seq(Names), toks # <<>>, toks[1] \in Dsns,
         ParseKeywords(Tail(toks), "dataset") # Bad
  PROVE  ParseKeywords(Tail(toks), "dataset").ro = "ro" <=> SaysRo(toks)
  BY Zenon, KeywordsRo, LastAfterName DEF SaysRo

\* a line with a path and a dataset,
LEMMA FlatSaysRo ==
  ASSUME NEW toks \in Seq(Names), Len(toks) >= 2, toks[1] \in Paths, toks[2] \in Dsns,
         ParseKeywords(SubSeq(toks, 3, Len(toks)), "dataset") # Bad
  PROVE  ParseKeywords(SubSeq(toks, 3, Len(toks)), "dataset").ro = "ro" <=> SaysRo(toks)
  BY Zenon, KeywordsRo, LastAfterNames DEF SaysRo

\* and a line that opens a block.
LEMMA BlockSaysRo ==
  ASSUME NEW toks \in Seq(Names), Len(toks) >= 2, toks[1] \in Paths, toks[Len(toks)] = "{",
         ParseKeywords(Tail(SubSeq(toks, 1, Len(toks) - 1)), "export") # Bad
  PROVE  ParseKeywords(Tail(SubSeq(toks, 1, Len(toks) - 1)), "export").ro = "ro" <=> SaysRo(toks)
  BY Zenon, KeywordsRo, LastBetween DEF SaysRo

-----------------------------------------------------------------------------
(* The parser *)

\* Tables of exports exports_load may leave, as far as handles read them.
Dataset == [dsn : Dsns, ext : Names, readonly : BOOLEAN, perm : Names]
Export == [path : Paths, datasets : Seq(Dataset), readonly : BOOLEAN,
           failed : BOOLEAN, rootperm : Names]
Tables == Seq(Export)
\* What the parser holds: names it has not checked against the VTOC yet.
Opts == [ro : Names, ext : Names, perm : Names, rootperm : Names]
DatasetRead == [dsn : Names, readonly : BOOLEAN, ext : Names, perm : Names]
ExportRead == [path : Names, readonly : BOOLEAN, failed : BOOLEAN, rootperm : Names,
               datasets : {s \in Seq(DatasetRead) : Len(s) <= MaxDatasets}]
TableRead == {t \in Seq(ExportRead) : Len(t) <= MaxExports}
Parsers == [section : {"exports", "init", "unknown"}, open : BOOLEAN, idx : Nat, opts : Opts,
            table : TableRead]

\* An export of no path of Paths will be dropped: it failed, or has what is no
\* dataset.
Excused(x) ==
  x.path \in Paths \/ x.failed \/ \E d \in DOMAIN x.datasets : x.datasets[d].dsn \notin Dsns

\* A table of the parser: no two exports have one path.
Orderly(t) ==
  /\ \A e \in 1 .. Len(t) : Excused(t[e])
  /\ \A e, f \in 1 .. Len(t) : t[e].path = t[f].path => e = f

Parsed(l) == l \in Parsers /\ l.idx \in 0 .. Len(l.table) /\ Orderly(l.table)

\* The last of several keywords is one of them.
LEMMA LastIsOne ==
  ASSUME NEW toks \in Seq(Names), NEW S
  PROVE  LastOf(toks, S) \in S \cup {Unset}
<1> DEFINE at == {k \in DOMAIN toks : toks[k] \in S}
           last == CHOOSE k \in at : \A j \in at : j <= k
<1>1. CASE at = {}
  BY Zenon, <1>1 DEF LastOf
<1>2. CASE at # {}
  <2>1. at \subseteq 1 .. Len(toks) /\ at \subseteq Nat /\ Len(toks) \in Nat
    OBVIOUS
  <2>2. last \in at
    <3> HIDE DEF at
    <3>1. PICK x \in at : \A y \in at : y <= x
      BY Zenon, <1>2, <2>1, HasLast
    <3>2. QED
      BY Zenon, <2>1, <3>1, TheLast
  <2>3. toks[last] \in S
    BY Zenon, <2>2
  <2>4. QED
    BY Zenon, <1>2, <2>3 DEF LastOf
<1>3. QED
  BY Zenon, <1>1, <1>2

\* parse_keywords yields options.
LEMMA KeywordsTyped ==
  ASSUME NEW toks \in Seq(Names), NEW level
  PROVE  ParseKeywords(toks, level) \in Opts
<1> DEFINE said == {toks[k] : k \in DOMAIN toks}
           ro == LastOf(toks, {"ro", "rw"})
           ext == CASE "fileext=e" \in said -> "e" [] "nofileext" \in said -> ""
                    [] OTHER -> Unset
           perm == IF "perm=0" \in said THEN "000" ELSE Unset
           rootperm == IF "rootperm=0" \in said THEN "000" ELSE Unset
<1>1. ro \in {"ro", "rw"} \cup {Unset}
  BY Zenon, LastIsOne
<1> HIDE DEF said
<1>2. ro \in Names /\ ext \in Names /\ perm \in Names /\ rootperm \in Names
  BY Zenon, <1>1, LinesAssumption DEF Keywords
<1> HIDE DEF ro, ext, perm, rootperm
<1>3. [ro |-> ro, ext |-> ext, perm |-> perm, rootperm |-> rootperm] \in Opts
  BY Zenon, <1>2 DEF Opts
<1>4. Bad \in Opts
  BY Zenon, LinesAssumption DEF Bad, Opts
<1>5. QED
  BY Zenon, <1>3, <1>4 DEF ParseKeywords, ro, ext, perm, rootperm, said

\* A table of exports a line of the configuration made of another one: at most
\* the export of one path was changed or added, nothing was taken from it, and
\* what was added to it is one of these datasets.
Kept(x, y) ==
  /\ y.path = x.path /\ (x.failed => y.failed)
  /\ Len(x.datasets) <= Len(y.datasets)
  /\ \A d \in 1 .. Len(x.datasets) : y.datasets[d] = x.datasets[d]

Fresh(t, u, e, d, path, given) ==
  \/ e <= Len(t) /\ d <= Len(t[e].datasets)
  \/ u[e].path = path /\ u[e].datasets[d] \in given

Edited(t, u, path, given) ==
  /\ u \in TableRead /\ Len(u) \in {Len(t), Len(t) + 1}
  /\ \A e \in 1 .. Len(t) : Kept(t[e], u[e]) /\ (t[e].path # path => u[e] = t[e])
  /\ Len(u) = Len(t) + 1 =>
       u[Len(u)].path = path /\ \A e \in 1 .. Len(t) : t[e].path # path
  /\ \A e \in 1 .. Len(u) : \A d \in 1 .. Len(u[e].datasets) : Fresh(t, u, e, d, path, given)

\* What a table that is being read is made of.
LEMMA TableReadTypes ==
  ASSUME NEW t \in TableRead
  PROVE  /\ t \in Seq(ExportRead) /\ Len(t) \in 0 .. MaxExports /\ DOMAIN t = 1 .. Len(t)
         /\ \A e \in 1 .. Len(t) :
              /\ t[e] \in ExportRead /\ t[e].path \in Names /\ t[e].failed \in BOOLEAN
              /\ t[e].datasets \in Seq(DatasetRead)
              /\ Len(t[e].datasets) \in 0 .. MaxDatasets
              /\ DOMAIN t[e].datasets = 1 .. Len(t[e].datasets)
<1>1. t \in Seq(ExportRead) /\ Len(t) \in 0 .. MaxExports /\ DOMAIN t = 1 .. Len(t)
  BY ConfigAssumption DEF TableRead
<1>2. \A e \in 1 .. Len(t) : t[e] \in ExportRead
  BY <1>1
<1>3. ASSUME NEW x \in ExportRead
      PROVE  /\ x.path \in Names /\ x.failed \in BOOLEAN /\ x.datasets \in Seq(DatasetRead)
             /\ Len(x.datasets) <= MaxDatasets
  BY Zenon DEF ExportRead
<1>4. ASSUME NEW s \in Seq(DatasetRead), Len(s) <= MaxDatasets
      PROVE  Len(s) \in 0 .. MaxDatasets /\ DOMAIN s = 1 .. Len(s)
  BY <1>4, ConfigAssumption
<1>5. QED
  BY Zenon, <1>1, <1>2, <1>3, <1>4

\* A line may leave the table as it is.
LEMMA NothingEdited ==
  ASSUME NEW t \in TableRead, NEW path, NEW given
  PROVE  Edited(t, t, path, given)
<1>1. \A e \in 1 .. Len(t) : Kept(t[e], t[e])
  BY TableReadTypes DEF Kept
<1>2. Len(t) # Len(t) + 1
  BY TableReadTypes
<1>3. \A e \in 1 .. Len(t) : \A d \in 1 .. Len(t[e].datasets) : Fresh(t, t, e, d, path, given)
  BY TableReadTypes DEF Fresh
<1>4. QED
  BY Zenon, <1>1, <1>2, <1>3 DEF Edited

WithExport(t, e, x) == [t EXCEPT ![e] = x]

\* One export of the table is replaced by what it becomes.
LEMMA OneEdited ==
  ASSUME NEW t \in TableRead, NEW e \in 1 .. Len(t), NEW x \in ExportRead, NEW given,
         Kept(t[e], x),
         \A d \in 1 .. Len(x.datasets) : d <= Len(t[e].datasets) \/ x.datasets[d] \in given
  PROVE  LET u == WithExport(t, e, x)
         IN /\ Edited(t, u, t[e].path, given) /\ Len(u) = Len(t) /\ u[e] = x
            /\ \A k \in 1 .. Len(t) : k # e => u[k] = t[k]
<1> DEFINE u == WithExport(t, e, x)
<1>1. /\ u \in Seq(ExportRead) /\ Len(u) = Len(t) /\ u[e] = x
      /\ \A k \in 1 .. Len(t) : k # e => u[k] = t[k]
  <2>1. t \in Seq(ExportRead)
    BY Zenon, TableReadTypes
  <2>2. QED
    BY <2>1 DEF WithExport
<1> HIDE DEF u
<1>2. u \in TableRead
  BY Zenon, <1>1 DEF TableRead
<1>3. Edited(t, t, t[e].path, given)
  BY Zenon, NothingEdited
<1>4. /\ \A k \in 1 .. Len(t) : Kept(t[k], t[k])
      /\ Len(t) # Len(t) + 1 /\ \A k \in 1 .. Len(t) : k <= Len(t)
      /\ \A k \in 1 .. Len(t) : \A d \in 1 .. Len(t[k].datasets) : d <= Len(t[k].datasets)
  BY TableReadTypes DEF Kept
<1>5. \A k \in 1 .. Len(t) : Kept(t[k], u[k])
  BY Zenon, <1>1, <1>4
<1>6. \A k \in 1 .. Len(t) : t[k].path # t[e].path => u[k] = t[k]
  BY Zenon, <1>1
<1>7. x.path = t[e].path
  BY Zenon DEF Kept
<1>8. \A k \in 1 .. Len(u) : \A d \in 1 .. Len(u[k].datasets) : Fresh(t, u, k, d, t[e].path, given)
  <2> TAKE k \in 1 .. Len(u)
  <2>1. CASE k = e
    BY Zenon, <2>1, <1>1, <1>4, <1>7 DEF Fresh
  <2>2. CASE k # e
    BY Zenon, <2>2, <1>1, <1>4 DEF Fresh
  <2> QED
    BY Zenon, <2>1, <2>2
<1>9. Edited(t, u, t[e].path, given)
  BY Zenon, <1>1, <1>2, <1>4, <1>5, <1>6, <1>8 DEF Edited
<1>10. QED
  BY Zenon, <1>1, <1>9 DEF u

\* Two edits for one path, the second of an export that is there.
LEMMA EditedTwice ==
  ASSUME NEW t \in TableRead, NEW u, NEW v, NEW path, NEW given,
         Edited(t, u, path, {}), Edited(u, v, path, given), Len(v) = Len(u)
  PROVE  Edited(t, v, path, given)
<1>1. u \in TableRead /\ v \in TableRead /\ Len(u) \in {Len(t), Len(t) + 1}
  BY Zenon DEF Edited
<1>2. 1 .. Len(t) \subseteq 1 .. Len(u) /\ 1 .. Len(u) = 1 .. Len(v)
  BY <1>1, TableReadTypes
<1>3. \A e \in 1 .. Len(t) : Kept(t[e], v[e])
  <2> TAKE e \in 1 .. Len(t)
  <2>1. Kept(t[e], u[e]) /\ Kept(u[e], v[e])
    BY Zenon, <1>2 DEF Edited
  <2>2. /\ Len(t[e].datasets) \in Nat /\ Len(u[e].datasets) \in Nat /\ Len(v[e].datasets) \in Nat
    BY <1>1, <1>2, TableReadTypes
  <2>3. /\ v[e].path = t[e].path /\ (t[e].failed => v[e].failed)
        /\ Len(t[e].datasets) <= Len(u[e].datasets) /\ Len(u[e].datasets) <= Len(v[e].datasets)
        /\ \A d \in 1 .. Len(t[e].datasets) : u[e].datasets[d] = t[e].datasets[d]
        /\ \A d \in 1 .. Len(u[e].datasets) : v[e].datasets[d] = u[e].datasets[d]
    BY Zenon, <2>1 DEF Kept
  <2>4. /\ Len(t[e].datasets) <= Len(v[e].datasets)
        /\ 1 .. Len(t[e].datasets) \subseteq 1 .. Len(u[e].datasets)
    BY <2>2, <2>3
  <2>5. QED
    BY Zenon, <2>3, <2>4 DEF Kept
<1>4. \A e \in 1 .. Len(t) : t[e].path # path => v[e] = t[e]
  <2> TAKE e \in 1 .. Len(t)
  <2>1. t[e].path # path => u[e] = t[e]
    BY Zenon DEF Edited
  <2>2. u[e].path # path => v[e] = u[e]
    BY Zenon, <1>2 DEF Edited
  <2>3. QED
    BY Zenon, <2>1, <2>2
<1>5. Len(v) = Len(t) + 1 =>
        v[Len(v)].path = path /\ \A e \in 1 .. Len(t) : t[e].path # path
  <2> SUFFICES ASSUME Len(v) = Len(t) + 1
               PROVE  v[Len(v)].path = path /\ \A e \in 1 .. Len(t) : t[e].path # path
    OBVIOUS
  <2>1. u[Len(u)].path = path /\ \A e \in 1 .. Len(t) : t[e].path # path
    BY Zenon DEF Edited
  <2>2. Len(u) \in 1 .. Len(u)
    BY TableReadTypes
  <2>3. Kept(u[Len(u)], v[Len(u)])
    BY Zenon, <2>2 DEF Edited
  <2>4. QED
    BY Zenon, <2>1, <2>3 DEF Kept
<1>6. \A e \in 1 .. Len(v) : \A d \in 1 .. Len(v[e].datasets) : Fresh(t, v, e, d, path, given)
  <2> TAKE e \in 1 .. Len(v)
  <2> TAKE d \in 1 .. Len(v[e].datasets)
  <2>1. Fresh(u, v, e, d, path, given) /\ e \in 1 .. Len(u)
    BY Zenon, <1>2 DEF Edited
  <2>2. CASE v[e].path = path /\ v[e].datasets[d] \in given
    BY Zenon, <2>2 DEF Fresh
  <2>3. CASE e <= Len(u) /\ d <= Len(u[e].datasets)
    <3>1. d \in 1 .. Len(u[e].datasets)
      BY <2>1, <2>3, <1>1, TableReadTypes
    <3>2. Fresh(t, u, e, d, path, {})
      BY Zenon, <2>1, <3>1 DEF Edited
    <3>3. QED
      BY Zenon, <3>2 DEF Fresh
  <2>4. QED
    BY Zenon, <2>1, <2>2, <2>3 DEF Fresh
<1>7. QED
  BY Zenon, <1>1, <1>3, <1>4, <1>5, <1>6 DEF Edited

\* find_or_create_export: the export of this path, made if there is room, none
\* only if there is neither.
LEMMA FoundOrCreated ==
  ASSUME NEW t \in TableRead, NEW path \in Names
  PROVE  LET found == FindOrCreate(t, path)
         IN /\ Edited(t, found[2], path, {}) /\ found[1] \in 0 .. Len(found[2])
            /\ found[1] # 0 => found[2][found[1]].path = path
            /\ found[1] # 0 => found[1] \in 1 .. Len(found[2])
            /\ found[1] = 0 => /\ found[2] = t /\ Len(t) = MaxExports
                               /\ \A e \in 1 .. Len(t) : t[e].path # path
            /\ \A e \in 1 .. Len(t) : found[2][e] = t[e]
<1> DEFINE at == {e \in DOMAIN t : t[e].path = path}
           new == [path |-> path, readonly |-> FALSE, failed |-> FALSE,
                   rootperm |-> "555", datasets |-> <<>>]
           found == FindOrCreate(t, path)
<1>1. /\ DOMAIN t = 1 .. Len(t) /\ Len(t) \in Nat /\ MaxExports \in Nat /\ Len(t) <= MaxExports
      /\ t \in Seq(ExportRead)
  BY TableReadTypes, ConfigAssumption
<1>2. CASE at # {}
  <2>1. found = <<CHOOSE e \in at : TRUE, t>>
    BY Zenon, <1>2 DEF FindOrCreate
  <2>2. found[1] = (CHOOSE e \in at : TRUE) /\ found[2] = t
    BY <2>1
  <2>3. found[1] \in at
    <3> HIDE DEF found, at
    <3> QED
      BY Zenon, <2>2, <1>2
  <2>4. found[1] \in 1 .. Len(t) /\ t[found[1]].path = path
    <3> HIDE DEF found
    <3> QED
      BY Zenon, <2>3, <1>1
  <2>5. found[1] \in 0 .. Len(t) /\ found[1] # 0
    <3> HIDE DEF found
    <3> QED
      BY <2>4, <1>1
  <2>6. Edited(t, t, path, {})
    BY Zenon, NothingEdited
  <2> HIDE DEF found
  <2>7. QED
    BY Zenon, <2>2, <2>4, <2>5, <2>6 DEF found
<1>3. \A e \in 1 .. Len(t) : at = {} => t[e].path # path
  BY Zenon, <1>1
<1>4. CASE at = {} /\ Len(t) >= MaxExports
  <2>1. found = <<0, t>>
    BY Zenon, <1>4 DEF FindOrCreate
  <2>2. found[1] = 0 /\ found[2] = t
    BY <2>1
  <2>3. Len(t) = MaxExports /\ 0 \in 0 .. Len(t)
    <3>1. Len(t) >= MaxExports
      BY Zenon, <1>4
    <3>2. Len(t) \in Nat /\ MaxExports \in Nat /\ Len(t) <= MaxExports
      BY Zenon, <1>1
    <3> HIDE DEF found, at
    <3> QED
      BY <3>1, <3>2
  <2>6. Edited(t, t, path, {})
    BY Zenon, NothingEdited
  <2> HIDE DEF found
  <2>7. QED
    BY Zenon, <2>2, <2>3, <2>6, <1>3, <1>4 DEF found
<1>5. CASE at = {} /\ ~(Len(t) >= MaxExports)
  <2> DEFINE u == Append(t, new)
  <2>1. found = <<Len(t) + 1, u>>
    BY Zenon, <1>5 DEF FindOrCreate
  <2>2. found[1] = Len(t) + 1 /\ found[2] = u
    BY <2>1
  <2>3. /\ <<>> \in {s \in Seq(DatasetRead) : Len(s) <= MaxDatasets} /\ Len(<<>>) = 0
    BY ConfigAssumption
  <2>4. new \in ExportRead /\ Len(new.datasets) = 0 /\ new.path = path
    BY Zenon, <2>3, LinesAssumption DEF ExportRead
  <2> HIDE DEF new
  <2>5. /\ u \in Seq(ExportRead) /\ Len(u) = Len(t) + 1 /\ Len(u) <= MaxExports
        /\ u[Len(t) + 1] = new /\ \A e \in 1 .. Len(t) : u[e] = t[e]
        /\ Len(t) + 1 \in 1 .. Len(u) /\ Len(t) + 1 \in 0 .. Len(u) /\ Len(t) + 1 # 0
        /\ \A e \in 1 .. Len(u) : e = Len(t) + 1 \/ (e \in 1 .. Len(t) /\ e <= Len(t))
    BY <2>4, <1>1, <1>5
  <2> HIDE DEF u, found
  <2>6. u \in TableRead
    BY Zenon, <2>5 DEF TableRead
  <2>7. Edited(t, t, path, {}) /\ (\A d \in 1 .. 0 : FALSE)
    BY NothingEdited
  <2>8. \A e \in 1 .. Len(u) : \A d \in 1 .. Len(u[e].datasets) : Fresh(t, u, e, d, path, {})
    <3> TAKE e \in 1 .. Len(u)
    <3>1. CASE e = Len(t) + 1
      BY Zenon, <3>1, <2>4, <2>5, <2>7
    <3>2. CASE e \in 1 .. Len(t) /\ e <= Len(t)
      <4>1. \A d \in 1 .. Len(t[e].datasets) : d <= Len(t[e].datasets)
        BY <3>2, TableReadTypes
      <4>2. QED
        BY Zenon, <3>2, <4>1, <2>5 DEF Fresh
    <3>3. QED
      BY Zenon, <3>1, <3>2, <2>5
  <2>9. Edited(t, u, path, {})
    BY Zenon, <2>4, <2>5, <2>6, <2>7, <2>8, <1>3, <1>5 DEF Edited
  <2>10. QED
    BY Zenon, <2>2, <2>4, <2>5, <2>9 DEF found
<1>6. QED
  BY Zenon, <1>2, <1>4, <1>5

\* Parsers that differ in their tables only.
LEMMA OtherTable ==
  ASSUME NEW l \in Parsers, NEW u \in TableRead, NEW m, m = [l EXCEPT !.table = u]
  PROVE  /\ m \in Parsers /\ m.table = u /\ m.section = l.section /\ m.open = l.open
         /\ m.idx = l.idx /\ m.opts = l.opts
BY Zenon DEF Parsers

\* What the state of the parser is made of.
LEMMA ParserTypes ==
  ASSUME NEW l \in Parsers
  PROVE  /\ l.table \in TableRead /\ l.opts \in Opts /\ l.open \in BOOLEAN /\ l.idx \in Nat
         /\ l.section \in {"exports", "init", "unknown"}
BY Zenon DEF Parsers

\* An export that failed stays in the table until the end of the file.
LEMMA Failed ==
  ASSUME NEW l \in Parsers, NEW e \in 0 .. Len(l.table)
  PROVE  LET m == Fail(l, e)
         IN /\ m \in Parsers /\ m.section = l.section /\ m.open = l.open
            /\ m.idx = l.idx /\ m.opts = l.opts /\ Len(m.table) = Len(l.table)
            /\ e = 0 => m = l
            /\ e # 0 => /\ e \in 1 .. Len(l.table) /\ m.table[e].failed
                        /\ Edited(l.table, m.table, l.table[e].path, {})
                        /\ \A k \in 1 .. Len(l.table) : k # e => m.table[k] = l.table[k]
<1> DEFINE m == Fail(l, e)
<1>1. CASE e = 0
  BY Zenon, <1>1 DEF Fail
<1>2. CASE e # 0
  <2> DEFINE t == l.table
             x == [t[e] EXCEPT !.failed = TRUE]
             u == WithExport(t, e, x)
  <2>1. t \in TableRead /\ e \in 1 .. Len(t)
    BY <1>2, ParserTypes, TableReadTypes
  <2>2. t[e] \in ExportRead /\ Len(t[e].datasets) \in Nat
    BY <2>1, TableReadTypes
  <2>3. /\ x \in ExportRead /\ x.path = t[e].path /\ x.failed = TRUE
        /\ x.datasets = t[e].datasets
    <3> HIDE DEF t
    <3> QED
      BY Zenon, <2>2 DEF ExportRead
  <2>4. \A d \in 1 .. Len(t[e].datasets) : d <= Len(t[e].datasets)
    BY <2>2
  <2>5. Len(t[e].datasets) <= Len(t[e].datasets)
    BY <2>2
  <2>6. Kept(t[e], x)
    <3> HIDE DEF x, t
    <3> QED
      BY Zenon, <2>3, <2>5 DEF Kept
  <2>7. m = [l EXCEPT !.table = u]
    BY Zenon, <1>2 DEF Fail, WithExport
  <2>8. /\ Edited(t, u, t[e].path, {}) /\ Len(u) = Len(t) /\ u[e] = x
        /\ \A k \in 1 .. Len(t) : k # e => u[k] = t[k]
    <3> HIDE DEF x, t
    <3>1. \A d \in 1 .. Len(x.datasets) : d <= Len(t[e].datasets) \/ x.datasets[d] \in {}
      BY Zenon, <2>3, <2>4
    <3>2. x \in ExportRead
      BY Zenon, <2>3
    <3>3. QED
      BY Zenon, <2>1, <2>6, <3>1, <3>2, OneEdited
  <2> HIDE DEF u, x
  <2>9. u \in TableRead
    BY Zenon, <2>8 DEF Edited
  <2>10. /\ m \in Parsers /\ m.table = u /\ m.section = l.section /\ m.open = l.open
         /\ m.idx = l.idx /\ m.opts = l.opts
    BY <2>7, <2>9, OtherTable
  <2>11. u[e].failed
    BY Zenon, <2>3, <2>8
  <2>12. QED
    BY Zenon, <1>2, <2>1, <2>8, <2>10, <2>11
<1>3. QED
  BY Zenon, <1>1, <1>2

\* The dataset a line names is in the export, or the export failed.
Took(x, ds) == x.failed \/ \E d \in 1 .. Len(x.datasets) : x.datasets[d] = ds

\* resolve_opts yields a dataset of this name.
LEMMA OptsResolved ==
  ASSUME NEW dsn \in Names, QualifierOf[dsn] \in Names, NEW exp \in Opts, NEW ds \in Opts
  PROVE  /\ ResolveOpts(exp, ds, dsn) \in DatasetRead
         /\ ResolveOpts(exp, ds, dsn).dsn = dsn
         /\ ResolveOpts(exp, ds, dsn).readonly = (exp.ro = "ro" \/ ds.ro = "ro")
<1>1. DatasetInit(dsn) \in DatasetRead /\ DatasetInit(dsn).dsn = dsn
  BY Zenon, LinesAssumption DEF DatasetInit, DatasetRead
<1>2. \A a, b \in Names : First(a, b) \in Names
  BY Zenon DEF First
<1>3. /\ exp.ext \in Names /\ exp.perm \in Names /\ ds.ext \in Names /\ ds.perm \in Names
      /\ DatasetInit(dsn).ext \in Names /\ DatasetInit(dsn).perm \in Names
  BY Zenon, <1>1 DEF Opts, DatasetRead
<1>4. /\ First(ds.ext, First(exp.ext, DatasetInit(dsn).ext)) \in Names
      /\ First(ds.perm, First(exp.perm, DatasetInit(dsn).perm)) \in Names
  BY Zenon, <1>2, <1>3
<1>5. QED
  BY <1>1, <1>4 DEF ResolveOpts, DatasetRead

\* add_dataset: the dataset is in the export after it, or the export failed.
LEMMA DatasetAdded ==
  ASSUME NEW l \in Parsers, NEW e \in 1 .. Len(l.table), NEW dsn \in Names,
         QualifierOf[dsn] \in Names, NEW exp \in Opts, NEW ds \in Opts
  PROVE  LET m == AddDataset(l, e, dsn, exp, ds)
         IN /\ m \in Parsers /\ m.section = l.section /\ m.open = l.open
            /\ m.idx = l.idx /\ m.opts = l.opts /\ Len(m.table) = Len(l.table)
            /\ Took(m.table[e], ResolveOpts(exp, ds, dsn))
            /\ Edited(l.table, m.table, l.table[e].path, {ResolveOpts(exp, ds, dsn)})
<1> DEFINE m == AddDataset(l, e, dsn, exp, ds)
           t == l.table
           new == ResolveOpts(exp, ds, dsn)
           x == [t[e] EXCEPT !.datasets = Append(@, new)]
           u == WithExport(t, e, x)
<1>1. t \in TableRead
  BY Zenon, ParserTypes
<1>2. t[e] \in ExportRead /\ t[e].datasets \in Seq(DatasetRead) /\ Len(t[e].datasets) \in Nat
  BY <1>1, TableReadTypes
<1>3. CASE Len(t[e].datasets) >= MaxDatasets \/ Clash(exp, ds)
  <2>1. m = Fail(l, e)
    BY Zenon, <1>3 DEF AddDataset
  <2>2. e \in 0 .. Len(l.table) /\ e # 0
    BY <1>1, TableReadTypes
  <2>3. /\ m \in Parsers /\ m.section = l.section /\ m.open = l.open
        /\ m.idx = l.idx /\ m.opts = l.opts /\ Len(m.table) = Len(l.table)
        /\ m.table[e].failed /\ Edited(l.table, m.table, l.table[e].path, {})
    <3> DEFINE f == Fail(l, e)
    <3>1. /\ f \in Parsers /\ f.section = l.section /\ f.open = l.open
          /\ f.idx = l.idx /\ f.opts = l.opts /\ Len(f.table) = Len(l.table)
          /\ f.table[e].failed /\ Edited(l.table, f.table, l.table[e].path, {})
      BY Zenon, <2>2, Failed
    <3> HIDE DEF f
    <3>2. m = f
      BY Zenon, <2>1 DEF f
    <3> HIDE DEF m
    <3>3. QED
      BY Zenon, <3>1, <3>2
  <2>4. Edited(m.table, m.table, l.table[e].path, {new})
    BY Zenon, <2>3, ParserTypes, NothingEdited
  <2>5. Edited(l.table, m.table, l.table[e].path, {new})
    BY Zenon, <1>1, <2>3, <2>4, EditedTwice
  <2>6. QED
    BY Zenon, <2>3, <2>5 DEF Took
<1>4. CASE ~(Len(t[e].datasets) >= MaxDatasets \/ Clash(exp, ds))
  <2>1. m = [l EXCEPT !.table = u]
    BY Zenon, <1>4 DEF AddDataset, WithExport
  <2>2. new \in DatasetRead
    BY Zenon, OptsResolved
  <2> DEFINE s == t[e].datasets
             r == Append(s, new)
  <2>3. /\ r \in Seq(DatasetRead) /\ Len(r) = Len(s) + 1 /\ Len(r) <= MaxDatasets
        /\ r[Len(s) + 1] = new /\ Len(s) <= Len(r) /\ Len(s) + 1 \in 1 .. Len(r)
        /\ \A d \in 1 .. Len(s) : r[d] = s[d]
        /\ \A d \in 1 .. Len(r) : d <= Len(s) \/ r[d] = new
    <3>1. s \in Seq(DatasetRead) /\ Len(s) \in Nat /\ ~(Len(s) >= MaxDatasets)
      BY <1>2, <1>4
    <3> HIDE DEF s, new
    <3>2. QED
      BY <2>2, <3>1, ConfigAssumption
  <2> HIDE DEF r, new
  <2>4. /\ x \in ExportRead /\ x.path = t[e].path /\ x.failed = t[e].failed /\ x.datasets = r
    <3>1. x = [t[e] EXCEPT !.datasets = r]
      BY Zenon DEF r
    <3> HIDE DEF t, x, s
    <3>2. QED
      BY <2>3, <1>2, <3>1 DEF ExportRead
  <2> HIDE DEF x
  <2>5. Kept(t[e], x)
    BY Zenon, <2>3, <2>4 DEF Kept
  <2>6. \A d \in 1 .. Len(x.datasets) : d <= Len(t[e].datasets) \/ x.datasets[d] \in {new}
    BY Zenon, <2>3, <2>4
  <2>7. /\ Edited(t, u, t[e].path, {new}) /\ Len(u) = Len(t) /\ u[e] = x
    BY Zenon, <1>1, <2>4, <2>5, <2>6, OneEdited
  <2> HIDE DEF u
  <2>8. u \in TableRead
    BY Zenon, <2>7 DEF Edited
  <2>9. /\ m \in Parsers /\ m.table = u /\ m.section = l.section /\ m.open = l.open
        /\ m.idx = l.idx /\ m.opts = l.opts
    BY <2>1, <2>8, OtherTable
  <2>10. Took(u[e], new)
    <3>1. u[e].datasets = r
      BY Zenon, <2>7, <2>4
    <3>2. QED
      BY Zenon, <3>1, <2>3 DEF Took
  <2>11. QED
    BY Zenon, <2>7, <2>9, <2>10 DEF new
<1>5. QED
  BY Zenon, <1>3, <1>4

\* A line of a block.
LEMMA DatasetLineRead ==
  ASSUME NEW l \in Parsers, l.idx \in 0 .. Len(l.table), NEW toks \in Seq(Names), toks # <<>>,
         QualifierOf[toks[1]] \in Names
  PROVE  LET m == DatasetLine(l, toks)
             ds == ParseKeywords(Tail(toks), "dataset")
             new == ResolveOpts(l.opts, ds, toks[1])
         IN /\ m \in Parsers /\ m.section = l.section /\ m.open = l.open
            /\ m.idx = l.idx /\ m.opts = l.opts /\ Len(m.table) = Len(l.table)
            /\ l.idx = 0 => m = l
            /\ l.idx # 0 => /\ l.idx \in 1 .. Len(l.table) /\ Took(m.table[l.idx], new)
                            /\ ds = Bad => m.table[l.idx].failed
                            /\ Edited(l.table, m.table, l.table[l.idx].path, {new})
<1> DEFINE m == DatasetLine(l, toks)
           e == l.idx
           ds == ParseKeywords(Tail(toks), "dataset")
           new == ResolveOpts(l.opts, ds, toks[1])
<1>1. l.table \in TableRead /\ l.opts \in Opts
  BY Zenon, ParserTypes
<1>2. ds \in Opts /\ toks[1] \in Names
  <2>1. Tail(toks) \in Seq(Names) /\ toks[1] \in Names
    OBVIOUS
  <2>2. QED
    BY Zenon, <2>1, KeywordsTyped
<1>3. e # 0 => e \in 1 .. Len(l.table)
  BY <1>1, TableReadTypes
<1>4. CASE e = 0
  BY Zenon, <1>4 DEF DatasetLine
<1>5. CASE e # 0 /\ l.table[e].failed
  <2>1. m = l
    BY Zenon, <1>5 DEF DatasetLine
  <2>2. QED
    BY Zenon, <1>1, <1>3, <1>5, <2>1, NothingEdited DEF Took
<1>6. CASE e # 0 /\ ~l.table[e].failed /\ ds = Bad
  <2>1. m = Fail(l, e)
    BY Zenon, <1>6 DEF DatasetLine
  <2> HIDE DEF m
  <2>2. /\ m \in Parsers /\ m.section = l.section /\ m.open = l.open
        /\ m.idx = l.idx /\ m.opts = l.opts /\ Len(m.table) = Len(l.table)
        /\ m.table[e].failed /\ Edited(l.table, m.table, l.table[e].path, {})
    <3>1. e \in 0 .. Len(l.table)
      OBVIOUS
    <3> HIDE DEF e
    <3>2. QED
      BY Zenon, <3>1, <1>6, <2>1, Failed
  <2>3. Edited(m.table, m.table, l.table[e].path, {new})
    BY Zenon, <2>2, ParserTypes, NothingEdited
  <2>4. Edited(l.table, m.table, l.table[e].path, {new})
    BY Zenon, <1>1, <2>2, <2>3, EditedTwice
  <2>5. QED
    BY Zenon, <1>3, <1>6, <2>2, <2>4 DEF Took, m
<1>7. CASE e # 0 /\ ~l.table[e].failed /\ ds # Bad
  <2>1. m = AddDataset(l, e, toks[1], l.opts, ds)
    BY Zenon, <1>7 DEF DatasetLine
  <2>2. e \in 1 .. Len(l.table)
    BY Zenon, <1>3, <1>7
  <2> HIDE DEF ds, m, e
  <2>3. /\ m \in Parsers /\ m.section = l.section /\ m.open = l.open
        /\ m.idx = l.idx /\ m.opts = l.opts /\ Len(m.table) = Len(l.table)
        /\ Took(m.table[e], new) /\ Edited(l.table, m.table, l.table[e].path, {new})
    <3> DEFINE dsn == toks[1]
               exp == l.opts
    <3>1. /\ dsn \in Names /\ QualifierOf[dsn] \in Names /\ exp \in Opts /\ ds \in Opts
          /\ m = AddDataset(l, e, dsn, exp, ds) /\ new = ResolveOpts(exp, ds, dsn)
      BY Zenon, <1>1, <1>2, <2>1
    <3> HIDE DEF dsn, exp, new
    <3> DEFINE a == AddDataset(l, e, dsn, exp, ds)
               b == ResolveOpts(exp, ds, dsn)
    <3>2. /\ a \in Parsers /\ a.section = l.section /\ a.open = l.open
          /\ a.idx = l.idx /\ a.opts = l.opts /\ Len(a.table) = Len(l.table)
          /\ Took(a.table[e], b) /\ Edited(l.table, a.table, l.table[e].path, {b})
      <4>1. QualifierOf[dsn] \in Names
        BY Zenon, <3>1
      <4>2. dsn \in Names /\ exp \in Opts /\ ds \in Opts
        BY Zenon, <3>1
      <4>3. QED
        BY Zenon, <4>1, <4>2, <2>2, DatasetAdded
    <3>3. m = a /\ new = b
      BY Zenon, <3>1
    <3> HIDE DEF a, b
    <3>4. QED
      BY Zenon, <3>2, <3>3
  <2>4. QED
    BY Zenon, <1>7, <2>2, <2>3 DEF ds, m, e
<1>8. QED
  BY Zenon, <1>4, <1>5, <1>6, <1>7

\* A line with a path, a dataset and keywords.
LEMMA FlatLineRead ==
  ASSUME NEW l \in Parsers, NEW toks \in Seq(Names), toks # <<>>,
         \A k \in DOMAIN toks : QualifierOf[toks[k]] \in Names
  PROVE  LET m == FlatLine(l, toks)
             ds == ParseKeywords(SubSeq(toks, 3, Len(toks)), "dataset")
             new == ResolveOpts(NoOpts, ds, toks[2])
         IN /\ m \in Parsers /\ m.section = l.section /\ m.open = l.open
            /\ m.idx = l.idx /\ m.opts = l.opts
            /\ m = l \/ /\ Len(toks) >= 2 /\ Edited(l.table, m.table, toks[1], {new})
                        /\ \E e \in 1 .. Len(m.table) :
                             /\ m.table[e].path = toks[1] /\ Took(m.table[e], new)
                             /\ ds = Bad => m.table[e].failed
<1> DEFINE m == FlatLine(l, toks)
           path == toks[1]
           dsn == toks[2]
           ds == ParseKeywords(SubSeq(toks, 3, Len(toks)), "dataset")
           new == ResolveOpts(NoOpts, ds, dsn)
           found == FindOrCreate(l.table, path)
           e == found[1]
           u == found[2]
           made == [l EXCEPT !.table = u]
<1>1. CASE ~(Len(toks) >= 2) \/ e = 0
  <2>1. Len(toks) < 2 \/ Len(toks) >= 2
    OBVIOUS
  <2>2. m = l
    BY Zenon, <1>1, <2>1 DEF FlatLine
  <2>3. QED
    BY Zenon, <2>2
<1>2. CASE Len(toks) >= 2 /\ e # 0
  <2>1. /\ path \in Names /\ dsn \in Names /\ 2 \in DOMAIN toks /\ ~(Len(toks) < 2)
        /\ SubSeq(toks, 3, Len(toks)) \in Seq(Names)
    BY <1>2
  <2>2. ds \in Opts /\ QualifierOf[dsn] \in Names
    BY Zenon, <2>1, KeywordsTyped
  <2>3. m = IF ds = Bad THEN Fail(made, e) ELSE AddDataset(made, e, dsn, NoOpts, ds)
    BY Zenon, <1>2, <2>1 DEF FlatLine
  <2>4. l.table \in TableRead
    BY Zenon, ParserTypes
  <2>5. /\ Edited(l.table, u, path, {}) /\ e \in 0 .. Len(u) /\ e \in 1 .. Len(u)
        /\ u[e].path = path
    <3> DEFINE t == l.table
    <3>1. t \in TableRead /\ path \in Names /\ FindOrCreate(t, path)[1] # 0
      BY Zenon, <1>2, <2>1, <2>4
    <3> HIDE DEF t, path
    <3>2. LET f == FindOrCreate(t, path)
          IN /\ Edited(t, f[2], path, {}) /\ f[1] \in 0 .. Len(f[2]) /\ f[1] \in 1 .. Len(f[2])
             /\ f[2][f[1]].path = path
      BY <3>1, FoundOrCreated
    <3>3. QED
      BY Zenon, <3>2 DEF t
  <2>6. u \in TableRead
    BY Zenon, <2>5 DEF Edited
  <2> HIDE DEF m, ds, path, dsn, found, e, u
  <2>7. /\ made \in Parsers /\ made.table = u /\ made.section = l.section
        /\ made.open = l.open /\ made.idx = l.idx /\ made.opts = l.opts
    BY <2>6, OtherTable
  <2> HIDE DEF made
  <2>8. /\ m \in Parsers /\ m.section = made.section /\ m.open = made.open
        /\ m.idx = made.idx /\ m.opts = made.opts /\ Len(m.table) = Len(made.table)
        /\ Took(m.table[e], new) /\ (ds = Bad => m.table[e].failed)
        /\ Edited(made.table, m.table, made.table[e].path, {new})
    <3>1. CASE ds = Bad
      <4> DEFINE a == Fail(made, e)
      <4>1. /\ a \in Parsers /\ a.section = made.section /\ a.open = made.open
            /\ a.idx = made.idx /\ a.opts = made.opts /\ Len(a.table) = Len(made.table)
            /\ a.table[e].failed /\ Edited(made.table, a.table, made.table[e].path, {})
        BY Zenon, <1>2, <2>5, <2>7, Failed
      <4>2. m = a
        BY Zenon, <2>3, <3>1
      <4> HIDE DEF a
      <4>3. Edited(a.table, a.table, made.table[e].path, {new})
        BY Zenon, <4>1, ParserTypes, NothingEdited
      <4>4. Edited(made.table, a.table, made.table[e].path, {new})
        BY Zenon, <2>6, <2>7, <4>1, <4>3, EditedTwice
      <4>5. QED
        BY Zenon, <4>1, <4>2, <4>4 DEF Took
    <3>2. CASE ds # Bad
      <4> DEFINE a == AddDataset(made, e, dsn, NoOpts, ds)
      <4>1. NoOpts \in Opts
        BY Zenon, LinesAssumption DEF NoOpts, Opts
      <4>2. e \in 1 .. Len(made.table) /\ dsn \in Names
        BY Zenon, <2>1, <2>5, <2>7
      <4>3. /\ a \in Parsers /\ a.section = made.section /\ a.open = made.open
            /\ a.idx = made.idx /\ a.opts = made.opts /\ Len(a.table) = Len(made.table)
            /\ Took(a.table[e], new) /\ Edited(made.table, a.table, made.table[e].path, {new})
        BY Zenon, <2>2, <2>7, <4>1, <4>2, DatasetAdded
      <4>4. m = a
        BY Zenon, <2>3, <3>2
      <4> HIDE DEF a
      <4>5. QED
        BY Zenon, <3>2, <4>3, <4>4
    <3>3. QED
      BY Zenon, <3>1, <3>2
  <2> HIDE DEF new
  <2>9. Edited(u, m.table, path, {new}) /\ Len(m.table) = Len(u)
    BY Zenon, <2>5, <2>7, <2>8
  <2>10. Edited(l.table, m.table, path, {new})
    BY Zenon, <2>4, <2>5, <2>9, EditedTwice
  <2>11. m.table[e].path = path
    <3>1. Kept(u[e], m.table[e])
      BY Zenon, <2>5, <2>9 DEF Edited
    <3>2. QED
      BY Zenon, <2>5, <3>1 DEF Kept
  <2>12. e \in 1 .. Len(m.table)
    BY Zenon, <2>5, <2>9
  <2>13. QED
    BY Zenon, <1>2, <2>7, <2>8, <2>10, <2>11, <2>12 DEF m, path, dsn, ds, new
<1>3. QED
  BY Zenon, <1>1, <1>2

\* What a line that opens a block sets of its export,
WithOptions(x, ro, rootperm) ==
  [x EXCEPT !.readonly = @ \/ ro, !.rootperm = First(rootperm, @)]

\* both at once, in the table.
OptionsSet(l, e, ro, rootperm) ==
  [l EXCEPT !.table[e].readonly = @ \/ ro, !.table[e].rootperm = First(rootperm, @)]

WithTable(l, t) == [l EXCEPT !.table = t]

\* Setting the two in the table is setting them in the export.
LEMMA SetInTable ==
  ASSUME NEW l \in Parsers, NEW e \in DOMAIN l.table, l.table \in Seq(ExportRead),
         l.table[e] \in ExportRead, NEW ro, NEW rootperm
  PROVE  OptionsSet(l, e, ro, rootperm)
         = WithTable(l, WithExport(l.table, e, WithOptions(l.table[e], ro, rootperm)))
  BY Zenon DEF OptionsSet, WithTable, WithOptions, WithExport, Parsers, ExportRead

\* A line that opens a block.
LEMMA BlockOpened ==
  ASSUME NEW l \in Parsers, NEW toks \in Seq(Names)
  PROVE  LET m == OpenBlock(l, toks)
         IN /\ m \in Parsers /\ m.section = l.section /\ m.open = TRUE
            /\ toks = <<>> => m.idx = 0 /\ m.table = l.table
            /\ toks # <<>> => /\ Edited(l.table, m.table, toks[1], {})
                              /\ m.idx = 0 => /\ m.table = l.table /\ Len(l.table) = MaxExports
                                              /\ \A e \in 1 .. Len(l.table) : l.table[e].path # toks[1]
            /\ m.idx # 0 => /\ toks # <<>> /\ m.idx \in 1 .. Len(m.table)
                            /\ m.table[m.idx].path = toks[1]
                            /\ \/ m.table[m.idx].failed
                               \/ /\ m.opts = ParseKeywords(Tail(toks), "export")
                                  /\ m.opts # Bad
<1> DEFINE m == OpenBlock(l, toks)
           found == IF toks = <<>> THEN <<0, l.table>> ELSE FindOrCreate(l.table, toks[1])
           e == found[1]
           u == found[2]
           opts == IF e = 0 THEN NoOpts ELSE ParseKeywords(Tail(toks), "export")
           opened == [l EXCEPT !.open = TRUE, !.idx = e, !.opts = opts, !.table = u]
<1>1. l.table \in TableRead
  BY Zenon, ParserTypes
<1>2. /\ u \in TableRead /\ e \in 0 .. Len(u)
      /\ toks = <<>> => e = 0 /\ u = l.table
      /\ toks # <<>> => /\ Edited(l.table, u, toks[1], {})
                        /\ e = 0 => /\ u = l.table /\ Len(l.table) = MaxExports
                                    /\ \A k \in 1 .. Len(l.table) : l.table[k].path # toks[1]
                        /\ e # 0 => e \in 1 .. Len(u) /\ u[e].path = toks[1]
  <2>1. CASE toks = <<>>
    <3>1. found = <<0, l.table>>
      BY Zenon, <2>1
    <3>2. e = 0 /\ u = l.table
      <4> HIDE DEF found
      <4> QED
        BY <3>1
    <3>3. 0 \in 0 .. Len(l.table)
      BY <1>1, TableReadTypes
    <3> HIDE DEF e, u
    <3>4. QED
      BY Zenon, <1>1, <2>1, <3>2, <3>3
  <2>2. CASE toks # <<>>
    <3>1. toks[1] \in Names
      BY <2>2
    <3> DEFINE fc == FindOrCreate(l.table, toks[1])
    <3>2. /\ Edited(l.table, fc[2], toks[1], {}) /\ fc[1] \in 0 .. Len(fc[2])
          /\ fc[1] # 0 => fc[2][fc[1]].path = toks[1]
          /\ fc[1] # 0 => fc[1] \in 1 .. Len(fc[2])
          /\ fc[1] = 0 => /\ fc[2] = l.table /\ Len(l.table) = MaxExports
                          /\ \A k \in 1 .. Len(l.table) : l.table[k].path # toks[1]
      <4> DEFINE t == l.table
                 path == toks[1]
      <4>1. t \in TableRead /\ path \in Names
        BY Zenon, <1>1, <3>1
      <4> HIDE DEF t, path
      <4>2. LET f == FindOrCreate(t, path)
            IN /\ Edited(t, f[2], path, {}) /\ f[1] \in 0 .. Len(f[2])
               /\ f[1] # 0 => f[2][f[1]].path = path
               /\ f[1] # 0 => f[1] \in 1 .. Len(f[2])
               /\ f[1] = 0 => /\ f[2] = t /\ Len(t) = MaxExports
                              /\ \A k \in 1 .. Len(t) : t[k].path # path
        BY <4>1, FoundOrCreated
      <4>3. QED
        BY Zenon, <4>2 DEF t, path
    <3>3. found = fc
      BY Zenon, <2>2
    <3> HIDE DEF found, fc
    <3>4. fc[2] \in TableRead
      BY Zenon, <3>2 DEF Edited
    <3>5. QED
      BY Zenon, <2>2, <3>2, <3>3, <3>4
  <2>3. QED
    BY Zenon, <2>1, <2>2
<1>3. opts \in Opts
  <2>1. CASE e = 0
    BY Zenon, <2>1, LinesAssumption DEF NoOpts, Opts
  <2>2. CASE e # 0
    <3>1. toks # <<>>
      BY Zenon, <1>2, <2>2
    <3>2. Tail(toks) \in Seq(Names)
      BY <3>1
    <3>3. QED
      BY Zenon, <2>2, <3>2, KeywordsTyped
  <2>3. QED
    BY Zenon, <2>1, <2>2
<1>4. m = CASE opts = Bad -> Fail(opened, e)
            [] opts # Bad /\ e = 0 -> opened
            [] opts # Bad /\ e # 0 ->
                 [opened EXCEPT !.table[e].readonly = @ \/ opts.ro = "ro",
                                !.table[e].rootperm = First(opts.rootperm, @)]
  BY Zenon DEF OpenBlock
<1>5. e # 0 => opts = ParseKeywords(Tail(toks), "export")
  BY Zenon
<1>6. e \in Nat
  BY <1>2, TableReadTypes
<1> HIDE DEF found, e, u, opts, m
<1>7. /\ opened \in Parsers /\ opened.section = l.section /\ opened.open = TRUE
      /\ opened.idx = e /\ opened.opts = opts /\ opened.table = u
  BY <1>2, <1>3, <1>6 DEF Parsers
<1> HIDE DEF opened
<1>8. /\ m \in Parsers /\ m.section = l.section /\ m.open = TRUE /\ m.idx = e /\ m.opts = opts
      /\ e = 0 => m.table = u
      /\ e # 0 => Edited(u, m.table, u[e].path, {}) /\ Len(m.table) = Len(u)
      /\ opts = Bad => e = 0 \/ m.table[e].failed
  <2>1. CASE opts = Bad
    <3> DEFINE a == Fail(opened, e)
    <3>1. /\ a \in Parsers /\ a.section = opened.section /\ a.open = opened.open
          /\ a.idx = opened.idx /\ a.opts = opened.opts /\ Len(a.table) = Len(opened.table)
          /\ e = 0 => a = opened
          /\ e # 0 => /\ a.table[e].failed
                      /\ Edited(opened.table, a.table, opened.table[e].path, {})
      BY Zenon, <1>2, <1>7, Failed
    <3>2. m = a
      BY Zenon, <1>4, <2>1
    <3> HIDE DEF a
    <3>3. QED
      BY Zenon, <1>7, <3>1, <3>2
  <2>2. CASE opts # Bad /\ e = 0
    <3>1. m = opened
      BY Zenon, <1>4, <2>2
    <3>2. QED
      BY Zenon, <1>7, <2>2, <3>1
  <2>3. CASE opts # Bad /\ e # 0
    <3> DEFINE ro == u[e].readonly \/ opts.ro = "ro"
               rootperm == First(opts.rootperm, u[e].rootperm)
               x == [u[e] EXCEPT !.readonly = u[e].readonly \/ opts.ro = "ro", !.rootperm = rootperm]
               v == WithExport(u, e, x)
    <3>1. e \in 1 .. Len(u) /\ u \in TableRead
      BY Zenon, <1>2, <2>3
    <3>2. u[e] \in ExportRead /\ Len(u[e].datasets) \in Nat /\ u[e].datasets \in Seq(DatasetRead)
      BY <3>1, TableReadTypes
    <3>3. rootperm \in Names
      BY Zenon, <1>3, <3>2 DEF First, Opts, ExportRead
    <3>4. m = [opened EXCEPT !.table = v]
      <4>1. m = OptionsSet(opened, e, opts.ro = "ro", opts.rootperm)
        BY Zenon, <1>4, <2>3 DEF OptionsSet
      <4>2. u = opened.table
        BY Zenon, <1>7
      <4>3. /\ opened \in Parsers /\ e \in DOMAIN opened.table
            /\ opened.table \in Seq(ExportRead) /\ opened.table[e] \in ExportRead
        <5>1. u \in Seq(ExportRead) /\ e \in DOMAIN u
          BY <3>1, TableReadTypes
        <5>2. QED
          BY Zenon, <1>7, <3>2, <4>2, <5>1
      <4> DEFINE a == opts.ro = "ro"
      <4> HIDE DEF a
      <4>4. OptionsSet(opened, e, a, opts.rootperm)
            = WithTable(opened, WithExport(opened.table, e,
                                  WithOptions(opened.table[e], a, opts.rootperm)))
        BY Zenon, <4>3, SetInTable
      <4>5. QED
        BY Zenon, <4>1, <4>2, <4>4 DEF a, WithOptions, WithTable
    <3> HIDE DEF rootperm
    <3>5. /\ x \in ExportRead /\ x.path = u[e].path /\ x.failed = u[e].failed
          /\ x.datasets = u[e].datasets
      BY <3>2, <3>3 DEF ExportRead
    <3> HIDE DEF x
    <3>6. /\ Len(u[e].datasets) <= Len(u[e].datasets)
          /\ \A d \in 1 .. Len(u[e].datasets) : d <= Len(u[e].datasets)
      BY <3>2
    <3>7. Kept(u[e], x)
      BY Zenon, <3>5, <3>6 DEF Kept
    <3>8. \A d \in 1 .. Len(x.datasets) : d <= Len(u[e].datasets) \/ x.datasets[d] \in {}
      BY Zenon, <3>5, <3>6
    <3>9. Edited(u, v, u[e].path, {}) /\ Len(v) = Len(u)
      BY Zenon, <3>1, <3>5, <3>7, <3>8, OneEdited
    <3> HIDE DEF v
    <3>10. v \in TableRead
      BY Zenon, <3>9 DEF Edited
    <3>11. /\ m \in Parsers /\ m.table = v /\ m.section = opened.section
           /\ m.open = opened.open /\ m.idx = opened.idx /\ m.opts = opened.opts
      BY <1>7, <3>4, <3>10, OtherTable
    <3>12. QED
      BY Zenon, <1>7, <2>3, <3>9, <3>11
  <2>4. QED
    BY Zenon, <2>1, <2>2, <2>3
<1>9. CASE e = 0
  BY Zenon, <1>2, <1>8, <1>9 DEF m
<1>10. CASE e # 0
  <2>1. /\ toks # <<>> /\ Edited(l.table, u, toks[1], {}) /\ e \in 1 .. Len(u)
        /\ u[e].path = toks[1]
    BY Zenon, <1>2, <1>10
  <2>2. Edited(u, m.table, toks[1], {}) /\ Len(m.table) = Len(u)
    BY Zenon, <1>8, <1>10, <2>1
  <2>3. Edited(l.table, m.table, toks[1], {})
    BY Zenon, <1>1, <2>1, <2>2, EditedTwice
  <2>4. m.table[e].path = toks[1]
    <3>1. Kept(u[e], m.table[e])
      BY Zenon, <2>1, <2>2 DEF Edited
    <3>2. QED
      BY Zenon, <2>1, <3>1 DEF Kept
  <2>5. QED
    BY Zenon, <1>5, <1>8, <1>10, <2>1, <2>2, <2>3, <2>4 DEF m
<1>11. QED
  BY Zenon, <1>9, <1>10

\* The block's export fails, if there is a block and it has one.
Spoilt(l, m) ==
  /\ m \in Parsers /\ m.idx = l.idx /\ m.opts = l.opts
  /\ ~l.open \/ l.idx = 0 => m.table = l.table
  /\ l.open /\ l.idx # 0 => /\ m.table[l.idx].failed /\ Len(m.table) = Len(l.table)
                            /\ l.idx \in 1 .. Len(l.table)
                            /\ Edited(l.table, m.table, l.table[l.idx].path, {})

\* What a line may be.
LineKinds(l, toks, m) ==
  LET last == toks[Len(toks)]
      long == Len(toks) > MaxToks
  IN \/ /\ toks[1] \in Headers /\ Spoilt(l, m)
        /\ m.section = SectionOf(toks[1]) /\ m.open = FALSE
     \/ toks[1] \notin Headers /\ l.section # "exports" /\ m = l
     \/ /\ toks[1] \notin Headers /\ l.section = "exports"
        /\ \/ toks = <<"}">> /\ m = [l EXCEPT !.open = FALSE]
           \/ /\ toks # <<"}">> /\ (long \/ (l.open /\ last = "{")) /\ Spoilt(l, m)
              /\ m.section = l.section /\ m.open = l.open
           \/ /\ toks # <<"}">> /\ ~long /\ l.open /\ last # "{" /\ m = DatasetLine(l, toks)
           \/ /\ toks # <<"}">> /\ ~long /\ ~l.open /\ last = "{"
              /\ m = OpenBlock(l, SubSeq(toks, 1, Len(toks) - 1))
           \/ /\ toks # <<"}">> /\ ~long /\ ~l.open /\ last # "{" /\ m = FlatLine(l, toks)

\* A line that fails the export of the block it is in.
LEMMA SpoiltLine ==
  ASSUME NEW l \in Parsers, l.idx \in 0 .. Len(l.table)
  PROVE  LET m == IF l.open THEN Fail(l, l.idx) ELSE l
         IN Spoilt(l, m) /\ m.section = l.section /\ m.open = l.open
<1> DEFINE e == l.idx
           a == Fail(l, e)
           m == IF l.open THEN a ELSE l
<1>1. e \in 0 .. Len(l.table)
  OBVIOUS
<1> HIDE DEF e
<1>2. /\ a \in Parsers /\ a.section = l.section /\ a.open = l.open
      /\ a.idx = l.idx /\ a.opts = l.opts /\ Len(a.table) = Len(l.table)
      /\ e = 0 => a = l
      /\ e # 0 => /\ e \in 1 .. Len(l.table) /\ a.table[e].failed
                  /\ Edited(l.table, a.table, l.table[e].path, {})
  BY Zenon, <1>1, Failed
<1> HIDE DEF a
<1>3. m \in Parsers /\ m.section = l.section /\ m.open = l.open /\ Spoilt(l, m)
  <2>1. CASE l.open
    <3>1. m = a
      BY Zenon, <2>1
    <3>2. QED
      BY Zenon, <1>2, <2>1, <3>1 DEF Spoilt, e
  <2>2. CASE ~l.open
    <3>1. m = l
      BY Zenon, <2>2
    <3>2. QED
      BY Zenon, <2>2, <3>1 DEF Spoilt
  <2>3. QED
    BY Zenon, <2>1, <2>2
<1>4. QED
  BY Zenon, <1>3 DEF a, e

\* ReadLine has no other cases than these.
LEMMA LinesAreKinds ==
  ASSUME NEW l \in Parsers, l.idx \in 0 .. Len(l.table), NEW toks \in Seq(Names), toks # <<>>
  PROVE  LineKinds(l, toks, ReadLine(l, toks))
<1> DEFINE m == ReadLine(l, toks)
           last == toks[Len(toks)]
           s == IF l.open THEN Fail(l, l.idx) ELSE l
           c == [Fail(l, l.idx) EXCEPT !.open = FALSE]
<1>1. Spoilt(l, s) /\ s.section = l.section /\ s.open = l.open /\ s \in Parsers
  BY Zenon, SpoiltLine DEF Spoilt
<1>2. CASE toks[1] \in Headers
  <2> DEFINE closed == IF l.open THEN c ELSE l
             h == SectionOf(toks[1])
  <2>1. m = [closed EXCEPT !.section = h]
    BY Zenon, <1>2 DEF ReadLine, EnterSection
  <2>2. h \in {"exports", "init", "unknown"}
    BY Zenon DEF SectionOf
  <2>3. closed = [s EXCEPT !.open = FALSE]
    <3>1. CASE l.open
      BY Zenon, <3>1
    <3>2. CASE ~l.open
      <4>1. closed = l /\ s = l
        BY Zenon, <3>2
      <4>2. l.open = FALSE
        BY Zenon, <3>2, ParserTypes
      <4>3. l = [l EXCEPT !.open = FALSE]
        BY <4>2 DEF Parsers
      <4>4. QED
        BY Zenon, <4>1, <4>3
    <3>3. QED
      BY Zenon, <3>1, <3>2
  <2> HIDE DEF s, h, closed
  <2>4. /\ m \in Parsers /\ m.section = h /\ m.open = FALSE /\ m.idx = s.idx /\ m.opts = s.opts
        /\ m.table = s.table
    <3> HIDE DEF m
    <3> QED
      BY <1>1, <2>1, <2>2, <2>3 DEF Parsers
  <2>5. Spoilt(l, m)
    <3> HIDE DEF m
    <3> QED
      BY Zenon, <1>1, <2>4 DEF Spoilt
  <2>6. QED
    BY Zenon, <1>2, <2>4, <2>5 DEF LineKinds, h
<1>3. CASE toks[1] \notin Headers /\ l.section # "exports"
  <2>1. m = l
    BY Zenon, <1>3 DEF ReadLine
  <2>2. QED
    BY Zenon, <1>3, <2>1 DEF LineKinds
<1>4. CASE toks[1] \notin Headers /\ l.section = "exports"
  <2>1. m = ExportLine(l, toks)
    BY Zenon, <1>4 DEF ReadLine
  <2>2. toks = <<"}">> => ~(Len(toks) > MaxToks)
    <3>1. Len(<<"}">>) = 1
      OBVIOUS
    <3>2. ~(1 > MaxToks)
      BY ConfigAssumption
    <3>3. QED
      BY Zenon, <3>1, <3>2
  <2>3. /\ Len(toks) > MaxToks \/ Len(toks) <= MaxToks
        /\ Len(toks) > MaxToks => ~(Len(toks) <= MaxToks)
    <3>1. Len(toks) \in Nat /\ MaxToks \in Nat
      BY ConfigAssumption
    <3> HIDE DEF m, last, s, c
    <3>2. QED
      BY <3>1
  <2>4. CASE toks = <<"}">>
    <3>1. m = [l EXCEPT !.open = FALSE]
      BY Zenon, <2>1, <2>2, <2>4 DEF ExportLine
    <3>2. QED
      BY Zenon, <1>4, <2>4, <3>1 DEF LineKinds
  <2>5. CASE toks # <<"}">> /\ Len(toks) > MaxToks
    <3>1. ~(Len(toks) <= MaxToks)
      BY Zenon, <2>3, <2>5
    <3>2. m = s
      BY Zenon, <2>1, <2>5, <3>1 DEF ExportLine
    <3> HIDE DEF s
    <3>3. QED
      BY Zenon, <1>1, <1>4, <2>5, <3>2 DEF LineKinds
  <2>6. CASE toks # <<"}">> /\ ~(Len(toks) > MaxToks) /\ l.open /\ last = "{"
    <3>1. m = s
      BY Zenon, <2>1, <2>3, <2>6 DEF ExportLine
    <3> HIDE DEF s
    <3>2. QED
      BY Zenon, <1>1, <1>4, <2>6, <3>1 DEF LineKinds
  <2>7. CASE toks # <<"}">> /\ ~(Len(toks) > MaxToks) /\ l.open /\ last # "{"
    <3>1. m = DatasetLine(l, toks)
      BY Zenon, <2>1, <2>3, <2>7 DEF ExportLine
    <3>2. QED
      BY Zenon, <1>4, <2>7, <3>1 DEF LineKinds
  <2>8. CASE toks # <<"}">> /\ ~(Len(toks) > MaxToks) /\ ~l.open /\ last = "{"
    <3>1. m = OpenBlock(l, SubSeq(toks, 1, Len(toks) - 1))
      BY Zenon, <2>1, <2>3, <2>8 DEF ExportLine
    <3>2. QED
      BY Zenon, <1>4, <2>8, <3>1 DEF LineKinds
  <2>9. CASE toks # <<"}">> /\ ~(Len(toks) > MaxToks) /\ ~l.open /\ last # "{"
    <3>1. m = FlatLine(l, toks)
      BY Zenon, <2>1, <2>3, <2>9 DEF ExportLine
    <3>2. QED
      BY Zenon, <1>4, <2>9, <3>1 DEF LineKinds
  <2>10. QED
    BY Zenon, <2>4, <2>5, <2>6, <2>7, <2>8, <2>9
<1>5. QED
  BY Zenon, <1>2, <1>3, <1>4

\* An edit keeps the table in order, if what it adds is.
LEMMA StaysOrderly ==
  ASSUME NEW t \in TableRead, NEW u, NEW path, NEW given, Orderly(t), Edited(t, u, path, given),
         Len(u) = Len(t) + 1 => Excused(u[Len(u)])
  PROVE  Orderly(u) /\ Len(t) <= Len(u)
<1>1. u \in TableRead /\ Len(u) \in {Len(t), Len(t) + 1}
  BY Zenon DEF Edited
<1>2. /\ Len(t) <= Len(u)
      /\ \A e \in 1 .. Len(u) : e \in 1 .. Len(t) \/ (e = Len(u) /\ Len(u) = Len(t) + 1)
  BY <1>1, TableReadTypes
<1>3. \A e \in 1 .. Len(u) : Excused(u[e])
  <2> TAKE e \in 1 .. Len(u)
  <2>1. CASE e \in 1 .. Len(t)
    <3>1. Kept(t[e], u[e]) /\ Excused(t[e])
      BY Zenon, <2>1 DEF Edited, Orderly
    <3>2. /\ u[e].path = t[e].path /\ (t[e].failed => u[e].failed)
          /\ Len(t[e].datasets) <= Len(u[e].datasets)
          /\ \A d \in 1 .. Len(t[e].datasets) : u[e].datasets[d] = t[e].datasets[d]
      BY Zenon, <3>1 DEF Kept
    <3>3. /\ DOMAIN t[e].datasets = 1 .. Len(t[e].datasets)
          /\ DOMAIN u[e].datasets = 1 .. Len(u[e].datasets)
          /\ Len(t[e].datasets) \in Nat /\ Len(u[e].datasets) \in Nat
      BY <1>1, <2>1, TableReadTypes
    <3>4. 1 .. Len(t[e].datasets) \subseteq 1 .. Len(u[e].datasets)
      BY <3>2, <3>3
    <3>5. QED
      BY Zenon, <3>1, <3>2, <3>3, <3>4 DEF Excused
  <2>2. CASE e = Len(u) /\ Len(u) = Len(t) + 1
    BY Zenon, <2>2
  <2>3. QED
    BY Zenon, <2>1, <2>2, <1>2
<1>4. \A e \in 1 .. Len(t) : u[e].path = t[e].path
  BY Zenon DEF Edited, Kept
<1>5. Len(u) = Len(t) + 1 =>
        u[Len(u)].path = path /\ \A e \in 1 .. Len(t) : t[e].path # path
  BY Zenon DEF Edited
<1>6. \A e, f \in 1 .. Len(t) : t[e].path = t[f].path => e = f
  BY Zenon DEF Orderly
<1>7. \A e, f \in 1 .. Len(u) : u[e].path = u[f].path => e = f
  <2> TAKE e, f \in 1 .. Len(u)
  <2>1. e \in 1 .. Len(t) \/ (e = Len(u) /\ Len(u) = Len(t) + 1)
    BY Zenon, <1>2
  <2>2. f \in 1 .. Len(t) \/ (f = Len(u) /\ Len(u) = Len(t) + 1)
    BY Zenon, <1>2
  <2>3. QED
    BY Zenon, <2>1, <2>2, <1>4, <1>5, <1>6
<1>8. QED
  BY Zenon, <1>2, <1>3, <1>7 DEF Orderly

\* What LinesAssumption says of one line.
LEMMA LineTokens ==
  ASSUME NEW toks \in Lines
  PROVE  /\ toks \in Seq(Names) /\ toks # <<>> /\ Len(toks) \in Nat \ {0} /\ 1 \in DOMAIN toks
         /\ \A k \in DOMAIN toks : QualifierOf[toks[k]] \in Names
         /\ Len(toks) > 1 /\ (toks[Len(toks)] = "{" \/ toks[2] \in Dsns) => toks[1] \in Paths
<1>1. /\ toks \in Seq(Names) /\ toks # <<>>
      /\ \A k \in DOMAIN toks : QualifierOf[toks[k]] \in Names
      /\ Len(toks) > 1 /\ (toks[Len(toks)] = "{" \/ toks[2] \in Dsns) => toks[1] \in Paths
  BY Zenon, LinesAssumption
<1>2. toks \in Seq(Names) /\ toks # <<>>
  BY Zenon, <1>1
<1>3. Len(toks) \in Nat \ {0} /\ 1 \in DOMAIN toks
  BY <1>2
<1>4. QED
  BY Zenon, <1>1, <1>3

\* The line that opens a block without its brace.
LEMMA WithoutBrace ==
  ASSUME NEW toks \in Seq(Names), toks # <<>>
  PROVE  LET head == SubSeq(toks, 1, Len(toks) - 1)
         IN /\ head \in Seq(Names) /\ Len(head) = Len(toks) - 1
            /\ head = <<>> => Len(toks) = 1
            /\ head # <<>> => Len(toks) > 1 /\ head[1] = toks[1]
            /\ \A k \in 1 .. Len(toks) - 1 : head[k] = toks[k]
<1>1. Len(toks) \in Nat /\ Len(toks) # 0
  OBVIOUS
<1>2. ASSUME NEW n \in Nat, n <= Len(toks)
      PROVE  LET head == SubSeq(toks, 1, n)
             IN /\ head \in Seq(Names) /\ Len(head) = n
                /\ head = <<>> => n = 0
                /\ head # <<>> => n >= 1 /\ head[1] = toks[1]
                /\ \A k \in 1 .. n : head[k] = toks[k]
  BY <1>2
<1>3. Len(toks) - 1 \in Nat /\ Len(toks) - 1 <= Len(toks)
  BY <1>1
<1> DEFINE n == Len(toks) - 1
           head == SubSeq(toks, 1, n)
<1> HIDE DEF n
<1>4. /\ head \in Seq(Names) /\ Len(head) = n
      /\ head = <<>> => n = 0
      /\ head # <<>> => n >= 1 /\ head[1] = toks[1]
      /\ \A k \in 1 .. n : head[k] = toks[k]
  BY <1>2, <1>3 DEF n
<1> HIDE DEF head
<1>5. (n = 0 => Len(toks) = 1) /\ (n >= 1 => Len(toks) > 1)
  BY <1>1 DEF n
<1>6. QED
  BY Zenon, <1>4, <1>5 DEF head, n

\* Every line keeps what the parser holds in order.
LEMMA LineKeepsParsed ==
  ASSUME NEW l, Parsed(l), NEW toks \in Lines
  PROVE  Parsed(ReadLine(l, toks))
<1> DEFINE m == ReadLine(l, toks)
           t == l.table
           last == toks[Len(toks)]
<1>1. l \in Parsers /\ l.idx \in 0 .. Len(t) /\ Orderly(t) /\ t \in TableRead
  BY Zenon, ParserTypes DEF Parsed
<1>2. /\ toks \in Seq(Names) /\ toks # <<>> /\ Len(toks) \in Nat \ {0} /\ 1 \in DOMAIN toks
      /\ \A k \in DOMAIN toks : QualifierOf[toks[k]] \in Names
      /\ Len(toks) > 1 /\ (last = "{" \/ toks[2] \in Dsns) => toks[1] \in Paths
  BY Zenon, LineTokens
<1>3. LineKinds(l, toks, m)
  BY Zenon, <1>1, <1>2, LinesAreKinds
<1>4. \A n \in Nat : n # n + 1
  OBVIOUS
<1>5. Len(t) \in Nat
  BY <1>1, TableReadTypes
<1>20. SUFFICES Parsed(m)
  OBVIOUS
<1> HIDE DEF m
<1>6. CASE Spoilt(l, m)
  <2>1. m \in Parsers /\ m.idx = l.idx
    BY Zenon, <1>6 DEF Spoilt
  <2>2. CASE ~l.open \/ l.idx = 0
    <3>1. m.table = t
      BY Zenon, <1>6, <2>2 DEF Spoilt
    <3>2. QED
      BY Zenon, <1>1, <2>1, <3>1 DEF Parsed
  <2>3. CASE l.open /\ l.idx # 0
    <3>1. Len(m.table) = Len(t) /\ Edited(t, m.table, t[l.idx].path, {})
      BY Zenon, <1>6, <2>3 DEF Spoilt
    <3>2. Orderly(m.table)
      BY Zenon, <1>1, <1>4, <1>5, <3>1, StaysOrderly
    <3>3. QED
      BY Zenon, <1>1, <2>1, <3>1, <3>2 DEF Parsed
  <2>4. QED
    BY Zenon, <2>2, <2>3
<1>7. CASE m = l
  BY Zenon, <1>1, <1>7 DEF Parsed
<1>8. CASE m = [l EXCEPT !.open = FALSE]
  <2>1. m \in Parsers /\ m.idx = l.idx /\ m.table = l.table
    BY <1>1, <1>8 DEF Parsers
  <2>2. QED
    BY Zenon, <1>1, <2>1 DEF Parsed
<1>9. CASE m = DatasetLine(l, toks)
  <2> DEFINE a == DatasetLine(l, toks)
             new == ResolveOpts(l.opts, ParseKeywords(Tail(toks), "dataset"), toks[1])
  <2>1. /\ a \in Parsers /\ a.idx = l.idx /\ Len(a.table) = Len(t)
        /\ l.idx = 0 => a = l
        /\ l.idx # 0 => Edited(t, a.table, t[l.idx].path, {new})
    BY Zenon, <1>1, <1>2, DatasetLineRead
  <2> HIDE DEF a, new
  <2>2. m = a
    BY Zenon, <1>9 DEF a
  <2>3. CASE l.idx = 0
    BY Zenon, <2>1, <2>2, <2>3
  <2>4. CASE l.idx # 0
    <3>1. Edited(t, a.table, t[l.idx].path, {new}) /\ Len(a.table) # Len(t) + 1
      BY Zenon, <2>1, <2>4, <1>4, <1>5
    <3>2. Orderly(a.table)
      BY Zenon, <1>1, <3>1, StaysOrderly
    <3>3. QED
      BY Zenon, <1>1, <2>1, <2>2, <3>2 DEF Parsed
  <2>5. QED
    BY Zenon, <2>3, <2>4
<1>10. CASE last = "{" /\ m = OpenBlock(l, SubSeq(toks, 1, Len(toks) - 1))
  <2> DEFINE head == SubSeq(toks, 1, Len(toks) - 1)
             a == OpenBlock(l, head)
  <2>1. /\ head \in Seq(Names) /\ (head # <<>> => Len(toks) > 1 /\ head[1] = toks[1])
    BY <1>2, WithoutBrace
  <2>2. m = a
    BY Zenon, <1>10
  <2> HIDE DEF head
  <2>3. /\ a \in Parsers
        /\ head = <<>> => a.idx = 0 /\ a.table = t
        /\ head # <<>> => Edited(t, a.table, head[1], {})
        /\ a.idx # 0 => a.idx \in 1 .. Len(a.table)
    BY Zenon, <1>1, <2>1, BlockOpened
  <2> HIDE DEF a
  <2>4. a.idx \in 0 .. Len(a.table)
    BY <2>3, ParserTypes, TableReadTypes
  <2>5. CASE head = <<>>
    BY Zenon, <1>1, <2>2, <2>3, <2>4, <2>5 DEF Parsed
  <2>6. CASE head # <<>>
    <3>1. toks[1] \in Paths /\ Edited(t, a.table, toks[1], {})
      BY Zenon, <1>2, <1>10, <2>1, <2>3, <2>6
    <3>2. Len(a.table) = Len(t) + 1 => Excused(a.table[Len(a.table)])
      BY Zenon, <3>1 DEF Edited, Excused
    <3>3. Orderly(a.table)
      BY Zenon, <1>1, <3>1, <3>2, StaysOrderly
    <3>4. QED
      BY Zenon, <2>2, <2>3, <2>4, <3>3 DEF Parsed
  <2>7. QED
    BY Zenon, <2>5, <2>6
<1>11. CASE m = FlatLine(l, toks)
  <2> DEFINE a == FlatLine(l, toks)
             ds == ParseKeywords(SubSeq(toks, 3, Len(toks)), "dataset")
             new == ResolveOpts(NoOpts, ds, toks[2])
  <2>1. /\ a \in Parsers /\ a.idx = l.idx
        /\ a = l \/ /\ Len(toks) >= 2 /\ Edited(t, a.table, toks[1], {new})
                    /\ \E e \in 1 .. Len(a.table) :
                         a.table[e].path = toks[1] /\ Took(a.table[e], new)
    BY Zenon, <1>1, <1>2, FlatLineRead
  <2>2. m = a
    BY Zenon, <1>11
  <2>3. Len(toks) >= 2 => new.dsn = toks[2]
    <3>1. SUFFICES ASSUME Len(toks) >= 2 PROVE new.dsn = toks[2]
      OBVIOUS
    <3>2. toks[2] \in Names /\ 2 \in DOMAIN toks /\ SubSeq(toks, 3, Len(toks)) \in Seq(Names)
      <4>1. toks \in Seq(Names) /\ Len(toks) >= 2
        BY Zenon, <1>2, <3>1
      <4>2. QED
        BY <4>1
    <3>3. ds \in Opts
      BY Zenon, <3>2, KeywordsTyped
    <3>4. NoOpts \in Opts
      BY Zenon, LinesAssumption DEF NoOpts, Opts
    <3>5. QualifierOf[toks[2]] \in Names
      BY Zenon, <3>2, <1>2
    <3> HIDE DEF ds
    <3>6. QED
      BY Zenon, <3>2, <3>3, <3>4, <3>5, OptsResolved
  <2> HIDE DEF a, new
  <2>4. CASE a = l
    BY Zenon, <2>2, <2>4
  <2>5. CASE /\ Len(toks) >= 2 /\ Edited(t, a.table, toks[1], {new})
             /\ \E e \in 1 .. Len(a.table) :
                  a.table[e].path = toks[1] /\ Took(a.table[e], new)
    <3>1. PICK e \in 1 .. Len(a.table) : a.table[e].path = toks[1] /\ Took(a.table[e], new)
      BY Zenon, <2>5
    <3>2. a.table \in TableRead /\ Len(a.table) \in {Len(t), Len(t) + 1}
      BY Zenon, <2>5 DEF Edited
    <3>3. Excused(a.table[e])
      <4>1. DOMAIN a.table[e].datasets = 1 .. Len(a.table[e].datasets)
        BY <3>2, TableReadTypes
      <4>2. Len(toks) > 1
        <5>1. Len(toks) \in Nat /\ Len(toks) >= 2
          BY <1>2, <2>5
        <5>2. QED
          BY <5>1
      <4>3. toks[1] \in Paths \/ toks[2] \notin Dsns
        BY Zenon, <1>2, <4>2
      <4>4. QED
        BY Zenon, <2>3, <2>5, <3>1, <4>1, <4>3 DEF Excused, Took
    <3>4. Len(a.table) = Len(t) + 1 => e = Len(a.table)
      <4>1. SUFFICES ASSUME Len(a.table) = Len(t) + 1, e # Len(a.table) PROVE FALSE
        OBVIOUS
      <4>2. e \in 1 .. Len(t)
        BY <4>1, <1>5
      <4>3. a.table[e].path = t[e].path /\ t[e].path # toks[1]
        BY Zenon, <4>1, <4>2, <2>5 DEF Edited, Kept
      <4>4. QED
        BY Zenon, <3>1, <4>3
    <3>5. Orderly(a.table) /\ Len(t) <= Len(a.table)
      BY Zenon, <1>1, <2>5, <3>3, <3>4, StaysOrderly
    <3>6. l.idx \in 0 .. Len(a.table)
      BY <1>1, <1>5, <3>2, <3>5
    <3>7. QED
      BY Zenon, <2>1, <2>2, <3>5, <3>6 DEF Parsed
  <2>6. QED
    BY Zenon, <2>1, <2>4, <2>5
<1>12. QED
  BY Zenon, <1>3, <1>6, <1>7, <1>8, <1>9, <1>10, <1>11 DEF LineKinds

\* What is served was read: an export of the table the parser left, that did not
\* fail and is not of a block the file ends in.
Served(l, x, usable) ==
  \E k \in 1 .. Len(l.table) :
    /\ x = l.table[k] /\ ~l.table[k].failed /\ ~(l.open /\ l.idx = k)
    /\ \A d \in 1 .. Len(l.table[k].datasets) : l.table[k].datasets[d].dsn \in usable

\* cfg_drop_failed_exports leaves exports that did not fail, each of which is
\* there as it was read.
LEMMA EndLeaves ==
  ASSUME NEW l, Parsed(l), NEW usable
  PROVE  LET t == EndOfFile(l, usable)
         IN /\ t \in Seq(ExportRead) /\ Len(t) <= MaxExports
            /\ \A e \in 1 .. Len(t) : Served(l, t[e], usable)
<1> DEFINE closed == IF l.open THEN Fail(l, l.idx) ELSE l
           u == closed.table
           v == LoadDscbInfo(u, usable)
           places == {e \in DOMAIN v : ~v[e].failed}
           t == EndOfFile(l, usable)
<1>1. l \in Parsers /\ l.idx \in 0 .. Len(l.table)
  BY Zenon DEF Parsed
<1>2. closed \in Parsers /\ Len(closed.table) = Len(l.table)
      /\ \A k \in 1 .. Len(l.table) :
           closed.table[k].failed \/ (closed.table[k] = l.table[k] /\ ~(l.open /\ l.idx = k))
  <2>1. CASE l.open
    <3> DEFINE i == l.idx
               a == Fail(l, i)
    <3>1. i \in 0 .. Len(l.table)
      BY Zenon, <1>1
    <3> HIDE DEF i
    <3>2. /\ a \in Parsers /\ Len(a.table) = Len(l.table)
          /\ i = 0 => a = l
          /\ i # 0 => /\ a.table[i].failed
                      /\ \A k \in 1 .. Len(l.table) : k # i => a.table[k] = l.table[k]
      BY Zenon, <1>1, <3>1, Failed
    <3>3. closed = a
      BY Zenon, <2>1 DEF i
    <3>4. \A k \in 1 .. Len(l.table) : k # 0
      BY <1>1, ParserTypes, TableReadTypes
    <3> HIDE DEF closed, a
    <3>5. QED
      BY Zenon, <3>2, <3>3, <3>4 DEF i
  <2>2. CASE ~l.open
    <3>1. closed = l
      BY Zenon, <2>2
    <3>2. QED
      BY Zenon, <1>1, <2>2, <3>1
  <2>3. QED
    BY Zenon, <2>1, <2>2
<1> HIDE DEF closed
<1>3. u \in TableRead
  BY Zenon, <1>2, ParserTypes
<1>4. /\ u \in Seq(ExportRead) /\ Len(u) \in 0 .. MaxExports /\ DOMAIN u = 1 .. Len(u)
      /\ \A e \in 1 .. Len(u) : u[e] \in ExportRead /\ DOMAIN u[e].datasets = 1 .. Len(u[e].datasets)
  BY Zenon, <1>3, TableReadTypes
<1> DEFINE bad(e) == \E k \in DOMAIN u[e].datasets : u[e].datasets[k].dsn \notin usable
           x(e) == [u[e] EXCEPT !.failed = @ \/ bad(e)]
<1>5. v = [e \in 1 .. Len(u) |-> x(e)]
  BY Zenon, <1>4 DEF LoadDscbInfo
<1>6. \A e \in 1 .. Len(u) :
        /\ x(e) \in ExportRead
        /\ ~x(e).failed => /\ x(e) = u[e] /\ ~u[e].failed
                           /\ \A d \in 1 .. Len(u[e].datasets) : u[e].datasets[d].dsn \in usable
  <2> TAKE e \in 1 .. Len(u)
  <2> DEFINE y == u[e]
  <2>1. y \in ExportRead /\ y.failed \in BOOLEAN /\ DOMAIN y.datasets = 1 .. Len(y.datasets)
    BY Zenon, <1>4 DEF ExportRead
  <2> HIDE DEF u, y
  <2>2. CASE y.failed \/ bad(e)
    <3>1. x(e) = [y EXCEPT !.failed = TRUE]
      BY <2>1, <2>2 DEF y
    <3>2. QED
      <4>1. [y EXCEPT !.failed = TRUE] \in ExportRead /\ [y EXCEPT !.failed = TRUE].failed
        BY <2>1 DEF ExportRead
      <4>2. QED
        BY Zenon, <3>1, <4>1
  <2>3. CASE ~(y.failed \/ bad(e))
    <3>1. x(e) = [y EXCEPT !.failed = FALSE] /\ y.failed = FALSE
      BY <2>1, <2>3 DEF y
    <3>2. [y EXCEPT !.failed = FALSE] = y
      BY <2>1, <3>1 DEF ExportRead
    <3>3. x(e) = u[e] /\ u[e] \in ExportRead /\ ~u[e].failed
      BY Zenon, <2>1, <3>1, <3>2 DEF y
    <3>4. \A d \in 1 .. Len(u[e].datasets) : u[e].datasets[d].dsn \in usable
      BY Zenon, <2>1, <2>3 DEF y
    <3>5. QED
      BY Zenon, <3>3, <3>4
  <2>4. QED
    BY Zenon, <2>2, <2>3
<1> HIDE DEF x
<1>7. v \in Seq(ExportRead) /\ Len(v) = Len(u) /\ \A e \in 1 .. Len(u) : v[e] = x(e)
  <2>1. Len(u) \in Nat
    BY <1>4
  <2>2. \A e \in 1 .. Len(u) : x(e) \in ExportRead
    BY Zenon, <1>6
  <2> HIDE DEF u, v
  <2>3. QED
    BY <1>5, <2>1, <2>2
<1>8. t = Sublist(v, places)
  BY Zenon DEF EndOfFile, DropFailed, closed
<1> HIDE DEF t, u, v, places
<1>9. t \in Seq(ExportRead) /\ \E at : Selects(t, at, v, places, Len(v))
  BY Zenon, <1>7, <1>8, SublistSelects
<1>10. PICK at : Selects(t, at, v, places, Len(v))
  BY Zenon, <1>9
<1>11. /\ Len(t) <= Len(v) /\ at \in [1 .. Len(t) -> (1 .. Len(v)) \cap places]
       /\ \A k \in 1 .. Len(t) : t[k] = v[at[k]]
  BY Zenon, <1>10 DEF Selects
<1>12. Len(t) <= MaxExports
  BY <1>4, <1>7, <1>9, <1>11, ConfigAssumption
<1>13. \A e \in 1 .. Len(t) : Served(l, t[e], usable)
  <2> TAKE e \in 1 .. Len(t)
  <2> DEFINE k == at[e]
  <2>1. k \in 1 .. Len(u) /\ k \in places
    BY Zenon, <1>7, <1>11
  <2> HIDE DEF k
  <2>2. t[e] = x(k) /\ ~x(k).failed
    BY Zenon, <2>1, <1>7, <1>11 DEF k, places
  <2>3. /\ t[e] = u[k] /\ ~u[k].failed
        /\ \A d \in 1 .. Len(u[k].datasets) : u[k].datasets[d].dsn \in usable
    BY Zenon, <2>1, <2>2, <1>6
  <2>4. k \in 1 .. Len(l.table) /\ u[k] = l.table[k] /\ ~(l.open /\ l.idx = k)
    BY Zenon, <1>2, <2>1, <2>3 DEF u
  <2>5. QED
    BY Zenon, <2>3, <2>4 DEF Served
<1>14. QED
  BY Zenon, <1>9, <1>12, <1>13 DEF t

\* What is served is of paths and datasets there are.
LEMMA ServedTyped ==
  ASSUME NEW l, Parsed(l), NEW usable, usable \subseteq Dsns, NEW x, Served(l, x, usable)
  PROVE  x \in Export /\ ~x.failed /\ Len(x.datasets) <= MaxDatasets
<1>1. PICK k \in 1 .. Len(l.table) :
         /\ x = l.table[k] /\ ~l.table[k].failed
         /\ \A d \in 1 .. Len(l.table[k].datasets) : l.table[k].datasets[d].dsn \in usable
  BY Zenon DEF Served
<1>2. /\ x \in ExportRead /\ x.datasets \in Seq(DatasetRead)
      /\ Len(x.datasets) \in 0 .. MaxDatasets /\ DOMAIN x.datasets = 1 .. Len(x.datasets)
  <2>1. l.table \in TableRead
    BY Zenon, ParserTypes DEF Parsed
  <2>2. QED
    BY Zenon, <1>1, <2>1, TableReadTypes
<1>3. \A d \in 1 .. Len(x.datasets) : x.datasets[d].dsn \in Dsns
  BY Zenon, <1>1
<1>4. x.path \in Paths
  <2>1. Excused(l.table[k])
    BY Zenon DEF Parsed, Orderly
  <2>2. QED
    BY Zenon, <1>1, <1>2, <1>3, <2>1 DEF Excused
<1>5. x.datasets \in Seq(Dataset)
  <2> DEFINE s == x.datasets
  <2>1. \A d \in 1 .. Len(s) : s[d] \in Dataset
    <3> TAKE d \in 1 .. Len(s)
    <3>1. s[d] \in DatasetRead /\ s[d].dsn \in Dsns
      BY <1>2, <1>3
    <3>2. QED
      BY <3>1 DEF DatasetRead, Dataset
  <2>2. s \in Seq(DatasetRead)
    BY Zenon, <1>2
  <2> HIDE DEF s
  <2>3. s \in Seq(Dataset)
    BY <2>1, <2>2
  <2>4. QED
    BY Zenon, <2>3 DEF s
<1>6. x \in Export
  BY <1>2, <1>4, <1>5 DEF ExportRead, Export
<1>7. Len(x.datasets) <= MaxDatasets
  BY <1>2, ConfigAssumption
<1>8. QED
  BY Zenon, <1>1, <1>6, <1>7

-----------------------------------------------------------------------------
(* What is served and what is written *)

\* There is no export for the block this line opens, and there will be none.
NoExport(line, t) ==
  Len(line) = 1 \/ (Len(t) = MaxExports /\ \A e \in 1 .. Len(t) : t[e].path # line[1])

\* An export took a line of a block, or failed.  What is no dataset will fail it.
Covers(rd, k, x) ==
  \/ x.failed
  \/ \E d \in 1 .. Len(x.datasets) :
       x.datasets[d].dsn \in Dsns => GivesIn(rd, k, x.path, x.datasets[d])

Covered(rd, k, t) ==
  LET line == rd[Blocks(rd)[k]]
  IN NoExport(line, t) \/ \E e \in 1 .. Len(t) : t[e].path = line[1] /\ Covers(rd, k, t[e])

\* What is in the table was written, and what was written in a block is there.
Written(rd, path, ds) == ds.dsn \in Dsns => \E k \in 1 .. Len(rd) : GivesIn(rd, k, path, ds)

Told(rd, t) ==
  /\ \A e \in 1 .. Len(t) : ~t[e].failed =>
       \A d \in 1 .. Len(t[e].datasets) : Written(rd, t[e].path, t[e].datasets[d])
  /\ \A k \in 1 .. Len(rd) : InLines(rd, k) /\ Blocks(rd)[k] # 0 => Covered(rd, k, t)

\* A block without an export stays without one: the table does not shrink.
LEMMA NoExportKept ==
  ASSUME NEW t \in TableRead, NEW u, NEW path, NEW given, Edited(t, u, path, given),
         NEW line, NoExport(line, t)
  PROVE  NoExport(line, u)
<1>1. CASE Len(line) = 1
  BY Zenon, <1>1 DEF NoExport
<1>2. CASE Len(line) # 1
  <2>1. Len(t) = MaxExports /\ \A e \in 1 .. Len(t) : t[e].path # line[1]
    BY Zenon, <1>2 DEF NoExport
  <2>2. u \in TableRead /\ Len(u) \in {Len(t), Len(t) + 1}
        /\ \A e \in 1 .. Len(t) : u[e].path = t[e].path
    BY Zenon DEF Edited, Kept
  <2>3. Len(u) \in 0 .. MaxExports /\ Len(t) \in 0 .. MaxExports
    BY Zenon, <2>2, TableReadTypes
  <2>4. Len(u) = Len(t)
    BY <2>1, <2>2, <2>3, ConfigAssumption
  <2>5. QED
    BY Zenon, <2>1, <2>2, <2>4 DEF NoExport
<1>3. QED
  BY Zenon, <1>1, <1>2

\* An export that has the dataset of a line keeps it,
LEMMA CoversKept ==
  ASSUME NEW rd \in Seq(Lines), NEW toks \in Lines, NEW k \in 1 .. Len(rd),
         NEW x, NEW y, Kept(x, y), Covers(rd, k, x), Len(x.datasets) \in Nat, Len(y.datasets) \in Nat
  PROVE  Covers(Append(rd, toks), k, y)
<1> DEFINE more == Append(rd, toks)
<1>1. \A path, ds : GivesIn(more, k, path, ds) <=> GivesIn(rd, k, path, ds)
  BY Zenon, GivesKept
<1> HIDE DEF more
<1>2. CASE x.failed
  BY Zenon, <1>2 DEF Kept, Covers, more
<1>3. CASE ~x.failed
  <2>1. PICK d \in 1 .. Len(x.datasets) :
           x.datasets[d].dsn \in Dsns => GivesIn(rd, k, x.path, x.datasets[d])
    BY Zenon, <1>3 DEF Covers
  <2>2. /\ y.path = x.path /\ Len(x.datasets) <= Len(y.datasets) /\ y.datasets[d] = x.datasets[d]
    BY Zenon DEF Kept
  <2>3. d \in 1 .. Len(y.datasets)
    BY <2>2
  <2>4. y.datasets[d].dsn \in Dsns => GivesIn(more, k, y.path, y.datasets[d])
    BY Zenon, <1>1, <2>1, <2>2
  <2>5. QED
    BY Zenon, <2>3, <2>4 DEF Covers, more
<1>4. QED
  BY Zenon, <1>2, <1>3

\* so what a line has done for its block's export is not undone.
LEMMA CoveredKept ==
  ASSUME NEW rd \in Seq(Lines), NEW toks \in Lines, NEW k \in 1 .. Len(rd),
         NEW t \in TableRead, NEW u, NEW path, NEW given, Edited(t, u, path, given),
         Blocks(rd)[k] # 0, Covered(rd, k, t)
  PROVE  Covered(Append(rd, toks), k, u)
<1> DEFINE more == Append(rd, toks)
           b == Blocks(rd)[k]
           line == rd[b]
<1>1. Blocks(more)[k] = b /\ more[b] = line
  <2>1. Blocks(more)[k] = Blocks(rd)[k]
    BY Zenon, GivesKept
  <2>2. more[b] = rd[b]
    <3>1. k \in 1 .. Len(rd) + 1
      OBVIOUS
    <3>2. b \in 1 .. Len(rd)
      BY Zenon, <3>1, BlocksBefore
    <3> HIDE DEF b
    <3>3. QED
      BY <3>2
  <2>3. QED
    BY Zenon, <2>1, <2>2
<1> HIDE DEF more
<1>2. CASE NoExport(line, t)
  <2> HIDE DEF line, b
  <2>1. NoExport(line, u)
    BY Zenon, <1>2, NoExportKept
  <2>2. QED
    BY Zenon, <1>1, <2>1 DEF Covered, more
<1>3. CASE ~NoExport(line, t)
  <2>1. PICK e \in 1 .. Len(t) : t[e].path = line[1] /\ Covers(rd, k, t[e])
    BY Zenon, <1>3 DEF Covered
  <2>2. Kept(t[e], u[e]) /\ u \in TableRead /\ Len(u) \in {Len(t), Len(t) + 1}
    BY Zenon DEF Edited
  <2>3. Len(t) \in Nat /\ e \in 1 .. Len(u)
    BY <2>2, TableReadTypes
  <2>4. Len(t[e].datasets) \in Nat /\ Len(u[e].datasets) \in Nat
    BY <2>2, <2>3, TableReadTypes
  <2>5. Covers(more, k, u[e])
    BY Zenon, <2>1, <2>2, <2>4, CoversKept DEF more
  <2>6. u[e].path = line[1]
    BY Zenon, <2>1, <2>2 DEF Kept
  <2> HIDE DEF line, b
  <2>7. QED
    BY Zenon, <1>1, <2>3, <2>5, <2>6 DEF Covered, more
<1>4. QED
  BY Zenon, <1>2, <1>3

\* A line adds to what was told, if what it adds to the table is of that line.
LEMMA ToldKept ==
  ASSUME NEW rd \in Seq(Lines), NEW toks \in Lines,
         NEW t \in TableRead, NEW u, NEW path, NEW given, Edited(t, u, path, given), Told(rd, t),
         \A e \in 1 .. Len(u) : u[e].path = path /\ ~u[e].failed =>
           \A ds \in given : ds.dsn \in Dsns => GivesIn(Append(rd, toks), Len(rd) + 1, path, ds),
         /\ InLines(Append(rd, toks), Len(rd) + 1) /\ Blocks(Append(rd, toks))[Len(rd) + 1] # 0
         => Covered(Append(rd, toks), Len(rd) + 1, u)
  PROVE  Told(Append(rd, toks), u)
<1> DEFINE more == Append(rd, toks)
           n == Len(rd)
<1>1. /\ Len(more) = n + 1 /\ n \in Nat
      /\ \A k \in 1 .. Len(more) : k \in 1 .. n \/ k = n + 1
      /\ \A k \in 1 .. n : k \in 1 .. Len(more)
      /\ n + 1 \in 1 .. Len(more)
  <2>1. Len(more) = n + 1 /\ n \in Nat
    BY Zenon, LenIsNat, AppendedOne
  <2> HIDE DEF more, n
  <2>2. QED
    BY <2>1
<1>2. \A k \in 1 .. n :
        /\ InLines(more, k) <=> InLines(rd, k)
        /\ Blocks(more)[k] = Blocks(rd)[k]
        /\ \A p, ds : GivesIn(more, k, p, ds) <=> GivesIn(rd, k, p, ds)
  BY Zenon, AllKept
<1>3. ASSUME NEW e \in 1 .. Len(u), ~u[e].failed, NEW d \in 1 .. Len(u[e].datasets)
      PROVE  Written(more, u[e].path, u[e].datasets[d])
  <2>1. Fresh(t, u, e, d, path, given)
    BY Zenon DEF Edited
  <2>2. CASE e <= Len(t) /\ d <= Len(t[e].datasets)
    <3>1. Len(t) \in Nat /\ e \in Nat /\ e >= 1 /\ u \in TableRead
      <4>1. u \in TableRead
        BY Zenon DEF Edited
      <4>2. QED
        BY <4>1, TableReadTypes
    <3>2. e \in 1 .. Len(t)
      BY <2>2, <3>1
    <3>3. Len(t[e].datasets) \in Nat /\ Len(u[e].datasets) \in Nat
      BY <3>1, <3>2, TableReadTypes
    <3>4. d \in 1 .. Len(t[e].datasets)
      BY <2>2, <3>3
    <3>5. u[e].path = t[e].path /\ ~t[e].failed /\ u[e].datasets[d] = t[e].datasets[d]
      BY Zenon, <1>3, <3>2, <3>4 DEF Edited, Kept
    <3>6. Written(rd, t[e].path, t[e].datasets[d])
      BY Zenon, <3>2, <3>4, <3>5 DEF Told
    <3>7. QED
      BY Zenon, <1>1, <1>2, <3>5, <3>6 DEF Written
  <2>3. CASE u[e].path = path /\ u[e].datasets[d] \in given
    <3>1. u[e].datasets[d].dsn \in Dsns => GivesIn(more, n + 1, path, u[e].datasets[d])
      BY Zenon, <1>3, <2>3
    <3>2. QED
      BY Zenon, <1>1, <2>3, <3>1 DEF Written
  <2>4. QED
    BY Zenon, <2>1, <2>2, <2>3 DEF Fresh
<1>4. ASSUME NEW k \in 1 .. Len(more), InLines(more, k), Blocks(more)[k] # 0
      PROVE  Covered(more, k, u)
  <2>1. CASE k \in 1 .. n
    <3>1. InLines(rd, k) /\ Blocks(rd)[k] # 0
      BY Zenon, <1>2, <1>4, <2>1
    <3>2. Covered(rd, k, t)
      BY Zenon, <2>1, <3>1 DEF Told
    <3>3. QED
      BY Zenon, <2>1, <3>1, <3>2, CoveredKept
  <2>2. CASE k = n + 1
    BY Zenon, <1>4, <2>2
  <2>3. QED
    BY Zenon, <1>1, <2>1, <2>2
<1>5. QED
  BY Zenon, <1>3, <1>4 DEF Told

\* The parser knows the block it is in.
Opened(line, l) ==
  /\ l.idx = 0 => NoExport(line, l.table)
  /\ l.idx # 0 => /\ l.idx \in 1 .. Len(l.table) /\ Len(line) >= 2
                  /\ l.table[l.idx].path = line[1]
                  /\ l.table[l.idx].failed \/ (l.opts.ro = "ro" <=> SaysRo(line))

\* The parser after these lines.
ReadsAs(rd, l) ==
  /\ l.section = "exports" <=> InSection(rd, Len(rd) + 1)
  /\ l.section = "exports" => (l.open <=> Blocks(rd)[Len(rd) + 1] # 0)
  /\ l.section # "exports" => ~l.open
  /\ l.open => Opened(rd[Blocks(rd)[Len(rd) + 1]], l)
  /\ Told(rd, l.table)

\* What fails the export of a block leaves the block what it is.
LEMMA OpenedKept ==
  ASSUME NEW l \in Parsers, NEW m, NEW line, Opened(line, l), m.idx = l.idx, m.opts = l.opts,
         NEW path, NEW given, Edited(l.table, m.table, path, given)
  PROVE  Opened(line, m)
<1> DEFINE t == l.table
           u == m.table
           i == l.idx
<1>1. t \in TableRead
  BY Zenon, ParserTypes
<1>2. CASE i = 0
  <2>1. NoExport(line, t) /\ Edited(t, u, path, given)
    BY Zenon, <1>2 DEF Opened
  <2> HIDE DEF t, u
  <2>2. NoExport(line, u)
    BY Zenon, <1>1, <2>1, NoExportKept
  <2>3. QED
    BY Zenon, <1>2, <2>2 DEF Opened, u
<1>3. CASE i # 0
  <2>1. /\ i \in 1 .. Len(t) /\ Len(line) >= 2 /\ t[i].path = line[1]
        /\ t[i].failed \/ (l.opts.ro = "ro" <=> SaysRo(line))
    BY Zenon, <1>3 DEF Opened
  <2>2. Kept(t[i], u[i]) /\ Len(u) \in {Len(t), Len(t) + 1}
    BY Zenon, <2>1 DEF Edited
  <2>3. i \in 1 .. Len(u)
    <3> HIDE DEF i, t, u
    <3>1. Len(t) \in Nat
      BY <1>1, TableReadTypes
    <3>2. QED
      BY <2>1, <2>2, <3>1
  <2>4. u[i].path = line[1] /\ (t[i].failed => u[i].failed)
    BY Zenon, <2>1, <2>2 DEF Kept
  <2>5. u[i].failed \/ (m.opts.ro = "ro" <=> SaysRo(line))
    BY Zenon, <2>1, <2>4
  <2>6. QED
    BY Zenon, <1>3, <2>1, <2>3, <2>4, <2>5 DEF Opened
<1>4. QED
  BY Zenon, <1>2, <1>3

\* Where the next line is.
LEMMA NextLine ==
  ASSUME NEW rd \in Seq(Lines), NEW toks \in Lines
  PROVE  LET more == Append(rd, toks)
             n == Len(rd) + 1
             b == Blocks(rd)[n]
         IN /\ Len(more) = n /\ more[n] = toks /\ Blocks(more)[n] = b
            /\ Blocks(more)[n + 1] = NextBlock(b, toks, n)
            /\ b # 0 => more[b] = rd[b] /\ rd[b] \in Lines
            /\ InSection(more, n) <=> InSection(rd, n)
            /\ InSection(more, n + 1) <=> IF toks[1] \in Headers THEN toks[1] = "[exports]"
                                          ELSE InSection(rd, n)
            /\ InLines(more, n) <=> /\ toks[1] \notin Headers /\ toks # <<"}">>
                                    /\ toks[Len(toks)] # "{" /\ InSection(rd, n)
<1> DEFINE more == Append(rd, toks)
           n == Len(rd) + 1
           b == Blocks(rd)[n]
<1>1. /\ more \in Seq(Lines) /\ Len(more) = n /\ more[n] = toks
  BY Zenon, AppendedOne
<1>2. n \in 1 .. Len(rd) + 1 /\ n \in Nat /\ n \in Nat \ {0} /\ n \in 1 .. n
  <2>1. Len(rd) \in Nat
    OBVIOUS
  <2>2. QED
    BY <2>1
<1>3. \A j \in 1 .. n - 1 : more[j] = rd[j]
  OBVIOUS
<1>4. \A j \in 1 .. Len(rd) : more[j] = rd[j] /\ rd[j] \in Lines
  OBVIOUS
<1>5. Blocks(more)[n] = b
  BY Zenon, <1>2, BlocksKept
<1>6. b # 0 => b \in 1 .. Len(rd)
  BY Zenon, <1>2, BlocksBefore
<1> HIDE DEF n, more, b
<1>7. Blocks(more)[n + 1] = NextBlock(b, toks, n)
  <2>1. Blocks(more)[n + 1] = NextBlock(Blocks(more)[n], more[n], n)
    BY Zenon, <1>1, <1>2, BlocksRun
  <2>2. QED
    BY Zenon, <1>1, <1>5, <2>1
<1>8. InSection(more, n) <=> InSection(rd, n)
  BY Zenon, <1>2, <1>3, SectionKept
<1>9. InSection(more, n + 1) <=> IF toks[1] \in Headers THEN toks[1] = "[exports]"
                                 ELSE InSection(rd, n)
  <2>1. InSection(more, n + 1) <=> IF more[n][1] \in Headers THEN more[n][1] = "[exports]"
                                   ELSE InSection(more, n)
    BY Zenon, <1>2, SectionMoves
  <2>2. QED
    BY Zenon, <1>1, <1>8, <2>1
<1>10. InLines(more, n) <=> /\ toks[1] \notin Headers /\ toks # <<"}">>
                            /\ toks[Len(toks)] # "{" /\ InSection(rd, n)
  BY Zenon, <1>1, <1>8 DEF InLines
<1>11. b # 0 => more[b] = rd[b] /\ rd[b] \in Lines
  BY Zenon, <1>4, <1>6
<1>12. QED
  BY Zenon, <1>1, <1>5, <1>7, <1>8, <1>9, <1>10, <1>11 DEF n, more, b

\* Every line keeps the parser at what was written.
LEMMA LineReads ==
  ASSUME NEW rd \in Seq(Lines), NEW l, Parsed(l), ReadsAs(rd, l), NEW toks \in Lines
  PROVE  ReadsAs(Append(rd, toks), ReadLine(l, toks))
<1> DEFINE m == ReadLine(l, toks)
           more == Append(rd, toks)
           n == Len(rd) + 1
           b == Blocks(rd)[n]
           t == l.table
           u == m.table
           last == toks[Len(toks)]
<1>1. l \in Parsers /\ l.idx \in 0 .. Len(t) /\ Orderly(t) /\ t \in TableRead
  BY Zenon, ParserTypes DEF Parsed
<1>2. /\ toks \in Seq(Names) /\ toks # <<>> /\ Len(toks) \in Nat \ {0} /\ 1 \in DOMAIN toks
      /\ \A k \in DOMAIN toks : QualifierOf[toks[k]] \in Names
      /\ Len(toks) > 1 /\ (last = "{" \/ toks[2] \in Dsns) => toks[1] \in Paths
  BY Zenon, LineTokens
<1>3. LineKinds(l, toks, m)
  BY Zenon, <1>1, <1>2, LinesAreKinds
<1>4. Parsed(m)
  BY Zenon, LineKeepsParsed
<1>5. u \in TableRead /\ Orderly(u) /\ l.open \in BOOLEAN
  BY Zenon, <1>1, <1>4, ParserTypes DEF Parsed, Parsers
<1>6. /\ Len(more) = n /\ more[n] = toks /\ Blocks(more)[n] = b
      /\ Blocks(more)[n + 1] = NextBlock(b, toks, n)
      /\ b # 0 => more[b] = rd[b] /\ rd[b] \in Lines
      /\ InSection(more, n + 1) <=> IF toks[1] \in Headers THEN toks[1] = "[exports]"
                                    ELSE InSection(rd, n)
      /\ InLines(more, n) <=> /\ toks[1] \notin Headers /\ toks # <<"}">>
                              /\ last # "{" /\ InSection(rd, n)
  BY Zenon, NextLine
<1>7. n # 0
  <2>1. Len(rd) \in Nat
    OBVIOUS
  <2>2. QED
    BY <2>1
<1>8. /\ l.section = "exports" <=> InSection(rd, n)
      /\ l.section = "exports" => (l.open <=> b # 0)
      /\ l.section # "exports" => ~l.open
      /\ l.open => Opened(rd[b], l)
      /\ Told(rd, t)
  BY Zenon DEF ReadsAs
<1>9. ASSUME NEW path, NEW given, Edited(t, u, path, given),
             \A e \in 1 .. Len(u) : u[e].path = path /\ ~u[e].failed =>
               \A ds \in given : ds.dsn \in Dsns => GivesIn(more, n, path, ds),
             InLines(more, n) /\ b # 0 => Covered(more, n, u)
      PROVE  Told(more, u)
  <2>1. InLines(more, n) /\ Blocks(more)[n] # 0 => Covered(more, n, u)
    BY Zenon, <1>6, <1>9
  <2> HIDE DEF m, b, t, u, last
  <2>2. QED
    BY Zenon, <1>1, <1>8, <1>9, <2>1, ToldKept
<1>10. SUFFICES /\ m.section = "exports" <=> InSection(more, n + 1)
                /\ m.section = "exports" => (m.open <=> NextBlock(b, toks, n) # 0)
                /\ m.section # "exports" => ~m.open
                /\ m.open => Opened(more[NextBlock(b, toks, n)], m)
                /\ Told(more, u)
  BY Zenon, <1>6 DEF ReadsAs
<1> HIDE DEF m, more, n, b, last
<1>21. ASSUME NEW path, Edited(t, u, path, {}), InLines(more, n) /\ b # 0 => Covered(more, n, u)
       PROVE  Told(more, u)
  <2>1. \A e \in 1 .. Len(u) : u[e].path = path /\ ~u[e].failed =>
          \A ds \in {} : ds.dsn \in Dsns => GivesIn(more, n, path, ds)
    BY Zenon
  <2> HIDE DEF u, t
  <2>2. QED
    BY Zenon, <1>9, <1>21, <2>1
<1>11. ASSUME m.table = t, InLines(more, n) /\ b # 0 => Covered(more, n, u) PROVE Told(more, u)
  <2>1. Edited(t, u, "", {})
    BY Zenon, <1>1, <1>11, NothingEdited
  <2>2. QED
    BY Zenon, <1>21, <1>11, <2>1
<1>12. CASE toks[1] \notin Headers /\ l.section # "exports" /\ m = l
  <2>1. ~InLines(more, n)
    BY Zenon, <1>6, <1>8, <1>12
  <2>2. Told(more, u)
    BY Zenon, <1>11, <1>12, <2>1
  <2>3. QED
    BY Zenon, <1>6, <1>8, <1>12, <2>2
<1>13. CASE toks[1] \notin Headers /\ l.section = "exports" /\ toks = <<"}">>
            /\ m = [l EXCEPT !.open = FALSE]
  <2>1. m.section = l.section /\ m.open = FALSE /\ m.table = t
    BY <1>1, <1>13 DEF Parsers
  <2>2. NextBlock(b, toks, n) = 0
    BY Zenon, <1>13 DEF NextBlock
  <2>3. Told(more, u)
    BY Zenon, <1>6, <1>11, <1>13, <2>1
  <2>4. QED
    BY Zenon, <1>6, <1>8, <1>13, <2>1, <2>2, <2>3
<1>14. CASE /\ Spoilt(l, m)
            /\ \/ /\ toks[1] \in Headers
                  /\ m.section = SectionOf(toks[1]) /\ m.open = FALSE
               \/ /\ toks[1] \notin Headers /\ l.section = "exports" /\ toks # <<"}">>
                  /\ Len(toks) > MaxToks \/ (l.open /\ last = "{")
                  /\ m.section = l.section /\ m.open = l.open
  <2>1. \E path : Edited(t, u, path, {})
    <3>1. CASE ~l.open \/ l.idx = 0
      BY Zenon, <1>1, <1>14, <3>1, NothingEdited DEF Spoilt
    <3>2. CASE l.open /\ l.idx # 0
      BY Zenon, <1>14, <3>2 DEF Spoilt
    <3>3. QED
      BY Zenon, <3>1, <3>2
  <2>2. PICK path : Edited(t, u, path, {})
    BY Zenon, <2>1
  <2>3. l.section = "exports" /\ l.open => b # 0 /\ Opened(more[b], m)
    <3> SUFFICES ASSUME l.section = "exports", l.open PROVE b # 0 /\ Opened(more[b], m)
      OBVIOUS
    <3>1. b # 0 /\ more[b] = rd[b] /\ Opened(rd[b], l)
      BY Zenon, <1>6, <1>8
    <3>2. m.idx = l.idx /\ m.opts = l.opts
      BY Zenon, <1>14 DEF Spoilt
    <3> DEFINE line == rd[b]
    <3> HIDE DEF line
    <3>3. Opened(line, m)
      BY Zenon, <1>1, <2>2, <3>1, <3>2, OpenedKept DEF line
    <3>4. QED
      BY Zenon, <3>1, <3>3 DEF line
  <2>4. l.section = "exports" /\ l.open => Covered(more, n, u)
    <3> SUFFICES ASSUME l.section = "exports", l.open PROVE Covered(more, n, u)
      OBVIOUS
    <3>1. Blocks(more)[n] = b /\ Opened(more[b], m) /\ m.idx = l.idx
      BY Zenon, <1>6, <1>14, <2>3 DEF Spoilt
    <3>2. CASE l.idx = 0
      BY Zenon, <3>1, <3>2 DEF Opened, Covered
    <3>3. CASE l.idx # 0
      <4>1. m.idx \in 1 .. Len(u) /\ u[m.idx].failed /\ u[m.idx].path = more[b][1]
        BY Zenon, <1>14, <3>1, <3>3 DEF Spoilt, Opened
      <4>2. QED
        BY Zenon, <3>1, <4>1 DEF Covered, Covers
    <3>4. QED
      BY Zenon, <3>2, <3>3
  <2>5. InLines(more, n) /\ b # 0 => Covered(more, n, u)
    BY Zenon, <1>6, <1>8, <2>4
  <2>6. Told(more, u)
    BY Zenon, <1>21, <2>2, <2>5
  <2>7. CASE toks[1] \in Headers /\ m.section = SectionOf(toks[1]) /\ m.open = FALSE
    <3>1. m.section = "exports" <=> toks[1] = "[exports]"
      BY Zenon, <2>7 DEF SectionOf
    <3>2. NextBlock(b, toks, n) = 0
      BY Zenon, <2>7 DEF NextBlock
    <3>3. QED
      BY Zenon, <1>6, <2>6, <2>7, <3>1, <3>2
  <2>8. CASE /\ toks[1] \notin Headers /\ l.section = "exports" /\ toks # <<"}">>
             /\ Len(toks) > MaxToks \/ (l.open /\ last = "{")
             /\ m.section = l.section /\ m.open = l.open
    <3>1. l.open \/ ~(Len(toks) <= MaxToks)
      <4>1. \A x, y \in Nat : x > y => ~(x <= y)
        OBVIOUS
      <4>2. Len(toks) \in Nat /\ MaxToks \in Nat
        BY Zenon, <1>2, ConfigAssumption
      <4>3. QED
        BY Zenon, <2>8, <4>1, <4>2
    <3>2. NextBlock(b, toks, n) = b
      BY Zenon, <1>8, <2>8, <3>1 DEF NextBlock, last
    <3>3. QED
      BY Zenon, <1>6, <1>8, <2>3, <2>6, <2>8, <3>2
  <2>9. QED
    BY Zenon, <1>14, <2>7, <2>8
<1>15. CASE /\ toks[1] \notin Headers /\ l.section = "exports" /\ toks # <<"}">> /\ l.open
            /\ last # "{" /\ m = DatasetLine(l, toks)
  <2> DEFINE ds == ParseKeywords(Tail(toks), "dataset")
             new == ResolveOpts(l.opts, ds, toks[1])
             i == l.idx
             line == rd[b]
  <2>1. /\ m.section = l.section /\ m.open = l.open
        /\ m.idx = l.idx /\ m.opts = l.opts /\ Len(u) = Len(t)
        /\ i = 0 => m = l
        /\ i # 0 => /\ i \in 1 .. Len(t) /\ Took(u[i], new) /\ (ds = Bad => u[i].failed)
                    /\ Edited(t, u, t[i].path, {new})
    BY Zenon, <1>1, <1>2, <1>15, DatasetLineRead
  <2>2. b # 0 /\ more[b] = line /\ Opened(line, l) /\ InLines(more, n) /\ Blocks(more)[n] = b
    BY Zenon, <1>6, <1>8, <1>15
  <2>3. NextBlock(b, toks, n) = b
    BY Zenon, <1>15, <2>2 DEF NextBlock
  <2>4. l.opts \in Opts /\ ds \in Opts /\ toks[1] \in Names /\ QualifierOf[toks[1]] \in Names
    <3>1. Tail(toks) \in Seq(Names) /\ toks[1] \in Names
      BY Zenon, <1>2, HeadAndTail
    <3>2. QED
      BY Zenon, <1>1, <1>2, <3>1, KeywordsTyped, ParserTypes
  <2>5. new.dsn = toks[1] /\ new.readonly = (l.opts.ro = "ro" \/ ds.ro = "ro")
    <3> DEFINE exp == l.opts
    <3> HIDE DEF exp, ds
    <3> QED
      BY Zenon, <2>4, OptsResolved DEF exp
  <2> HIDE DEF ds, new, i, line
  <2>6. CASE i = 0
    <3>1. NoExport(line, u) /\ m = l
      BY Zenon, <2>1, <2>2, <2>6 DEF Opened, i
    <3>2. Covered(more, n, u)
      BY Zenon, <2>2, <3>1 DEF Covered
    <3>3. Told(more, u)
      BY Zenon, <1>11, <3>1, <3>2
    <3>4. QED
      BY Zenon, <1>6, <1>8, <1>15, <2>2, <2>3, <3>1, <3>3
  <2>7. CASE i # 0
    <3>1. /\ Len(line) >= 2 /\ t[i].path = line[1]
          /\ t[i].failed \/ (l.opts.ro = "ro" <=> SaysRo(line))
      BY Zenon, <2>2, <2>7 DEF Opened, i
    <3>2. Kept(t[i], u[i]) /\ i \in 1 .. Len(u) /\ u[i].path = line[1]
      BY Zenon, <2>1, <2>7, <3>1 DEF Edited, Kept
    <3>3. ASSUME ~u[i].failed, toks[1] \in Dsns
          PROVE  GivesIn(more, n, line[1], new)
      <4>1. l.opts.ro = "ro" <=> SaysRo(line)
        BY Zenon, <3>1, <3>2, <3>3 DEF Kept
      <4>2. ds # Bad
        BY Zenon, <2>1, <2>7, <3>3
      <4>3. ds.ro = "ro" <=> SaysRo(toks)
        BY Zenon, <1>2, <3>3, <4>2, DatasetSaysRo DEF ds
      <4>4. new.readonly = (SaysRo(line) \/ SaysRo(toks))
        BY Zenon, <2>5, <4>1, <4>3
      <4>5. QED
        BY Zenon, <1>6, <2>2, <2>5, <3>1, <4>4 DEF GivesIn
    <3>4. \A e \in 1 .. Len(u) : u[e].path = t[i].path /\ ~u[e].failed =>
            \A x \in {new} : x.dsn \in Dsns => GivesIn(more, n, t[i].path, x)
      <4> TAKE e \in 1 .. Len(u)
      <4> HAVE u[e].path = t[i].path /\ ~u[e].failed
      <4>1. e = i
        BY Zenon, <1>5, <3>1, <3>2 DEF Orderly
      <4>2. QED
        BY Zenon, <2>5, <3>1, <3>3, <4>1
    <3>5. Covers(more, n, u[i])
      <4>1. CASE u[i].failed
        BY Zenon, <4>1 DEF Covers
      <4>2. CASE ~u[i].failed
        <5>1. PICK d \in 1 .. Len(u[i].datasets) : u[i].datasets[d] = new
          BY Zenon, <2>1, <2>7, <4>2 DEF Took
        <5>2. u[i].datasets[d].dsn \in Dsns => GivesIn(more, n, u[i].path, u[i].datasets[d])
          BY Zenon, <2>5, <3>2, <3>3, <4>2, <5>1
        <5>3. QED
          BY Zenon, <5>2 DEF Covers
      <4>3. QED
        BY Zenon, <4>1, <4>2
    <3>6. Covered(more, n, u)
      BY Zenon, <2>2, <3>2, <3>5 DEF Covered
    <3>7. Edited(t, u, t[i].path, {new})
      BY Zenon, <2>1, <2>7
    <3>8. Told(more, u)
      <4> DEFINE path == t[i].path
                 given == {new}
      <4>1. \A e \in 1 .. Len(u) : u[e].path = path /\ ~u[e].failed =>
              \A x \in given : x.dsn \in Dsns => GivesIn(more, n, path, x)
        BY Zenon, <3>4
      <4>2. Edited(t, u, path, given)
        BY Zenon, <3>7
      <4> HIDE DEF path, given
      <4>3. QED
        BY Zenon, <1>9, <3>6, <4>1, <4>2
    <3>9. Opened(line, m)
      BY Zenon, <1>1, <2>1, <2>2, <3>7, OpenedKept
    <3>10. QED
      BY Zenon, <1>6, <1>8, <1>15, <2>1, <2>2, <2>3, <3>8, <3>9
  <2>8. QED
    BY Zenon, <2>6, <2>7
<1>16. CASE /\ toks[1] \notin Headers /\ l.section = "exports" /\ toks # <<"}">> /\ ~l.open
            /\ Len(toks) <= MaxToks /\ last = "{"
            /\ m = OpenBlock(l, SubSeq(toks, 1, Len(toks) - 1))
  <2> DEFINE head == SubSeq(toks, 1, Len(toks) - 1)
             opts == ParseKeywords(Tail(head), "export")
  <2>1. /\ head \in Seq(Names) /\ (head = <<>> => Len(toks) = 1)
        /\ head # <<>> => Len(toks) > 1 /\ head[1] = toks[1]
    BY Zenon, <1>2, WithoutBrace
  <2>2. b = 0 /\ ~InLines(more, n) /\ NextBlock(b, toks, n) = n
    <3>1. b = 0 /\ ~InLines(more, n)
      BY Zenon, <1>6, <1>8, <1>16
    <3>2. QED
      BY Zenon, <1>16, <3>1 DEF NextBlock, last
  <2>3. m = OpenBlock(l, head)
    BY Zenon, <1>16
  <2>4. head # <<>> /\ opts # Bad => (opts.ro = "ro" <=> SaysRo(toks))
    <3> SUFFICES ASSUME head # <<>>, opts # Bad PROVE opts.ro = "ro" <=> SaysRo(toks)
      OBVIOUS
    <3>1. Len(toks) > 1 /\ toks[1] \in Paths
      BY Zenon, <1>2, <1>16, <2>1
    <3>2. \A x \in Nat : x > 1 => x >= 2
      OBVIOUS
    <3>3. Len(toks) >= 2
      BY Zenon, <1>2, <3>1, <3>2
    <3>4. QED
      BY Zenon, <1>2, <1>16, <3>1, <3>3, BlockSaysRo DEF last
  <2> HIDE DEF head
  <2>5. /\ m.section = l.section /\ m.open = TRUE
        /\ head = <<>> => m.idx = 0 /\ u = t
        /\ head # <<>> => /\ Edited(t, u, head[1], {})
                          /\ m.idx = 0 => /\ u = t /\ Len(t) = MaxExports
                                          /\ \A e \in 1 .. Len(t) : t[e].path # head[1]
        /\ m.idx # 0 => /\ head # <<>> /\ m.idx \in 1 .. Len(u) /\ u[m.idx].path = head[1]
                        /\ u[m.idx].failed \/ (m.opts = opts /\ m.opts # Bad)
    <3> DEFINE f == OpenBlock(l, head)
    <3>1. /\ f.section = l.section /\ f.open = TRUE
          /\ head = <<>> => f.idx = 0 /\ f.table = t
          /\ head # <<>> => /\ Edited(t, f.table, head[1], {})
                            /\ f.idx = 0 => /\ f.table = t /\ Len(t) = MaxExports
                                            /\ \A e \in 1 .. Len(t) : t[e].path # head[1]
          /\ f.idx # 0 => /\ head # <<>> /\ f.idx \in 1 .. Len(f.table)
                          /\ f.table[f.idx].path = head[1]
                          /\ f.table[f.idx].failed \/ (f.opts = opts /\ f.opts # Bad)
      BY Zenon, <1>1, <2>1, BlockOpened
    <3> HIDE DEF f
    <3>2. m = f
      BY Zenon, <2>3 DEF f
    <3> HIDE DEF m
    <3>3. QED
      BY Zenon, <3>1, <3>2
  <2> HIDE DEF opts
  <2>6. Told(more, u)
    <3>1. CASE head = <<>>
      BY Zenon, <1>11, <2>2, <2>5, <3>1
    <3>2. CASE head # <<>>
      <4>1. Edited(t, u, head[1], {})
        BY Zenon, <2>5, <3>2
      <4>2. QED
        BY Zenon, <1>21, <2>2, <4>1
    <3>3. QED
      BY Zenon, <3>1, <3>2
  <2>7. Opened(toks, m)
    <3>1. CASE m.idx = 0
      <4>1. CASE head = <<>>
        BY Zenon, <2>1, <3>1, <4>1 DEF Opened, NoExport
      <4>2. CASE head # <<>>
        <5>1. Len(u) = MaxExports /\ \A e \in 1 .. Len(u) : u[e].path # toks[1]
          BY Zenon, <2>1, <2>5, <3>1, <4>2
        <5>2. QED
          BY Zenon, <3>1, <5>1 DEF Opened, NoExport
      <4>3. QED
        BY Zenon, <4>1, <4>2
    <3>2. CASE m.idx # 0
      <4>1. /\ head # <<>> /\ m.idx \in 1 .. Len(u) /\ u[m.idx].path = toks[1] /\ Len(toks) > 1
            /\ u[m.idx].failed \/ (m.opts = opts /\ m.opts # Bad)
        BY Zenon, <2>1, <2>5, <3>2
      <4>2. \A x \in Nat : x > 1 => x >= 2
        OBVIOUS
      <4>3. Len(toks) >= 2
        BY Zenon, <1>2, <4>1, <4>2
      <4>4. u[m.idx].failed \/ (m.opts.ro = "ro" <=> SaysRo(toks))
        BY Zenon, <2>4, <4>1
      <4>5. QED
        BY Zenon, <3>2, <4>1, <4>3, <4>4 DEF Opened
    <3>3. QED
      BY Zenon, <3>1, <3>2
  <2>8. QED
    BY Zenon, <1>6, <1>7, <1>8, <1>16, <2>2, <2>5, <2>6, <2>7
<1>17. CASE /\ toks[1] \notin Headers /\ l.section = "exports" /\ toks # <<"}">> /\ ~l.open
            /\ last # "{" /\ m = FlatLine(l, toks)
  <2> DEFINE ds == ParseKeywords(SubSeq(toks, 3, Len(toks)), "dataset")
             new == ResolveOpts(NoOpts, ds, toks[2])
             path == toks[1]
             given == {new}
  <2>1. /\ m.section = l.section /\ m.open = l.open
        /\ m = l \/ /\ Len(toks) >= 2 /\ Edited(t, u, path, given)
                    /\ \E e \in 1 .. Len(u) : /\ u[e].path = path /\ Took(u[e], new)
                                              /\ ds = Bad => u[e].failed
    BY Zenon, <1>1, <1>2, <1>17, FlatLineRead
  <2>2. b = 0 /\ InLines(more, n) /\ NextBlock(b, toks, n) = 0 /\ Blocks(more)[n] = 0
    <3>1. b = 0 /\ InLines(more, n)
      BY Zenon, <1>6, <1>8, <1>17
    <3>2. QED
      BY Zenon, <1>6, <1>17, <3>1 DEF NextBlock, last
  <2>3. Told(more, u)
    <3>1. CASE m = l
      BY Zenon, <1>11, <2>2, <3>1
    <3>2. CASE m # l
      <4>1. Len(toks) >= 2 /\ Edited(t, u, path, given)
        BY Zenon, <2>1, <3>2
      <4>2. PICK f \in 1 .. Len(u) : u[f].path = path /\ (ds = Bad => u[f].failed)
        BY Zenon, <2>1, <3>2
      <4>3. /\ toks[2] \in Names /\ QualifierOf[toks[2]] \in Names /\ ds \in Opts
            /\ NoOpts \in Opts /\ (toks[2] \in Dsns => toks[1] \in Paths)
        <5>1. toks \in Seq(Names) /\ Len(toks) >= 2
          BY Zenon, <1>2, <4>1
        <5> HIDE DEF ds, new, path, given
        <5>2. /\ 2 \in DOMAIN toks /\ toks[2] \in Names /\ Len(toks) > 1
              /\ SubSeq(toks, 3, Len(toks)) \in Seq(Names)
          BY <5>1
        <5>3. NoOpts \in Opts
          BY Zenon, LinesAssumption DEF NoOpts, Opts
        <5>4. QED
          BY Zenon, <1>2, <5>2, <5>3, KeywordsTyped DEF ds
      <4>4. new.dsn = toks[2] /\ new.readonly = (NoOpts.ro = "ro" \/ ds.ro = "ro")
        <5> DEFINE dsn == toks[2]
        <5> HIDE DEF dsn, ds
        <5> QED
          BY Zenon, <4>3, OptsResolved DEF dsn
      <4>5. NoOpts.ro # "ro"
        BY DEF NoOpts, Unset
      <4>6. ASSUME ds # Bad, toks[2] \in Dsns PROVE GivesIn(more, n, path, new)
        <5>1. ds.ro = "ro" <=> SaysRo(toks)
          BY Zenon, <1>2, <4>1, <4>3, <4>6, FlatSaysRo
        <5> HIDE DEF ds, new
        <5>2. new.readonly = SaysRo(toks)
          <6>1. SaysRo(toks) \in BOOLEAN
            BY Zenon DEF SaysRo
          <6>2. QED
            BY Zenon, <4>4, <4>5, <5>1, <6>1
        <5>3. QED
          BY Zenon, <1>6, <2>2, <4>1, <4>4, <5>2 DEF GivesIn
      <4> HIDE DEF ds, new
      <4>7. \A e \in 1 .. Len(u) : u[e].path = path /\ ~u[e].failed =>
              \A x \in given : x.dsn \in Dsns => GivesIn(more, n, path, x)
        <5> TAKE e \in 1 .. Len(u)
        <5> HAVE u[e].path = path /\ ~u[e].failed
        <5>1. e = f
          BY Zenon, <1>5, <4>2 DEF Orderly
        <5>2. QED
          BY Zenon, <4>2, <4>4, <4>6, <5>1
      <4> HIDE DEF path, given
      <4>8. QED
        BY Zenon, <1>9, <2>2, <4>1, <4>7
    <3>3. QED
      BY Zenon, <3>1, <3>2
  <2>4. QED
    BY Zenon, <1>6, <1>8, <1>17, <2>1, <2>2, <2>3
<1>20. QED
  <2>1. Len(toks) > MaxToks \/ Len(toks) <= MaxToks
    <3>1. \A x, y \in Nat : x > y \/ x <= y
      OBVIOUS
    <3>2. QED
      BY Zenon, <3>1, <1>2, ConfigAssumption
  <2>2. QED
    BY Zenon, <1>3, <1>12, <1>13, <1>14, <1>15, <1>16, <1>17, <2>1 DEF LineKinds, last

\* The parser before the first line.
LEMMA BlankReads ==
  <<>> \in Seq(Lines) /\ ReadsAs(<<>>, Blank)
<1> DEFINE rd == <<>>
           n == Len(rd) + 1
<1>1. rd \in Seq(Lines) /\ Len(rd) = 0 /\ n = 1 /\ (\A k \in 1 .. Len(rd) : FALSE)
      /\ 1 .. n - 1 = {}
  OBVIOUS
<1>2. Blank.section = "exports" /\ Blank.open = FALSE /\ Blank.table = rd
  BY DEF Blank
<1> HIDE DEF rd, n
<1>3. Blocks(rd)[n] = 0
  BY Zenon, <1>1, BlocksRun
<1>4. InSection(rd, n)
  BY Zenon, <1>1 DEF InSection
<1>5. Told(rd, rd)
  BY Zenon, <1>1 DEF Told
<1>6. QED
  BY Zenon, <1>1, <1>2, <1>3, <1>4, <1>5 DEF ReadsAs, n, rd

\* An export is as these lines have it.
AsWritten(rd, x) ==
  /\ \A d \in DOMAIN x.datasets : \E k \in DOMAIN rd : GivesIn(rd, k, x.path, x.datasets[d])
  /\ \A k \in DOMAIN rd :
       InLines(rd, k) /\ Blocks(rd)[k] # 0 /\ rd[Blocks(rd)[k]][1] = x.path
         => \E d \in DOMAIN x.datasets : GivesIn(rd, k, x.path, x.datasets[d])

\* Of an export that is served, every dataset is on a line, and every line is there.
LEMMA ServedIsWritten ==
  ASSUME NEW rd \in Seq(Lines), NEW l, Parsed(l), Told(rd, l.table),
         NEW usable, usable \subseteq Dsns, NEW x, Served(l, x, usable)
  PROVE  AsWritten(rd, x)
<1> DEFINE t == l.table
<1>1. PICK e \in 1 .. Len(t) :
         x = t[e] /\ ~t[e].failed /\ \A d \in 1 .. Len(t[e].datasets) : t[e].datasets[d].dsn \in usable
  BY Zenon DEF Served
<1>2. t \in TableRead /\ Orderly(t)
  BY Zenon, ParserTypes DEF Parsed
<1>3. DOMAIN x.datasets = 1 .. Len(x.datasets) /\ DOMAIN rd = 1 .. Len(rd)
  <2>1. DOMAIN rd = 1 .. Len(rd)
    OBVIOUS
  <2>2. QED
    BY Zenon, <1>1, <1>2, <2>1, TableReadTypes
<1>4. x.path \in Paths
  <2>1. x \in Export
    BY Zenon, ServedTyped
  <2>2. QED
    BY Zenon, <2>1 DEF Export
<1>5. \A d \in 1 .. Len(x.datasets) : x.datasets[d].dsn \in Dsns
  BY Zenon, <1>1
<1> HIDE DEF t
<1>6. ASSUME NEW d \in 1 .. Len(x.datasets)
      PROVE  \E k \in 1 .. Len(rd) : GivesIn(rd, k, x.path, x.datasets[d])
  <2>1. Written(rd, t[e].path, t[e].datasets[d])
    BY Zenon, <1>1, <1>6 DEF Told, t
  <2>2. QED
    BY Zenon, <1>1, <1>5, <1>6, <2>1 DEF Written
<1>7. ASSUME NEW k \in 1 .. Len(rd), InLines(rd, k), Blocks(rd)[k] # 0,
             rd[Blocks(rd)[k]][1] = x.path
      PROVE  \E d \in 1 .. Len(x.datasets) : GivesIn(rd, k, x.path, x.datasets[d])
  <2> DEFINE b == Blocks(rd)[k]
             line == rd[b]
  <2>1. k \in 1 .. Len(rd) + 1
    OBVIOUS
  <2>2. line[Len(line)] = "{"
    BY Zenon, <1>7, <2>1, BlocksBefore
  <2>3. Covered(rd, k, t)
    BY Zenon, <1>7 DEF Told, t
  <2>4. ~NoExport(line, t)
    <3>1. Len(line) # 1
      BY Zenon, <1>4, <1>7, <2>2, NamesSayNothing
    <3>2. ~\A f \in 1 .. Len(t) : t[f].path # line[1]
      BY Zenon, <1>1, <1>7
    <3>3. QED
      BY Zenon, <3>1, <3>2 DEF NoExport
  <2>5. PICK f \in 1 .. Len(t) : t[f].path = line[1] /\ Covers(rd, k, t[f])
    BY Zenon, <2>3, <2>4 DEF Covered
  <2>6. f = e
    BY Zenon, <1>1, <1>2, <1>7, <2>5 DEF Orderly
  <2>7. QED
    BY Zenon, <1>1, <1>5, <2>5, <2>6 DEF Covers
<1>8. QED
  BY Zenon, <1>3, <1>6, <1>7 DEF AsWritten
=============================================================================
