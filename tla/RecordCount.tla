----------------------------- MODULE RecordCount -----------------------------
(***************************************************************************)
(* How many blocks a text becomes, counted as it arrives (mvsblkc.c).      *)
(*                                                                         *)
(* A text is a sequence of bytes; all that matters of a byte is whether it *)
(* is a newline.                                                           *)
(***************************************************************************)
EXTENDS Integers, Sequences, SequencesExt, FiniteSetsExt

CONSTANTS NL,     \* the newline
          Zero    \* any other byte; a hole is filled with it

\* The running estimate: blkcalc_info_t.  run is last_unterm_text_line_chars.
\* blkcalc_info_init
NoBlocks == [full |-> 0, partial |-> 0, run |-> 0, upto |-> 0]

\* blkc_recs_for_line
RecsForLine(n, reclen) ==
  IF reclen <= 0 THEN 0 ELSE IF n <= 0 THEN 1 ELSE (n + reclen - 1) \div reclen

\* Mutant: full blocks are counted and left in the open one.
EmitKeeping(dcb, est, n) ==
  LET per == dcb.blksize \div dcb.lrecl
      total == est.partial \div dcb.lrecl + RecsForLine(n, dcb.lrecl)
  IN [est EXCEPT !.full = @ + total \div per, !.partial = total * dcb.lrecl]

\* blkc_emit_line_f
EmitF(dcb, est, n) ==
  LET per == dcb.blksize \div dcb.lrecl
      total == est.partial \div dcb.lrecl + RecsForLine(n, dcb.lrecl)
  IN IF dcb.lrecl <= 0 \/ dcb.blksize < dcb.lrecl THEN est
     ELSE [est EXCEPT !.full = @ + total \div per, !.partial = (total % per) * dcb.lrecl]

\* blkc_emit_line_v: record by record, each with its RDW, each block with its BDW.
EmitV(dcb, est, n) ==
  LET data_max == dcb.lrecl - 4
      nrecs == RecsForLine(n, data_max)
      place[i \in 0 .. nrecs] ==
        IF i = 0 THEN est
        ELSE LET before == place[i - 1]
                 left == n - (i - 1) * data_max
                 reclen == 4 + (IF left > data_max THEN data_max ELSE left)
                 open == IF before.partial = 0 THEN 4 ELSE before.partial
             IN IF open + reclen > dcb.blksize
                THEN [before EXCEPT !.full = @ + 1, !.partial = 4 + reclen]
                ELSE [before EXCEPT !.partial = open + reclen]
  IN IF data_max <= 0 THEN est ELSE place[nrecs]

\* blkc_emit_line; a format that is neither counts as F does.
EmitLine(dcb, est, n) == IF dcb.recfm = "V" THEN EmitV(dcb, est, n) ELSE EmitF(dcb, est, n)

\* blkcalc_add_blocks_for_data
AddBlocksForData(dcb, est, data) ==
  FoldLeft(LAMBDA e, byte : IF byte = NL THEN [EmitLine(dcb, e, e.run) EXCEPT !.run = 0]
                            ELSE [e EXCEPT !.run = @ + 1],
           est, data)

\* blkcalc_total_blocks
TotalBlocks(dcb, est) ==
  LET end == IF est.run > 0 THEN EmitLine(dcb, est, est.run) ELSE est
  IN end.full + (IF end.partial > 0 THEN 1 ELSE 0)

\* blkc_need: an empty member is not free.
Need(dcb, est) == LET n == TotalBlocks(dcb, est) IN IF n = 0 THEN 1 ELSE n

-----------------------------------------------------------------------------
(* What the text really needs *)

\* external: the lengths of the lines JCC splits a text into; a last line
\* without newline is one if it is not empty.
LineLengths(text) ==
  LET ends == {i \in DOMAIN text : text[i] = NL}
             \cup (IF text # <<>> /\ Last(text) # NL THEN {Len(text) + 1} ELSE {})
      before(e) == LET earlier == {i \in ends : i < e}
                   IN IF earlier = {} THEN 0 ELSE Max(earlier)
      order == SetToSortSeq(ends, <)
  IN [k \in DOMAIN order |-> order[k] - before(order[k]) - 1]

\* external: the records they become; F is padded, V carries an RDW.
RecordLengths(dcb, text) ==
  LET most == IF dcb.recfm = "V" THEN dcb.lrecl - 4 ELSE dcb.lrecl
      wrap(n) == [i \in 1 .. RecsForLine(n, most) |->
                    IF dcb.recfm = "V" THEN 4 + Min({most, n - (i - 1) * most}) ELSE dcb.lrecl]
  IN FlattenSeq([k \in DOMAIN LineLengths(text) |-> wrap(LineLengths(text)[k])])

\* external: the fewest blocks that hold those records in their order.
FewestBlocks(dcb, text) ==
  LET recs == RecordLengths(dcb, text)
      bdw == IF dcb.recfm = "V" THEN 4 ELSE 0
      Fits(i, j) == bdw + FoldLeft(LAMBDA s, n : s + n, 0, SubSeq(recs, i, j)) <= dcb.blksize
      groups(cuts) == \* cuts: the last record of each block but the last
        \A c \in cuts \cup {Len(recs)} :
          LET earlier == {d \in cuts : d < c}
          IN Fits(1 + (IF earlier = {} THEN 0 ELSE Max(earlier)), c)
  IN IF recs = <<>> THEN 0
     ELSE 1 + Min({Cardinality(cuts) : cuts \in {s \in SUBSET (1 .. Len(recs) - 1) : groups(s)}})
=============================================================================
