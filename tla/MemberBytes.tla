----------------------------- MODULE MemberBytes -----------------------------
(***************************************************************************)
(* What the requests of a client mean for the bytes of one member: a WRITE *)
(* overlays its payload and fills a gap before it with zeros, a SETATTR of *)
(* the size cuts the member or extends it with zeros.  Bytes are abstracted*)
(* to units, each one a client's datum or the Zero of a filled gap.        *)
(*                                                                         *)
(* PendingPool takes this meaning for granted; SpillBuffer keeps the bytes *)
(* the way mvspww.c and mvsspl.c do and is compared with it.               *)
(***************************************************************************)
EXTENDS Integers, Sequences

CONSTANTS Data,     \* the units a client writes
          Zero,     \* the unit a gap is filled with
          MaxLen    \* PWW_MAX_MEMBER_BYTES, in units

ASSUME MemberBytesAssumption ==
  /\ MaxLen \in Nat /\ (MaxLen = 0 => Data = {})
  /\ Zero \notin Data

Units == Data \cup {Zero}

Contents == UNION {[1 .. n -> Units] : n \in 0 .. MaxLen}

Larger(a, b) == IF a >= b THEN a ELSE b

\* pww_store_range: the payload placed at off, a gap before it zero-filled.
Overlay(c, off, dat) ==
  [k \in 1 .. Larger(Len(c), off + Len(dat)) |->
     IF k > off /\ k <= off + Len(dat) THEN dat[k - off]
     ELSE IF k <= Len(c) THEN c[k] ELSE Zero]

\* pww_truncate: cut to n units, or zero-extended to n units.
Resize(c, n) == [k \in 1 .. n |-> IF k <= Len(c) THEN c[k] ELSE Zero]
=============================================================================
