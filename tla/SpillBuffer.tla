----------------------------- MODULE SpillBuffer -----------------------------
(***************************************************************************)
(* Where the bytes of one pending member are kept: a memory buffer of up   *)
(* to Threshold units (mvspww.c), and once the member outgrows it a        *)
(* scratch dataset of whole blocks (mvsspl.c).  ref follows the same       *)
(* requests as MemberBytes defines them.                                   *)
(*                                                                         *)
(* The scratch dataset behaves as the comments of mvsspl.c record it: a    *)
(* block written since the dataset was last closed can be read back only   *)
(* when it lies in the first track or was the last one written, and reads  *)
(* as nothing otherwise.                                                   *)
(***************************************************************************)
EXTENDS MemberBytes

CONSTANTS Block,      \* SPILL_BLK, in units
          Threshold,  \* PWW_SPILL_THRESHOLD, in units
          Track,      \* the blocks readable before a close, 12 on a 3350
          MaxPayload, \* the longest WRITE, in units
          Junk,       \* storage that was never written
          NoBuf       \* buf == NULL

ASSUME SpillBufferAssumption ==
  /\ Block \in Nat \ {0} /\ Threshold \in Nat /\ Track \in Nat
  /\ MaxPayload \in Nat
  /\ Junk \notin Units
  /\ NoBuf \notin [1 .. Threshold -> Units \cup {Junk}]

VARIABLES buf,         \* pm->buf, NoBuf or Threshold units
          spill,       \* pm->spill and the scratch dataset behind it
          high_water,  \* pm->high_water
          ref,         \* the content MemberBytes gives the member
          past         \* history: what has happened to the spilled member

vars == <<buf, spill, high_water, ref, past>>

Stuff == Units \cup {Junk}

Blocks(n) == (n + Block - 1) \div Block

BlockOf(k) == (k - 1) \div Block

\* The scratch dataset is file, a whole number of blocks; committed of them
\* were there when it was last opened, resident is the block stored last.
NoSpill ==
  [fp |-> FALSE, size |-> 0, dirty |-> FALSE,
   file |-> <<>>, committed |-> 0, resident |-> 0]

\* The types of the buffer and of the scratch dataset, which is a whole number
\* of blocks (spill_store_block).
TypeOK ==
  /\ buf \in [1 .. Threshold -> Stuff] \cup {NoBuf}
  /\ spill.fp \in BOOLEAN /\ spill.dirty \in BOOLEAN
  /\ spill.size \in 0 .. MaxLen
  /\ Len(spill.file) \in {n * Block : n \in 0 .. Blocks(MaxLen)}
  /\ spill.committed \in 0 .. Blocks(MaxLen)
  /\ spill.resident \in 0 .. Blocks(MaxLen)
  /\ \A k \in DOMAIN spill.file : spill.file[k] \in Stuff
  /\ high_water \in 0 .. MaxLen
  /\ ref \in Contents
  /\ past \subseteq {"shrunk", "recreated", "failed"}

Init ==
  /\ buf = NoBuf
  /\ spill = NoSpill
  /\ high_water = 0
  /\ ref = <<>>
  /\ past = {}

-----------------------------------------------------------------------------
(* The memory buffer *)

\* pww_slot_ensure_cap: realloc does not clear what it adds.
Grown == IF buf = NoBuf THEN [k \in 1 .. Threshold |-> Junk] ELSE buf

\* The memory path of pww_store_range and of pww_truncate.
BufStore(off, dat) ==
  IF off + Len(dat) = 0 THEN buf
  ELSE [k \in 1 .. Threshold |->
          IF k > off /\ k <= off + Len(dat) THEN dat[k - off]
          ELSE IF k > high_water /\ k <= off THEN Zero
          ELSE Grown[k]]

\* The bytes below high_water as pww_spill_transition hands them over.
Buffered ==
  IF buf = NoBuf THEN <<>>
  ELSE [k \in 1 .. high_water |-> IF k <= Threshold THEN buf[k] ELSE Junk]

-----------------------------------------------------------------------------
(* The scratch dataset *)

Readable(s, b) == b < s.committed \/ b < Track \/ b = s.resident

\* spill_sync: close and reopen, after which every block is readable.
Synced(s) ==
  IF s.dirty THEN [s EXCEPT !.dirty = FALSE, !.committed = Blocks(Len(s.file))]
  ELSE s

\* spill_load_block: a block past the extent, or not readable, loads as zeros.
Loaded(s, k) ==
  IF BlockOf(k) < Blocks(s.size) /\ Readable(s, BlockOf(k)) THEN s.file[k] ELSE Zero

\* Blocks first .. last loaded, overlaid and stored whole, in that order.
StoreBlocks(s, first, last, off, dat) ==
  IF last < first THEN s
  ELSE [s EXCEPT
          !.file = [k \in 1 .. Larger(Len(@), (last + 1) * Block) |->
                      IF BlockOf(k) \notin first .. last THEN s.file[k]
                      ELSE IF k > off /\ k <= off + Len(dat) THEN dat[k - off]
                      ELSE Loaded(s, k)],
          !.dirty = TRUE,
          !.resident = last]

\* Mutant: an inclusive end.
NewSizeInclusive(s, off, dat) == Larger(s.size, off + Len(dat) + 1)

\* The extent a write leaves behind.
NewSize(s, off, dat) == Larger(s.size, off + Len(dat))

\* The first block to write: the one the data starts in, or the extent.
FirstBlock(s, off, dat) ==
  IF dat # <<>> /\ off \div Block < Blocks(s.size) THEN off \div Block
  ELSE Blocks(s.size)

\* The last block to write: up to the new extent, or where the data ends.
LastBlock(s, off, dat) ==
  IF NewSize(s, off, dat) > s.size THEN Blocks(NewSize(s, off, dat)) - 1
  ELSE (off + Len(dat) - 1) \div Block

\* Mutant: fflush alone is trusted to make written blocks readable.
FlushSuffices(s, off, dat) == FALSE

\* Data that reaches below the tail block needs what is there committed first.
NeedsSync(s, off, dat) == FirstBlock(s, off, dat) + 1 < Blocks(s.size)

\* spill_write as far as block last; size moves only when all is stored.
Written(s, off, dat, last) ==
  StoreBlocks(IF NeedsSync(s, off, dat) THEN Synced(s) ELSE s,
              FirstBlock(s, off, dat), last, off, dat)

Nothing(s, off, dat) == dat = <<>> /\ off <= s.size

SpillWrite(s, off, dat) ==
  IF Nothing(s, off, dat) THEN s
  ELSE [Written(s, off, dat, LastBlock(s, off, dat)) EXCEPT
          !.size = NewSize(s, off, dat)]

\* Mutant: growing only moves the recorded extent.
GrowByExtent(s, n) == [s EXCEPT !.size = n]

\* spill_truncate: grow with an empty write, shrink by lowering the extent.
SpillTruncate(s, n) ==
  IF n > s.size THEN SpillWrite(s, n, <<>>) ELSE [s EXCEPT !.size = n]

\* spill_transition: open a fresh scratch dataset and copy the buffer to it.
SpillTransition == SpillWrite([NoSpill EXCEPT !.fp = TRUE], 0, Buffered)

\* The scratch dataset a request works on, after a transition if need be.
Scratch == IF spill.fp THEN spill ELSE SpillTransition

-----------------------------------------------------------------------------
(* The requests.  A transition that fails rolls back and changes nothing. *)

InMemory(n) == ~spill.fp /\ n <= Threshold

Store(off, dat) ==
  /\ IF InMemory(off + Len(dat))
     THEN buf' = BufStore(off, dat) /\ UNCHANGED spill
     ELSE buf' = NoBuf /\ spill' = SpillWrite(Scratch, off, dat)
  /\ high_water' = Larger(high_water, off + Len(dat))
  /\ ref' = Overlay(ref, off, dat)
  /\ UNCHANGED past

Truncate(n) ==
  /\ n # high_water
  /\ CASE spill.fp    -> spill' = SpillTruncate(spill, n) /\ UNCHANGED buf
       [] InMemory(n) -> buf' = BufStore(n, <<>>) /\ UNCHANGED spill
       [] OTHER       -> buf' = NoBuf /\ spill' = SpillWrite(SpillTransition, n, <<>>)
  /\ high_water' = n
  /\ ref' = Resize(ref, n)
  /\ past' = IF spill.fp /\ n < high_water THEN past \cup {"shrunk"} ELSE past

\* pww_create over a pending member sets high_water and nothing else here.
CreateOver ==
  /\ high_water' = 0
  /\ ref' = <<>>
  /\ past' = IF spill.fp THEN past \cup {"recreated"} ELSE past
  /\ UNCHANGED <<buf, spill>>

\* A store that fails after some of its blocks.
StoreFails(off, dat) ==
  /\ ~InMemory(off + Len(dat)) /\ ~Nothing(Scratch, off, dat)
  /\ \E last \in FirstBlock(Scratch, off, dat) - 1 .. LastBlock(Scratch, off, dat) - 1 :
       spill' = Written(Scratch, off, dat, last)
  /\ buf' = NoBuf
  /\ past' = past \cup {"failed"}
  /\ UNCHANGED <<high_water, ref>>

\* spill_sync could not close or reopen the scratch dataset: it is gone, and
\* the member counts as one in memory again, without a buffer.
LoseScratch(s) ==
  /\ s.dirty
  /\ spill' = [NoSpill EXCEPT !.size = s.size, !.dirty = TRUE]
  /\ buf' = NoBuf
  /\ past' = past \cup {"failed"}
  /\ UNCHANGED <<high_water, ref>>

StoreLosesScratch(off, dat) ==
  /\ ~InMemory(off + Len(dat)) /\ NeedsSync(Scratch, off, dat)
  /\ LoseScratch(Scratch)

ReadLosesScratch == spill.fp /\ high_water > 0 /\ LoseScratch(spill)

\* READ, or the read-back of a flush.
ReadBack ==
  /\ spill.fp /\ spill.dirty /\ high_water > 0
  /\ spill' = Synced(spill)
  /\ UNCHANGED <<buf, high_water, ref, past>>

\* pww_slot_release_inner, and the slot taken for another member.
Release ==
  /\ buf' = NoBuf /\ spill' = NoSpill /\ high_water' = 0
  /\ ref' = <<>> /\ past' = {}

Payloads == UNION {[1 .. n -> Data] : n \in 0 .. MaxPayload}

Next ==
  \/ \E off \in 0 .. MaxLen : \E dat \in Payloads :
       /\ off + Len(dat) <= MaxLen
       /\ Store(off, dat) \/ StoreFails(off, dat) \/ StoreLosesScratch(off, dat)
  \/ \E n \in 0 .. MaxLen : Truncate(n)
  \/ CreateOver \/ ReadBack \/ ReadLosesScratch \/ Release

Spec == Init /\ [][Next]_vars

-----------------------------------------------------------------------------
(* Properties *)

\* What pww_read_range returns below high_water, Junk where it has nothing.
Stored ==
  [k \in 1 .. high_water |->
     IF spill.fp THEN IF k <= Len(spill.file) THEN spill.file[k] ELSE Junk
     ELSE IF buf # NoBuf /\ k <= Threshold THEN buf[k] ELSE Junk]

\* As long as a spilled member only grows, in whatever order and overlap its
\* writes arrive and wherever it crosses the threshold, it reads back as
\* exactly the bytes written, with zeros in the gaps.
ReadsBackExactly == past = {} => Stored = ref

\* The extent never runs ahead of the blocks that exist, so no store seeks
\* past the end of the scratch dataset.
NoSeekPastEnd == spill.fp => Blocks(spill.size) * Block <= Len(spill.file)

\* A gap reads as zeros also after the spilled member was shrunk: the bytes
\* cut off never resurface.
GapsStayZero ==
  past \subseteq {"shrunk"} =>
    \A k \in DOMAIN ref : ref[k] = Zero => Stored[k] = Zero

\* A CREATE over a spilled member truncates it: nothing of what it held before
\* is seen again.
CreateTruncates == past \subseteq {"recreated"} => Stored = ref
=============================================================================
