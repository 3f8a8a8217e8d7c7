---------------------------- MODULE BlockProofs -----------------------------
(***************************************************************************)
(* What is kept and counted in blocks.  The space prediction of Fitting is *)
(* exact for every geometry; and the bytes of a pending member are kept    *)
(* exactly, for every block size, threshold, track and payload.            *)
(***************************************************************************)
EXTENDS SpillBuffer, Fitting, TLAPS

-----------------------------------------------------------------------------
(* What the space prediction computes *)

\* A dataset as blkcalc_dataset_init and blkc_vtoc_read leave it.
Geometry(ds) ==
  /\ ds.valid = TRUE
  /\ ds.bpt \in 1 .. MaxR
  /\ ds.trklen \in Nat /\ ds.trbal \in Nat /\ ds.tracks \in Nat
  /\ ds.lstar_tt \in Nat /\ ds.lstar_r \in Nat
  /\ ds.sec_tracks \in Nat /\ ds.nextents \in Nat

\* A place the prediction may have come to: on the last track of the data, or
\* on a later one.
Place(ds, ttr) ==
  /\ ttr.tt \in Nat /\ ttr.r \in Nat
  /\ \/ ttr.tt = ds.lstar_tt /\ ttr.r >= ds.lstar_r
     \/ ttr.tt > ds.lstar_tt /\ ttr.r <= ds.bpt

\* Rounding up to whole tracks, as blkc_ttr_add does.
LEMMA CeilingDivision ==
  ASSUME NEW a \in Nat \ {0}, NEW b \in Nat \ {0}
  PROVE  LET q == (a + b - 1) \div b
         IN q \in Nat \ {0} /\ (q - 1) * b < a /\ a <= q * b
<1> DEFINE n == a + b - 1
<1> DEFINE q == n \div b
<1>1. n \in Nat /\ n >= b
  OBVIOUS
<1>2. q \in Nat /\ b * q <= n /\ n < b * q + b
  BY <1>1
<1>3. q >= 1
  BY <1>1, <1>2
<1>4. (q - 1) * b = b * q - b /\ q * b = b * q
  BY <1>2
<1> QED
  BY <1>1, <1>2, <1>3, <1>4

\* blkc_track_room is a count of blocks.
LEMMA RoomNat ==
  ASSUME NEW ds, Geometry(ds), NEW tt \in Nat, NEW r \in Nat
  PROVE  TrackRoom(ds, tt, r) \in Nat
<1>1. ds.trklen \div ds.bpt \in Nat
  BY FittingAssumption DEF Geometry
<1>2. Balance(ds) \in Nat
  BY <1>1 DEF Balance, Least, Geometry
<1> QED
  BY <1>2, FittingAssumption DEF TrackRoom, Least, Beyond, Geometry

\* A block put on the current track takes one from its room.
LEMMA RoomShrinks ==
  ASSUME NEW ds, Geometry(ds), NEW ttr, Place(ds, ttr),
         NEW n \in Nat, n <= TrackRoom(ds, ttr.tt, ttr.r)
  PROVE  TrackRoom(ds, ttr.tt, ttr.r + n) = TrackRoom(ds, ttr.tt, ttr.r) - n
<1>1. ds.trklen \div ds.bpt \in Nat
  BY FittingAssumption DEF Geometry
<1>2. Balance(ds) \in Nat
  BY <1>1 DEF Balance, Least, Geometry
<1>3. CASE ttr.tt = ds.lstar_tt /\ ttr.r >= ds.lstar_r
  BY <1>2, <1>3, FittingAssumption DEF TrackRoom, Least, Beyond, Geometry, Place
<1>4. CASE ttr.tt > ds.lstar_tt /\ ttr.r <= ds.bpt
  BY <1>4, FittingAssumption DEF TrackRoom, Least, Beyond, Geometry, Place
<1> QED
  BY Zenon, <1>3, <1>4 DEF Place

\* A later track has room for what it does not hold yet.
LEMMA RoomOfLaterTrack ==
  ASSUME NEW ds, Geometry(ds), NEW tt \in Nat, tt > ds.lstar_tt,
         NEW r \in Nat, r <= ds.bpt
  PROVE  TrackRoom(ds, tt, r) = ds.bpt - r
BY FittingAssumption DEF TrackRoom, Least, Beyond, Geometry

\* On a dataset that cannot extend, predicting a member that fits moves the
\* end of data by exactly its blocks: what is available after it is what was
\* available less what it needs, over track ends, the partly used last track
\* and the largest record number (blkc_ttr_add, blkc_blocks_available).
THEOREM AddChargesExactly ==
  ASSUME NEW ds, Geometry(ds), Extension(ds) = 0, NEW ttr, Place(ds, ttr),
         NEW n \in Nat \ {0}, n <= BlocksAvailable(ds, ttr)
  PROVE  /\ Place(ds, TtrAdd(ds, ttr, n))
         /\ BlocksAvailable(ds, TtrAdd(ds, ttr, n)) = BlocksAvailable(ds, ttr) - n
<1> DEFINE room == TrackRoom(ds, ttr.tt, ttr.r)
           b == ds.bpt
           whole == Beyond(ds.tracks, ttr.tt + 1)
           next == TtrAdd(ds, ttr, n)
<1>1. b \in Nat \ {0} /\ ttr.tt \in Nat /\ ttr.r \in Nat /\ ds.tracks \in Nat /\ ds.lstar_tt \in Nat
  BY FittingAssumption DEF Geometry, Place
<1>2. room \in Nat
  BY Zenon, <1>1, RoomNat
<1>3. whole \in Nat
  BY <1>1 DEF Beyond
<1>4. BlocksAvailable(ds, ttr) = room + whole * b
  BY <1>1, <1>2, <1>3 DEF BlocksAvailable
<1>5. CASE n <= room
  <2>1. next = [tt |-> ttr.tt, r |-> ttr.r + n]
    BY Zenon, <1>1, <1>5 DEF TtrAdd
  <2>2. TrackRoom(ds, ttr.tt, ttr.r + n) = room - n
    BY Zenon, <1>5, RoomShrinks
  <2>3. BlocksAvailable(ds, next) = room - n + whole * b
    BY <2>1, <2>2, <1>1, <1>2, <1>3 DEF BlocksAvailable
  <2>4. next.tt = ttr.tt /\ next.r = ttr.r + n /\ next.r \in Nat
    BY <2>1, <1>1
  <2>5. ttr.tt > ds.lstar_tt /\ ttr.r <= ds.bpt => room = b - ttr.r
    BY Zenon, <1>1, RoomOfLaterTrack
  <2>6. Place(ds, next)
    BY <2>4, <2>5, <1>1, <1>5 DEF Place, Geometry
  <2>7. whole * b \in Nat
    BY <1>1, <1>3
  <2> QED
    BY <2>3, <2>6, <2>7, <1>2, <1>4
<1>6. CASE n > room
  <2> DEFINE over == n - room
             trks == (over + b - 1) \div b
             r == over - (trks - 1) * b
  <2>1. over \in Nat \ {0}
    BY <1>2, <1>6
  <2>2. trks \in Nat \ {0} /\ (trks - 1) * b < over /\ over <= trks * b
    BY Zenon, <2>1, <1>1, CeilingDivision
  <2>3. (trks - 1) * b = trks * b - b /\ trks * b \in Nat
    BY <2>2, <1>1
  <2>4. r \in Nat /\ r <= b /\ r = over - trks * b + b
    BY <2>1, <2>2, <2>3, <1>1
  <2>5. next = [tt |-> ttr.tt + trks, r |-> r]
    BY <1>1, <1>2, <1>6 DEF TtrAdd
  <2>6. next.tt > ds.lstar_tt /\ next.tt \in Nat
    BY <2>2, <2>5, <1>1 DEF Place
  <2>7. Place(ds, next)
    BY <2>4, <2>5, <2>6 DEF Place
  <2>8. TrackRoom(ds, next.tt, next.r) = b - r
    BY <2>4, <2>5, <2>6, RoomOfLaterTrack
  <2>9. over <= whole * b
    <3>1. whole * b \in Nat
      BY <1>1, <1>3
    <3> QED
      BY <3>1, <1>2, <1>4
  <2>10. whole >= trks
    <3>1. SUFFICES ASSUME whole <= trks - 1 PROVE FALSE
      BY <1>3, <2>2
    <3>2. whole * b <= (trks - 1) * b
      BY <3>1, <1>1, <1>3, <2>2
    <3>3. whole * b \in Nat /\ (trks - 1) * b \in Int
      BY <1>1, <1>3, <2>2
    <3> QED
      BY <3>2, <3>3, <2>1, <2>2, <2>9
  <2>11. Beyond(ds.tracks, next.tt + 1) = whole - trks
    BY <2>2, <2>5, <2>10, <1>1, <1>3 DEF Beyond
  <2>12. (whole - trks) * b = whole * b - trks * b
    BY <1>1, <1>3, <2>2
  <2>13. BlocksAvailable(ds, next) = b - r + (whole * b - trks * b)
    BY <2>4, <2>8, <2>11, <2>12, <1>1, <1>3, <2>2 DEF BlocksAvailable
  <2>14. whole * b \in Nat
    BY <1>1, <1>3
  <2>15. BlocksAvailable(ds, next) = room + whole * b - n
    BY <2>1, <2>3, <2>4, <2>13, <2>14, <1>1, <1>2
  <2> QED
    BY <2>7, <2>14, <2>15, <1>2, <1>4
<1> QED
  BY <1>2, <1>5, <1>6

\* What is available is a count of blocks.
LEMMA AvailableNat ==
  ASSUME NEW ds, Geometry(ds), Extension(ds) = 0, NEW ttr, Place(ds, ttr)
  PROVE  BlocksAvailable(ds, ttr) \in Nat
<1>0. ds.bpt \in Nat /\ ttr.tt \in Nat /\ ttr.r \in Nat
  BY FittingAssumption DEF Geometry, Place
<1>1. ds.bpt \in Nat /\ TrackRoom(ds, ttr.tt, ttr.r) \in Nat
  BY Zenon, <1>0, RoomNat
<1>2. Beyond(ds.tracks, ttr.tt + 1) \in Nat
  BY DEF Beyond, Geometry, Place
<1>3. Beyond(ds.tracks, ttr.tt + 1) * ds.bpt \in Nat
  BY <1>1, <1>2
<1> QED
  BY <1>1, <1>3 DEF BlocksAvailable

\* Two members predicted one after the other are both found to fit exactly if
\* together they do: the answer to the second is not spoiled by the place the
\* first was predicted to end at (blkcalc_will_member_fit, called in a chain
\* by blkcalc_admit_write).
THEOREM ChainDecides ==
  ASSUME NEW ds, Geometry(ds), Extension(ds) = 0, NEW ttr, Place(ds, ttr),
         NEW m \in Nat \ {0}, NEW n \in Nat \ {0}
  PROVE  LET first == WillMemberFit(ds, ttr, m)
             second == WillMemberFit(ds, first.ttr, n)
         IN (first.fits /\ second.fits) <=> m + n <= BlocksAvailable(ds, ttr)
<1> DEFINE avail == BlocksAvailable(ds, ttr)
           next == TtrAdd(ds, ttr, m)
           first == WillMemberFit(ds, ttr, m)
           second == WillMemberFit(ds, first.ttr, n)
<1>0. ds.valid /\ ds.bpt > 0
  BY FittingAssumption DEF Geometry
<1>1. ds.valid /\ ds.bpt > 0 /\ avail \in Nat
  BY Zenon, <1>0, AvailableNat
<1>2. first.ttr = next /\ (first.fits <=> m <= avail)
  BY Zenon, <1>1 DEF WillMemberFit
<1>3. second.fits <=> n <= BlocksAvailable(ds, next)
  BY Zenon, <1>1, <1>2 DEF WillMemberFit
<1>4. CASE m <= avail
  <2>1. BlocksAvailable(ds, next) = avail - m
    BY Zenon, <1>4, AddChargesExactly
  <2> QED
    BY <2>1, <1>1, <1>2, <1>3, <1>4
<1>5. CASE ~(m <= avail)
  BY <1>1, <1>2, <1>5
<1> QED
  BY Zenon, <1>4, <1>5

-----------------------------------------------------------------------------
(* The bytes of a pending member *)

-----------------------------------------------------------------------------
(* Blocks *)

\* Multiples of the block size are ordered as their factors.
LEMMA Multiples ==
  ASSUME NEW a \in Int, NEW b \in Int
  PROVE  /\ a <= b => a * Block <= b * Block
         /\ a < b => a * Block + Block <= b * Block
         /\ a * Block \in Int
         /\ (a + 1) * Block = a * Block + Block
<1>1. Block \in Nat /\ Block >= 1
  BY SpillBufferAssumption
<1>2. b * Block - a * Block = (b - a) * Block
  BY <1>1
<1>3. ASSUME NEW x \in Nat
      PROVE  x * Block >= 0 /\ (x >= 1 => x * Block >= Block)
  BY <1>1, <1>3
<1>4. a <= b => (b - a) * Block >= 0
  BY <1>3
<1>5. a < b => (b - a) * Block >= Block
  BY <1>3
<1>6. a * Block \in Int /\ b * Block \in Int
  BY <1>1
<1>7. QED
  BY <1>1, <1>2, <1>4, <1>5, <1>6

\* The quotient of a count by the block size.
LEMMA Quotient ==
  ASSUME NEW n \in Nat
  PROVE  /\ n \div Block \in Nat
         /\ (n \div Block) * Block <= n
         /\ n < (n \div Block) * Block + Block
<1>1. Block \in Nat /\ Block >= 1
  BY SpillBufferAssumption
<1>2. n \div Block \in Nat /\ Block * (n \div Block) <= n /\ n < Block * (n \div Block) + Block
  BY <1>1
<1>3. Block * (n \div Block) = (n \div Block) * Block
  BY <1>1, <1>2
<1>4. QED
  BY Zenon, <1>2, <1>3

\* Blocks is the least number of blocks that holds n units.
LEMMA BlocksBound ==
  ASSUME NEW n \in Nat
  PROVE  /\ Blocks(n) \in Nat
         /\ n <= Blocks(n) * Block
         /\ Blocks(n) * Block < n + Block
<1>1. Block \in Nat /\ Block >= 1
  BY SpillBufferAssumption
<1>2. n + Block - 1 \in Nat
  BY <1>1
<1>3. PICK q \in Nat : q = Blocks(n) /\ q * Block <= n + Block - 1 /\ n + Block - 1 < q * Block + Block
  BY Zenon, <1>2, Quotient DEF Blocks
<1>4. q * Block \in Int
  BY <1>1
<1>5. QED
  BY <1>1, <1>3, <1>4

\* Whole blocks are as many blocks.
LEMMA BlocksOfWhole ==
  ASSUME NEW n \in Nat
  PROVE  Blocks(n * Block) = n
<1>1. Block \in Nat /\ Block >= 1 /\ n * Block \in Nat
  BY SpillBufferAssumption
<1>2. PICK q \in Nat : q = Blocks(n * Block) /\ n * Block <= q * Block /\ q * Block < n * Block + Block
  BY Zenon, <1>1, BlocksBound
<1>3. ~(q < n)
  BY <1>1, <1>2, Multiples
<1>4. ~(n < q)
  BY <1>1, <1>2, Multiples
<1>5. QED
  BY <1>2, <1>3, <1>4

\* More units need no fewer blocks.
LEMMA BlocksMonotone ==
  ASSUME NEW a \in Nat, NEW b \in Nat, a <= b
  PROVE  Blocks(a) <= Blocks(b)
<1>1. PICK p \in Nat : p = Blocks(a) /\ p * Block < a + Block
  BY Zenon, BlocksBound
<1>2. PICK q \in Nat : q = Blocks(b) /\ b <= q * Block
  BY Zenon, BlocksBound
<1>3. Block \in Nat
  BY SpillBufferAssumption
<1>4. p * Block \in Int /\ q * Block \in Int /\ (q < p => q * Block + Block <= p * Block)
  <2>1. p \in Int /\ q \in Int
    OBVIOUS
  <2>2. QED
    BY Zenon, <2>1, Multiples
<1>5. ~(q < p)
  <2> DEFINE x == p * Block
             y == q * Block
  <2>1. /\ x \in Int /\ y \in Int /\ (q < p => y + Block <= x)
        /\ x < a + Block /\ b <= y
    BY Zenon, <1>1, <1>2, <1>4
  <2> HIDE DEF x, y
  <2>2. QED
    BY <1>3, <2>1
<1>6. QED
  BY <1>1, <1>2, <1>5

\* Unit k lies below block f if it is one of the first f * Block units.
LEMMA BelowBlock ==
  ASSUME NEW k \in Nat \ {0}, NEW f \in Int
  PROVE  BlockOf(k) \in Nat /\ (BlockOf(k) < f <=> k <= f * Block)
<1>1. Block \in Nat /\ Block >= 1 /\ f * Block \in Int
  BY SpillBufferAssumption
<1>2. PICK q \in Nat : q = BlockOf(k) /\ q * Block <= k - 1 /\ k - 1 < q * Block + Block
  BY Quotient DEF BlockOf
<1>3. ASSUME q < f
      PROVE  k <= f * Block
  BY <1>1, <1>2, <1>3, Multiples
<1>4. ASSUME f <= q
      PROVE  ~(k <= f * Block)
  BY <1>1, <1>2, <1>4, Multiples
<1>5. QED
  BY <1>2, <1>3, <1>4

-----------------------------------------------------------------------------
(* One store to the scratch dataset *)

ScratchType ==
  [fp : BOOLEAN, size : 0 .. MaxLen, dirty : BOOLEAN, file : Seq(Stuff),
   committed : 0 .. Blocks(MaxLen), resident : 0 .. Blocks(MaxLen)]

\* The scratch dataset is made of whole blocks and holds the extent.
Sound(s) ==
  /\ s \in ScratchType
  /\ \E n \in 0 .. Blocks(MaxLen) : Len(s.file) = n * Block
  /\ s.fp => Blocks(s.size) * Block <= Len(s.file)

\* A function on 1 .. n is a sequence of length n.
LEMMA SequenceOf ==
  ASSUME NEW S, NEW n \in Nat, NEW f \in [1 .. n -> S]
  PROVE  f \in Seq(S) /\ Len(f) = n
  OBVIOUS

\* Units of a loaded block were stored, or are zeros.
LEMMA LoadedForm ==
  ASSUME NEW s, Sound(s), s.fp, NEW k \in Nat \ {0}
  PROVE  /\ Loaded(s, k) \in Stuff
         /\ (k <= Blocks(s.size) * Block /\ Readable(s, BlockOf(k)) => Loaded(s, k) = s.file[k])
         /\ (Blocks(s.size) * Block < k => Loaded(s, k) = Zero)
<1>1. s.size \in Nat /\ s.file \in Seq(Stuff) /\ Blocks(s.size) * Block <= Len(s.file)
  BY MemberBytesAssumption DEF Sound, ScratchType
<1>2. Blocks(s.size) \in Nat
  BY Zenon, <1>1, BlocksBound
<1>3. Blocks(s.size) * Block \in Int
  BY <1>2, SpillBufferAssumption
<1>4. BlockOf(k) < Blocks(s.size) <=> k <= Blocks(s.size) * Block
  BY <1>2, BelowBlock
<1>5. k <= Blocks(s.size) * Block => s.file[k] \in Stuff
  BY <1>1, <1>3
<1>6. QED
  BY <1>3, <1>4, <1>5 DEF Loaded, Stuff, Units

\* What is in the dataset after blocks first to last of s are stored.
Stores(u, s, first, last, off, dat) ==
  \A k \in 1 .. Len(u.file) :
    u.file[k] = IF k <= first * Block \/ (last + 1) * Block < k THEN s.file[k]
                ELSE IF k > off /\ k <= off + Len(dat) THEN dat[k - off]
                ELSE Loaded(s, k)

\* spill_write's loop from block first to block last.
LEMMA StoreForm ==
  ASSUME NEW s, Sound(s), s.fp, NEW first \in Nat, NEW last \in Int,
         first <= last + 1, last < Blocks(MaxLen), first * Block <= Len(s.file),
         NEW off \in Nat, NEW dat \in Seq(Stuff),
         NEW u, u = StoreBlocks(s, first, last, off, dat)
  PROVE  /\ Sound(u) /\ u.fp /\ u.size = s.size /\ u.committed = s.committed
         /\ Len(u.file) = Larger(Len(s.file), (last + 1) * Block)
         /\ Stores(u, s, first, last, off, dat)
         /\ (last < first => u = s) /\ (first <= last => u.dirty /\ u.resident = last)
<1> DEFINE N == Larger(Len(s.file), (last + 1) * Block)
           e(k) == IF k <= first * Block \/ (last + 1) * Block < k THEN s.file[k]
                   ELSE IF k > off /\ k <= off + Len(dat) THEN dat[k - off]
                   ELSE Loaded(s, k)
<1>1. /\ s \in ScratchType /\ s.file \in Seq(Stuff) /\ Len(s.file) \in Nat
      /\ Blocks(s.size) * Block <= Len(s.file) /\ s.size \in Nat
  BY MemberBytesAssumption DEF Sound, ScratchType
<1>2. first * Block \in Int /\ (last + 1) * Block \in Int /\ Len(dat) \in Nat
  BY SpillBufferAssumption
<1>3. PICK n \in 0 .. Blocks(MaxLen) : Len(s.file) = n * Block
  BY Zenon DEF Sound
<1>4. Blocks(MaxLen) \in Nat
  BY Zenon, BlocksBound, MemberBytesAssumption
<1>5. CASE last < first
  <2>1. u = s /\ last + 1 = first
    BY <1>5 DEF StoreBlocks
  <2>2. N = Len(s.file)
    BY Zenon, <1>1, <1>2, <2>1 DEF Larger
  <2>3. \A k \in 1 .. Len(s.file) : e(k) = s.file[k]
    BY <1>2, <2>1
  <2>4. QED
    BY <1>5, <2>1, <2>2, <2>3 DEF Stores
<1>6. CASE ~(last < first)
  <2>1. N \in Nat /\ Len(s.file) <= N /\ (last + 1) * Block <= N
    BY <1>1, <1>2 DEF Larger
  <2>2. PICK g : g = [k \in 1 .. N |->
                      IF BlockOf(k) \notin first .. last THEN s.file[k]
                      ELSE IF k > off /\ k <= off + Len(dat) THEN dat[k - off]
                      ELSE Loaded(s, k)]
    BY Zenon
  <2>3. u = [s EXCEPT !.file = g, !.dirty = TRUE, !.resident = last]
    BY Zenon, <1>6, <2>2 DEF StoreBlocks
  <2>4. ASSUME NEW k \in 1 .. N
        PROVE  g[k] = e(k) /\ g[k] \in Stuff
    <3>1. BlockOf(k) \in Nat /\ (BlockOf(k) < first <=> k <= first * Block)
          /\ (BlockOf(k) < last + 1 <=> k <= (last + 1) * Block)
      <4>1. k \in Nat \ {0} /\ first \in Int /\ last + 1 \in Int
        BY <2>1
      <4> HIDE DEF N
      <4>2. QED
        BY Zenon, <4>1, BelowBlock
    <3>2. BlockOf(k) \notin first .. last <=> k <= first * Block \/ (last + 1) * Block < k
      <4>1. PICK b \in Nat, x \in Int, y \in Int :
              b = BlockOf(k) /\ x = first * Block /\ y = (last + 1) * Block
        BY Zenon, <1>2, <3>1
      <4>2. (b < first <=> k <= x) /\ (b < last + 1 <=> k <= y)
        BY Zenon, <3>1, <4>1
      <4>3. b \notin first .. last <=> k <= x \/ y < k
        BY <2>1, <4>2
      <4>4. QED
        BY Zenon, <4>1, <4>3
    <3>3. g[k] = e(k)
      BY Zenon, <2>2, <3>2
    <3>4. CASE k <= first * Block \/ (last + 1) * Block < k
      <4>1. k <= Len(s.file)
        BY <1>1, <1>2, <2>1, <3>4 DEF Larger
      <4>2. QED
        BY <1>1, <2>1, <3>3, <3>4, <4>1
    <3>5. CASE ~(k <= first * Block \/ (last + 1) * Block < k)
      <4>1. Loaded(s, k) \in Stuff
        BY <2>1, LoadedForm
      <4>2. k > off /\ k <= off + Len(dat) => dat[k - off] \in Stuff
        BY <1>2, <2>1
      <4>3. QED
        BY Zenon, <3>3, <3>5, <4>1, <4>2
    <3>6. QED
      BY Zenon, <3>3, <3>4, <3>5
  <2>5. g \in [1 .. N -> Stuff]
    BY Zenon, <2>2, <2>4
  <2>6. g \in Seq(Stuff) /\ Len(g) = N
    BY Zenon, <2>1, <2>5, SequenceOf
  <2>7. last \in 0 .. Blocks(MaxLen)
    BY <1>4, <1>6
  <2>8. u \in ScratchType /\ u.file = g /\ u.fp = s.fp /\ u.size = s.size
        /\ u.committed = s.committed /\ u.dirty = TRUE /\ u.resident = last
    BY Zenon, <1>1, <2>3, <2>6, <2>7 DEF ScratchType
  <2>9. \E j \in 0 .. Blocks(MaxLen) : N = j * Block
    <3>1. N = Len(s.file) \/ N = (last + 1) * Block
      BY Zenon DEF Larger
    <3>2. last + 1 \in 0 .. Blocks(MaxLen)
      BY <1>4, <1>6
    <3>3. QED
      BY Zenon, <1>3, <3>1, <3>2
  <2>10. Blocks(s.size) * Block <= N
    <3>0. Blocks(s.size) \in Nat
      BY Zenon, <1>1, BlocksBound
    <3>1. Blocks(s.size) * Block \in Int
      BY <3>0, SpillBufferAssumption
    <3> HIDE DEF N
    <3>2. QED
      BY <1>1, <2>1, <3>1
  <2>11. Sound(u)
    BY Zenon, <2>6, <2>8, <2>9, <2>10 DEF Sound
  <2>12. QED
    BY Zenon, <1>6, <2>4, <2>6, <2>8, <2>11 DEF Stores
<1>7. QED
  BY Zenon, <1>5, <1>6

\* spill_sync commits every block there is.
LEMMA SyncedForm ==
  ASSUME NEW s, Sound(s), NEW u, u = Synced(s)
  PROVE  /\ Sound(u) /\ u.fp = s.fp /\ u.size = s.size /\ u.file = s.file
         /\ u.resident = s.resident /\ ~u.dirty
         /\ IF s.dirty THEN u.committed = Blocks(Len(s.file)) ELSE u = s
<1>1. PICK n \in 0 .. Blocks(MaxLen) : Len(s.file) = n * Block
  BY Zenon DEF Sound
<1>2. n \in Nat
  BY BlocksBound, MemberBytesAssumption
<1>3. Blocks(Len(s.file)) = n
  BY Zenon, <1>1, <1>2, BlocksOfWhole
<1>4. CASE s.dirty
  <2>1. u = [s EXCEPT !.dirty = FALSE, !.committed = n]
    BY Zenon, <1>3, <1>4 DEF Synced
  <2>2. /\ u \in ScratchType /\ u.fp = s.fp /\ u.size = s.size /\ u.file = s.file
        /\ u.resident = s.resident /\ u.dirty = FALSE /\ u.committed = n
    BY Zenon, <2>1 DEF ScratchType, Sound
  <2>3. QED
    BY Zenon, <1>1, <1>3, <1>4, <2>2 DEF Sound
<1>5. CASE ~s.dirty
  BY Zenon, <1>5 DEF Synced
<1>6. QED
  BY Zenon, <1>4, <1>5

\* The blocks a write stores, from the data or the old extent to the data or
\* the new extent: none is skipped, and the data lies in them.
LEMMA WriteRange ==
  ASSUME NEW s, Sound(s), s.fp, NEW off \in Nat, NEW dat \in Seq(Stuff),
         off + Len(dat) <= MaxLen, ~Nothing(s, off, dat),
         NEW first, first = FirstBlock(s, off, dat),
         NEW last, last = LastBlock(s, off, dat), NEW n, n = NewSize(s, off, dat)
  PROVE  /\ first \in Nat /\ last \in Int /\ first <= last + 1
         /\ first <= Blocks(s.size) /\ last < Blocks(MaxLen)
         /\ n \in 0 .. MaxLen /\ s.size <= n /\ off + Len(dat) <= n
         /\ Len(dat) > 0 => first * Block <= off
         /\ off + Len(dat) <= (last + 1) * Block
         /\ n > s.size => last + 1 = Blocks(n)
         /\ n <= s.size => n = s.size /\ first <= last /\ last < Blocks(s.size)
<1>1. /\ s.size \in 0 .. MaxLen /\ s.size \in Nat /\ MaxLen \in Nat /\ Len(dat) \in Nat
      /\ Block \in Nat /\ Block >= 1
  BY MemberBytesAssumption, SpillBufferAssumption DEF Sound, ScratchType
<1>2. n \in 0 .. MaxLen /\ s.size <= n /\ off + Len(dat) <= n
      /\ (n > s.size => n = off + Len(dat)) /\ (n <= s.size => n = s.size)
  BY <1>1 DEF NewSize, Larger
<1>3. PICK p \in Nat : p = Blocks(s.size) /\ s.size <= p * Block
  BY Zenon, <1>1, BlocksBound
<1>4. PICK q \in Nat : q = off \div Block /\ q * Block <= off
  BY Zenon, Quotient
<1>5. p * Block \in Int /\ q * Block \in Int
  BY <1>1
<1>6. first = (IF dat # <<>> /\ q < p THEN q ELSE p) /\ first \in Nat /\ first <= p
  BY <1>3, <1>4 DEF FirstBlock
<1>7. dat # <<>> <=> Len(dat) > 0
  OBVIOUS
<1>8. Len(dat) > 0 => first * Block <= off
  BY <1>4, <1>5, <1>6, <1>7, Multiples
<1>9. Blocks(MaxLen) \in Nat /\ p <= Blocks(MaxLen)
  <2>1. s.size <= MaxLen
    BY <1>1
  <2>2. QED
    BY Zenon, <1>1, <1>3, <2>1, BlocksBound, BlocksMonotone
<1>10. CASE n > s.size
  <2>1. last = Blocks(n) - 1
    BY Zenon, <1>10 DEF LastBlock
  <2> n \in Nat
    BY <1>1, <1>2
  <2>2. PICK r \in Nat : r = Blocks(n) /\ n <= r * Block
    BY Zenon, BlocksBound
  <2>3. p <= r /\ r <= Blocks(MaxLen)
    BY <1>1, <1>2, <1>3, <2>2, BlocksMonotone
  <2>4. last \in Int /\ last + 1 = r /\ first <= last + 1 /\ last < Blocks(MaxLen)
    BY <1>6, <1>9, <2>1, <2>2, <2>3
  <2>5. off + Len(dat) <= (last + 1) * Block
    BY Zenon, <1>2, <1>10, <2>2, <2>4
  <2>6. ~(n <= s.size)
    BY <1>1, <1>2, <1>10
  <2>7. QED
    BY Zenon, <1>2, <1>3, <1>6, <1>8, <2>2, <2>4, <2>5, <2>6
<1>11. CASE n <= s.size
  <2>1. n = s.size /\ off + Len(dat) <= s.size
    BY Zenon, <1>2, <1>11
  <2>2. Len(dat) > 0
    BY <1>1, <1>7, <2>1 DEF Nothing
  <2>3. PICK k \in Nat \ {0} : k = off + Len(dat) /\ k <= s.size /\ off < k
    BY <1>1, <2>1, <2>2
  <2>4. last = BlockOf(k)
    <3>1. ~(NewSize(s, off, dat) > s.size) /\ off + Len(dat) - 1 = k - 1
      BY <1>1, <1>2, <1>11, <2>3
    <3>2. QED
      BY Zenon, <3>1 DEF LastBlock, BlockOf
  <2>5. last \in Nat /\ (last < p <=> k <= p * Block) /\ (last < q <=> k <= q * Block)
    BY <2>4, BelowBlock
  <2>6. last < p /\ q <= last
    <3>1. k <= p * Block /\ ~(k <= q * Block)
      BY <1>1, <1>3, <1>4, <1>5, <2>3
    <3>2. QED
      BY <2>5, <3>1
  <2>7. first = q /\ first <= last
    BY <1>6, <1>7, <2>2, <2>5, <2>6
  <2>8. k <= (last + 1) * Block
    <3>1. last + 1 \in Int /\ BlockOf(k) < last + 1
      BY <2>4, <2>5
    <3>2. QED
      BY Zenon, <3>1, BelowBlock
  <2>9. QED
    BY <1>2, <1>3, <1>6, <1>8, <1>9, <1>11, <2>1, <2>3, <2>5, <2>6, <2>7, <2>8
<1>12. QED
  BY <1>1, <1>2, <1>10, <1>11

\* The scratch dataset u after blocks first to l were stored to s, or to what a
\* sync made of s, which is t.
WrittenTo(u, s, t, first, l, off, dat) ==
  /\ Sound(t) /\ t.fp /\ t.file = s.file /\ t.size = s.size /\ t.resident = s.resident
  /\ Sound(u) /\ u.fp /\ u.size = s.size /\ u.committed = t.committed
  /\ Len(u.file) = Larger(Len(s.file), (l + 1) * Block)
  /\ Stores(u, t, first, l, off, dat)
  /\ (l < first => u = t) /\ (first <= l => u.dirty /\ u.resident = l)

\* spill_write as far as block l, which may be short of the last.
LEMMA WrittenForm ==
  ASSUME NEW s, Sound(s), s.fp, NEW off \in Nat, NEW dat \in Seq(Stuff),
         off + Len(dat) <= MaxLen, ~Nothing(s, off, dat),
         NEW first, first = FirstBlock(s, off, dat),
         NEW l \in Int, first <= l + 1, l <= LastBlock(s, off, dat),
         NEW t, t = (IF NeedsSync(s, off, dat) THEN Synced(s) ELSE s),
         NEW u, u = Written(s, off, dat, l)
  PROVE  WrittenTo(u, s, t, first, l, off, dat)
<1>2. Sound(t) /\ t.fp /\ t.file = s.file /\ t.size = s.size /\ t.resident = s.resident
  BY Zenon, SyncedForm
<1>3. PICK last : last = LastBlock(s, off, dat)
  BY Zenon
<1>4. PICK n : n = NewSize(s, off, dat)
  BY Zenon
<1>5. first \in Nat /\ last \in Int /\ first <= Blocks(s.size) /\ last < Blocks(MaxLen)
  BY <1>3, <1>4, WriteRange
<1>6. s.size \in Nat /\ MaxLen \in Nat /\ Blocks(s.size) * Block <= Len(s.file)
      /\ Len(s.file) \in Nat
  BY MemberBytesAssumption DEF Sound, ScratchType
<1>7. Blocks(s.size) \in Nat /\ Blocks(MaxLen) \in Nat
  BY Zenon, <1>6, BlocksBound
<1>8. first * Block <= Len(t.file)
  <2>1. first * Block \in Int /\ Blocks(s.size) * Block \in Int
        /\ first * Block <= Blocks(s.size) * Block
    BY <1>5, <1>7, Multiples
  <2>2. QED
    BY <1>2, <1>6, <2>1
<1>9. l < Blocks(MaxLen)
  <2>1. l <= last
    BY Zenon, <1>3
  <2>2. QED
    BY <1>5, <1>7, <2>1
<1>10. u = StoreBlocks(t, first, l, off, dat)
  BY Zenon DEF Written
<1>11. /\ Sound(u) /\ u.fp /\ u.size = t.size /\ u.committed = t.committed
       /\ Len(u.file) = Larger(Len(t.file), (l + 1) * Block)
       /\ Stores(u, t, first, l, off, dat)
       /\ (l < first => u = t) /\ (first <= l => u.dirty /\ u.resident = l)
  <2>1. /\ Sound(t) /\ t.fp /\ first \in Nat /\ l < Blocks(MaxLen)
        /\ first * Block <= Len(t.file) /\ u = StoreBlocks(t, first, l, off, dat)
    BY Zenon, <1>2, <1>5, <1>8, <1>9, <1>10
  <2>2. ASSUME NEW a, NEW b, Sound(a), a.fp, first * Block <= Len(a.file),
               b = StoreBlocks(a, first, l, off, dat)
        PROVE  /\ Sound(b) /\ b.fp /\ b.size = a.size /\ b.committed = a.committed
               /\ Len(b.file) = Larger(Len(a.file), (l + 1) * Block)
               /\ Stores(b, a, first, l, off, dat)
               /\ (l < first => b = a) /\ (first <= l => b.dirty /\ b.resident = l)
    BY <2>1, <2>2, StoreForm
  <2>3. QED
    BY Zenon, <2>1, <2>2
<1>12. QED
  BY Zenon, <1>2, <1>11 DEF WrittenTo

\* spill_write leaves a sound scratch dataset.
LEMMA SpillWriteSound ==
  ASSUME NEW s, Sound(s), s.fp, NEW off \in Nat, NEW dat \in Seq(Stuff),
         off + Len(dat) <= MaxLen, NEW u, u = SpillWrite(s, off, dat)
  PROVE  Sound(u) /\ u.fp
<1>1. CASE Nothing(s, off, dat)
  BY Zenon, <1>1 DEF SpillWrite
<1>2. CASE ~Nothing(s, off, dat)
  <2>1. PICK first, last, n : /\ first = FirstBlock(s, off, dat) /\ last = LastBlock(s, off, dat)
                              /\ n = NewSize(s, off, dat)
    BY Zenon
  <2>2. PICK w, t : /\ w = Written(s, off, dat, last)
                    /\ t = IF NeedsSync(s, off, dat) THEN Synced(s) ELSE s
    BY Zenon
  <2>3. u = [w EXCEPT !.size = n]
    BY Zenon, <1>2, <2>1, <2>2 DEF SpillWrite
  <2>4. /\ first \in Nat /\ last \in Int /\ first <= last + 1
        /\ n \in 0 .. MaxLen /\ s.size <= n
        /\ n > s.size => last + 1 = Blocks(n)
        /\ n <= s.size => n = s.size
    BY <1>2, <2>1, WriteRange
  <2>5. last <= LastBlock(s, off, dat)
    BY <2>1, <2>4
  <2>6. /\ Sound(w) /\ w.fp /\ w.size = s.size
        /\ Len(w.file) = Larger(Len(s.file), (last + 1) * Block)
    <3>1. WrittenTo(w, s, t, first, last, off, dat)
      BY Zenon, <1>2, <2>1, <2>2, <2>4, <2>5, WrittenForm
    <3>2. QED
      BY Zenon, <3>1 DEF WrittenTo
  <2>7. u \in ScratchType /\ u.file = w.file /\ u.fp = w.fp /\ u.size = n
    BY Zenon, <2>3, <2>4, <2>6 DEF Sound, ScratchType
  <2>8. Blocks(n) * Block <= Len(w.file)
    <3>1. s.size \in Nat /\ Len(s.file) \in Nat
      BY MemberBytesAssumption DEF Sound, ScratchType
    <3>2. CASE n > s.size
      <4>1. (last + 1) * Block \in Int
        BY <2>4, SpillBufferAssumption
      <4>2. (last + 1) * Block <= Len(w.file)
        BY <2>6, <3>1, <4>1 DEF Larger
      <4>3. QED
        BY Zenon, <2>4, <3>2, <4>2
    <3>3. CASE n <= s.size
      BY Zenon, <2>4, <2>6, <3>3 DEF Sound
    <3>4. QED
      BY <2>4, <3>1, <3>2, <3>3, MemberBytesAssumption
  <2>9. QED
    BY Zenon, <2>6, <2>7, <2>8 DEF Sound
<1>3. QED
  BY Zenon, <1>1, <1>2

-----------------------------------------------------------------------------
(* A scratch dataset that only grew *)

\* It holds content c and zeros up to the end of the last block, and that block
\* can be read back.
Exact(s, c) ==
  /\ Sound(s) /\ s.fp /\ c \in Seq(Stuff) /\ s.size = Len(c)
  /\ Len(s.file) = Blocks(s.size) * Block
  /\ \A k \in 1 .. Len(s.file) : s.file[k] = IF k <= Len(c) THEN c[k] ELSE Zero
  /\ s.size > 0 => Readable(s, Blocks(s.size) - 1)
  /\ ~s.dirty => s.committed = Blocks(s.size)

\* Every block a write loads is readable: below the tail block the dataset is
\* closed and reopened first, and the tail block was committed or stored last.
LEMMA LoadsExact ==
  ASSUME NEW s, NEW c, Exact(s, c), NEW off \in Nat, NEW dat \in Seq(Stuff),
         off + Len(dat) <= MaxLen, ~Nothing(s, off, dat),
         NEW first, first = FirstBlock(s, off, dat),
         NEW t, t = (IF NeedsSync(s, off, dat) THEN Synced(s) ELSE s),
         NEW k \in Nat \ {0}, first * Block < k
  PROVE  Loaded(t, k) = IF k <= Len(c) THEN c[k] ELSE Zero
<1>1. /\ Sound(s) /\ s.fp /\ c \in Seq(Stuff) /\ s.size = Len(c)
      /\ Len(s.file) = Blocks(s.size) * Block
      /\ s.size > 0 => Readable(s, Blocks(s.size) - 1)
      /\ ~s.dirty => s.committed = Blocks(s.size)
  BY Zenon DEF Exact
<1>2. PICK p \in Nat : p = Blocks(s.size) /\ s.size <= p * Block
  <2>1. s.size \in Nat
    BY <1>1
  <2>2. QED
    BY Zenon, <2>1, BlocksBound
<1>3. p * Block \in Int /\ Len(c) \in Nat /\ s.size \in Nat
  BY <1>1, <1>2, SpillBufferAssumption
<1>4. Sound(t) /\ t.fp /\ t.file = s.file /\ t.size = s.size /\ t.resident = s.resident
  BY <1>1, SyncedForm
<1>5. CASE p * Block < k
  <2>1. Loaded(t, k) = Zero
    BY Zenon, <1>2, <1>4, <1>5, LoadedForm
  <2>2. ~(k <= Len(c))
    BY <1>1, <1>2, <1>3, <1>5
  <2>3. QED
    BY Zenon, <2>1, <2>2
<1>6. CASE k <= p * Block
  <2>1. first \in Nat
    BY <1>1, WriteRange
  <2>2. PICK b \in Nat : b = BlockOf(k) /\ b < p /\ first <= b
    <3>1. first * Block \in Int
      BY <2>1, SpillBufferAssumption
    <3>2. ~(k <= first * Block)
      BY <3>1
    <3>3. QED
      BY <1>2, <1>6, <2>1, <3>2, BelowBlock
  <2>3. Readable(t, b)
    <3>1. CASE NeedsSync(s, off, dat)
      <4>1. t.committed = p
        <5>1. Blocks(Len(s.file)) = p
          BY <1>1, <1>2, BlocksOfWhole
        <5>2. QED
          BY <1>1, <1>2, <3>1, <5>1, SyncedForm
      <4>2. QED
        BY Zenon, <2>2, <4>1 DEF Readable
    <3>2. CASE ~NeedsSync(s, off, dat)
      <4>1. b = p - 1 /\ t = s
        BY <1>2, <2>1, <2>2, <3>2 DEF NeedsSync
      <4>2. s.size > 0
        <5>1. CASE s.size = 0
          BY <1>2, <1>3, <2>2, <5>1, BlocksOfWhole, SpillBufferAssumption
        <5>2. QED
          BY <1>3, <5>1
      <4>3. QED
        BY Zenon, <1>1, <1>2, <4>1, <4>2
    <3>3. QED
      BY Zenon, <3>1, <3>2
  <2>4. Loaded(t, k) = s.file[k]
    BY <1>2, <1>4, <1>6, <2>2, <2>3, LoadedForm
  <2>5. k \in 1 .. Len(s.file)
    BY <1>1, <1>2, <1>3, <1>6
  <2>6. QED
    BY Zenon, <2>4, <2>5 DEF Exact
<1>7. QED
  BY <1>3, <1>5, <1>6

\* Sequence d is c with dat placed at off.
Overlays(d, c, off, dat) ==
  /\ d \in Seq(Stuff) /\ Len(d) = Larger(Len(c), off + Len(dat))
  /\ \A k \in 1 .. Len(d) :
       d[k] = IF k > off /\ k <= off + Len(dat) THEN dat[k - off]
              ELSE IF k <= Len(c) THEN c[k] ELSE Zero

\* The content after a write, and its length.
LEMMA OverlayForm ==
  ASSUME NEW c \in Seq(Stuff), NEW off \in Nat, NEW dat \in Seq(Stuff)
  PROVE  Overlays(Overlay(c, off, dat), c, off, dat)
<1>0. PICK d : d = Overlay(c, off, dat)
  BY Zenon
<1> DEFINE N == Larger(Len(c), off + Len(dat))
<1>1. N \in Nat /\ Len(c) \in Nat /\ Len(dat) \in Nat
  BY DEF Larger
<1>2. d = [k \in 1 .. N |-> IF k > off /\ k <= off + Len(dat) THEN dat[k - off]
                            ELSE IF k <= Len(c) THEN c[k] ELSE Zero]
  BY Zenon, <1>0 DEF Overlay
<1>3. \A k \in 1 .. N : d[k] \in Stuff
  BY <1>1, <1>2 DEF Stuff, Units
<1>4. d \in [1 .. N -> Stuff]
  BY Zenon, <1>2, <1>3
<1>5. d \in Seq(Stuff) /\ Len(d) = N
  BY Zenon, <1>1, <1>4, SequenceOf
<1>6. Overlays(d, c, off, dat)
  BY Zenon, <1>2, <1>5 DEF Overlays
<1>7. QED
  BY Zenon, <1>0, <1>6

\* A write of nothing within the content changes nothing.
LEMMA OverlayNothing ==
  ASSUME NEW c \in Seq(Stuff), NEW off \in Nat, off <= Len(c)
  PROVE  Overlay(c, off, <<>>) = c
<1>1. PICK d : d = Overlay(c, off, <<>>)
  BY Zenon
<1>2. <<>> \in Seq(Stuff) /\ Len(<<>>) = 0
  OBVIOUS
<1>3. /\ d \in Seq(Stuff) /\ Len(d) = Larger(Len(c), off)
      /\ \A k \in 1 .. Len(d) : d[k] = IF k <= Len(c) THEN c[k] ELSE Zero
  <2>1. Overlays(d, c, off, <<>>)
    BY Zenon, <1>1, <1>2, OverlayForm
  <2>2. QED
    BY <1>2, <2>1 DEF Overlays
<1>4. Len(d) = Len(c)
  BY Zenon, <1>3 DEF Larger
<1>5. \A k \in 1 .. Len(c) : d[k] = c[k]
  BY <1>3, <1>4
<1>6. d = c
  BY <1>3, <1>4, <1>5
<1>7. QED
  BY Zenon, <1>1, <1>6

\* spill_write stores exactly what the request means, gap and all, whatever of
\* the dataset could be read back at that point.
LEMMA WriteExact ==
  ASSUME NEW s, NEW c, Exact(s, c), NEW off \in Nat, NEW dat \in Seq(Stuff),
         off + Len(dat) <= MaxLen
  PROVE  Exact(SpillWrite(s, off, dat), Overlay(c, off, dat))
<1>1. /\ Sound(s) /\ s.fp /\ c \in Seq(Stuff) /\ s.size = Len(c) /\ s.size \in Nat
      /\ Len(s.file) = Blocks(s.size) * Block
      /\ s.size > 0 => Readable(s, Blocks(s.size) - 1)
      /\ ~s.dirty => s.committed = Blocks(s.size)
  BY DEF Exact
<1>2. CASE Nothing(s, off, dat)
  <2>1. SpillWrite(s, off, dat) = s /\ dat = <<>> /\ off <= Len(c)
    BY Zenon, <1>1, <1>2 DEF SpillWrite, Nothing
  <2>2. QED
    BY Zenon, <1>1, <2>1, OverlayNothing
<1>3. CASE ~Nothing(s, off, dat)
  <2>1. PICK first, last, n : /\ first = FirstBlock(s, off, dat) /\ last = LastBlock(s, off, dat)
                              /\ n = NewSize(s, off, dat)
    BY Zenon
  <2>2. PICK w, t : /\ w = Written(s, off, dat, last)
                    /\ t = IF NeedsSync(s, off, dat) THEN Synced(s) ELSE s
    BY Zenon
  <2>3. PICK u, d : u = SpillWrite(s, off, dat) /\ d = Overlay(c, off, dat)
    BY Zenon
  <2>4. u = [w EXCEPT !.size = n]
    BY Zenon, <1>3, <2>1, <2>2, <2>3 DEF SpillWrite
  <2>5. /\ first \in Nat /\ last \in Int /\ first <= last + 1
        /\ first <= Blocks(s.size) /\ last < Blocks(MaxLen)
        /\ n \in 0 .. MaxLen /\ s.size <= n /\ off + Len(dat) <= n
        /\ Len(dat) > 0 => first * Block <= off
        /\ off + Len(dat) <= (last + 1) * Block
        /\ n > s.size => last + 1 = Blocks(n)
        /\ n <= s.size => n = s.size /\ first <= last /\ last < Blocks(s.size)
    BY <1>1, <1>3, <2>1, WriteRange
  <2>6. last <= LastBlock(s, off, dat)
    BY <2>1, <2>5
  <2>7. /\ Sound(w) /\ w.fp /\ w.size = s.size /\ w.committed = t.committed
        /\ Len(w.file) = Larger(Len(s.file), (last + 1) * Block)
        /\ Stores(w, t, first, last, off, dat)
        /\ (last < first => w = t) /\ (first <= last => w.dirty /\ w.resident = last)
        /\ Sound(t) /\ t.file = s.file /\ t.resident = s.resident
    <3>1. WrittenTo(w, s, t, first, last, off, dat)
      BY Zenon, <1>1, <1>3, <2>1, <2>2, <2>5, <2>6, WrittenForm
    <3>2. QED
      BY Zenon, <3>1 DEF WrittenTo
  <2>8. /\ d \in Seq(Stuff) /\ Len(d) = Larger(Len(c), off + Len(dat))
        /\ \A k \in 1 .. Len(d) :
              d[k] = IF k > off /\ k <= off + Len(dat) THEN dat[k - off]
                     ELSE IF k <= Len(c) THEN c[k] ELSE Zero
    <3>1. Overlays(d, c, off, dat)
      BY Zenon, <1>1, <2>3, OverlayForm
    <3>2. QED
      BY Zenon, <3>1 DEF Overlays
  <2>9. Len(d) = n /\ n \in Nat
    BY <1>1, <2>1, <2>5, <2>8, MemberBytesAssumption DEF NewSize
  <2>10. /\ u.file = w.file /\ u.size = n /\ u.dirty = w.dirty
         /\ u.committed = w.committed /\ u.resident = w.resident
    BY Zenon, <2>4, <2>7 DEF Sound, ScratchType
  <2>11. Sound(u) /\ u.fp
    BY Zenon, <1>1, <2>3, SpillWriteSound
  <2>12. PICK p \in Nat : p = Blocks(s.size) /\ s.size <= p * Block
    BY Zenon, <1>1, BlocksBound
  <2>13. PICK r \in Nat : r = Blocks(n) /\ n <= r * Block
    BY Zenon, <2>9, BlocksBound
  <2>14. /\ p <= r
         /\ p * Block \in Nat /\ r * Block \in Nat /\ first * Block \in Nat
         /\ (last + 1) * Block \in Int /\ Len(dat) \in Nat /\ Len(c) \in Nat
    <3>1. p <= r
      BY Zenon, <1>1, <2>5, <2>9, <2>12, <2>13, BlocksMonotone
    <3>2. p * Block \in Nat /\ r * Block \in Nat /\ first * Block \in Nat
      BY <2>5, SpillBufferAssumption
    <3>3. (last + 1) * Block \in Int
      BY <2>5, SpillBufferAssumption
    <3>4. QED
      BY <1>1, <3>1, <3>2, <3>3
  <2>21. /\ first \in Nat /\ last \in Int /\ first <= last + 1 /\ first <= p
         /\ n \in Nat /\ s.size <= n /\ off + Len(dat) <= n /\ p <= r
         /\ s.size \in Nat /\ s.size = Len(c) /\ Len(dat) \in Nat
         /\ n > s.size => last + 1 = r
         /\ n <= s.size => r = p /\ first <= last /\ last < p
    BY Zenon, <1>1, <2>5, <2>9, <2>12, <2>13, <2>14
  <2>15. Len(u.file) = r * Block
    <3>1. CASE n > s.size
      <4>1. p * Block <= r * Block
        BY <2>14, Multiples
      <4>2. Len(w.file) = Larger(p * Block, r * Block)
        BY Zenon, <1>1, <2>5, <2>7, <2>12, <2>13, <3>1
      <4>3. QED
        BY <2>10, <2>14, <4>1, <4>2 DEF Larger
    <3>2. CASE n <= s.size
      <4>1. p = r /\ last + 1 <= p
        BY <2>5, <2>12, <2>13, <3>2
      <4>2. (last + 1) * Block <= p * Block
        BY <2>5, <4>1, Multiples
      <4>3. Len(w.file) = Larger(p * Block, (last + 1) * Block)
        BY Zenon, <1>1, <2>7, <2>12
      <4>4. QED
        BY Zenon, <2>10, <2>14, <4>1, <4>2, <4>3 DEF Larger
    <3>3. QED
      BY <1>1, <2>9, <3>1, <3>2
  <2>16. ASSUME NEW k \in 1 .. Len(u.file)
         PROVE  u.file[k] = IF k <= Len(d) THEN d[k] ELSE Zero
    <3>1. k \in Nat \ {0} /\ k <= r * Block /\ k \in 1 .. Len(w.file)
      BY <2>10, <2>14, <2>15
    <3>2. PICK x \in Nat, y \in Int : x = first * Block /\ y = (last + 1) * Block
      BY Zenon, <2>14
    <3>3. w.file[k] = IF k <= x \/ y < k THEN s.file[k]
                      ELSE IF k > off /\ k <= off + Len(dat) THEN dat[k - off]
                      ELSE Loaded(t, k)
      BY Zenon, <2>7, <3>1, <3>2 DEF Stores
    <3>4. w.file[k] = IF k > off /\ k <= off + Len(dat) THEN dat[k - off]
                      ELSE IF k <= Len(c) THEN c[k] ELSE Zero
      <4>1. CASE k <= x \/ y < k
        <5>1. ~(k > off /\ k <= off + Len(dat))
          <6>1. (Len(dat) > 0 => x <= off) /\ off + Len(dat) <= y
            BY Zenon, <2>5, <3>2
          <6>2. QED
            BY <2>14, <3>1, <4>1, <6>1
        <5>2. x <= p * Block
          BY <2>5, <2>12, <3>2, Multiples
        <5>3. k <= Len(s.file)
          <6>1. Len(s.file) = p * Block
            BY Zenon, <1>1, <2>12
          <6>2. k <= Larger(p * Block, y)
            BY <2>7, <3>1, <3>2, <6>1
          <6>3. QED
            BY <2>14, <3>1, <4>1, <5>2, <6>1, <6>2 DEF Larger
        <5>4. s.file[k] = IF k <= Len(c) THEN c[k] ELSE Zero
          <6>1. k \in 1 .. Len(s.file)
            BY <1>1, <2>12, <2>14, <3>1, <5>3
          <6>2. QED
            BY Zenon, <6>1 DEF Exact
        <5>5. QED
          BY Zenon, <3>3, <4>1, <5>1, <5>4
      <4>2. CASE ~(k <= x \/ y < k)
        <5>1. first * Block < k
          BY <3>1, <3>2, <4>2
        <5>2. Loaded(t, k) = IF k <= Len(c) THEN c[k] ELSE Zero
          BY <1>3, <2>1, <2>2, <3>1, <5>1, LoadsExact
        <5>3. QED
          BY Zenon, <3>3, <4>2, <5>2
      <4>3. QED
        BY Zenon, <4>1, <4>2
    <3>5. CASE k <= n
      <4>1. k \in 1 .. Len(d)
        BY <2>9, <3>1, <3>5
      <4>2. QED
        BY Zenon, <2>8, <2>9, <2>10, <3>4, <3>5, <4>1
    <3>6. CASE ~(k <= n)
      <4>1. ~(k <= Len(c)) /\ ~(k <= off + Len(dat))
        <5>1. PICK a \in Nat, b \in Nat : /\ a = Len(c) /\ b = off + Len(dat)
                                         /\ a <= n /\ b <= n
          BY <2>21
        <5>2. k \in Nat /\ n \in Nat
          BY Zenon, <2>21, <3>1
        <5>3. ~(k <= a) /\ ~(k <= b)
          BY <3>6, <5>1, <5>2
        <5>4. QED
          BY Zenon, <5>1, <5>3
      <4>2. QED
        BY Zenon, <2>9, <2>10, <3>4, <3>6, <4>1
    <3>7. QED
      BY Zenon, <3>5, <3>6
  <2>17. NeedsSync(s, off, dat) => t.committed = p
    <3>1. Blocks(Len(s.file)) = p
      BY <1>1, <2>12, BlocksOfWhole
    <3>2. QED
      BY <1>1, <2>2, <2>12, <3>1, SyncedForm
  <2>18. CASE last < first
    <3>1. w = t /\ r = p /\ first = p /\ ~NeedsSync(s, off, dat) /\ t = s
      <4>1. r = p /\ first = p
        <5>1. PICK a \in Nat, l \in Int : a = s.size /\ l = last
          BY Zenon, <2>21
        <5>2. /\ first \in Nat /\ first <= l + 1 /\ first <= p /\ n \in Nat
              /\ n > a => l + 1 = r
              /\ n <= a => first <= l
              /\ p <= r /\ l < first
          BY Zenon, <2>21, <2>18, <5>1
        <5>3. QED
          BY <5>2
      <4>2. ~NeedsSync(s, off, dat)
        BY <2>1, <2>12, <4>1 DEF NeedsSync
      <4>3. QED
        BY Zenon, <2>2, <2>7, <2>18, <4>1, <4>2
    <3>2. n > 0 => s.size > 0
      <4>1. CASE s.size = 0
        <5>1. p = 0
          BY <2>12, <4>1, BlocksOfWhole, SpillBufferAssumption
        <5>2. QED
          BY <2>9, <2>13, <3>1, <5>1, SpillBufferAssumption
      <4>2. QED
        BY <1>1, <4>1
    <3>3. n > 0 => Readable(u, Blocks(n) - 1)
      BY Zenon, <1>1, <2>10, <2>12, <2>13, <3>1, <3>2 DEF Readable
    <3>4. ~u.dirty => u.committed = Blocks(n)
      BY Zenon, <1>1, <2>10, <2>12, <2>13, <3>1
    <3>5. QED
      BY Zenon, <2>3, <2>8, <2>9, <2>10, <2>11, <2>13, <2>15, <2>16, <3>3, <3>4 DEF Exact
  <2>19. CASE first <= last
    <3>1. u.dirty /\ u.resident = last
      BY Zenon, <2>7, <2>10, <2>19
    <3>2. Readable(u, r - 1)
      <4>1. CASE n > s.size
        BY <2>5, <2>13, <3>1, <4>1 DEF Readable
      <4>2. CASE n <= s.size /\ NeedsSync(s, off, dat)
        BY <2>5, <2>7, <2>10, <2>12, <2>13, <2>17, <4>2 DEF Readable
      <4>3. CASE n <= s.size /\ ~NeedsSync(s, off, dat)
        <5>1. last = p - 1 /\ r = p
          <6>1. ~(first + 1 < p)
            BY Zenon, <2>1, <2>12, <4>3 DEF NeedsSync
          <6>2. r = p /\ first <= last /\ last < p /\ first \in Nat /\ last \in Int
            BY Zenon, <2>21, <4>3
          <6>3. QED
            BY <6>1, <6>2
        <5>2. QED
          BY Zenon, <3>1, <5>1 DEF Readable
      <4>4. QED
        BY <1>1, <2>9, <4>1, <4>2, <4>3
    <3>3. QED
      BY Zenon, <2>3, <2>8, <2>9, <2>10, <2>11, <2>13, <2>15, <2>16, <3>1, <3>2 DEF Exact
  <2>20. QED
    BY <2>5, <2>18, <2>19
<1>4. QED
  BY Zenon, <1>2, <1>3

-----------------------------------------------------------------------------
(* The inductive invariant *)

\* The memory buffer b holds the first h units of content c.
InBuffer(b, h, c) ==
  /\ h <= Threshold
  /\ h > 0 => b # NoBuf
  /\ \A k \in 1 .. h : b[k] = c[k]

\* Content c is kept in the buffer b or in the scratch dataset s.
Kept(b, s, h, c) == IF s.fp THEN Exact(s, c) ELSE InBuffer(b, h, c)

Inv ==
  /\ buf \in [1 .. Threshold -> Stuff] \cup {NoBuf}
  /\ Sound(spill)
  /\ high_water \in 0 .. MaxLen
  /\ ref \in Contents /\ Len(ref) = high_water
  /\ past \subseteq {"shrunk", "recreated", "failed"}
  /\ past = {} => Kept(buf, spill, high_water, ref)

\* The contents are the sequences of units no longer than MaxLen.
LEMMA ContentForm ==
  ASSUME NEW c
  PROVE  /\ c \in Contents => c \in Seq(Stuff) /\ Len(c) \in 0 .. MaxLen
                              /\ \A k \in 1 .. Len(c) : c[k] \in Units
         /\ \A n \in 0 .. MaxLen : c \in [1 .. n -> Units] => c \in Contents /\ Len(c) = n
<1>1. ASSUME NEW n \in 0 .. MaxLen, c \in [1 .. n -> Units]
      PROVE  /\ c \in Contents /\ Len(c) = n /\ c \in Seq(Stuff)
             /\ \A k \in 1 .. n : c[k] \in Units
  <2>1. n \in Nat
    BY MemberBytesAssumption
  <2>2. c \in [1 .. n -> Stuff]
    BY Zenon, <1>1 DEF Stuff
  <2>3. c \in Seq(Stuff) /\ Len(c) = n
    BY Zenon, <2>1, <2>2, SequenceOf
  <2>4. QED
    BY Zenon, <1>1, <2>3 DEF Contents
<1>2. c \in Contents => \E n \in 0 .. MaxLen : c \in [1 .. n -> Units]
  BY Zenon DEF Contents
<1>3. QED
  BY Zenon, <1>1, <1>2

\* A payload is a sequence of data.
LEMMA PayloadForm ==
  ASSUME NEW dat \in Payloads
  PROVE  /\ dat \in Seq(Stuff) /\ Len(dat) \in Nat
         /\ \A k \in 1 .. Len(dat) : dat[k] \in Units
<1>1. PICK n \in 0 .. MaxPayload : dat \in [1 .. n -> Data]
  BY Zenon DEF Payloads
<1>2. n \in Nat /\ dat \in [1 .. n -> Stuff]
  BY <1>1, SpillBufferAssumption DEF Stuff, Units
<1>3. dat \in Seq(Stuff) /\ Len(dat) = n
  BY Zenon, <1>2, SequenceOf
<1>4. QED
  BY Zenon, <1>1, <1>2, <1>3 DEF Units

\* A write within the limit leaves a content of the length it reaches.
LEMMA OverlayContent ==
  ASSUME NEW c \in Contents, NEW off \in Nat, NEW dat \in Seq(Stuff),
         \A k \in 1 .. Len(dat) : dat[k] \in Units, off + Len(dat) <= MaxLen
  PROVE  /\ Overlay(c, off, dat) \in Contents
         /\ Len(Overlay(c, off, dat)) = Larger(Len(c), off + Len(dat))
         /\ Larger(Len(c), off + Len(dat)) \in 0 .. MaxLen
<1>1. PICK d : d = Overlay(c, off, dat)
  BY Zenon
<1>2. /\ c \in Seq(Stuff) /\ Len(c) \in 0 .. MaxLen /\ Len(c) \in Nat /\ Len(dat) \in Nat
      /\ \A k \in 1 .. Len(c) : c[k] \in Units
  BY ContentForm, MemberBytesAssumption
<1>3. PICK n \in Nat : n = Larger(Len(c), off + Len(dat)) /\ n \in 0 .. MaxLen
  BY <1>2, MemberBytesAssumption DEF Larger
<1>4. d = [k \in 1 .. n |-> IF k > off /\ k <= off + Len(dat) THEN dat[k - off]
                            ELSE IF k <= Len(c) THEN c[k] ELSE Zero]
  BY Zenon, <1>1, <1>3 DEF Overlay
<1>5. \A k \in 1 .. n : d[k] \in Units
  BY <1>2, <1>4 DEF Units
<1>6. d \in [1 .. n -> Units]
  BY Zenon, <1>4, <1>5
<1>7. d \in Contents /\ Len(d) = n
  BY Zenon, <1>3, <1>6, ContentForm
<1>8. QED
  BY Zenon, <1>1, <1>3, <1>7

\* A truncation leaves a content of the length asked for, and one that grows
\* it is a write of nothing at the new end.
LEMMA ResizeContent ==
  ASSUME NEW c \in Contents, NEW n \in 0 .. MaxLen
  PROVE  /\ Resize(c, n) \in Contents /\ Len(Resize(c, n)) = n
         /\ Len(c) <= n => Resize(c, n) = Overlay(c, n, <<>>)
<1>1. PICK d : d = Resize(c, n)
  BY Zenon
<1>2. /\ Len(c) \in Nat /\ n \in Nat
      /\ \A k \in 1 .. Len(c) : c[k] \in Units
  BY ContentForm, MemberBytesAssumption
<1>3. d = [k \in 1 .. n |-> IF k <= Len(c) THEN c[k] ELSE Zero]
  BY Zenon, <1>1 DEF Resize
<1>4. d \in [1 .. n -> Units]
  BY <1>2, <1>3 DEF Units
<1>5. d \in Contents /\ Len(d) = n
  BY Zenon, <1>4, ContentForm
<1>6. ASSUME Len(c) <= n
      PROVE  d = Overlay(c, n, <<>>)
  <2>1. Len(<<>>) = 0 /\ Larger(Len(c), n + 0) = n
    BY <1>2, <1>6 DEF Larger
  <2>2. Overlay(c, n, <<>>) = [k \in 1 .. n |-> IF k > n /\ k <= n + 0 THEN <<>>[k - n]
                                                ELSE IF k <= Len(c) THEN c[k] ELSE Zero]
    BY Zenon, <2>1 DEF Overlay
  <2>3. \A k \in 1 .. n : ~(k > n)
    BY <1>2
  <2>4. QED
    BY Zenon, <1>3, <2>2, <2>3
<1>7. QED
  BY Zenon, <1>1, <1>5, <1>6

-----------------------------------------------------------------------------
(* The two places of the content *)

\* A store in memory leaves a buffer of the right type.
LEMMA BufferTyped ==
  ASSUME Inv, NEW off \in Nat, NEW dat \in Seq(Stuff), NEW b, b = BufStore(off, dat)
  PROVE  /\ b \in [1 .. Threshold -> Stuff] \cup {NoBuf}
         /\ off + Len(dat) > 0 => b # NoBuf
<1>1. Len(dat) \in Nat
  OBVIOUS
<1>2. CASE off + Len(dat) = 0
  <2>1. b = buf
    BY Zenon, <1>2 DEF BufStore
  <2>2. QED
    BY <1>1, <1>2, <2>1 DEF Inv
<1>3. CASE off + Len(dat) # 0
  <2>1. Grown \in [1 .. Threshold -> Stuff]
    BY Zenon DEF Inv, Grown, Stuff
  <2>2. b = [k \in 1 .. Threshold |->
               IF k > off /\ k <= off + Len(dat) THEN dat[k - off]
               ELSE IF k > high_water /\ k <= off THEN Zero
               ELSE Grown[k]]
    BY Zenon, <1>3 DEF BufStore
  <2>3. Threshold \in Nat /\ Zero \in Stuff
    BY Zenon, SpillBufferAssumption DEF Stuff, Units
  <2>4. \A k \in 1 .. Threshold : b[k] \in Stuff
    BY <1>1, <2>1, <2>2, <2>3
  <2>5. b \in [1 .. Threshold -> Stuff]
    BY Zenon, <2>2, <2>4
  <2>6. b # NoBuf
    BY Zenon, <2>5, SpillBufferAssumption DEF Stuff
  <2>7. QED
    BY Zenon, <2>5, <2>6
<1>4. QED
  BY Zenon, <1>2, <1>3

\* A unit of the buffer after a store in memory that reaches past it.
LEMMA BufferedUnit ==
  ASSUME Inv, InBuffer(buf, high_water, ref), NEW off \in Nat, NEW dat \in Seq(Stuff),
         off + Len(dat) <= Threshold, off + Len(dat) # 0,
         NEW k \in Nat \ {0}, k <= high_water \/ k <= off + Len(dat)
  PROVE  BufStore(off, dat)[k] = IF k > off /\ k <= off + Len(dat) THEN dat[k - off]
                                 ELSE IF k <= Len(ref) THEN ref[k] ELSE Zero
<1>1. /\ Len(dat) \in Nat /\ high_water \in Nat /\ Len(ref) = high_water
      /\ high_water <= Threshold /\ Threshold \in Nat
  BY MemberBytesAssumption, SpillBufferAssumption DEF Inv, InBuffer
<1>2. k \in 1 .. Threshold
  BY <1>1
<1>3. BufStore(off, dat)[k] = IF k > off /\ k <= off + Len(dat) THEN dat[k - off]
                              ELSE IF k > high_water /\ k <= off THEN Zero
                              ELSE Grown[k]
  BY Zenon, <1>2 DEF BufStore
<1>4. k <= high_water => Grown[k] = ref[k]
  BY <1>1 DEF Grown, InBuffer
<1>5. QED
  BY <1>1, <1>3, <1>4

\* pww_store_range in memory, gap and all.
LEMMA BufferStores ==
  ASSUME Inv, InBuffer(buf, high_water, ref), NEW off \in Nat, NEW dat \in Seq(Stuff),
         off + Len(dat) <= Threshold
  PROVE  InBuffer(BufStore(off, dat), Larger(high_water, off + Len(dat)),
                  Overlay(ref, off, dat))
<1>1. PICK b, d, h : /\ b = BufStore(off, dat) /\ d = Overlay(ref, off, dat)
                     /\ h = Larger(high_water, off + Len(dat))
  BY Zenon
<1>2. /\ Len(dat) \in Nat /\ high_water \in Nat /\ Len(ref) = high_water
      /\ high_water <= Threshold /\ Threshold \in Nat /\ ref \in Seq(Stuff)
      /\ h \in Nat /\ h <= Threshold
  BY <1>1, MemberBytesAssumption, SpillBufferAssumption, ContentForm DEF Inv, InBuffer,
     Larger
<1>3. CASE off + Len(dat) = 0
  <2>1. dat = <<>> /\ off = 0
    BY <1>2, <1>3
  <2>2. b = buf /\ h = high_water
    BY <1>1, <1>2, <1>3 DEF BufStore, Larger
  <2>3. d = ref
    BY <1>1, <1>2, <2>1, OverlayNothing
  <2>4. QED
    BY Zenon, <1>1, <2>2, <2>3
<1>4. CASE off + Len(dat) # 0
  <2>1. b # NoBuf
    <3>1. off + Len(dat) > 0
      BY <1>2, <1>4
    <3>2. QED
      BY Zenon, <1>1, <3>1, BufferTyped
  <2>2. Overlays(d, ref, off, dat)
    BY Zenon, <1>1, <1>2, OverlayForm
  <2>3. ASSUME NEW k \in 1 .. h
        PROVE  b[k] = d[k]
    <3>1. k \in 1 .. Len(d)
      BY Zenon, <1>1, <1>2, <2>2 DEF Overlays
    <3>2. k \in Nat \ {0} /\ (k <= high_water \/ k <= off + Len(dat))
      BY <1>1, <1>2 DEF Larger
    <3>3. b[k] = IF k > off /\ k <= off + Len(dat) THEN dat[k - off]
                 ELSE IF k <= Len(ref) THEN ref[k] ELSE Zero
      BY Zenon, <1>1, <1>4, <3>2, BufferedUnit
    <3>4. QED
      BY Zenon, <2>2, <3>1, <3>3 DEF Overlays
  <2>4. QED
    BY Zenon, <1>1, <1>2, <2>1, <2>3 DEF InBuffer
<1>5. QED
  BY Zenon, <1>3, <1>4

\* pww_truncate in memory: what is cut off is cleared when the member grows
\* over it again.
LEMMA BufferResizes ==
  ASSUME Inv, InBuffer(buf, high_water, ref), NEW n \in 0 .. MaxLen, n <= Threshold
  PROVE  InBuffer(BufStore(n, <<>>), n, Resize(ref, n))
<1>1. PICK b, d : b = BufStore(n, <<>>) /\ d = Resize(ref, n)
  BY Zenon
<1>2. /\ n \in Nat /\ high_water \in Nat /\ Len(ref) = high_water
      /\ <<>> \in Seq(Stuff) /\ Len(<<>>) = 0 /\ n + Len(<<>>) = n
  BY MemberBytesAssumption DEF Inv
<1>3. ASSUME NEW k \in 1 .. n
      PROVE  b[k] = d[k]
  <2>1. d[k] = IF k <= Len(ref) THEN ref[k] ELSE Zero
    BY Zenon, <1>1 DEF Resize
  <2>2. k \in Nat \ {0} /\ k <= n + Len(<<>>) /\ ~(k > n) /\ n + Len(<<>>) # 0
        /\ n + Len(<<>>) <= Threshold
    BY <1>2
  <2>3. b[k] = IF k > n /\ k <= n + Len(<<>>) THEN <<>>[k - n]
               ELSE IF k <= Len(ref) THEN ref[k] ELSE Zero
    BY Zenon, <1>1, <1>2, <2>2, BufferedUnit
  <2>4. QED
    BY <2>1, <2>2, <2>3
<1>4. n > 0 => b # NoBuf
  BY Zenon, <1>1, <1>2, BufferTyped
<1>5. QED
  BY Zenon, <1>1, <1>3, <1>4 DEF InBuffer

\* The scratch dataset as pww_spill_transition opens it is empty.
LEMMA FreshExact ==
  ASSUME NEW s, s = [NoSpill EXCEPT !.fp = TRUE]
  PROVE  Exact(s, <<>>) /\ Sound(NoSpill)
<1>1. MaxLen \in Nat /\ Blocks(MaxLen) \in Nat
  BY Zenon, BlocksBound, MemberBytesAssumption
<1>2. NoSpill \in ScratchType /\ Len(NoSpill.file) = 0 /\ NoSpill.fp = FALSE
  BY <1>1 DEF NoSpill, ScratchType
<1>3. /\ s \in ScratchType /\ s.fp /\ s.size = 0 /\ s.file = <<>> /\ s.committed = 0
      /\ Len(s.file) = 0
  <2>1. s = [fp |-> TRUE, size |-> 0, dirty |-> FALSE,
             file |-> <<>>, committed |-> 0, resident |-> 0]
    BY Zenon DEF NoSpill
  <2>2. s.fp = TRUE /\ s.size = 0 /\ s.file = <<>> /\ s.committed = 0
    BY <2>1
  <2>3. s \in ScratchType
    <3>1. <<>> \in Seq(Stuff) /\ 0 \in 0 .. MaxLen /\ 0 \in 0 .. Blocks(MaxLen)
      BY <1>1
    <3>2. [fp |-> TRUE, size |-> 0, dirty |-> FALSE,
           file |-> <<>>, committed |-> 0, resident |-> 0] \in ScratchType
      BY Zenon, <3>1 DEF ScratchType
    <3>3. QED
      BY Zenon, <2>1, <3>2
  <2>4. QED
    BY Zenon, <2>2, <2>3
<1>4. 0 * Block = 0 /\ Blocks(0) = 0
  <2>1. 0 * Block = 0
    BY SpillBufferAssumption
  <2>2. Blocks(0 * Block) = 0
    BY Zenon, BlocksOfWhole
  <2>3. QED
    BY Zenon, <2>1, <2>2
<1>5. \E n \in 0 .. Blocks(MaxLen) : 0 = n * Block
  BY <1>1, <1>4
<1>6. Sound(NoSpill) /\ Sound(s)
  BY <1>2, <1>3, <1>4, <1>5 DEF Sound
<1>7. QED
  BY <1>3, <1>4, <1>6 DEF Exact

\* What pww_spill_transition hands over.
LEMMA BufferedForm ==
  ASSUME Inv
  PROVE  /\ Buffered \in Seq(Stuff) /\ 0 + Len(Buffered) <= MaxLen
         /\ InBuffer(buf, high_water, ref) => Buffered = ref
<1>1. high_water \in Nat /\ high_water <= MaxLen /\ MaxLen \in Nat /\ Threshold \in Nat
      /\ ref \in Seq(Stuff) /\ Len(ref) = high_water
  BY MemberBytesAssumption, SpillBufferAssumption, ContentForm DEF Inv
<1>2. CASE buf = NoBuf
  <2>1. Buffered = <<>> /\ <<>> \in Seq(Stuff) /\ Len(<<>>) = 0
    BY <1>2 DEF Buffered
  <2>2. ASSUME InBuffer(buf, high_water, ref)
        PROVE  ref = <<>>
    <3>1. Len(ref) = 0
      BY <1>1, <1>2, <2>2 DEF InBuffer
    <3>2. QED
      BY <1>1, <3>1
  <2>3. QED
    BY <1>1, <2>1, <2>2
<1>3. CASE buf # NoBuf
  <2>1. PICK d : d = [k \in 1 .. high_water |-> IF k <= Threshold THEN buf[k] ELSE Junk]
    BY Zenon
  <2>2. d \in [1 .. high_water -> Stuff]
    BY <1>1, <1>3, <2>1 DEF Inv, Stuff
  <2>3. d \in Seq(Stuff) /\ Len(d) = high_water
    BY Zenon, <1>1, <2>2, SequenceOf
  <2>4. Buffered = d
    BY Zenon, <1>3, <2>1 DEF Buffered
  <2>5. ASSUME InBuffer(buf, high_water, ref)
        PROVE  d = ref
    <3>1. \A k \in 1 .. high_water : d[k] = ref[k]
      BY <1>1, <2>1, <2>5 DEF InBuffer
    <3>2. QED
      BY <1>1, <2>3, <3>1
  <2>6. QED
    BY <1>1, <2>3, <2>4, <2>5
<1>4. QED
  BY Zenon, <1>2, <1>3

\* The scratch dataset a request works on holds the content, after a
\* transition if the member was in memory.
LEMMA ScratchForm ==
  ASSUME Inv, NEW s, s = Scratch
  PROVE  Sound(s) /\ s.fp /\ (past = {} => Exact(s, ref))
<1>1. CASE spill.fp
  BY Zenon, <1>1 DEF Inv, Kept, Scratch
<1>2. CASE ~spill.fp
  <2>1. PICK e, c : e = [NoSpill EXCEPT !.fp = TRUE] /\ c = Buffered
    BY Zenon
  <2>2. s = SpillWrite(e, 0, c)
    BY Zenon, <1>2, <2>1 DEF Scratch, SpillTransition
  <2>3. c \in Seq(Stuff) /\ 0 + Len(c) <= MaxLen
    BY Zenon, <2>1, BufferedForm
  <2>4. Exact(e, <<>>)
    BY Zenon, <2>1, FreshExact
  <2>5. Exact(s, Overlay(<<>>, 0, c))
    BY Zenon, <2>2, <2>3, <2>4, WriteExact
  <2>6. Overlay(<<>>, 0, c) = c
    <3>1. PICK d : d = Overlay(<<>>, 0, c)
      BY Zenon
    <3>2. Overlays(d, <<>>, 0, c)
      <4>1. <<>> \in Seq(Stuff) /\ 0 \in Nat
        OBVIOUS
      <4>2. QED
        BY Zenon, <2>3, <3>1, <4>1, OverlayForm
    <3>3. d \in Seq(Stuff) /\ Len(d) = Len(c) /\ \A k \in 1 .. Len(c) : d[k] = c[k]
      BY <2>3, <3>2 DEF Overlays, Larger
    <3>4. d = c
      BY <2>3, <3>3
    <3>5. QED
      BY Zenon, <3>1, <3>4
  <2>7. past = {} => c = ref
    BY Zenon, <1>2, <2>1, BufferedForm DEF Inv, Kept
  <2>8. QED
    BY Zenon, <2>5, <2>6, <2>7 DEF Exact
<1>3. QED
  BY Zenon, <1>1, <1>2

\* spill_truncate leaves a sound scratch dataset.
LEMMA TruncateSound ==
  ASSUME NEW s, Sound(s), s.fp, NEW n \in 0 .. MaxLen, NEW u, u = SpillTruncate(s, n)
  PROVE  Sound(u) /\ u.fp
<1>1. n \in Nat /\ s.size \in Nat /\ Len(s.file) \in Nat
  BY MemberBytesAssumption DEF Sound, ScratchType
<1>2. CASE n > s.size
  <2>1. <<>> \in Seq(Stuff) /\ n + Len(<<>>) <= MaxLen
    BY <1>1
  <2>2. u = SpillWrite(s, n, <<>>)
    BY Zenon, <1>2 DEF SpillTruncate
  <2>3. QED
    BY Zenon, <1>1, <2>1, <2>2, SpillWriteSound
<1>3. CASE ~(n > s.size)
  <2>1. u = [s EXCEPT !.size = n]
    BY Zenon, <1>3 DEF SpillTruncate
  <2>2. u \in ScratchType /\ u.file = s.file /\ u.fp = s.fp /\ u.size = n
    BY Zenon, <2>1 DEF Sound, ScratchType
  <2>3. PICK p \in Nat, r \in Nat : p = Blocks(s.size) /\ r = Blocks(n) /\ r <= p
    <3>1. n <= s.size
      BY <1>1, <1>3
    <3>2. Blocks(s.size) \in Nat /\ Blocks(n) \in Nat
      BY Zenon, <1>1, BlocksBound
    <3>3. Blocks(n) <= Blocks(s.size)
      BY Zenon, <1>1, <3>1, BlocksMonotone
    <3>4. QED
      BY Zenon, <3>2, <3>3
  <2>4. r * Block <= p * Block /\ r * Block \in Int /\ p * Block \in Int
    BY <2>3, Multiples
  <2>5. p * Block <= Len(s.file)
    BY Zenon, <2>3 DEF Sound
  <2>6. r * Block <= Len(s.file)
    BY <1>1, <2>4, <2>5
  <2>7. QED
    BY Zenon, <2>2, <2>3, <2>6 DEF Sound
<1>4. QED
  BY Zenon, <1>2, <1>3

\* spill_sync loses nothing.
LEMMA SyncExact ==
  ASSUME NEW s, NEW c, Exact(s, c)
  PROVE  Exact(Synced(s), c)
<1>1. PICK u : u = Synced(s)
  BY Zenon
<1>2. CASE s.dirty
  <2>1. s.size \in Nat /\ Sound(s)
    BY MemberBytesAssumption DEF Exact, Sound, ScratchType
  <2>2. PICK p \in Nat : p = Blocks(s.size)
    BY Zenon, <2>1, BlocksBound
  <2>3. Blocks(Len(s.file)) = p
    BY <2>2, BlocksOfWhole DEF Exact
  <2>4. /\ Sound(u) /\ u.fp = s.fp /\ u.size = s.size /\ u.file = s.file
        /\ u.committed = p
    BY Zenon, <1>1, <1>2, <2>1, <2>3, SyncedForm
  <2>5. Readable(u, p - 1)
    BY <2>2, <2>4 DEF Readable
  <2>6. QED
    BY Zenon, <1>1, <2>2, <2>4, <2>5 DEF Exact
<1>3. CASE ~s.dirty
  BY Zenon, <1>3 DEF Synced
<1>4. QED
  BY Zenon, <1>2, <1>3

-----------------------------------------------------------------------------
(* The steps *)

\* At start there is neither buffer nor scratch dataset.
LEMMA InitHolds == Init => Inv
<1> SUFFICES ASSUME Init PROVE Inv
  BY Zenon
<1>1. MaxLen \in Nat /\ Threshold \in Nat
  BY Zenon, MemberBytesAssumption, SpillBufferAssumption
<1>2. Sound(spill)
  BY Zenon, FreshExact DEF Init
<1>3. ref \in Contents /\ Len(ref) = high_water
  <2>1. ref \in [1 .. 0 -> Units] /\ 0 \in 0 .. MaxLen
    BY <1>1 DEF Init
  <2>2. QED
    BY Zenon, <2>1, ContentForm DEF Init
<1>4. Kept(buf, spill, high_water, ref)
  BY <1>1 DEF Init, Kept, InBuffer, NoSpill
<1>5. QED
  BY <1>1, <1>2, <1>3, <1>4 DEF Init, Inv

\* A WRITE (pww_store_range), in memory or on the scratch dataset.
LEMMA StoreStep ==
  ASSUME Inv, NEW off \in 0 .. MaxLen, NEW dat \in Payloads, off + Len(dat) <= MaxLen,
         Store(off, dat)
  PROVE  Inv'
<1>1. /\ off \in Nat /\ dat \in Seq(Stuff) /\ Len(dat) \in Nat /\ Threshold \in Nat
      /\ \A k \in 1 .. Len(dat) : dat[k] \in Units
  BY PayloadForm, MemberBytesAssumption, SpillBufferAssumption
<1>2. ref' \in Contents /\ Len(ref') = high_water' /\ high_water' \in 0 .. MaxLen
  BY Zenon, <1>1, OverlayContent DEF Store, Inv
<1>3. past' = past /\ past \subseteq {"shrunk", "recreated", "failed"}
  BY Zenon DEF Store, Inv
<1>4. CASE InMemory(off + Len(dat))
  <2>1. buf' = BufStore(off, dat) /\ spill' = spill /\ ~spill.fp /\ off + Len(dat) <= Threshold
    BY Zenon, <1>4 DEF Store, InMemory
  <2>2. buf' \in [1 .. Threshold -> Stuff] \cup {NoBuf}
    BY Zenon, <1>1, <2>1, BufferTyped
  <2>3. ASSUME past = {}
        PROVE  InBuffer(buf', high_water', ref')
    <3>1. InBuffer(buf, high_water, ref)
      BY Zenon, <2>1, <2>3 DEF Inv, Kept
    <3>2. QED
      BY Zenon, <1>1, <2>1, <3>1, BufferStores DEF Store
  <2>4. QED
    BY Zenon, <1>2, <1>3, <2>1, <2>2, <2>3 DEF Inv, Kept
<1>5. CASE ~InMemory(off + Len(dat))
  <2>1. PICK s : s = Scratch
    BY Zenon
  <2>2. buf' = NoBuf /\ spill' = SpillWrite(s, off, dat)
    BY Zenon, <1>5, <2>1 DEF Store
  <2>3. Sound(s) /\ s.fp /\ (past = {} => Exact(s, ref))
    BY Zenon, <2>1, ScratchForm
  <2>4. Sound(spill') /\ spill'.fp
    BY Zenon, <1>1, <2>2, <2>3, SpillWriteSound
  <2>5. past = {} => Exact(spill', ref')
    BY Zenon, <1>1, <2>2, <2>3, WriteExact DEF Store
  <2>6. QED
    BY Zenon, <1>2, <1>3, <2>2, <2>4, <2>5 DEF Inv, Kept
<1>6. QED
  BY Zenon, <1>4, <1>5

\* A SETATTR of the size (pww_truncate).
LEMMA TruncateStep ==
  ASSUME Inv, NEW n \in 0 .. MaxLen, Truncate(n)
  PROVE  Inv'
<1>1. /\ n \in Nat /\ high_water \in Nat /\ Threshold \in Nat /\ <<>> \in Seq(Stuff)
      /\ n + Len(<<>>) = n /\ n <= MaxLen /\ ref \in Contents /\ Len(ref) = high_water
  BY MemberBytesAssumption, SpillBufferAssumption DEF Inv
<1>2. ref' \in Contents /\ Len(ref') = high_water' /\ high_water' = n
  BY Zenon, <1>1, ResizeContent DEF Truncate
<1>3. /\ past' \subseteq {"shrunk", "recreated", "failed"}
      /\ past' = {} => past = {} /\ ~(spill.fp /\ n < high_water)
  BY Zenon DEF Truncate, Inv
<1>4. high_water <= n => ref' = Overlay(ref, n, <<>>)
  BY Zenon, <1>1, ResizeContent DEF Truncate
<1>5. CASE spill.fp
  <2>1. spill' = SpillTruncate(spill, n) /\ buf' = buf
    BY Zenon, <1>5 DEF Truncate, InMemory
  <2>2. Sound(spill') /\ spill'.fp
    BY Zenon, <1>5, <2>1, TruncateSound DEF Inv
  <2>3. ASSUME past' = {}
        PROVE  Exact(spill', ref')
    <3>1. Exact(spill, ref) /\ high_water < n
      <4>1. past = {} /\ ~(n < high_water)
        BY Zenon, <1>3, <1>5, <2>3
      <4>2. Exact(spill, ref)
        BY Zenon, <1>5, <4>1 DEF Inv, Kept
      <4>3. n # high_water
        BY Zenon DEF Truncate
      <4>4. QED
        BY <1>1, <4>1, <4>2, <4>3
    <3>2. spill' = SpillWrite(spill, n, <<>>)
      BY Zenon, <1>1, <2>1, <3>1 DEF SpillTruncate, Exact
    <3>3. Exact(spill', Overlay(ref, n, <<>>))
      BY Zenon, <1>1, <3>1, <3>2, WriteExact
    <3>4. QED
      BY <1>1, <1>4, <3>1, <3>3
  <2>4. QED
    BY Zenon, <1>2, <1>3, <2>1, <2>2, <2>3 DEF Inv, Kept
<1>6. CASE InMemory(n)
  <2>1. buf' = BufStore(n, <<>>) /\ spill' = spill /\ ~spill.fp /\ n <= Threshold
    BY Zenon, <1>6 DEF Truncate, InMemory
  <2>2. buf' \in [1 .. Threshold -> Stuff] \cup {NoBuf}
    BY Zenon, <1>1, <2>1, BufferTyped
  <2>3. ASSUME past' = {}
        PROVE  InBuffer(buf', high_water', ref')
    <3>1. InBuffer(buf, high_water, ref)
      BY Zenon, <1>3, <2>1, <2>3 DEF Inv, Kept
    <3>2. QED
      BY Zenon, <1>2, <2>1, <3>1, BufferResizes DEF Truncate
  <2>4. QED
    BY Zenon, <1>2, <1>3, <2>1, <2>2, <2>3 DEF Inv, Kept
<1>7. CASE ~spill.fp /\ ~InMemory(n)
  <2>1. PICK s : s = Scratch
    BY Zenon
  <2>2. buf' = NoBuf /\ spill' = SpillWrite(s, n, <<>>)
    BY Zenon, <1>7, <2>1 DEF Truncate, Scratch
  <2>3. Sound(s) /\ s.fp /\ (past = {} => Exact(s, ref))
    BY Zenon, <2>1, ScratchForm
  <2>4. Sound(spill') /\ spill'.fp
    BY Zenon, <1>1, <2>2, <2>3, SpillWriteSound
  <2>5. ASSUME past' = {}
        PROVE  Exact(spill', ref')
    <3>1. high_water <= n
      BY <1>1, <1>3, <1>7, <2>5 DEF Inv, Kept, InBuffer, InMemory
    <3>2. Exact(spill', Overlay(ref, n, <<>>))
      BY Zenon, <1>1, <1>3, <2>2, <2>3, <2>5, WriteExact
    <3>3. QED
      BY Zenon, <1>4, <3>1, <3>2
  <2>6. QED
    BY Zenon, <1>2, <1>3, <2>2, <2>4, <2>5 DEF Inv, Kept
<1>8. QED
  BY Zenon, <1>5, <1>6, <1>7

\* A store that fails after some of its blocks leaves whole blocks, and the
\* extent where it was.
LEMMA StoreFailsStep ==
  ASSUME Inv, NEW off \in 0 .. MaxLen, NEW dat \in Payloads, off + Len(dat) <= MaxLen,
         StoreFails(off, dat)
  PROVE  Inv'
<1>1. off \in Nat /\ dat \in Seq(Stuff)
  BY PayloadForm, MemberBytesAssumption
<1>2. PICK s, first : s = Scratch /\ first = FirstBlock(s, off, dat)
  BY Zenon
<1>3. PICK last \in first - 1 .. LastBlock(s, off, dat) - 1 : spill' = Written(s, off, dat, last)
  BY Zenon, <1>2 DEF StoreFails
<1>4. Sound(s) /\ s.fp /\ ~Nothing(s, off, dat)
  BY Zenon, <1>2, ScratchForm DEF StoreFails
<1>5. first \in Nat /\ LastBlock(s, off, dat) \in Int
  BY <1>1, <1>2, <1>4, WriteRange
<1>6. last \in Int /\ first <= last + 1 /\ last <= LastBlock(s, off, dat)
  BY <1>3, <1>5
<1>7. PICK t : t = IF NeedsSync(s, off, dat) THEN Synced(s) ELSE s
  BY Zenon
<1>8. WrittenTo(spill', s, t, first, last, off, dat)
  BY Zenon, <1>1, <1>2, <1>3, <1>4, <1>6, <1>7, WrittenForm
<1>9. Sound(spill')
  BY Zenon, <1>8 DEF WrittenTo
<1>10. QED
  BY Zenon, <1>9 DEF StoreFails, Inv

\* Losing the scratch dataset leaves a member in memory without a buffer.
LEMMA LoseScratchStep ==
  ASSUME Inv, NEW s, Sound(s), LoseScratch(s)
  PROVE  Inv'
<1>1. PICK u : u = [NoSpill EXCEPT !.size = s.size, !.dirty = TRUE]
  BY Zenon
<1>2. s.size \in 0 .. MaxLen
  BY Zenon DEF Sound, ScratchType
<1>3. MaxLen \in Nat /\ Blocks(MaxLen) \in Nat
  BY Zenon, BlocksBound, MemberBytesAssumption
<1>4. u = [fp |-> FALSE, size |-> s.size, dirty |-> TRUE,
           file |-> <<>>, committed |-> 0, resident |-> 0]
  BY Zenon, <1>1 DEF NoSpill
<1>5. u.fp = FALSE /\ u.file = <<>> /\ Len(u.file) = 0
  BY Zenon, <1>4
<1>6. u \in ScratchType
  <2>1. <<>> \in Seq(Stuff) /\ 0 \in 0 .. Blocks(MaxLen)
    BY <1>3
  <2>2. [fp |-> FALSE, size |-> s.size, dirty |-> TRUE,
         file |-> <<>>, committed |-> 0, resident |-> 0] \in ScratchType
    BY Zenon, <1>2, <2>1 DEF ScratchType
  <2>3. QED
    BY Zenon, <1>4, <2>2
<1>7. \E n \in 0 .. Blocks(MaxLen) : Len(u.file) = n * Block
  <2>1. 0 * Block = 0 /\ 0 \in 0 .. Blocks(MaxLen)
    BY <1>3, SpillBufferAssumption
  <2>2. QED
    BY Zenon, <1>5, <2>1
<1>8. Sound(u)
  BY Zenon, <1>5, <1>6, <1>7 DEF Sound
<1>9. QED
  BY Zenon, <1>1, <1>8 DEF LoseScratch, Inv

\* A CREATE over the member: only what is in memory is cut.
LEMMA CreateOverStep == Inv /\ CreateOver => Inv'
<1> SUFFICES ASSUME Inv, CreateOver PROVE Inv'
  BY Zenon
<1>1. MaxLen \in Nat /\ Threshold \in Nat
  BY Zenon, MemberBytesAssumption, SpillBufferAssumption
<1>2. ref' \in Contents /\ Len(ref') = high_water'
  <2>1. ref' \in [1 .. 0 -> Units] /\ 0 \in 0 .. MaxLen
    BY <1>1 DEF CreateOver
  <2>2. QED
    BY Zenon, <2>1, ContentForm DEF CreateOver
<1>3. past' = {} => Kept(buf', spill', high_water', ref')
  BY <1>1 DEF CreateOver, Kept, InBuffer
<1>4. past' \subseteq {"shrunk", "recreated", "failed"}
  BY Zenon DEF CreateOver, Inv
<1>5. QED
  BY <1>1, <1>2, <1>3, <1>4 DEF CreateOver, Inv

\* A READ, or the read-back of a flush.
LEMMA ReadBackStep == Inv /\ ReadBack => Inv'
<1> SUFFICES ASSUME Inv, ReadBack PROVE Inv'
  OBVIOUS
<1>1. Sound(spill') /\ spill'.fp
  BY Zenon, SyncedForm DEF Inv, ReadBack
<1>2. past = {} => Exact(spill', ref')
  BY Zenon, SyncExact DEF Inv, Kept, ReadBack
<1>3. QED
  BY Zenon, <1>1, <1>2 DEF Inv, Kept, ReadBack

\* The slot given up: as at start.
LEMMA ReleaseStep == Inv /\ Release => Inv'
<1> SUFFICES ASSUME Inv, Release PROVE Inv'
  OBVIOUS
<1>1. MaxLen \in Nat /\ Threshold \in Nat
  BY MemberBytesAssumption, SpillBufferAssumption
<1>2. Sound(spill')
  BY Zenon, FreshExact DEF Release
<1>3. ref' \in Contents /\ Len(ref') = high_water'
  <2>1. ref' \in [1 .. 0 -> Units] /\ 0 \in 0 .. MaxLen
    BY <1>1 DEF Release
  <2>2. QED
    BY Zenon, <2>1, ContentForm DEF Release
<1>4. Kept(buf', spill', high_water', ref')
  BY <1>1 DEF Release, Kept, InBuffer, NoSpill
<1>5. QED
  BY <1>1, <1>2, <1>3, <1>4 DEF Release, Inv

\* Every step keeps the invariant.
LEMMA NextHolds == Inv /\ [Next]_vars => Inv'
<1> SUFFICES ASSUME Inv, [Next]_vars PROVE Inv'
  BY Zenon
<1>1. ASSUME NEW off \in 0 .. MaxLen, NEW dat \in Payloads, off + Len(dat) <= MaxLen,
             Store(off, dat) \/ StoreFails(off, dat) \/ StoreLosesScratch(off, dat)
      PROVE  Inv'
  <2>1. CASE Store(off, dat)
    BY Zenon, <1>1, <2>1, StoreStep
  <2>2. CASE StoreFails(off, dat)
    BY Zenon, <1>1, <2>2, StoreFailsStep
  <2>3. CASE StoreLosesScratch(off, dat)
    <3>1. PICK s : s = Scratch
      BY Zenon
    <3>2. Sound(s) /\ LoseScratch(s)
      BY Zenon, <2>3, <3>1, ScratchForm DEF StoreLosesScratch
    <3>3. QED
      BY Zenon, <3>2, LoseScratchStep
  <2>4. QED
    BY Zenon, <1>1, <2>1, <2>2, <2>3
<1>2. CASE ReadLosesScratch
  BY Zenon, <1>2, LoseScratchStep DEF ReadLosesScratch, Inv
<1>3. CASE UNCHANGED vars
  BY Zenon, <1>3 DEF vars, Inv
<1>4. QED
  BY Zenon, <1>1, <1>2, <1>3, TruncateStep, CreateOverStep, ReadBackStep, ReleaseStep
     DEF Next

-----------------------------------------------------------------------------
(* The theorems *)

\* The invariant holds in every reachable state.
LEMMA AlwaysInv == Spec => []Inv
  BY InitHolds, NextHolds, PTL DEF Spec

\* The buffer and the scratch dataset of a pending member (pww_store_range,
\* pww_truncate, spill_write, spill_sync) keep their types, and the scratch
\* dataset is a whole number of blocks, stores that fail half way included.
THEOREM SpillTyped == Spec => []TypeOK
<1>1. Inv => TypeOK
  <2> SUFFICES ASSUME Inv PROVE TypeOK
    BY Zenon
  <2>1. spill \in ScratchType /\ \E n \in 0 .. Blocks(MaxLen) : Len(spill.file) = n * Block
    BY Zenon DEF Inv, Sound
  <2>2. spill.file \in Seq(Stuff)
    BY Zenon, <2>1 DEF ScratchType
  <2>3. \A k \in DOMAIN spill.file : spill.file[k] \in Stuff
    BY <2>2
  <2>4. QED
    BY Zenon, <2>1, <2>3 DEF Inv, TypeOK, ScratchType
<1>2. QED
  BY <1>1, AlwaysInv, PTL

\* spill_store_block never seeks past the end of the scratch dataset: the
\* extent never runs ahead of the blocks that exist.
THEOREM NeverPastEnd == Spec => []NoSeekPastEnd
<1>1. Inv => NoSeekPastEnd
  BY Zenon DEF Inv, Sound, NoSeekPastEnd
<1>2. QED
  BY <1>1, AlwaysInv, PTL

\* As long as a member only grows it reads back as exactly the bytes written,
\* for every block size, threshold and track: spill_write closes and reopens
\* the dataset exactly where a block could not be read back otherwise.
THEOREM ReadsBack == Spec => []ReadsBackExactly
<1>1. Inv => ReadsBackExactly
  <2> SUFFICES ASSUME Inv, past = {} PROVE Stored = ref
    BY Zenon DEF ReadsBackExactly
  <2>1. /\ high_water \in Nat /\ Len(ref) = high_water /\ ref \in Seq(Stuff)
        /\ Threshold \in Nat
    BY MemberBytesAssumption, SpillBufferAssumption, ContentForm DEF Inv
  <2>2. PICK d : d = Stored
    BY Zenon
  <2>3. d = [k \in 1 .. high_water |->
               IF spill.fp THEN IF k <= Len(spill.file) THEN spill.file[k] ELSE Junk
               ELSE IF buf # NoBuf /\ k <= Threshold THEN buf[k] ELSE Junk]
    BY Zenon, <2>2 DEF Stored
  <2>4. ASSUME NEW k \in 1 .. high_water
        PROVE  d[k] = ref[k]
    <3>1. CASE spill.fp
      <4>1. Exact(spill, ref)
        BY Zenon, <3>1 DEF Inv, Kept
      <4>2. k \in 1 .. Len(spill.file)
        <5>1. PICK p \in Nat : p = Blocks(spill.size) /\ spill.size <= p * Block
          BY Zenon, <2>1, <4>1, BlocksBound DEF Exact
        <5>2. Len(spill.file) = p * Block /\ spill.size = high_water /\ p * Block \in Int
          BY <2>1, <4>1, <5>1, SpillBufferAssumption DEF Exact
        <5>3. QED
          BY <2>1, <5>1, <5>2
      <4>3. spill.file[k] = ref[k]
        BY <2>1, <4>1, <4>2 DEF Exact
      <4>4. QED
        BY <2>3, <3>1, <4>2, <4>3
    <3>2. CASE ~spill.fp
      <4>1. InBuffer(buf, high_water, ref)
        BY Zenon, <3>2 DEF Inv, Kept
      <4>2. QED
        BY <2>1, <2>3, <3>2, <4>1 DEF InBuffer
    <3>3. QED
      BY Zenon, <3>1, <3>2
  <2>5. d = ref
    BY <2>1, <2>3, <2>4
  <2>6. QED
    BY Zenon, <2>2, <2>5
<1>2. QED
  BY <1>1, AlwaysInv, PTL
=============================================================================
