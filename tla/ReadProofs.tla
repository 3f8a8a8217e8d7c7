----------------------------- MODULE ReadProofs -----------------------------
(***************************************************************************)
(* What READ and GETATTR answer from two caches is the member: the         *)
(* positions mvsprw.c keeps lead where they say, and a size of mvsfsz.c    *)
(* stands for the text it was taken of.                                    *)
(***************************************************************************)
EXTENDS ReadPath, WellFoundedInduction, TLAPS

Versions == 0 .. MaxChanges + 1

\* What an entry of either cache may hold.
Positions == [file : Files \cup {NoText}, used : 0 .. MaxTime, offset : 0 .. Word - 1,
              nread : 0 .. MaxSize, has_getpos : BOOLEAN, place : 0 .. MaxSize,
              version : Versions]
SizeEntries == [file : Files \cup {NotInUse}, version : Versions, size : 0 .. MaxSize,
                whole : BOOLEAN, used : 0 .. MaxTime]

\* The types of the whole state, of both caches to the last field.
Types ==
  /\ now \in MaxAge + 1 .. MaxTime /\ changes \in 0 .. MaxChanges /\ faults \in 0 .. MaxFaults
  /\ texts \in [Files -> Texts]
  /\ listed = NoListing \/ listed \in [Files -> Versions]
  /\ sizes \in [SizeSlots -> SizeEntries]
  /\ reads \in [ReadSlots -> Positions]
  /\ crossed \in SUBSET Files

\* No entry was used in the future.
UsedByNow(cache, S, time) == \A i \in S : cache[i].used <= time

\* A position kept of a text that has not changed since leads to the byte
\* after the last one read, in the text that is there now.
PointsTo(entry, f) ==
  entry.version = texts[f].version /\ entry.place = entry.offset + entry.nread

MayBeFound(entry, f, time) == entry.file = f /\ entry.used + MaxAge >= time

PositionsHold ==
  \A i \in ReadSlots, f \in Files \ crossed :
    MayBeFound(reads[i], f, now) /\ reads[i].has_getpos => PointsTo(reads[i], f)

\* No version is one a later text will have.
VersionsPast ==
  /\ \A f \in Files : texts[f].version <= changes + 1
  /\ listed # NoListing => \A f \in Files : listed[f] <= changes + 1

\* A size kept with the version a text has now, and taken to the end of it, is
\* that text's size, and no size is kept for a member that is not there.
Fits(entry) ==
  /\ entry.version <= changes + 1
  /\ entry.file \in Files => entry.version # 0
  /\ \A f \in Files :
       entry.file = f /\ entry.version = texts[f].version /\ entry.whole =>
         entry.size = texts[f].size

SizesHold == \A i \in SizeSlots : Fits(sizes[i])

IInv ==
  /\ Types
  /\ UsedByNow(reads, ReadSlots, now) /\ UsedByNow(sizes, SizeSlots, now)
  /\ PositionsHold /\ VersionsPast /\ SizesHold

-----------------------------------------------------------------------------
(* The caches *)

\* A set of slots that is not empty has a least one, which is the slot a scan
\* from the first one finds.
LEMMA MinIsIn ==
  ASSUME NEW T, T \subseteq Nat, T # {}
  PROVE  Min(T) \in T
<1>1. \E x \in T : \A y \in T : ~(<<y, x>> \in OpToRel(<, Nat))
  BY WFMin, NatLessThanWellFounded, Zenon
<1>2. OpToRel(<, Nat) = {ss \in Nat \X Nat : ss[1] < ss[2]}
  BY Zenon DEF OpToRel
<1>3. \E x \in T : \A y \in T : ~(<<y, x>> \in {ss \in Nat \X Nat : ss[1] < ss[2]})
  BY <1>1, <1>2, Zenon
<1>4. \A x, y \in Nat : <<y, x>> \in {ss \in Nat \X Nat : ss[1] < ss[2]} <=> y < x
  BY Zenon
<1>5. \E x \in T : \A y \in T : ~(y < x)
  BY Zenon, <1>3, <1>4
<1>6. \E x \in T : \A y \in T : x <= y
  BY <1>5
<1>7. QED
  BY <1>6, Zenon DEF Min

\* mvs_rcache_find_entry returns an entry of the file that is not too old, or
\* there is none.
LEMMA FindEntryFinds ==
  ASSUME NEW cache, NEW f, NEW time
  PROVE  /\ FindEntry(cache, f, time) # 0 =>
              /\ FindEntry(cache, f, time) \in ReadSlots
              /\ MayBeFound(cache[FindEntry(cache, f, time)], f, time)
         /\ FindEntry(cache, f, time) = 0 =>
              \A i \in ReadSlots : ~MayBeFound(cache[i], f, time)
<1> DEFINE hits == {i \in ReadSlots : cache[i].file = f /\ cache[i].used + MaxAge >= time}
<1>1. hits \subseteq Nat /\ 0 \notin hits
  BY ReadCacheAssumption DEF ReadSlots
<1>2. hits # {} => Min(hits) \in hits
  BY Zenon, <1>1, MinIsIn
<1>3. FindEntry(cache, f, time) = IF hits = {} THEN 0 ELSE Min(hits)
  BY Zenon DEF FindEntry
<1> HIDE DEF hits
<1>4. CASE hits = {}
  BY Zenon, <1>3, <1>4 DEF hits, MayBeFound
<1>5. CASE hits # {}
  <2>1. FindEntry(cache, f, time) \in hits /\ FindEntry(cache, f, time) # 0
    BY Zenon, <1>1, <1>2, <1>3, <1>5
  <2>2. QED
    BY Zenon, <2>1 DEF hits, MayBeFound
<1>6. QED
  BY Zenon, <1>4, <1>5

\* find_entry of mvsfsz.c returns a slot of the file.
LEMMA FindSizeFinds ==
  ASSUME NEW cache, NEW f, FindSize(cache, f) # 0
  PROVE  FindSize(cache, f) \in SizeSlots /\ cache[FindSize(cache, f)].file = f
<1> DEFINE hits == {i \in SizeSlots : cache[i].file = f}
<1>1. hits \subseteq Nat /\ hits # {}
  BY SizeCacheAssumption DEF SizeSlots, FindSize
<1>2. Min(hits) \in hits
  BY Zenon, <1>1, MinIsIn
<1>3. FindSize(cache, f) = Min(hits)
  BY Zenon, <1>1 DEF FindSize
<1>4. QED
  BY Zenon, <1>2, <1>3

\* What is left of an offset in 32 bits: all of it if it is less than 2^32.
LEMMA WordOf ==
  ASSUME NEW n \in Nat
  PROVE  n % Word \in 0 .. Word - 1 /\ (n < Word => n % Word = n)
<1>1. Word \in Nat \ {0}
  BY ReadCacheAssumption DEF Word
<1>2. QED
  BY <1>1

-----------------------------------------------------------------------------
(* A READ *)

\* The entry mvs_pds_member_read works with.
Chosen(f, offset) ==
  IF offset # 0 /\ FindEntry(reads, f, now) # 0
  THEN reads[FindEntry(reads, f, now)]
  ELSE [UnusedEntry EXCEPT !.file = f]

Left(from, text) == IF from < text.size THEN text.size - from ELSE 0

\* after is what a READ that gave read makes of the entry it works with.
EntryLeft(read, f, offset, text, after) ==
  \/ after = Chosen(f, offset)
  \/ after = UnusedEntry
  \/ /\ ~read.eof
     /\ after = Noted(Chosen(f, offset), offset, read.nread, read.from + read.nread, text, now)

OneEntryLeft(read, f, offset, text) ==
  \E k, after : read.cache = [reads EXCEPT ![k] = after] /\ EntryLeft(read, f, offset, text, after)

\* What mvs_pds_member_read returns, and the one entry it leaves changed: as it
\* was, reset, or noted with where this read stopped.
LEMMA MemberReadForm ==
  ASSUME NEW f, NEW text, NEW offset, NEW count, NEW astray, NEW fault, NEW read,
         read = MemberRead(reads, f, text, offset, count, astray, fault, now)
  PROVE  /\ read.from = StartsAt(Chosen(f, offset), offset, text, astray)
         /\ read.eof = (count > Left(read.from, text))
         /\ read.nread = IF read.eof THEN Left(read.from, text) ELSE count
         /\ fault = "none" =>
              read.ok = ~(offset # 0 /\ SeeksBelowZero(Chosen(f, offset), offset))
         /\ OneEntryLeft(read, f, offset, text)
<1> DEFINE i == ChosenEntry(reads, f, offset, now)
           entry == IF offset # 0 /\ FindEntry(reads, f, now) # 0 THEN reads[i]
                    ELSE [UnusedEntry EXCEPT !.file = f]
           from == StartsAt(entry, offset, text, astray)
           left == IF from < text.size THEN text.size - from ELSE 0
           eof == count > left
           unsought == offset # 0 /\ (fault = "seek" \/ SeeksBelowZero(entry, offset))
           nread == IF eof THEN left ELSE count
           after == IF fault = "open" THEN entry
                    ELSE IF eof \/ unsought \/ fault \in {"read", "getpos"}
                      THEN UnusedEntry
                    ELSE Noted(entry, offset, nread, from + nread, text, now)
           ok == fault \in {"none", "seek", "getpos"} /\ ~unsought
<1>1. entry = Chosen(f, offset)
  BY Zenon DEF Chosen, ChosenEntry
<1>2. read = [cache |-> [reads EXCEPT ![i] = after], ok |-> ok,
              from |-> from, nread |-> nread, eof |-> eof]
  BY Zenon DEF MemberRead
<1>3. left = Left(from, text)
  BY Zenon DEF Left
<1> HIDE DEF left, entry, i
<1>4. \/ after = entry \/ after = UnusedEntry
      \/ ~eof /\ after = Noted(entry, offset, nread, from + nread, text, now)
  BY Zenon
<1>9. fault = "none" => ok = ~(offset # 0 /\ SeeksBelowZero(Chosen(f, offset), offset))
  BY <1>1, Zenon
<1> HIDE DEF after, nread, eof, from, ok
<1>5. /\ read.cache = [reads EXCEPT ![i] = after] /\ read.from = from
      /\ read.nread = nread /\ read.eof = eof /\ read.ok = ok
  <2> DEFINE cache == [reads EXCEPT ![i] = after]
  <2> HIDE DEF cache
  <2>1. read = [cache |-> cache, ok |-> ok, from |-> from, nread |-> nread, eof |-> eof]
    BY <1>2, Zenon DEF cache
  <2>2. /\ read.cache = cache /\ read.from = from
        /\ read.nread = nread /\ read.eof = eof /\ read.ok = ok
    BY <2>1
  <2>3. QED
    BY <2>2, Zenon DEF cache
<1>6. /\ read.from = StartsAt(Chosen(f, offset), offset, text, astray)
      /\ read.eof = (count > Left(read.from, text))
      /\ read.nread = IF read.eof THEN Left(read.from, text) ELSE count
  BY <1>1, <1>3, <1>5, Zenon DEF from, eof, nread
<1>7. OneEntryLeft(read, f, offset, text)
  <2>1. EntryLeft(read, f, offset, text, after)
    BY <1>1, <1>4, <1>5, Zenon DEF EntryLeft
  <2>2. QED
    BY <1>5, <2>1, Zenon DEF OneEntryLeft
<1>8. QED
  BY <1>5, <1>6, <1>7, <1>9, Zenon

\* The entry chosen is one of the file, and while no text of it changed under
\* a position, a position in it leads where it says.
LEMMA ChosenHolds ==
  ASSUME IInv, NEW f \in Files, NEW offset
  PROVE  /\ Chosen(f, offset) \in Positions
         /\ Chosen(f, offset).used <= now
         /\ Chosen(f, offset).file = f
         /\ f \notin crossed /\ Chosen(f, offset).has_getpos => PointsTo(Chosen(f, offset), f)
<1>1. CASE offset # 0 /\ FindEntry(reads, f, now) # 0
  <2> DEFINE k == FindEntry(reads, f, now)
  <2>1. k \in ReadSlots /\ MayBeFound(reads[k], f, now)
    BY Zenon, <1>1, FindEntryFinds
  <2>2. Chosen(f, offset) = reads[k]
    BY Zenon, <1>1 DEF Chosen
  <2> HIDE DEF k
  <2>3. reads[k] \in Positions
    BY Zenon, <2>1 DEF IInv, Types
  <2>4. QED
    BY Zenon, <2>1, <2>2, <2>3 DEF IInv, UsedByNow, PositionsHold, MayBeFound
<1>2. CASE ~(offset # 0 /\ FindEntry(reads, f, now) # 0)
  <2>1. Chosen(f, offset) = [file |-> f, used |-> 0, offset |-> 0, nread |-> 0,
                             has_getpos |-> FALSE, place |-> 0, version |-> 0]
    BY Zenon, <1>2 DEF Chosen, UnusedEntry
  <2>2. MaxTime \in Nat /\ MaxSize \in Nat /\ MaxChanges \in Nat /\ now >= 0
    BY ReadPathAssumption, ReadCacheAssumption DEF IInv, Types
  <2>3. 0 \in 0 .. Word - 1
    BY ReadCacheAssumption DEF Word
  <2>4. QED
    BY <2>1, <2>2, <2>3 DEF Positions, Versions
<1>3. QED
  BY Zenon, <1>1, <1>2

\* The constants and the texts, as the arithmetic needs them.
LEMMA Bounds ==
  ASSUME IInv
  PROVE  /\ MaxTime \in Nat /\ MaxSize \in Nat /\ MaxChanges \in Nat /\ MaxAge \in Nat
         /\ now \in Nat /\ now <= MaxTime /\ now > MaxAge
         /\ changes \in Nat /\ changes <= MaxChanges
         /\ Word \in Nat /\ MaxSize < Word
         /\ \A f \in Files : texts[f].version \in Versions /\ texts[f].size \in 0 .. MaxSize
<1>1. /\ MaxTime \in Nat /\ MaxSize \in Nat /\ MaxChanges \in Nat /\ MaxAge \in Nat
      /\ LongMax \in Nat /\ MaxSize < Word
  BY Zenon, ReadPathAssumption, ReadCacheAssumption
<1>2. \A f \in Files : texts[f] \in Texts
  BY Zenon DEF IInv, Types
<1>3. \A t \in Texts : t.version \in Versions /\ t.size \in 0 .. MaxSize
  BY <1>1 DEF Texts, Absent, Versions
<1>4. QED
  BY <1>1, <1>2, <1>3 DEF IInv, Types, Word

\* Where a READ starts: at the byte the low 32 bits of its offset tell, unless
\* a position of an earlier text was kept.
LEMMA StartsThere ==
  ASSUME IInv, NEW f \in Files, NEW offset \in Nat, NEW astray \in 0 .. MaxSize
  PROVE  /\ StartsAt(Chosen(f, offset), offset, texts[f], astray) \in Nat
         /\ f \notin crossed =>
              StartsAt(Chosen(f, offset), offset, texts[f], astray) = offset % Word
<1> DEFINE entry == Chosen(f, offset)
<1>1. entry \in Positions /\ (f \notin crossed /\ entry.has_getpos => PointsTo(entry, f))
  BY Zenon, ChosenHolds
<1> HIDE DEF entry
<1>2. entry.place \in 0 .. MaxSize /\ MaxSize \in Nat /\ MaxSize < Word /\ Word \in Nat
  BY Zenon, <1>1, Bounds DEF Positions
<1>3. offset % Word \in Nat /\ (offset = 0 => offset % Word = 0)
  BY WordOf, ReadCacheAssumption DEF Word
<1>4. CASE offset = 0
  BY <1>3, <1>4, Zenon DEF StartsAt, entry
<1>5. CASE offset # 0 /\ ~Continues(entry, offset)
  BY Zenon, <1>3, <1>5 DEF StartsAt, entry
<1>6. CASE offset # 0 /\ Continues(entry, offset)
  <2>1. StartsAt(entry, offset, texts[f], astray) \in Nat
    BY <1>2, <1>6 DEF StartsAt
  <2>2. f \notin crossed => StartsAt(entry, offset, texts[f], astray) = offset % Word
    <3> SUFFICES ASSUME f \notin crossed
                 PROVE  StartsAt(entry, offset, texts[f], astray) = offset % Word
      BY Zenon
    <3>1. entry.version = texts[f].version /\ entry.place = entry.offset + entry.nread
      BY Zenon, <1>1, <1>6 DEF Continues, PointsTo
    <3>2. StartsAt(entry, offset, texts[f], astray) = entry.place
      BY Zenon, <1>6, <3>1 DEF StartsAt
    <3>3. entry.place % Word = entry.place
      BY <1>2, WordOf
    <3>4. offset = entry.place
      BY Zenon, <1>6, <3>1, <3>3 DEF Continues
    <3>5. QED
      BY Zenon, <3>2, <3>3, <3>4
  <2>3. QED
    BY Zenon, <2>1, <2>2 DEF entry
<1>7. QED
  BY Zenon, <1>4, <1>5, <1>6

\* The entry a READ leaves behind has its type, and leads where it says while
\* no text changed under a position in the file.
LEMMA EntryAfter ==
  ASSUME IInv, NEW f \in Files, NEW offset \in Nat, NEW count \in Counts,
         NEW astray \in 0 .. MaxSize, NEW fault, NEW read, NEW after,
         read = MemberRead(reads, f, texts[f], offset, count, astray, fault, now),
         EntryLeft(read, f, offset, texts[f], after)
  PROVE  /\ after \in Positions /\ after.used <= now
         /\ after.has_getpos => after.file = f /\ (f \notin crossed => PointsTo(after, f))
<1> DEFINE entry == Chosen(f, offset)
<1>1. /\ entry \in Positions /\ entry.used <= now /\ entry.file = f
      /\ f \notin crossed /\ entry.has_getpos => PointsTo(entry, f)
  BY Zenon, ChosenHolds
<1>2. CASE after = entry
  BY Zenon, <1>1, <1>2
<1>3. CASE after = UnusedEntry
  BY <1>3, Bounds DEF UnusedEntry, Positions, Versions
<1>4. CASE /\ ~read.eof
           /\ after = Noted(entry, offset, read.nread, read.from + read.nread, texts[f], now)
  <2> DEFINE from == read.from
  <2>1. /\ from = StartsAt(entry, offset, texts[f], astray)
        /\ ~(count > Left(from, texts[f])) /\ read.nread = count
    <3>1. /\ read.from = StartsAt(entry, offset, texts[f], astray)
          /\ read.eof = (count > Left(read.from, texts[f]))
          /\ read.nread = IF read.eof THEN Left(read.from, texts[f]) ELSE count
      BY MemberReadForm
    <3>2. QED
      BY Zenon, <1>4, <3>1
  <2>2. from \in Nat /\ (f \notin crossed => from = offset % Word)
    BY Zenon, <2>1, StartsThere
  <2> HIDE DEF entry, from
  <2>3. count \in Nat \ {0} /\ texts[f].size \in 0 .. MaxSize
    BY Zenon, Bounds, ReadPathAssumption
  <2>4. from + count \in 0 .. MaxSize /\ count \in 0 .. MaxSize
    BY <2>1, <2>2, <2>3, Bounds DEF Left
  <2>5. after = [entry EXCEPT !.used = now, !.offset = offset % Word, !.nread = count,
                   !.has_getpos = TRUE, !.place = from + count, !.version = texts[f].version]
    BY <1>4, <2>1, Zenon DEF Noted, from
  <2>6. after = [file |-> f, used |-> now, offset |-> offset % Word, nread |-> count,
                 has_getpos |-> TRUE, place |-> from + count, version |-> texts[f].version]
    BY Zenon, <1>1, <2>5 DEF Positions
  <2>7. after \in Positions /\ after.used <= now /\ after.file = f
    <3>1. offset % Word \in 0 .. Word - 1
      BY WordOf
    <3>2. QED
      BY <2>4, <2>6, <3>1, Bounds DEF Positions
  <2>8. f \notin crossed => PointsTo(after, f)
    BY Zenon, <2>2, <2>6 DEF PointsTo
  <2>9. QED
    BY Zenon, <2>7, <2>8
<1>5. QED
  BY Zenon, <1>2, <1>3, <1>4 DEF EntryLeft

\* A READ, whatever fails in it, leaves the positions holding.
LEMMA ReadKeepsPositions ==
  ASSUME IInv, NEW f \in Files, NEW offset \in Nat, NEW count \in Counts,
         NEW astray \in 0 .. MaxSize, NEW fault, NEW cache,
         cache = MemberRead(reads, f, texts[f], offset, count, astray, fault, now).cache
  PROVE  /\ cache \in [ReadSlots -> Positions] /\ UsedByNow(cache, ReadSlots, now)
         /\ \A i \in ReadSlots, g \in Files \ StillCrossed(cache, now) :
              MayBeFound(cache[i], g, now) /\ cache[i].has_getpos => PointsTo(cache[i], g)
<1>0. PICK read : read = MemberRead(reads, f, texts[f], offset, count, astray, fault, now)
  BY Zenon
<1>1. PICK k, after : /\ read.cache = [reads EXCEPT ![k] = after]
                      /\ EntryLeft(read, f, offset, texts[f], after)
  <2>1. OneEntryLeft(read, f, offset, texts[f])
    BY <1>0, MemberReadForm
  <2>2. QED
    BY <2>1, Zenon DEF OneEntryLeft
<1>2. /\ after \in Positions /\ after.used <= now
      /\ after.has_getpos => after.file = f /\ (f \notin crossed => PointsTo(after, f))
  BY Zenon, <1>0, <1>1, EntryAfter
<1>3. cache = [reads EXCEPT ![k] = after]
  BY Zenon, <1>0, <1>1
<1>4. reads \in [ReadSlots -> Positions]
  BY Zenon DEF IInv, Types
<1>5. cache \in [ReadSlots -> Positions] /\ UsedByNow(cache, ReadSlots, now)
  BY Zenon, <1>2, <1>3, <1>4 DEF IInv, UsedByNow
<1>6. ASSUME NEW i \in ReadSlots, NEW g \in Files \ StillCrossed(cache, now),
             MayBeFound(cache[i], g, now), cache[i].has_getpos
      PROVE  PointsTo(cache[i], g)
  <2>1. g \notin crossed
    BY Zenon, <1>6, FindEntryFinds DEF StillCrossed
  <2>2. CASE i = k
    BY Zenon, <1>2, <1>3, <1>4, <1>6, <2>1, <2>2 DEF MayBeFound
  <2>3. CASE i # k
    BY Zenon, <1>3, <1>4, <1>6, <2>1, <2>3 DEF IInv, PositionsHold
  <2>4. QED
    BY Zenon, <2>2, <2>3
<1>7. QED
  BY Zenon, <1>5, <1>6

-----------------------------------------------------------------------------
(* The attributes *)

\* What holds of the cache of sizes.
Sound(cache) ==
  /\ cache \in [SizeSlots -> SizeEntries] /\ UsedByNow(cache, SizeSlots, now)
  /\ \A i \in SizeSlots : Fits(cache[i])

\* A slot may be given any entry that fits, whichever slot it is.
LEMMA SlotSet ==
  ASSUME NEW cache, Sound(cache), NEW k, NEW entry \in SizeEntries,
         entry.used <= now, Fits(entry)
  PROVE  Sound([cache EXCEPT ![k] = entry])
BY Zenon DEF Sound, UsedByNow

\* evict_entry: an empty slot fits.
LEMMA EmptyFits ==
  ASSUME IInv
  PROVE  NoSize \in SizeEntries /\ NoSize.used <= now /\ Fits(NoSize)
BY Bounds, ReadPathAssumption DEF NoSize, SizeEntries, Versions, Fits

\* mvsfsz_put of a size taken now fits, whatever version the directory shown
\* to the client gives the member.
LEMMA PutKeeps ==
  ASSUME IInv, NEW f \in Files, NEW version \in Versions \ {0}, version <= changes + 1,
         NEW bytes \in 0 .. texts[f].size, NEW cache, Sound(cache)
  PROVE  Sound(PutSize(cache, f, version, bytes, bytes = texts[f].size, now))
<1> DEFINE whole == bytes = texts[f].size
           entry == [file |-> f, version |-> version, size |-> bytes, whole |-> whole,
                     used |-> now]
           k == IF FindSize(cache, f) # 0 THEN FindSize(cache, f) ELSE FreeSize(cache)
<1>0. bytes \in 0 .. MaxSize /\ whole \in BOOLEAN
  BY Bounds
<1>1. entry \in SizeEntries /\ entry.used <= now
  <2> HIDE DEF whole
  <2>1. QED
    BY <1>0, Bounds DEF SizeEntries
<1>2. Fits(entry)
  BY Zenon DEF Fits
<1>3. PutSize(cache, f, version, bytes, bytes = texts[f].size, now) = [cache EXCEPT ![k] = entry]
  BY Zenon DEF PutSize
<1> HIDE DEF entry, k
<1>4. QED
  BY <1>1, <1>2, <1>3, SlotSet

\* mvsfsz_get_member_size keeps the cache sound; the size it returns for the
\* version the text has now, if it was taken to the end, is the text's size.
LEMMA GetSizeKeeps ==
  ASSUME IInv, NEW f \in Files, NEW version \in Versions \ {0}, version <= changes + 1,
         NEW through, through.opens \in BOOLEAN, through.bytes \in 0 .. texts[f].size, NEW got,
         got = GetMemberSize(sizes, f, version, through, texts[f].size, now)
  PROVE  /\ Sound(got.cache)
         /\ version = texts[f].version /\ through.opens =>
              got.known /\ (got.whole => got.size = texts[f].size)
<1> DEFINE i == FindSize(sizes, f)
           evicted == IF i = 0 THEN sizes ELSE [sizes EXCEPT ![i] = NoSize]
           whole == through.bytes = texts[f].size
           filled == PutSize(evicted, f, version, through.bytes, whole, now)
<1>0. Sound(sizes)
  BY Zenon DEF IInv, Types, SizesHold, Sound
<1>1. i # 0 => i \in SizeSlots /\ sizes[i].file = f
  BY Zenon, FindSizeFinds
<1>2. Sound(evicted)
  BY Zenon, <1>0, SlotSet, EmptyFits
<1>3. got = IF i # 0 /\ StillValid(sizes[i], version)
              THEN [cache |-> [sizes EXCEPT ![i].used = now], known |-> TRUE,
                    size |-> sizes[i].size, whole |-> sizes[i].whole]
            ELSE IF ~through.opens
              THEN [cache |-> evicted, known |-> FALSE, size |-> 0, whole |-> TRUE]
            ELSE [cache |-> filled, known |-> TRUE, size |-> through.bytes, whole |-> whole]
  BY Zenon DEF GetMemberSize
<1>8. Sound(filled)
  BY Zenon, <1>2, PutKeeps
<1> HIDE DEF i, evicted, whole, filled
<1>4. CASE i # 0 /\ StillValid(sizes[i], version)
  <2> DEFINE entry == [sizes[i] EXCEPT !.used = now]
             cache == [sizes EXCEPT ![i] = entry]
  <2>1. i \in SizeSlots /\ sizes[i] \in SizeEntries /\ Fits(sizes[i])
    BY Zenon, <1>0, <1>1, <1>4 DEF Sound
  <2>2. entry \in SizeEntries /\ entry.used <= now /\ Fits(entry)
    BY <2>1, Bounds DEF SizeEntries, Fits
  <2>3. [sizes EXCEPT ![i].used = now] = cache
    BY Zenon
  <2> HIDE DEF entry, cache
  <2>4. Sound(cache)
    BY Zenon, <1>0, <2>2, SlotSet DEF cache
  <2>5. got = [cache |-> cache, known |-> TRUE, size |-> sizes[i].size,
               whole |-> sizes[i].whole]
    BY Zenon, <1>3, <1>4, <2>3
  <2>6. version = texts[f].version /\ sizes[i].whole => sizes[i].size = texts[f].size
    BY Zenon, <1>1, <1>4, <2>1 DEF Fits, StillValid
  <2>7. QED
    BY <2>4, <2>5, <2>6
<1>5. CASE ~(i # 0 /\ StillValid(sizes[i], version)) /\ ~through.opens
  BY <1>2, <1>3, <1>5
<1>6. CASE ~(i # 0 /\ StillValid(sizes[i], version)) /\ through.opens
  <2>1. got = [cache |-> filled, known |-> TRUE, size |-> through.bytes, whole |-> whole]
    BY Zenon, <1>3, <1>6
  <2>2. /\ got.cache = filled /\ got.known
        /\ got.size = through.bytes /\ got.whole = whole
    BY <2>1
  <2>3. QED
    BY Zenon, <1>8, <2>2 DEF whole
<1>7. QED
  BY Zenon, <1>4, <1>5, <1>6

\* vfs_stat_pds_member keeps the cache of sizes sound, and if the member opens
\* reports the size of the text with the attributes it has now, if that size
\* was taken to the end.
LEMMA StatKeeps ==
  ASSUME IInv, NEW f \in Files, NEW through \in Throughs(f) \cup {AllThrough(f)},
         NEW stat, stat = StatMember(f, through)
  PROVE  /\ Sound(stat.sizes)
         /\ stat.exists /\ stat.version = texts[f].version /\ through = AllThrough(f) =>
              stat.known /\ (stat.whole => stat.size = texts[f].size)
<1> DEFINE version == IF listed # NoListing /\ listed[f] # 0 THEN listed[f] ELSE texts[f].version
<1>0. Sound(sizes)
  BY Zenon DEF IInv, Types, SizesHold, Sound
<1>1. version \in Versions /\ version <= changes + 1
  BY Zenon, Bounds DEF IInv, Types, VersionsPast
<1>2. PICK got : got = GetMemberSize(sizes, f, version, through, texts[f].size, now)
  BY Zenon
<1>3. stat = IF version = 0
             THEN [exists |-> FALSE, version |-> 0, sizes |-> sizes,
                   known |-> FALSE, size |-> 0, whole |-> TRUE]
             ELSE [exists |-> TRUE, version |-> version, sizes |-> got.cache,
                   known |-> got.known, size |-> got.size, whole |-> got.whole]
  BY <1>2, Zenon DEF StatMember
<1>7. /\ through.opens \in BOOLEAN /\ through.bytes \in 0 .. texts[f].size
      /\ through = AllThrough(f) => through.opens = (texts[f] # Absent)
  <2> DEFINE there == texts[f] # Absent
  <2>1. /\ there \in BOOLEAN /\ AllThrough(f) = [opens |-> there, bytes |-> texts[f].size]
        /\ Throughs(f) = [opens : {FALSE}, bytes : {0}]
                           \cup [opens : {there} \ {FALSE}, bytes : 0 .. texts[f].size]
    BY Zenon DEF Throughs, AllThrough
  <2>2. texts[f].size \in Nat
    BY Bounds
  <2> HIDE DEF there
  <2>3. CASE through = AllThrough(f)
    BY <2>1, <2>2, <2>3 DEF there
  <2>4. CASE through \in [opens : {FALSE}, bytes : {0}] /\ through # AllThrough(f)
    <3>1. through.opens = FALSE /\ through.bytes = 0
      BY Zenon, <2>4
    <3>2. 0 \in 0 .. texts[f].size
      BY <2>2
    <3>3. QED
      BY Zenon, <2>4, <3>1, <3>2
  <2>5. CASE /\ through \in [opens : {there} \ {FALSE}, bytes : 0 .. texts[f].size]
             /\ through # AllThrough(f)
    BY Zenon, <2>1, <2>5
  <2>6. QED
    BY Zenon, <2>1, <2>3, <2>4, <2>5
<1> HIDE DEF version
<1>4. version # 0 =>
        /\ Sound(got.cache)
        /\ version = texts[f].version /\ through.opens =>
             got.known /\ (got.whole => got.size = texts[f].size)
  <2> SUFFICES ASSUME version # 0
               PROVE  /\ Sound(got.cache)
                      /\ version = texts[f].version /\ through.opens =>
                           got.known /\ (got.whole => got.size = texts[f].size)
    BY Zenon
  <2>1. version \in Versions \ {0}
    BY Zenon, <1>1
  <2>2. QED
    BY <1>1, <1>2, <1>7, <2>1, GetSizeKeeps
<1>5. version = texts[f].version /\ version # 0 => texts[f] # Absent
  BY DEF Absent
<1>6. QED
  BY <1>0, <1>3, <1>4, <1>5, <1>7

-----------------------------------------------------------------------------
(* The actions *)

\* Both caches start empty: slots no lookup can find.
LEMMA InitHolds == Init => IInv
<1> SUFFICES ASSUME Init PROVE IInv
  BY Zenon
<1>1. /\ MaxTime \in Nat /\ MaxSize \in Nat /\ MaxChanges \in Nat /\ MaxFaults \in Nat
      /\ MaxAge \in Nat /\ MaxTime > MaxAge
  BY Zenon, ReadPathAssumption, ReadCacheAssumption
<1>2. /\ texts \in [Files -> Texts] /\ \A f \in Files : texts[f].version = 1
  BY <1>1 DEF Init, Texts
<1>3. /\ reads \in [ReadSlots -> Positions]
      /\ \A i \in ReadSlots : ~reads[i].has_getpos /\ reads[i].used = 0
  <2>1. 0 \in 0 .. Word - 1
    BY ReadCacheAssumption DEF Word
  <2>2. QED
    BY <1>1, <2>1 DEF Init, NoPositions, UnusedEntry, Positions, Versions
<1>4. /\ sizes \in [SizeSlots -> SizeEntries]
      /\ \A i \in SizeSlots : /\ sizes[i].file = NotInUse /\ sizes[i].version = 0
                              /\ sizes[i].used = 0
  BY <1>1 DEF Init, NoSizes, NoSize, SizeEntries, Versions
<1>5. Types
  BY <1>1, <1>2, <1>3, <1>4 DEF Init, Types
<1>6. UsedByNow(reads, ReadSlots, now) /\ UsedByNow(sizes, SizeSlots, now)
  BY <1>1, <1>3, <1>4 DEF Init, UsedByNow
<1>7. PositionsHold /\ VersionsPast
  BY <1>2, <1>3 DEF Init, PositionsHold, VersionsPast
<1>8. SizesHold
  BY <1>4, ReadPathAssumption DEF Init, SizesHold, Fits
<1>9. QED
  BY Zenon, <1>5, <1>6, <1>7, <1>8 DEF IInv

\* What errors take of the bound on them is a number.
LEMMA SpentCounts ==
  ASSUME NEW f, NEW through, NEW fault
  PROVE  Spent(f, through, fault) \in Nat
BY DEF Spent

\* GETATTR (vfs_stat_pds_member) reads no positions: it only fills or uses the sizes.
LEMMA GetattrStep ==
  ASSUME IInv, NEW f \in Files, NEW through \in Throughs(f), Getattr(f, through)
  PROVE  IInv'
<1>1. Sound(sizes')
  BY Zenon, StatKeeps DEF Getattr
<1>2. faults' \in 0 .. MaxFaults
  BY SpentCounts, ReadPathAssumption DEF Getattr, IInv, Types
<1>3. QED
  BY <1>1, <1>2 DEF Getattr, IInv, Types, UsedByNow, PositionsHold, MayBeFound, PointsTo,
     VersionsPast,
              SizesHold, Fits, Sound

\* A READ (vfs_pread) leaves both caches exact, whichever it resumed from.
LEMMA ReadStep ==
  ASSUME IInv, NEW f \in Files, NEW through \in Throughs(f), NEW offset \in Offsets,
         NEW count \in Counts, NEW astray \in 0 .. MaxSize, NEW fault,
         faults + Spent(f, through, fault) <= MaxFaults,
         Read(f, through, offset, count, astray, fault)
  PROVE  IInv'
<1> DEFINE met == IF texts[f] = Absent THEN "open" ELSE fault
<1>0. offset \in Nat
  BY Zenon, ReadPathAssumption
<1>1. /\ faults' = faults + Spent(f, through, fault)
      /\ sizes' = StatMember(f, through).sizes
      /\ reads' = MemberRead(reads, f, texts[f], offset, count, astray, met, now).cache
      /\ crossed' = StillCrossed(reads', now)
      /\ UNCHANGED <<now, texts, listed, changes>>
  BY Zenon DEF Read
<1> HIDE DEF met
<1>2. Sound(sizes')
  BY Zenon, <1>1, StatKeeps
<1>3. /\ reads' \in [ReadSlots -> Positions] /\ UsedByNow(reads', ReadSlots, now)
      /\ \A i \in ReadSlots, g \in Files \ StillCrossed(reads', now) :
           MayBeFound(reads'[i], g, now) /\ reads'[i].has_getpos => PointsTo(reads'[i], g)
  BY Zenon, <1>0, <1>1, ReadKeepsPositions
<1>4. faults' \in 0 .. MaxFaults
  BY <1>1, SpentCounts, ReadPathAssumption DEF IInv, Types
<1>5. crossed' \in SUBSET Files
  BY Zenon, <1>1 DEF IInv, Types, StillCrossed
<1>6. PositionsHold'
  BY <1>1, <1>3 DEF PositionsHold, MayBeFound, PointsTo
<1>7. QED
  BY Zenon, <1>1, <1>2, <1>3, <1>4, <1>5, <1>6
     DEF IInv, Types, UsedByNow, VersionsPast, SizesHold, Fits, Sound

\* A listing is read, invalidated, evicted or expires.
LEMMA ListingStep ==
  ASSUME IInv, ListingChanges
  PROVE  IInv'
<1>1. Shown \in [Files -> Versions] /\ \A f \in Files : Shown[f] <= changes + 1
  BY Zenon, Bounds DEF Shown, IInv, VersionsPast
<1>2. listed' = NoListing \/ listed' = Shown
  BY Zenon DEF ListingChanges
<1>3. QED
  BY <1>1, <1>2 DEF ListingChanges, IInv, Types, UsedByNow, PositionsHold, MayBeFound,
     PointsTo,
                    VersionsPast, SizesHold, Fits

\* A text stored has a version no entry has, and a position in the one it
\* replaces makes the file crossed.
LEMMA ChangeStep ==
  ASSUME IInv, NEW f \in Files, Change(f)
  PROVE  IInv'
<1>1. PICK text : /\ texts' = [texts EXCEPT ![f] = text]
                  /\ text = Absent \/ \E size \in 0 .. MaxSize :
                                        text = [version |-> changes + 2, size |-> size]
  <2>1. PICK size \in 0 .. MaxSize :
          texts' = [texts EXCEPT ![f] = IF texts[f] # Absent /\ size = 0 THEN Absent
                                        ELSE [version |-> changes + 2, size |-> size]]
    BY Zenon DEF Change
  <2>2. QED
    BY <2>1, Zenon
<1>2. /\ changes < MaxChanges /\ changes' = changes + 1
      /\ crossed' = IF FindEntry(reads, f, now) # 0 THEN crossed \cup {f} ELSE crossed
      /\ UNCHANGED <<now, listed, sizes, reads, faults>>
  BY Zenon DEF Change
<1>3. /\ text \in Texts /\ text.version \in Nat /\ text.version <= changes' + 1
      /\ text.version = changes + 2 \/ (text.version = 0 /\ text.size = 0)
  BY <1>1, <1>2, Bounds DEF Texts, Absent
<1>4. texts \in [Files -> Texts]
  BY Zenon DEF IInv, Types
<1>5. Types'
  BY <1>1, <1>2, <1>3, <1>4, Bounds DEF IInv, Types
<1>6. PositionsHold'
  <2> SUFFICES ASSUME NEW i \in ReadSlots, NEW g \in Files \ crossed',
                      MayBeFound(reads[i], g, now), reads[i].has_getpos
               PROVE  PointsTo(reads[i], g)'
    BY Zenon, <1>2 DEF PositionsHold, MayBeFound
  <2>1. g # f
    BY Zenon, <1>2, FindEntryFinds
  <2>2. PointsTo(reads[i], g)
    BY Zenon, <1>2 DEF IInv, PositionsHold
  <2>3. QED
    BY Zenon, <1>1, <1>2, <1>4, <2>1, <2>2 DEF PointsTo
<1>7. VersionsPast'
  <2>1. \A g \in Files : texts'[g].version <= changes' + 1
    BY <1>1, <1>2, <1>3, <1>4, Bounds DEF IInv, VersionsPast, Versions
  <2>2. listed # NoListing => \A g \in Files : listed[g] <= changes' + 1
    BY <1>2, Bounds DEF IInv, Types, VersionsPast, Versions
  <2>3. QED
    BY Zenon, <1>2, <2>1, <2>2 DEF VersionsPast
<1>8. SizesHold'
  <2> SUFFICES ASSUME NEW i \in SizeSlots
               PROVE  Fits(sizes[i])'
    BY Zenon, <1>2 DEF SizesHold
  <2>1. Fits(sizes[i]) /\ sizes[i] \in SizeEntries
    BY Zenon DEF IInv, Types, SizesHold
  <2>2. sizes[i].version \in Nat
    BY <2>1, Bounds DEF SizeEntries, Versions
  <2>3. sizes[i].version <= changes' + 1 /\ (sizes[i].file \in Files => sizes[i].version # 0)
    BY <1>2, <2>1, <2>2, Bounds DEF Fits
  <2>4. sizes[i].file = f => sizes[i].version # texts'[f].version
    BY <1>1, <1>3, <1>4, <2>1, <2>2, Bounds DEF Fits
  <2>5. \A g \in Files \ {f} : texts'[g] = texts[g]
    BY Zenon, <1>1, <1>4
  <2>6. QED
    BY Zenon, <1>2, <2>1, <2>3, <2>4, <2>5 DEF Fits
<1>9. QED
  BY Zenon, <1>2, <1>5, <1>6, <1>7, <1>8 DEF IInv, UsedByNow

\* Time only makes entries of either cache expire.
LEMMA TickStep ==
  ASSUME IInv, Tick
  PROVE  IInv'
<1>1. /\ now < MaxTime /\ now' = now + 1
      /\ reads' = [i \in ReadSlots |-> IF reads[i].used + MaxAge < now' THEN UnusedEntry
                                       ELSE reads[i]]
      /\ crossed' = StillCrossed(reads', now')
      /\ UNCHANGED <<texts, listed, sizes, changes, faults>>
  BY Zenon DEF Tick
<1>2. reads \in [ReadSlots -> Positions] /\ UsedByNow(reads, ReadSlots, now)
  BY Zenon DEF IInv, Types
<1>3. UnusedEntry \in Positions /\ UnusedEntry.used = 0 /\ ~UnusedEntry.has_getpos
  BY Bounds DEF UnusedEntry, Positions, Versions
<1>4. reads' \in [ReadSlots -> Positions]
  BY Zenon, <1>1, <1>2, <1>3
<1>5. UsedByNow(reads, ReadSlots, now)'
  BY <1>1, <1>2, <1>3, Bounds DEF UsedByNow, Positions
<1>6. UsedByNow(sizes, SizeSlots, now)'
  BY <1>1, Bounds DEF IInv, Types, UsedByNow, SizeEntries
<1>7. Types'
  BY <1>1, <1>4, Bounds DEF IInv, Types, StillCrossed
<1>8. PositionsHold'
  <2> SUFFICES ASSUME NEW i \in ReadSlots, NEW g \in Files \ crossed',
                      MayBeFound(reads'[i], g, now'), reads'[i].has_getpos
               PROVE  PointsTo(reads'[i], g)
    BY <1>1 DEF PositionsHold, MayBeFound, PointsTo
  <2>1. g \notin crossed
    BY Zenon, <1>1, FindEntryFinds DEF StillCrossed
  <2>2. reads'[i] = reads[i]
    BY Zenon, <1>1, <1>3
  <2>3. MayBeFound(reads[i], g, now)
    BY <1>1, <1>2, <2>2, Bounds DEF MayBeFound, Positions
  <2>4. QED
    BY Zenon, <1>1, <2>1, <2>2, <2>3 DEF IInv, PositionsHold, PointsTo
<1>9. QED
  BY Zenon, <1>1, <1>5, <1>6, <1>7, <1>8 DEF IInv, VersionsPast, SizesHold, Fits

\* Every step of the read path preserves the invariant.
LEMMA NextHolds == IInv /\ [Next]_vars => IInv'
<1> SUFFICES ASSUME IInv, [Next]_vars PROVE IInv'
  BY Zenon
<1>1. CASE Tick
  BY Zenon, <1>1, TickStep
<1>2. CASE ListingChanges
  BY Zenon, <1>2, ListingStep
<1>3. ASSUME NEW f \in Files, NEW through \in Throughs(f), Getattr(f, through)
      PROVE  IInv'
  BY Zenon, <1>3, GetattrStep
<1>4. ASSUME NEW f \in Files, Change(f)
      PROVE  IInv'
  BY Zenon, <1>4, ChangeStep
<1>5. ASSUME NEW f \in Files, NEW through \in Throughs(f),
             NEW fault \in {"none"} \cup ReadFaults,
             faults + Spent(f, through, fault) <= MaxFaults,
             NEW offset \in Offsets, NEW count \in Counts, NEW astray \in Astray(f, offset),
             Read(f, through, offset, count, astray, fault)
      PROVE  IInv'
  <2>1. astray \in 0 .. MaxSize
    BY Bounds DEF Astray
  <2>2. QED
    BY Zenon, <1>5, <2>1, ReadStep
<1>6. CASE UNCHANGED vars
  BY Zenon, <1>6 DEF vars, IInv, Types, UsedByNow, PositionsHold, MayBeFound, PointsTo,
     VersionsPast,
              SizesHold, Fits
<1>7. QED
  BY Zenon, <1>1, <1>2, <1>3, <1>4, <1>5, <1>6 DEF Next

\* The invariant of the read path holds in every state a server may reach.
LEMMA AlwaysIInv == Spec => []IInv
BY InitHolds, NextHolds, PTL DEF Spec

-----------------------------------------------------------------------------
(* What follows *)

\* The caches of sizes and of positions hold what they may, and no entry was
\* used in the future (fill_entry, mvs_pds_member_pread).
THEOREM CachesTyped == Spec => []TypeOK
<1>1. IInv => TypeOK
  <2> SUFFICES ASSUME IInv PROVE TypeOK
    BY Zenon
  <2>1. \A i \in SizeSlots : sizes[i] \in SizeEntries /\ sizes[i].used <= now
    BY Zenon DEF IInv, Types, UsedByNow
  <2>2. \A i \in ReadSlots : reads[i] \in Positions /\ reads[i].used <= now
    BY Zenon DEF IInv, Types, UsedByNow
  <2>3. \A i \in SizeSlots : /\ sizes[i].file \in Files \cup {NotInUse}
                             /\ sizes[i].size \in 0 .. MaxSize /\ sizes[i].used \in 0 .. now
    BY <2>1, Bounds DEF SizeEntries
  <2>4. \A i \in ReadSlots : /\ reads[i].file \in Files \cup {NoText}
                             /\ reads[i].used \in 0 .. now
                             /\ reads[i].offset \in 0 .. Word - 1
                             /\ {reads[i].nread, reads[i].place} \subseteq 0 .. MaxSize
    BY <2>2, Bounds DEF Positions
  <2>5. QED
    BY Zenon, <2>3, <2>4 DEF TypeOK, IInv, Types, Versions
<1>2. QED
  BY <1>1, AlwaysIInv, PTL

\* A READ at an offset of 32 bits that is answered returns the bytes at its
\* offset, and eof exactly when it ran into the end, and one at an offset of 31
\* bits is answered, however many members, clients and entries there are and
\* however their reads, at whatever offsets, are interleaved, repeated, failed
\* or evicted (mvs_pds_member_read).
THEOREM ReadsExact == Spec => []ReadExact
<1>1. IInv => ReadExact
  <2> SUFFICES ASSUME IInv, NEW f \in Files, NEW offset \in Offsets, NEW count \in Counts,
                      texts[f] # Absent, f \notin crossed, offset < Word
               PROVE  /\ ReadNow(f, offset, count).ok =>
                           Exact(ReadNow(f, offset, count), f, offset, count)
                      /\ offset < LongMax => ReadNow(f, offset, count).ok
    BY Zenon DEF ReadExact
  <2>0. PICK read : read = ReadNow(f, offset, count)
    BY Zenon
  <2>1. /\ read.from = StartsAt(Chosen(f, offset), offset, texts[f], 0)
        /\ read.eof = (count > Left(read.from, texts[f]))
        /\ read.ok = ~(offset # 0 /\ SeeksBelowZero(Chosen(f, offset), offset))
    BY <2>0, MemberReadForm DEF ReadNow
  <2>2. offset \in Nat /\ offset % Word = offset
    BY ReadPathAssumption, WordOf
  <2>3. read.from = offset
    <3>1. 0 \in 0 .. MaxSize
      BY Bounds
    <3>2. QED
      BY Zenon, <2>1, <2>2, <3>1, StartsThere
  <2>4. (count > Left(offset, texts[f])) = (offset + count > texts[f].size)
    BY <2>2, Bounds, ReadPathAssumption DEF Left
  <2>5. Exact(read, f, offset, count)
    BY Zenon, <2>1, <2>3, <2>4 DEF Exact
  <2>6. offset < LongMax => read.ok
    <3>1. offset < LongMax => ~(offset % Word >= LongMax)
      BY <2>2, ReadCacheAssumption
    <3>2. QED
      BY Zenon, <2>1, <3>1 DEF SeeksBelowZero
  <2>7. QED
    BY Zenon, <2>0, <2>5, <2>6
<1>2. QED
  BY <1>1, AlwaysIInv, PTL

\* A size shown with attributes that are the member's now is its size now if no
\* error ended the reading it was taken from, whatever the cached listing said
\* then and whatever else failed before, for any number of members, slots and
\* changes (mvsfsz_get_member_size, vfs_stat_pds_member).
THEOREM SizesFit == Spec => []SizeFits
<1>1. IInv => SizeFits
  BY Zenon, StatKeeps DEF SizeFits
<1>2. QED
  BY <1>1, AlwaysIInv, PTL
=============================================================================
