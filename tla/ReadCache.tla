------------------------------ MODULE ReadCache ------------------------------
(***************************************************************************)
(* The cache of read positions (mvsprw.c).  A member is opened and closed  *)
(* by every READ; where the last one stopped is kept as an fpos_t, so that *)
(* the next need not read its way there.                                   *)
(*                                                                         *)
(* A READ's offset has 64 bits.  The cache keeps 32 of them, and fseek is  *)
(* given a long, in which an offset from 2^31 on is negative.              *)
(*                                                                         *)
(* external: an fpos_t is the place in the text it was taken at, and means *)
(* nothing in a text stored since; fseek goes to the byte it is told, past *)
(* the end too, and refuses a negative one; feof tells that a read ran     *)
(* into the end, not that it stopped at it.                                *)
(***************************************************************************)
EXTENDS Integers, FiniteSets, FiniteSetsExt

CONSTANTS NReads,  \* MVS_RCACHE_ENTRIES
          MaxAge,  \* MVS_RCACHE_MAX_AGE_SECONDS
          LongMax, \* how many values of a long are not negative, 2^31
          NoText   \* the file of an unused entry

ASSUME ReadCacheAssumption ==
  NReads \in Nat \ {0} /\ MaxAge \in Nat /\ LongMax \in Nat \ {0}

\* How many values a uint32_t has.
Word == 2 * LongMax

ReadSlots == 1 .. NReads

\* mvs_rcache_entry_reset.  place and version are last_getpos.
UnusedEntry ==
  [file |-> NoText, used |-> 0, offset |-> 0, nread |-> 0,
   has_getpos |-> FALSE, place |-> 0, version |-> 0]

\* mvs_rcache_init
NoPositions == [i \in ReadSlots |-> UnusedEntry]

\* mvs_rcache_find_entry: the first entry of the file that is not too old.
FindEntry(cache, file, now) ==
  LET hits == {i \in ReadSlots : cache[i].file = file /\ cache[i].used + MaxAge >= now}
  IN IF hits = {} THEN 0 ELSE Min(hits)

\* mvs_rcache_get_free_entry: the first unused or too old, else the one not
\* used for longest.
GetFreeEntry(cache, now) ==
  LET free == {i \in ReadSlots : cache[i].file = NoText \/ cache[i].used + MaxAge < now}
  IN IF free # {} THEN Min(free)
     ELSE Min({i \in ReadSlots : \A j \in ReadSlots : cache[i].used <= cache[j].used})

\* mvs_pds_member_read, the choice of an entry.
ChosenEntry(cache, file, offset, now) ==
  LET found == IF offset = 0 THEN 0 ELSE FindEntry(cache, file, now)
  IN IF found # 0 THEN found ELSE GetFreeEntry(cache, now)

\* Mutant: a saved position is used for any later offset.
ContinuesFromAny(entry, offset) == entry.has_getpos /\ offset >= entry.offset + entry.nread

Continues(entry, offset) ==
  entry.has_getpos /\ offset = (entry.offset + entry.nread) % Word

\* fseek is asked for (long)offset, and that is negative.
SeeksBelowZero(entry, offset) ==
  offset # 0 /\ ~Continues(entry, offset) /\ offset % Word >= LongMax

\* Where mvs_pds_member_pread starts to read a text; astray is where a
\* position of another text leads.
StartsAt(entry, offset, text, astray) ==
  IF offset = 0 THEN 0
  ELSE IF ~Continues(entry, offset) THEN offset % Word
  ELSE IF entry.version = text.version THEN entry.place
  ELSE astray

\* The entry after a read that did not run into the end.
Noted(entry, offset, nread, place, text, now) ==
  [entry EXCEPT !.used = now, !.offset = offset % Word, !.nread = nread,
                !.has_getpos = TRUE, !.place = place, !.version = text.version]

\* What may fail in a READ: fopen, fsetpos or fseek, fread, fgetpos, fclose.
ReadFaults == {"open", "seek", "read", "getpos", "close"}

\* mvs_pds_member_read of count bytes at offset from the text file has now.
MemberRead(cache, file, text, offset, count, astray, fault, now) ==
  LET i == ChosenEntry(cache, file, offset, now)
      entry == IF offset # 0 /\ FindEntry(cache, file, now) # 0 THEN cache[i]
               ELSE [UnusedEntry EXCEPT !.file = file]
      from == StartsAt(entry, offset, text, astray)
      left == IF from < text.size THEN text.size - from ELSE 0
      eof == count > left
      unsought == offset # 0 /\ (fault = "seek" \/ SeeksBelowZero(entry, offset))
      nread == IF eof THEN left ELSE count
      after == IF fault = "open" THEN entry
               ELSE IF eof \/ unsought \/ fault \in {"read", "getpos"}
                 THEN UnusedEntry
               ELSE Noted(entry, offset, nread, from + nread, text, now)
  IN [cache |-> [cache EXCEPT ![i] = after],
      ok |-> fault \in {"none", "seek", "getpos"} /\ ~unsought,
      from |-> from, nread |-> nread, eof |-> eof]
=============================================================================
