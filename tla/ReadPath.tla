------------------------------- MODULE ReadPath -------------------------------
(***************************************************************************)
(* READ and GETATTR of members that are not pending (nfs3.c, mvsvfs.c),    *)
(* over the read positions, the sizes and a cached listing, while members  *)
(* are replaced, by this server's flushes or by jobs.  One action is one   *)
(* RPC; any client may ask for any offset at any time, and ask twice.      *)
(*                                                                         *)
(* The cached listing is Listing's subject: here it is a directory as it   *)
(* was when it was read, or there is none.                                 *)
(***************************************************************************)
EXTENDS ReadCache, SizeCache, TLC

CONSTANTS Files,       \* the members
          Offsets,     \* where a READ asks for it
          Counts,      \* how much a READ asks for
          MaxSize,     \* bound: size of a member
          MaxTime,     \* bound: time(NULL), which starts above MaxAge
          MaxChanges,  \* bound: members stored or deleted
          MaxFaults,   \* bound: requests that meet an error
          NoListing    \* no listing is cached

\* A READ asks for a byte at least; a member's bytes can be counted in a word.
ASSUME ReadPathAssumption ==
  /\ NotInUse \notin Files /\ NoText \notin Files
  /\ Offsets \subseteq Nat /\ Counts \subseteq Nat \ {0}
  /\ MaxSize \in Nat /\ MaxSize < Word
  /\ MaxChanges \in Nat /\ MaxFaults \in Nat
  /\ MaxTime \in Nat /\ MaxTime > MaxAge

VARIABLES now,      \* time(NULL)
          texts,    \* each member on disk: version and size in bytes
          listed,   \* the versions the cached listing shows, or NoListing
          sizes,    \* g_cache of mvsfsz.c
          reads,    \* g_mvs_rcache_entries
          changes,  \* how many changes there have been
          faults,   \* how many errors there have been
          crossed   \* history: files changed while a position in them was kept

vars == <<now, texts, listed, sizes, reads, changes, faults, crossed>>

Absent == [version |-> 0, size |-> 0]
Texts == {Absent} \cup [version : 1 .. MaxChanges + 1, size : 0 .. MaxSize]
Shown == [f \in Files |-> texts[f].version]

Init ==
  /\ now = MaxAge + 1
  /\ texts = [f \in Files |-> [version |-> 1, size |-> MaxSize]]
  /\ listed = NoListing
  /\ sizes = NoSizes
  /\ reads = NoPositions
  /\ changes = 0 /\ faults = 0
  /\ crossed = {}

\* How reading a member through for its size may go, and how it goes when
\* nothing fails.
Throughs(f) ==
  [opens : {FALSE}, bytes : {0}]
    \cup [opens : {texts[f] # Absent} \ {FALSE}, bytes : 0 .. texts[f].size]

AllThrough(f) == [opens |-> texts[f] # Absent, bytes |-> texts[f].size]

\* vfs_stat_pds_member: the cached entry, else the directory's, and its size.
\* exists is FALSE for ENOENT; known is FALSE when the size was never set,
\* which the attributes then show.
StatMember(f, through) ==
  LET version == IF listed # NoListing /\ listed[f] # 0 THEN listed[f] ELSE texts[f].version
      got == GetMemberSize(sizes, f, version, through, texts[f].size, now)
  IN IF version = 0
     THEN [exists |-> FALSE, version |-> 0, sizes |-> sizes,
           known |-> FALSE, size |-> 0, whole |-> TRUE]
     ELSE [exists |-> TRUE, version |-> version,
           sizes |-> got.cache,
           known |-> got.known, size |-> got.size, whole |-> got.whole]

\* What a request that meets these errors takes of the bound on them.
Spent(f, through, fault) ==
  (IF through = AllThrough(f) THEN 0 ELSE 1) + (IF fault = "none" THEN 0 ELSE 1)

Getattr(f, through) ==
  /\ faults + Spent(f, through, "none") <= MaxFaults
  /\ faults' = faults + Spent(f, through, "none")
  /\ sizes' = StatMember(f, through).sizes
  /\ UNCHANGED <<now, texts, listed, reads, changes, crossed>>

\* A file keeps being crossed while a position in it may be found.
StillCrossed(cache, time) == {f \in crossed : FindEntry(cache, f, time) # 0}

\* Where the position a READ goes on from may lead, if it is of another text.
Astray(f, offset) ==
  LET i == FindEntry(reads, f, now)
  IN IF f \in crossed /\ offset # 0 /\ i # 0 /\ Continues(reads[i], offset)
     THEN 0 .. MaxSize ELSE {0}

\* proc_read: the attributes, then the data.  No member, no file to open.
Read(f, through, offset, count, astray, fault) ==
  /\ faults' = faults + Spent(f, through, fault)
  /\ sizes' = StatMember(f, through).sizes
  /\ reads' = MemberRead(reads, f, texts[f], offset, count, astray,
                         IF texts[f] = Absent THEN "open" ELSE fault, now).cache
  /\ crossed' = StillCrossed(reads', now)
  /\ UNCHANGED <<now, texts, listed, changes>>

\* A listing is read and cached, or invalidated, evicted or expired.
ListingChanges ==
  /\ listed' \in {Shown, NoListing} \ {listed}
  /\ UNCHANGED <<now, texts, sizes, reads, changes, faults, crossed>>

\* external: a member is stored, or deleted, by a job or by a flush; a flush
\* drops the cached listing, which is ListingChanges.
Change(f) ==
  /\ changes < MaxChanges
  /\ changes' = changes + 1
  /\ \E size \in 0 .. MaxSize :
       texts' = [texts EXCEPT ![f] = IF texts[f] # Absent /\ size = 0 THEN Absent
                                     ELSE [version |-> changes + 2, size |-> size]]
  /\ crossed' = IF FindEntry(reads, f, now) # 0 THEN crossed \cup {f} ELSE crossed
  /\ UNCHANGED <<now, listed, sizes, reads, faults>>

\* A second passes.  An entry that is too old is as good as an unused one.
Tick ==
  /\ now < MaxTime
  /\ now' = now + 1
  /\ reads' = [i \in ReadSlots |-> IF reads[i].used + MaxAge < now' THEN UnusedEntry ELSE reads[i]]
  /\ crossed' = StillCrossed(reads', now')
  /\ UNCHANGED <<texts, listed, sizes, changes, faults>>

Next ==
  \/ Tick
  \/ ListingChanges
  \/ \E f \in Files :
       \/ Change(f)
       \/ \E through \in Throughs(f) : Getattr(f, through)
       \/ \E through \in Throughs(f), fault \in {"none"} \cup ReadFaults :
            /\ faults + Spent(f, through, fault) <= MaxFaults
            /\ \E offset \in Offsets, count \in Counts : \E astray \in Astray(f, offset) :
                 Read(f, through, offset, count, astray, fault)

Spec == Init /\ [][Next]_vars

\* No action tells one member from another.
FileSymmetry == Permutations(Files)

-----------------------------------------------------------------------------
(* What is checked *)

\* The types of the caches: a size and a position are within the member's limits
\* and no entry was used in the future.
TypeOK ==
  /\ now \in MaxAge + 1 .. MaxTime /\ changes \in 0 .. MaxChanges /\ faults \in 0 .. MaxFaults
  /\ texts \in [Files -> Texts]
  /\ listed = NoListing \/ listed \in [Files -> 0 .. MaxChanges + 1]
  /\ \A i \in SizeSlots : /\ sizes[i].file \in Files \cup {NotInUse}
                          /\ sizes[i].size \in 0 .. MaxSize /\ sizes[i].used \in 0 .. now
  /\ \A i \in ReadSlots : /\ reads[i].file \in Files \cup {NoText}
                          /\ reads[i].used \in 0 .. now
                          /\ reads[i].offset \in 0 .. Word - 1
                          /\ {reads[i].nread, reads[i].place} \subseteq 0 .. MaxSize
  /\ crossed \in SUBSET Files

\* What a READ served now returns, if nothing fails.
ReadNow(f, offset, count) ==
  MemberRead(reads, f, texts[f], offset, count, 0, "none", now)

\* A READ that returned read gave the bytes at offset, as many as there are,
\* and eof exactly if there are not count of them.
Exact(read, f, offset, count) ==
  /\ read.nread > 0 => read.from = offset
  /\ read.eof = (offset + count > texts[f].size)

\* A READ served now at an offset of 32 bits, however other reads of the same
\* and of other members were interleaved, repeated, failed, went to offsets of
\* more than 32 bits or were evicted before it, is exact if it is answered,
\* and is answered if a long can hold the offset; except while a position
\* taken before the member changed is still kept (mvs_pds_member_read,
\* mvs_pds_member_pread).
ReadExact ==
  \A f \in Files, offset \in Offsets, count \in Counts :
    texts[f] # Absent /\ f \notin crossed /\ offset < Word =>
      LET read == ReadNow(f, offset, count)
      IN /\ read.ok => Exact(read, f, offset, count)
         /\ offset < LongMax => read.ok

\* The same of every offset.  The code does not have this: fseek is given the
\* low 32 bits, so that an offset of 2^32 or more reads the bytes at them.
ReadExactAnywhere ==
  \A f \in Files, offset \in Offsets, count \in Counts :
    texts[f] # Absent /\ f \notin crossed =>
      LET read == ReadNow(f, offset, count)
      IN read.ok => Exact(read, f, offset, count)

\* A size reported with attributes that are those of the member now is its
\* size now: no size of an earlier or a later text is ever shown with them,
\* whatever the listing said when the size was taken; if the member opens, and
\* no error ended the reading the size was taken from (mvsfsz_get_member_size,
\* vfs_stat_pds_member).
SizeFits ==
  \A f \in Files :
    LET stat == StatMember(f, AllThrough(f))
    IN stat.exists /\ stat.version = texts[f].version =>
         stat.known /\ (stat.whole => stat.size = texts[f].size)

\* The same whatever errors there were before.  The code does not have this:
\* the loop that counts the bytes does not ask ferror, so that an error leaves
\* a size too small, which is kept for as long as the member is not stored
\* again.
SizeFitsAfterErrors ==
  \A f \in Files :
    LET stat == StatMember(f, AllThrough(f))
    IN stat.exists /\ stat.version = texts[f].version =>
         stat.known /\ stat.size = texts[f].size
=============================================================================
