-------------------------- MODULE WritePathProofs ---------------------------
(***************************************************************************)
(* Proofs about the write path, for every number of members, slots and     *)
(* units, every timeout and every set of flush and release outcomes.       *)
(*                                                                         *)
(* First what one step of the pool of pending members does: the types of   *)
(* what it computes, the inductive invariant PoolInv, what it takes for a  *)
(* step that rewrites some slots to preserve it (Frame), the forms a slot  *)
(* takes in a request, and what a flush, a release, an eviction and a lock *)
(* do to the PDS and to the cached listings.  Then one lemma per handler.  *)
(*                                                                         *)
(* The four theorems rest on IInv, which is PoolInv and two types more.    *)
(* None of OneSlotPerMember, FlagsNeverLie and AcknowledgedKept is         *)
(* inductive alone: a release frees what its slot's flags name, so that    *)
(* FlagsNeverLie survives it only because no other slot names that member, *)
(* and AcknowledgedKept survives it only because a vacated slot was        *)
(* flushed first and no second slot is owed the same content.              *)
(***************************************************************************)
EXTENDS WritePath, TLAPS

-----------------------------------------------------------------------------
(* The bytes of a member *)

\* A sequence of at most MaxLen units is a content a slot can have.
LEMMA ContentIntro ==
  ASSUME NEW n \in 0 .. MaxLen, NEW c \in [1 .. n -> Units]
  PROVE  c \in Contents
  BY Zenon DEF Contents

\* What a content is made of.
LEMMA ContentElim ==
  ASSUME NEW c \in Contents
  PROVE  /\ Len(c) \in 0 .. MaxLen
         /\ c \in [1 .. Len(c) -> Units]
         /\ DOMAIN c = 1 .. Len(c)
<1>1. PICK n \in 0 .. MaxLen : c \in [1 .. n -> Units]
  BY Zenon DEF Contents
<1>2. c \in Seq(Units) /\ Len(c) = n
  BY <1>1, MemberBytesAssumption
<1> QED
  BY Zenon, <1>1, <1>2

\* Storing a payload within the cap leaves a content.
LEMMA OverlayType ==
  ASSUME NEW c \in Contents, NEW off \in Nat, NEW dat \in Payloads,
         off + Len(dat) <= MaxLen
  PROVE  Overlay(c, off, dat) \in Contents
<1>1. /\ Len(c) \in 0 .. MaxLen
      /\ c \in [1 .. Len(c) -> Units]
  BY Zenon, ContentElim
<1>2. /\ Len(dat) \in {0, 1}
      /\ \A k \in 1 .. Len(dat) : dat[k] \in Units
  BY DEF Payloads, Units
<1>3. Larger(Len(c), off + Len(dat)) \in 0 .. MaxLen
  BY <1>1, <1>2, MemberBytesAssumption DEF Larger
<1>4. Overlay(c, off, dat) \in [1 .. Larger(Len(c), off + Len(dat)) -> Units]
  BY <1>1, <1>2, <1>3 DEF Overlay, Units
<1> QED
  BY Zenon, <1>3, <1>4, ContentIntro

\* A new size within the cap leaves a content.
LEMMA ResizeType ==
  ASSUME NEW c \in Contents, NEW n \in 0 .. MaxLen
  PROVE  Resize(c, n) \in Contents
<1>1. /\ Len(c) \in 0 .. MaxLen
      /\ c \in [1 .. Len(c) -> Units]
  BY Zenon, ContentElim
<1>2. Resize(c, n) \in [1 .. n -> Units]
  BY <1>1 DEF Resize, Units
<1> QED
  BY Zenon, <1>2, ContentIntro

\* What an unfinished or failed store leaves is a content too.
LEMMA ScrapsType ==
  ASSUME NEW c \in Contents
  PROVE  Prefixes(c) \subseteq Contents /\ Garbled(c) \subseteq Contents
<1>1. /\ Len(c) \in 0 .. MaxLen
      /\ c \in [1 .. Len(c) -> Units]
      /\ DOMAIN c = 1 .. Len(c)
  BY Zenon, ContentElim
<1>2. ASSUME NEW n \in 0 .. Len(c)
      PROVE  [k \in 1 .. n |-> c[k]] \in Contents
  <2>1. [k \in 1 .. n |-> c[k]] \in [1 .. n -> Units]
    BY <1>1
  <2>2. n \in 0 .. MaxLen
    BY <1>1, MemberBytesAssumption
  <2> QED
    BY Zenon, <2>1, <2>2, ContentIntro
<1>3. Garbled(c) \subseteq Contents
  BY Zenon, <1>1, ContentIntro DEF Garbled
<1> QED
  BY Zenon, <1>2, <1>3 DEF Prefixes

\* No bytes at all are a content, and so is every payload.
LEMMA PayloadType ==
  <<>> \in Contents /\ Payloads \subseteq Contents
<1>1. <<>> \in Contents
  <2>1. <<>> \in [1 .. 0 -> Units]
    OBVIOUS
  <2>2. 0 \in 0 .. MaxLen
    BY MemberBytesAssumption
  <2> QED
    BY Zenon, <2>1, <2>2, ContentIntro
<1>2. ASSUME NEW d \in Data
      PROVE  <<d>> \in Contents
  <2>1. <<d>> \in [1 .. 1 -> Units]
    BY DEF Units
  <2>2. 1 \in 0 .. MaxLen
    BY MemberBytesAssumption
  <2> QED
    BY Zenon, <2>1, <2>2, ContentIntro
<1> QED
  BY Zenon, <1>1, <1>2 DEF Payloads

-----------------------------------------------------------------------------
(* The memory of full datasets *)

\* mark_full and clear_full keep the full table well formed.
LEMMA FullTableTypes ==
  ASSUME NEW t \in FullTables, NEW ds \in Datasets
  PROVE  /\ MarkFull(t, ds) \in FullTables
         /\ ClearFull(t, ds) \in FullTables
<1>1. MarkFull(t, ds) \in FullTables
  <2> DEFINE E == [dsname : Datasets \cup {NoDataset}, age : 0 .. FullExpiry + 1]
  <2>1. [dsname |-> ds, age |-> 0] \in E
    BY FullTableAssumption
  <2>2. t \in [FullEntries -> E]
    BY Zenon DEF FullTables
  <2>3. \A k : [t EXCEPT ![k] = [dsname |-> ds, age |-> 0]] \in [FullEntries -> E]
    BY Zenon, <2>1, <2>2
  <2> QED
    BY Zenon, <2>3 DEF MarkFull, FullTables
<1>2. ClearFull(t, ds) \in FullTables
  BY FullTableAssumption DEF ClearFull, Unused, FullTables
<1> QED
  BY Zenon, <1>1, <1>2

\* So does a second passing.
LEMMA AgedType ==
  ASSUME NEW t \in FullTables
  PROVE  Aged(t) \in FullTables
<1> DEFINE E == [dsname : Datasets \cup {NoDataset}, age : 0 .. FullExpiry + 1]
<1>1. ASSUME NEW k \in FullEntries
      PROVE  (IF t[k].age < FullExpiry THEN [t[k] EXCEPT !.age = @ + 1] ELSE Unused) \in E
  <2>1. t[k] \in E
    BY Zenon DEF FullTables
  <2>2. Unused \in E
    BY FullTableAssumption DEF Unused
  <2>3. CASE t[k].age < FullExpiry
    <3>1. t[k].age + 1 \in 0 .. FullExpiry + 1
      BY <2>1, <2>3, FullTableAssumption
    <3> QED
      BY Zenon, <2>1, <2>3, <3>1
  <2> QED
    BY Zenon, <2>2, <2>3
<1> QED
  BY Zenon, <1>1 DEF Aged, FullTables

\* The table of a fresh task is well formed.
LEMMA EmptyFullType == EmptyFull \in FullTables
  BY FullTableAssumption DEF EmptyFull, Unused, FullTables

-----------------------------------------------------------------------------
(* One step of the pool on the world around it *)

\* A slot that is USED names a member, and only a USED slot is dirty.
Coherent(s) ==
  /\ s \in SlotType
  /\ s.status = "USED" => s.member \in Members
  /\ s.status = "FREE" => ~s.dirty

\* Outside member m, worlds u and w are serialised and owed alike.
SameElsewhere(u, w, m) ==
  \A x \in Members \ {m} :
    w.enq[x] = u.enq[x] /\ (x \in w.alloc <=> x \in u.alloc) /\ w.fate[x] = u.fate[x]

\* A world is the record of its fields.
LEMMA WorldRecord ==
  ASSUME NEW w \in WorldType
  PROVE  w = [enq |-> w.enq, alloc |-> w.alloc, full |-> w.full, fatal |-> w.fatal,
              disk |-> w.disk, listing |-> w.listing, fate |-> w.fate]
  BY Zenon DEF WorldType

\* A flush touches no lock, and only its own member's fate, which it settles.
LEMMA FlushStep ==
  ASSUME NEW w \in WorldType, NEW s, Coherent(s), s.status = "USED", s.dirty,
         NEW f \in Flushes(w, s)
  PROVE  /\ Flush(w, s, f) \in WorldType
         /\ SameElsewhere(w, Flush(w, s, f), s.member)
         /\ Flush(w, s, f).enq = w.enq
         /\ Flush(w, s, f).alloc = w.alloc
         /\ Flush(w, s, f).fate[s.member] \in {"stowed", "failed"}
         /\ w.fatal => Flush(w, s, f).fatal
<1> DEFINE m  == s.member
           ds == DatasetOf[m]
           u  == Flush(w, s, f)
<1>1. m \in Members /\ ds \in Datasets
  BY Zenon, PendingPoolAssumption DEF Coherent
<1>2. f.left \in Contents \cup {Absent}
  <2>1. s.content \in Contents /\ Prefixes(s.content) \subseteq Contents
    BY Zenon, ScrapsType DEF Coherent, SlotType
  <2>2. w.disk[m] \in Contents \cup {Absent}
    BY Zenon, <1>1 DEF WorldType
  <2> QED
    BY Zenon, <2>1, <2>2 DEF Flushes
<1>3. CASE IsFull(w.full, ds)
  <2>1. u = [w EXCEPT !.fate[m] = "failed"]
    BY Zenon, <1>3 DEF Flush
  <2>2. u = [enq |-> w.enq, alloc |-> w.alloc, full |-> w.full, fatal |-> w.fatal,
             disk |-> w.disk, listing |-> w.listing,
             fate |-> [w.fate EXCEPT ![m] = "failed"]]
    BY <2>1, WorldRecord
  <2> QED
    BY <1>1, <2>2 DEF WorldType, SameElsewhere
<1>4. CASE ~IsFull(w.full, ds)
  <2> DEFINE nf == CASE f.rc \in {"ok", "badstats"} -> ClearFull(w.full, ds)
                     [] f.rc = "space"              -> MarkFull(w.full, ds)
                     [] OTHER                       -> w.full
             na == w.fatal \/ f.rc \in {"badstats", "program"}
             nl == IF f.rc \in {"ok", "badstats"} THEN "none"
                   ELSE IF w.listing[ds] = "current" /\ f.left # w.disk[m]
                        THEN "stale" ELSE w.listing[ds]
             nt == IF f.rc \in {"ok", "badstats"} THEN "stowed" ELSE "failed"
  <2>1. u = [w EXCEPT !.disk[m] = f.left, !.full = nf, !.fatal = na,
                      !.listing[ds] = nl, !.fate[m] = nt]
    BY Zenon, <1>4 DEF Flush
  <2>2. nf \in FullTables
    BY Zenon, <1>1, FullTableTypes DEF WorldType
  <2>3. na \in BOOLEAN /\ (w.fatal => na)
    BY Zenon
  <2>4. nl \in {"none", "current", "stale"} /\ nt \in {"stowed", "failed"}
    BY Zenon, <1>1 DEF WorldType
  <2> HIDE DEF u, m, ds, nf, na, nl, nt
  <2>5. /\ u \in WorldType
        /\ u.enq = w.enq /\ u.alloc = w.alloc
        /\ u.fatal = na
        /\ u.fate = [w.fate EXCEPT ![m] = nt]
    <3>1. u \in WorldType
      BY Zenon, <1>1, <1>2, <2>1, <2>2, <2>3, <2>4 DEF WorldType
    <3>2. u.enq = w.enq /\ u.alloc = w.alloc
      BY Zenon, <2>1 DEF WorldType
    <3>3. u.fatal = na
      BY Zenon, <2>1 DEF WorldType
    <3>4. u.fate = [w.fate EXCEPT ![m] = nt]
      BY Zenon, <2>1 DEF WorldType
    <3> QED
      BY Zenon, <3>1, <3>2, <3>3, <3>4
  <2>6. w.fate \in [Members -> {"none", "owed", "stowed", "failed"}]
    BY Zenon DEF WorldType
  <2>7. SameElsewhere(w, u, m) /\ u.fate[m] \in {"stowed", "failed"}
    BY Zenon, <1>1, <2>4, <2>5, <2>6 DEF SameElsewhere
  <2> QED
    BY Zenon, <2>3, <2>5, <2>7 DEF u, m
<1> QED
  BY Zenon, <1>3, <1>4
\* A release touches only its own member, and leaves it owed or settled as it
\* found it.
LEMMA ReleaseStep ==
  ASSUME NEW w \in WorldType, NEW s, Coherent(s), s.status = "USED",
         NEW r \in [unalloc : ReleaseKinds, deq : ReleaseKinds]
  PROVE  /\ Release(w, s, r) \in WorldType
         /\ SameElsewhere(w, Release(w, s, r), s.member)
         /\ Release(w, s, r).fate[s.member]
              = IF w.fate[s.member] = "owed" THEN "owed" ELSE "none"
<1> DEFINE m  == s.member
           u  == Release(w, s, r)
           na == IF s.allocated /\ r.unalloc = "ok" THEN w.alloc \ {m} ELSE w.alloc
           ne == IF s.enq_held /\ r.deq = "ok" THEN "free" ELSE w.enq[m]
           nb == \/ w.fatal
                 \/ s.allocated /\ r.unalloc = "abend"
                 \/ s.enq_held /\ r.deq = "abend"
           nt == IF w.fate[m] = "owed" THEN w.fate[m] ELSE "none"
<1>1. m \in Members
  BY Zenon DEF Coherent
<1>2. u = [w EXCEPT !.alloc = na, !.enq[m] = ne, !.fatal = nb, !.fate[m] = nt]
  BY Zenon DEF Release
<1>3. /\ na \in SUBSET Members /\ na \subseteq w.alloc /\ w.alloc \subseteq na \cup {m}
      /\ ne \in {"free", "nfsd", "editor"}
      /\ nb \in BOOLEAN
      /\ nt \in {"none", "owed"}
  BY Zenon, <1>1 DEF WorldType
<1>4. nt = IF w.fate[m] = "owed" THEN "owed" ELSE "none"
  BY Zenon
<1> HIDE DEF m, u, na, ne, nb, nt
<1>5. u \in WorldType
  BY Zenon, <1>1, <1>2, <1>3 DEF WorldType
<1>6. u.alloc = na /\ u.enq = [w.enq EXCEPT ![m] = ne]
  BY Zenon, <1>2 DEF WorldType
<1>7. u.fate = [w.fate EXCEPT ![m] = nt]
  BY Zenon, <1>2 DEF WorldType
<1>8. w.fate \in [Members -> {"none", "owed", "stowed", "failed"}]
      /\ w.enq \in [Members -> {"free", "nfsd", "editor"}]
  BY Zenon DEF WorldType
<1>9. SameElsewhere(w, u, m)
  BY Zenon, <1>3, <1>6, <1>7, <1>8 DEF SameElsewhere
<1>10. u.fate[m] = nt
  BY Zenon, <1>1, <1>7, <1>8
<1> QED
  BY Zenon, <1>4, <1>5, <1>9, <1>10 DEF u, m

-----------------------------------------------------------------------------
(* The inductive invariant *)

\* TypeOK, OneSlotPerMember and FlagsNeverLie need each other: a release of
\* one slot frees the enqueue of its own member, which is another slot's only
\* if two slots pend the same member.  AcknowledgedKept adds that content is
\* owed only where it is dirty, so that a release never meets it.
PoolInv ==
  /\ PoolTypeOK
  /\ \A i \in Slots : Coherent(pool[i])
  /\ OneSlotPerMember
  /\ FlagsNeverLie
  /\ AcknowledgedKept

IInv == PoolInv /\ phase \in Phases /\ due \subseteq Slots

\* The variables a step assigns by Become are the fields of its world.
LEMMA BecomeWorld ==
  ASSUME NEW w \in WorldType, Become(w)
  PROVE  World' = w
  BY Zenon, WorldRecord DEF Become, World

\* The slot pww_slot_find returns is the one that pends the member.
LEMMA FoundIsPending ==
  ASSUME OneSlotPerMember, NEW m \in Members
  PROVE  /\ \A i \in Slots : i \in Found(m) <=> Pends(i, m)
         /\ \A i, j \in Found(m) : i = j
         /\ Found(m) \subseteq Slots
  BY PendingPoolAssumption DEF OneSlotPerMember, Found, SlotFind, Pends, Slots

\* The step leaves the locks and the fate of members outside X alone.
Spares(X) ==
  \A x \in Members \ X :
    enq'[x] = enq[x] /\ (x \in alloc' <=> x \in alloc) /\ fate'[x] = fate[x]

\* It keeps the slots that pend a member outside X, but for their content.
KeepsSlots(X) ==
  \A i \in Slots : pool[i].status = "USED" /\ pool[i].member \notin X =>
    /\ pool'[i].status = "USED"
    /\ pool'[i].member = pool[i].member
    /\ pool'[i].dirty = pool[i].dirty
    /\ pool'[i].enq_held = pool[i].enq_held
    /\ pool'[i].allocated = pool[i].allocated

\* What is pending after it was so before, or is a member of X, locked.
LocksSlots(X) ==
  \A i \in Slots : pool'[i].status = "USED" =>
    \/ /\ pool[i].status = "USED"
       /\ pool'[i].member = pool[i].member /\ pool[i].member \notin X
    \/ /\ pool'[i].member \in X
       /\ pool'[i].enq_held /\ enq'[pool'[i].member] = "nfsd"
       /\ pool'[i].allocated /\ pool'[i].member \in alloc'

\* No member of X is pending twice after it.
NoTwins(X) ==
  \A i, j \in Slots :
    /\ pool'[i].status = "USED" /\ pool'[j].status = "USED"
    /\ pool'[i].member = pool'[j].member /\ pool'[i].member \in X
    => i = j

\* It drops nothing owed for a member of X.
KeepsOwed(X) ==
  \A x \in X : fate'[x] = "owed" =>
    \E i \in Slots : pool'[i].status = "USED" /\ pool'[i].member = x /\ pool'[i].dirty

\* Every action changes the locks and the fate of a few members X only.  If it
\* leaves the slots of all others as they were, frees or properly locks the
\* slots of the members of X, and drops nothing owed, the invariant survives.
LEMMA Frame ==
  ASSUME PoolInv, NEW X \in SUBSET Members,
         PoolTypeOK', \A i \in Slots : Coherent(pool'[i]),
         Spares(X), KeepsSlots(X), LocksSlots(X), NoTwins(X), KeepsOwed(X)
  PROVE  PoolInv'
<1> USE DEF Pends
<1>1. Slots' = Slots
  BY Zenon DEF Slots
<1>2. ASSUME NEW i \in Slots, pool'[i].status = "USED", pool'[i].member \notin X
      PROVE  /\ pool[i].status = "USED"
             /\ pool'[i].member = pool[i].member
             /\ pool'[i].dirty = pool[i].dirty
             /\ pool'[i].enq_held = pool[i].enq_held
             /\ pool'[i].allocated = pool[i].allocated
             /\ pool[i].member \in Members \ X
  BY Zenon, <1>2 DEF LocksSlots, KeepsSlots, PoolInv, Coherent
<1>3. OneSlotPerMember'
  BY <1>1, <1>2 DEF NoTwins, OneSlotPerMember, PoolInv
<1>4. FlagsNeverLie'
  BY <1>1, <1>2 DEF LocksSlots, Spares, FlagsNeverLie, PoolInv
<1>5. AcknowledgedKept'
  <2> SUFFICES ASSUME NEW m \in Members, fate'[m] = "owed"
               PROVE  \E i \in Slots : Pends(i, m)' /\ pool'[i].dirty
    BY Zenon, <1>1 DEF AcknowledgedKept
  <2>1. CASE m \in X
    BY Zenon, <2>1 DEF KeepsOwed
  <2>2. CASE m \notin X
    <3>1. PICK i \in Slots : Pends(i, m) /\ pool[i].dirty
      BY <2>2 DEF Spares, AcknowledgedKept, PoolInv
    <3> QED
      BY Zenon, <3>1, <2>2 DEF KeepsSlots
  <2> QED
    BY Zenon, <2>1, <2>2
<1>6. (\A i \in Slots : Coherent(pool[i]))'
  BY Zenon, <1>1 DEF Coherent, SlotType, IdleCap, Contents, Units
<1> QED
  BY Zenon, <1>3, <1>4, <1>5, <1>6 DEF PoolInv

-----------------------------------------------------------------------------
(* The steps that several actions share *)

\* The outcomes of a release are among the kinds there are.
LEMMA ReleasesType ==
  ASSUME NEW s
  PROVE  Releases(s) \subseteq [unalloc : ReleaseKinds, deq : ReleaseKinds]
  BY Zenon, PendingPoolAssumption DEF Releases, ReleaseKinds

\* Vacating a slot touches only the member it pends, and nothing stays owed.
LEMMA VacatedStep ==
  ASSUME PoolInv, NEW v \in Slots, NEW w \in Vacated(v)
  PROVE  /\ w \in WorldType
         /\ pool[v].status = "FREE" => w = World
         /\ SameElsewhere(World, w, pool[v].member)
         /\ pool[v].status = "USED" => w.fate[pool[v].member] # "owed"
<1>1. World \in WorldType /\ Coherent(pool[v]) /\ pool[v].status \in {"FREE", "USED"}
  BY Zenon DEF PoolInv, PoolTypeOK, Coherent, SlotType
<1>2. PICK f \in Flushes(World, pool[v]), r \in Releases(pool[v]) :
        w = Vacate(World, pool[v], f, r)
  BY DEF Vacated
<1>3. r \in [unalloc : ReleaseKinds, deq : ReleaseKinds]
  BY Zenon, ReleasesType
<1>4. CASE pool[v].status = "FREE"
  <2>1. w = World
    BY Zenon, <1>1, <1>2, <1>4 DEF Vacate, Release, Coherent
  <2> QED
    BY Zenon, <1>1, <1>4, <2>1 DEF SameElsewhere
<1>5. CASE pool[v].status = "USED"
  <2> DEFINE m == pool[v].member
             u == IF pool[v].dirty THEN Flush(World, pool[v], f) ELSE World
  <2>1. m \in Members
    BY Zenon, <1>1, <1>5 DEF Coherent
  <2>2. w = Release(u, pool[v], r)
    BY Zenon, <1>2 DEF Vacate
  <2>3. u \in WorldType /\ SameElsewhere(World, u, m) /\ u.fate[m] # "owed"
    <3>1. CASE pool[v].dirty
      BY Zenon, <1>1, <1>5, <3>1, FlushStep
    <3>2. CASE ~pool[v].dirty
      <4>1. fate[m] # "owed"
        BY Zenon, <2>1, <1>5, <3>2 DEF PoolInv, AcknowledgedKept, OneSlotPerMember, Pends
      <4> QED
        BY Zenon, <1>1, <3>2, <4>1 DEF World, SameElsewhere
    <3> QED
      BY Zenon, <3>1, <3>2
  <2> HIDE DEF u
  <2>4. /\ w \in WorldType
        /\ SameElsewhere(u, w, m)
        /\ w.fate[m] = IF u.fate[m] = "owed" THEN "owed" ELSE "none"
    BY <1>1, <1>3, <1>5, <2>2, <2>3, ReleaseStep
  <2> QED
    BY Zenon, <1>5, <2>3, <2>4 DEF SameElsewhere
<1> QED
  BY Zenon, <1>1, <1>4, <1>5

\* Discarding a member touches nothing else, and nothing stays owed for it.
LEMMA DiscardStep ==
  ASSUME PoolInv, NEW u \in WorldType, NEW m \in Members, NEW w \in Discards(u, m)
  PROVE  /\ w \in WorldType
         /\ SameElsewhere(u, w, m)
         /\ w.disk = u.disk
         /\ Found(m) = {} => w = u
         /\ Found(m) # {} => w.fate[m] = "none"
<1>1. CASE Found(m) = {}
  BY <1>1 DEF Discards, SameElsewhere
<1>2. CASE Found(m) # {}
  <2>1. PICK i \in Found(m), r \in Releases(NewSlot(m)) :
          w = [Release(u, pool[i], r) EXCEPT !.fate[m] = "none"]
    BY <1>2 DEF Discards
  <2>2. i \in Slots /\ pool[i].status = "USED" /\ pool[i].member = m /\ Coherent(pool[i])
    BY Zenon, <2>1, FoundIsPending DEF PoolInv, Pends
  <2>3. r \in [unalloc : ReleaseKinds, deq : ReleaseKinds]
    BY Zenon, ReleasesType
  <2> DEFINE x == Release(u, pool[i], r)
  <2>4. x \in WorldType /\ SameElsewhere(u, x, m)
    BY Zenon, <2>2, <2>3, ReleaseStep
  <2>5. x.disk = u.disk
    BY Zenon, <2>2 DEF Release, WorldType
  <2> HIDE DEF x
  <2>6. w = [x EXCEPT !.fate[m] = "none"]
    BY Zenon, <2>1 DEF x
  <2>7. /\ w \in WorldType /\ w.enq = x.enq /\ w.alloc = x.alloc /\ w.disk = x.disk
        /\ w.fate = [x.fate EXCEPT ![m] = "none"]
    BY Zenon, <2>4, <2>6 DEF WorldType
  <2>8. x.fate \in [Members -> {"none", "owed", "stowed", "failed"}]
    BY Zenon, <2>4 DEF WorldType
  <2> QED
    BY Zenon, <1>2, <2>4, <2>5, <2>7, <2>8 DEF SameElsewhere
<1> QED
  BY Zenon, <1>1, <1>2

\* Recording what a client was told changes the fate of its member only.
LEMMA ToldStep ==
  ASSUME NEW w \in WorldType, NEW m \in Members, NEW u, u \in {Owe(w, m), Fail(w, m)}
  PROVE  /\ u \in WorldType
         /\ u.enq = w.enq /\ u.alloc = w.alloc
         /\ SameElsewhere(w, u, m)
         /\ u = Fail(w, m) => u.fate[m] = "failed"
<1>1. ASSUME NEW t \in {"owed", "failed"}, u = [w EXCEPT !.fate[m] = t]
      PROVE  /\ u \in WorldType
             /\ u.enq = w.enq /\ u.alloc = w.alloc
             /\ SameElsewhere(w, u, m)
             /\ u.fate[m] = t
  <2>1. /\ u \in WorldType /\ u.enq = w.enq /\ u.alloc = w.alloc
        /\ u.fate = [w.fate EXCEPT ![m] = t]
    BY Zenon, <1>1 DEF WorldType
  <2>2. w.fate \in [Members -> {"none", "owed", "stowed", "failed"}]
    BY Zenon DEF WorldType
  <2> QED
    BY Zenon, <2>1, <2>2 DEF SameElsewhere
<1>2. CASE u = Owe(w, m)
  <2>1. u.fate[m] = "owed" /\ u \in WorldType /\ u.enq = w.enq /\ u.alloc = w.alloc
        /\ SameElsewhere(w, u, m)
    BY Zenon, <1>1, <1>2 DEF Owe
  <2>2. Fail(w, m).fate[m] = "failed"
    BY Zenon DEF Fail, WorldType
  <2> QED
    BY Zenon, <2>1, <2>2
<1>3. CASE u = Fail(w, m)
  BY Zenon, <1>1, <1>3 DEF Fail
<1> QED
  BY Zenon, <1>2, <1>3

-----------------------------------------------------------------------------
(* The slot of a request *)

\* pww_lock, or a failure of it, touches only its own member.
LEMMA LockStep ==
  ASSUME NEW w \in WorldType, NEW m \in Members
  PROVE  /\ Lock(w, m) \in WorldType
         /\ SameElsewhere(w, Lock(w, m), m)
         /\ Lock(w, m).enq[m] = "nfsd" /\ m \in Lock(w, m).alloc
         /\ Lock(w, m).fate = w.fate
         /\ \A u \in LockFailures(w, m) :
              u \in WorldType /\ SameElsewhere(w, u, m) /\ u.fate = w.fate
<1>1. w.enq \in [Members -> {"free", "nfsd", "editor"}]
  BY Zenon DEF WorldType
<1>2. ASSUME NEW u, u = Lock(w, m)
      PROVE  /\ u \in WorldType /\ u.fate = w.fate
             /\ u.enq = [w.enq EXCEPT ![m] = "nfsd"] /\ u.alloc = w.alloc \cup {m}
  BY Zenon, <1>2 DEF Lock, WorldType
<1>3. ASSUME NEW u, u = [w EXCEPT !.enq[m] = "nfsd"]
      PROVE  /\ u \in WorldType /\ u.fate = w.fate /\ u.alloc = w.alloc
             /\ u.enq = [w.enq EXCEPT ![m] = "nfsd"]
  BY Zenon, <1>3 DEF WorldType
<1>4. SameElsewhere(w, w, m)
  BY Zenon DEF SameElsewhere
<1>5. ASSUME NEW u \in LockFailures(w, m)
      PROVE  u \in WorldType /\ SameElsewhere(w, u, m) /\ u.fate = w.fate
  <2>1. CASE u = w
    BY Zenon, <1>4, <2>1
  <2>2. CASE u = [w EXCEPT !.enq[m] = "nfsd"]
    BY <1>1, <1>3, <2>2 DEF SameElsewhere
  <2> QED
    BY Zenon, <2>1, <2>2 DEF LockFailures
<1> QED
  BY <1>1, <1>2, <1>5 DEF SameElsewhere

\* A slot just taken is locked, clean and coherent.
LEMMA NewSlotForm ==
  ASSUME NEW m \in Members
  PROVE  /\ Coherent(NewSlot(m)) /\ NewSlot(m).status = "USED"
         /\ NewSlot(m).member = m /\ NewSlot(m).enq_held /\ NewSlot(m).allocated
         /\ ~NewSlot(m).dirty
<1>1. 0 \in 0 .. IdleCap
  BY PendingPoolAssumption DEF IdleCap
<1> QED
  BY Zenon, <1>1, PayloadType DEF NewSlot, Coherent, SlotType

\* Accepting new content leaves a slot pending, locked as it was, and dirty.
LEMMA AcceptedForm ==
  ASSUME NEW s, Coherent(s), s.status = "USED", NEW c \in Contents, NEW b \in BOOLEAN
  PROVE  /\ Coherent(Accepted(s, c, b)) /\ Accepted(s, c, b).status = "USED"
         /\ Accepted(s, c, b).member = s.member /\ Accepted(s, c, b).dirty
         /\ Accepted(s, c, b).enq_held = s.enq_held
         /\ Accepted(s, c, b).allocated = s.allocated
<1>1. 0 \in 0 .. IdleCap
  BY PendingPoolAssumption DEF IdleCap
<1> QED
  BY Zenon, <1>1 DEF Accepted, Coherent, SlotType

\* A member that is not pending is owed nothing.
LEMMA NotPendingNotOwed ==
  ASSUME PoolInv, NEW m \in Members, Found(m) = {}
  PROVE  fate[m] # "owed"
  BY Zenon, FoundIsPending DEF PoolInv, AcknowledgedKept

\* What a found slot is known to be.
LEMMA FoundSlot ==
  ASSUME PoolInv, NEW m \in Members, NEW i \in Found(m)
  PROVE  /\ i \in Slots /\ Coherent(pool[i])
         /\ pool[i].status = "USED" /\ pool[i].member = m
         /\ pool[i].content \in Contents
         /\ pool[i].dirty \in BOOLEAN /\ pool[i].begun \in BOOLEAN
         /\ Garbled(pool[i].content) \subseteq Contents
         /\ fate[m] = "owed" => pool[i].dirty
<1>1. i \in Slots /\ pool[i].status = "USED" /\ pool[i].member = m
      /\ \A j \in Slots : Pends(j, m) => j = i
  BY Zenon, FoundIsPending DEF PoolInv, Pends
<1>2. Coherent(pool[i])
  BY Zenon, <1>1 DEF PoolInv
<1>3. pool[i].content \in Contents /\ pool[i].dirty \in BOOLEAN /\ pool[i].begun \in BOOLEAN
  BY Zenon, <1>2 DEF Coherent, SlotType
<1>4. fate[m] = "owed" => pool[i].dirty
  BY Zenon, <1>1 DEF PoolInv, AcknowledgedKept
<1> QED
  BY Zenon, <1>1, <1>2, <1>3, <1>4, ScrapsType

\* Once the source of a RENAME is settled it is owed nothing.
LEMMA SettledStep ==
  ASSUME PoolInv, NEW a \in Members, NEW w \in Settled(a)
  PROVE  /\ w \in WorldType
         /\ w.enq = enq /\ w.alloc = alloc
         /\ SameElsewhere(World, w, a)
         /\ w.fate[a] # "owed"
<1>1. World \in WorldType /\ World.enq = enq /\ World.alloc = alloc /\ World.fate = fate
  BY Zenon DEF PoolInv, PoolTypeOK, World
<1>2. CASE \A i \in Found(a) : ~pool[i].dirty
  <2>1. w = World
    BY Zenon, <1>2 DEF Settled
  <2>2. fate[a] # "owed"
    BY Zenon, <1>2, FoundSlot, NotPendingNotOwed
  <2> QED
    BY Zenon, <1>1, <2>1, <2>2 DEF SameElsewhere
<1>3. CASE \E i \in Found(a) : pool[i].dirty
  <2>1. PICK i \in Found(a) : \E f \in Flushes(World, pool[i]) : w = Flush(World, pool[i], f)
    BY Zenon, <1>3 DEF Settled
  <2>2. pool[i].dirty
    BY Zenon, <1>3, FoundIsPending DEF PoolInv
  <2> QED
    BY <1>1, <2>1, <2>2, FoundSlot, FlushStep
<1> QED
  BY Zenon, <1>2, <1>3

-----------------------------------------------------------------------------
(* The PDS, the cached listings and the table of full datasets *)

\* A flush either stows or meets a dataset known to be full: no abend that
\* loses the content and no I/O error.
FlushOK == FlushOutcomes \subseteq {"ok", "badstats"}

\* A release gives up what it should, or abends and is trapped.
ReleaseOK == ReleaseOutcomes \subseteq {"ok", "abend"}

NoneFull(t) == \A ds \in Datasets : ~IsFull(t, ds)

\* From world u to w the fatal flag stays raised, no listing becomes current,
\* none is taken to be current whose directory changed, and while flushes
\* succeed no dataset becomes full.
Calm(u, w) ==
  /\ u.fatal => w.fatal
  /\ \A ds \in Datasets : u.listing[ds] # "current" => w.listing[ds] # "current"
  /\ \A x \in Members : w.disk[x] # u.disk[x] => w.listing[DatasetOf[x]] # "current"
  /\ FlushOK /\ NoneFull(u.full) => NoneFull(w.full)

\* The PDS is the same but for member m.
DiskElsewhere(u, w, m) == \A x \in Members \ {m} : w.disk[x] = u.disk[x]

\* What two calm steps in a row (a release, then a lock) do is calm.
LEMMA CalmTrans ==
  ASSUME NEW u, NEW v, NEW w, Calm(u, v), Calm(v, w)
  PROVE  Calm(u, w)
BY Zenon, PendingPoolAssumption DEF Calm

\* A world whose PDS, listings and full table are those of another.
LEMMA CalmSame ==
  ASSUME NEW u, NEW w, w.disk = u.disk, w.listing = u.listing, w.full = u.full,
         u.fatal => w.fatal
  PROVE  Calm(u, w) /\ \A m : DiskElsewhere(u, w, m)
BY Zenon DEF Calm, DiskElsewhere

-----------------------------------------------------------------------------
(* One step of the pool *)

\* clear_full makes no dataset full.
LEMMA ClearKeepsNoneFull ==
  ASSUME NEW t \in FullTables, NEW ds \in Datasets, NoneFull(t)
  PROVE  NoneFull(ClearFull(t, ds))
<1> SUFFICES ASSUME NEW d \in Datasets, NEW k \in FullEntries,
                    ClearFull(t, ds)[k].dsname = d, ClearFull(t, ds)[k].age <= FullExpiry
             PROVE  FALSE
  BY Zenon DEF NoneFull, IsFull
<1>1. ClearFull(t, ds)[k] = IF t[k].dsname = ds THEN Unused ELSE t[k]
  BY Zenon DEF ClearFull
<1>2. Unused.age = FullExpiry + 1
  BY Zenon DEF Unused
<1>3. QED
  BY <1>1, <1>2, FullTableAssumption DEF NoneFull, IsFull

\* pdsflush_slot changes the member it stows and no other; a stow leaves the
\* slot's content there and drops the listing.
LEMMA FlushMore ==
  ASSUME NEW w \in WorldType, NEW s, Coherent(s), s.status = "USED", s.dirty,
         NEW f \in Flushes(w, s), NEW u, u = Flush(w, s, f)
  PROVE  /\ Calm(w, u) /\ DiskElsewhere(w, u, s.member)
         /\ Stows(w, s, f) => u.disk[s.member] = s.content /\ u.fate[s.member] = "stowed"
         /\ ~Stows(w, s, f) => u.fate[s.member] = "failed"
         /\ FlushOK /\ ~IsFull(w.full, DatasetOf[s.member]) => Stows(w, s, f)
<1> DEFINE m  == s.member
           ds == DatasetOf[m]
<1>1. m \in Members /\ ds \in Datasets
  BY Zenon, PendingPoolAssumption DEF Coherent
<1>2. f.rc \in FlushOutcomes /\ (f.rc \in {"ok", "badstats"} => f.left = s.content)
  BY Zenon, PendingPoolAssumption DEF Flushes
<1>3. FlushOK => f.rc \in {"ok", "badstats"}
  BY Zenon, <1>2 DEF FlushOK
<1>4. CASE IsFull(w.full, ds)
  <2>1. u = [w EXCEPT !.fate[m] = "failed"]
    BY Zenon, <1>4 DEF Flush
  <2>2. /\ u.disk = w.disk /\ u.listing = w.listing /\ u.full = w.full /\ u.fatal = w.fatal
        /\ u.fate = [w.fate EXCEPT ![m] = "failed"]
    BY Zenon, <2>1 DEF WorldType
  <2>3. u.fate[m] = "failed"
    BY Zenon, <1>1, <2>2 DEF WorldType
  <2>4. ~Stows(w, s, f)
    BY Zenon, <1>4 DEF Stows
  <2>5. Calm(w, u) /\ DiskElsewhere(w, u, m)
    BY Zenon, <2>2, CalmSame
  <2>6. QED
    BY Zenon, <1>4, <2>3, <2>4, <2>5
<1>5. CASE ~IsFull(w.full, ds)
  <2> DEFINE nf == CASE f.rc \in {"ok", "badstats"} -> ClearFull(w.full, ds)
                     [] f.rc = "space"              -> MarkFull(w.full, ds)
                     [] OTHER                       -> w.full
             na == w.fatal \/ f.rc \in {"badstats", "program"}
             nl == IF f.rc \in {"ok", "badstats"} THEN "none"
                   ELSE IF w.listing[ds] = "current" /\ f.left # w.disk[m]
                        THEN "stale" ELSE w.listing[ds]
             nt == IF f.rc \in {"ok", "badstats"} THEN "stowed" ELSE "failed"
  <2>1. u = [w EXCEPT !.disk[m] = f.left, !.full = nf, !.fatal = na,
                      !.listing[ds] = nl, !.fate[m] = nt]
    BY Zenon, <1>5 DEF Flush
  <2>2. f.rc \in {"ok", "badstats"} => nf = ClearFull(w.full, ds)
    BY Zenon
  <2>3. w.fatal => na
    BY Zenon
  <2>4. /\ nl = "current" => w.listing[ds] = "current" /\ f.left = w.disk[m]
        /\ f.rc \in {"ok", "badstats"} => nt = "stowed"
        /\ f.rc \notin {"ok", "badstats"} => nt = "failed"
    BY Zenon
  <2> HIDE DEF m, ds, nf, na, nl, nt
  <2>5. u.disk = [w.disk EXCEPT ![m] = f.left]
    BY Zenon, <2>1 DEF WorldType
  <2>6. u.listing = [w.listing EXCEPT ![ds] = nl]
    BY Zenon, <2>1 DEF WorldType
  <2>7. u.full = nf
    BY Zenon, <2>1 DEF WorldType
  <2>8. u.fatal = na
    BY Zenon, <2>1 DEF WorldType
  <2>9. u.fate = [w.fate EXCEPT ![m] = nt]
    BY Zenon, <2>1 DEF WorldType
  <2>10. /\ w.disk \in [Members -> Contents \cup {Absent}]
         /\ w.listing \in [Datasets -> {"none", "current", "stale"}]
         /\ w.fate \in [Members -> {"none", "owed", "stowed", "failed"}]
         /\ w.full \in FullTables
    BY Zenon DEF WorldType
  <2>11. DiskElsewhere(w, u, m) /\ u.disk[m] = f.left /\ u.fate[m] = nt
    BY <1>1, <2>5, <2>9, <2>10 DEF DiskElsewhere
  <2>12. /\ \A d \in Datasets : w.listing[d] # "current" => u.listing[d] # "current"
         /\ u.disk[m] # w.disk[m] => u.listing[ds] # "current"
    BY Zenon, <1>1, <2>4, <2>6, <2>10, <2>11
  <2>13. \A x \in Members : u.disk[x] # w.disk[x] => u.listing[DatasetOf[x]] # "current"
    BY Zenon, <2>11, <2>12 DEF DiskElsewhere, ds
  <2>14. FlushOK /\ NoneFull(w.full) => NoneFull(u.full)
    BY Zenon, <1>1, <1>3, <2>2, <2>7, <2>10, ClearKeepsNoneFull
  <2>15. Calm(w, u)
    BY Zenon, <2>3, <2>8, <2>12, <2>13, <2>14 DEF Calm
  <2>16. Stows(w, s, f) <=> f.rc \in {"ok", "badstats"}
    BY Zenon, <1>5 DEF Stows, ds, m
  <2>17. QED
    BY Zenon, <1>2, <1>3, <2>4, <2>11, <2>15, <2>16 DEF m
<1>6. QED
  BY Zenon, <1>4, <1>5

\* pww_slot_release leaves the PDS alone, and gives up what the slot's flags
\* say, or has abended.
LEMMA ReleaseMore ==
  ASSUME NEW w \in WorldType, NEW s, Coherent(s), s.status = "USED",
         s.enq_held, s.allocated, NEW r \in Releases(s), NEW u, u = Release(w, s, r)
  PROVE  /\ u.disk = w.disk /\ u.listing = w.listing /\ u.full = w.full
         /\ w.fatal => u.fatal
         /\ ReleaseOK /\ (u.enq[s.member] = "nfsd" \/ s.member \in u.alloc) => u.fatal
<1> DEFINE m  == s.member
           na == IF s.allocated /\ r.unalloc = "ok" THEN w.alloc \ {m} ELSE w.alloc
           ne == IF s.enq_held /\ r.deq = "ok" THEN "free" ELSE w.enq[m]
           nb == \/ w.fatal
                 \/ s.allocated /\ r.unalloc = "abend"
                 \/ s.enq_held /\ r.deq = "abend"
           nt == IF w.fate[m] = "owed" THEN w.fate[m] ELSE "none"
<1>1. m \in Members
  BY Zenon DEF Coherent
<1>2. u = [w EXCEPT !.alloc = na, !.enq[m] = ne, !.fatal = nb, !.fate[m] = nt]
  BY Zenon DEF Release
<1>3. r.unalloc \in ReleaseOutcomes /\ r.deq \in ReleaseOutcomes
  BY Zenon DEF Releases
<1>4. ReleaseOK /\ (ne = "nfsd" \/ m \in na) => nb
  BY Zenon, <1>3 DEF ReleaseOK
<1>5. w.fatal => nb
  BY Zenon
<1> HIDE DEF m, na, ne, nb, nt
<1>6. u.disk = w.disk /\ u.listing = w.listing /\ u.full = w.full
  BY Zenon, <1>2 DEF WorldType
<1>7. u.alloc = na /\ u.enq = [w.enq EXCEPT ![m] = ne]
  BY Zenon, <1>2 DEF WorldType
<1>8. u.fatal = nb
  BY Zenon, <1>2 DEF WorldType
<1>9. u.enq[m] = ne
  BY Zenon, <1>1, <1>7 DEF WorldType
<1>10. QED
  BY Zenon, <1>4, <1>5, <1>6, <1>7, <1>8, <1>9 DEF m

\* What member m is owed to the outside: an enqueue or an allocation.
HeldIn(w, m) == w.enq[m] = "nfsd" \/ m \in w.alloc

\* A slot vacated: its member is stowed if a flush can, and let go.
LEMMA VacatedMore ==
  ASSUME PoolInv, NEW v \in Slots, NEW w \in Vacated(v)
  PROVE  /\ Calm(World, w) /\ DiskElsewhere(World, w, pool[v].member)
         /\ pool[v].status = "USED" =>
              /\ w.fate[pool[v].member] = "none"
              /\ ReleaseOK /\ HeldIn(w, pool[v].member) => w.fatal
              /\ ~pool[v].dirty => w.disk = disk
              /\ pool[v].dirty /\ FlushOK /\ ~IsFull(full, DatasetOf[pool[v].member]) =>
                   w.disk[pool[v].member] = pool[v].content
<1>1. World \in WorldType /\ Coherent(pool[v]) /\ pool[v].status \in {"FREE", "USED"}
  BY DEF PoolInv, PoolTypeOK, Coherent, SlotType
<1>2. PICK f \in Flushes(World, pool[v]), r \in Releases(pool[v]) :
        w = Vacate(World, pool[v], f, r)
  BY DEF Vacated
<1>3. r \in [unalloc : ReleaseKinds, deq : ReleaseKinds]
  BY ReleasesType
<1>4. World.disk = disk /\ World.full = full /\ World.fate = fate
  BY Zenon DEF World
<1>5. CASE pool[v].status = "FREE"
  <2>1. w = World
    BY Zenon, <1>5, VacatedStep
  <2>2. QED
    BY Zenon, <1>5, <2>1, CalmSame
<1>6. CASE pool[v].status = "USED"
  <2> DEFINE m == pool[v].member
  <2>1. m \in Members /\ pool[v].enq_held /\ pool[v].allocated
    BY Zenon, <1>1, <1>6 DEF Coherent, PoolInv, FlagsNeverLie
  <2>2. PICK u : u = IF pool[v].dirty THEN Flush(World, pool[v], f) ELSE World
    BY Zenon
  <2>3. w = Release(u, pool[v], r)
    BY Zenon, <1>2, <2>2 DEF Vacate
  <2>4. /\ u \in WorldType /\ Calm(World, u) /\ DiskElsewhere(World, u, m)
        /\ u.fate[m] # "owed"
        /\ ~pool[v].dirty => u.disk = disk
        /\ pool[v].dirty /\ FlushOK /\ ~IsFull(full, DatasetOf[m]) =>
             u.disk[m] = pool[v].content
    <3>1. CASE pool[v].dirty
      <4>1. u \in WorldType /\ u.fate[m] \in {"stowed", "failed"}
        BY Zenon, <1>1, <1>6, <2>2, <3>1, FlushStep
      <4>2. /\ Calm(World, u) /\ DiskElsewhere(World, u, m)
            /\ Stows(World, pool[v], f) => u.disk[m] = pool[v].content
            /\ FlushOK /\ ~IsFull(full, DatasetOf[m]) => Stows(World, pool[v], f)
        BY <1>1, <1>4, <1>6, <2>2, <3>1, FlushMore
      <4>3. QED
        BY Zenon, <3>1, <4>1, <4>2
    <3>2. CASE ~pool[v].dirty
      <4>1. fate[m] # "owed"
        BY Zenon, <1>6, <2>1, <3>2 DEF PoolInv, AcknowledgedKept, OneSlotPerMember, Pends
      <4>2. u = World
        BY Zenon, <2>2, <3>2
      <4>3. QED
        BY Zenon, <1>1, <1>4, <3>2, <4>1, <4>2, CalmSame
    <3>3. QED
      BY Zenon, <3>1, <3>2
  <2>5. w.fate[m] = "none"
    BY <1>1, <1>3, <1>6, <2>3, <2>4, ReleaseStep
  <2>6. /\ w.disk = u.disk /\ w.listing = u.listing /\ w.full = u.full
        /\ u.fatal => w.fatal
        /\ ReleaseOK /\ HeldIn(w, m) => w.fatal
    <3>1. u \in WorldType /\ Coherent(pool[v])
      BY Zenon, <1>1, <2>4
    <3>2. /\ w.disk = u.disk /\ w.listing = u.listing /\ w.full = u.full
          /\ u.fatal => w.fatal
          /\ ReleaseOK /\ (w.enq[m] = "nfsd" \/ m \in w.alloc) => w.fatal
      BY <1>6, <2>1, <2>3, <3>1, ReleaseMore
    <3>3. QED
      BY Zenon, <3>2 DEF HeldIn
  <2>7. Calm(u, w)
    BY Zenon, <2>6, CalmSame
  <2>8. Calm(World, w)
    BY Zenon, <2>4, <2>7, CalmTrans
  <2>9. DiskElsewhere(World, w, m)
    BY Zenon, <2>4, <2>6 DEF DiskElsewhere
  <2>10. QED
    BY Zenon, <2>4, <2>5, <2>6, <2>8, <2>9
<1>7. QED
  BY Zenon, <1>1, <1>5, <1>6

\* pww_discard lets its member go and leaves the PDS alone.
LEMMA DiscardMore ==
  ASSUME PoolInv, NEW u \in WorldType, NEW m \in Members, NEW w \in Discards(u, m)
  PROVE  /\ Calm(u, w) /\ w.disk = u.disk /\ w.listing = u.listing
         /\ Found(m) # {} /\ ReleaseOK /\ HeldIn(w, m) => w.fatal
<1>1. CASE Found(m) = {}
  <2>1. w = u
    BY Zenon, <1>1, DiscardStep
  <2>2. QED
    BY Zenon, <1>1, <2>1, CalmSame
<1>2. CASE Found(m) # {}
  <2>1. PICK i \in Found(m), r \in Releases(NewSlot(m)) :
          w = [Release(u, pool[i], r) EXCEPT !.fate[m] = "none"]
    BY <1>2 DEF Discards
  <2>2. /\ i \in Slots /\ pool[i].status = "USED" /\ pool[i].member = m /\ Coherent(pool[i])
        /\ pool[i].enq_held /\ pool[i].allocated
    BY Zenon, <2>1, FoundIsPending DEF PoolInv, Pends, FlagsNeverLie
  <2>3. r \in Releases(pool[i]) /\ r \in [unalloc : ReleaseKinds, deq : ReleaseKinds]
    BY Zenon, <2>2, ReleasesType, NewSlotForm DEF Releases
  <2>4. PICK x : x = Release(u, pool[i], r)
    BY Zenon
  <2>5. x \in WorldType
    BY Zenon, <2>2, <2>3, <2>4, ReleaseStep
  <2>6. /\ x.disk = u.disk /\ x.listing = u.listing /\ x.full = u.full
        /\ u.fatal => x.fatal
        /\ ReleaseOK /\ HeldIn(x, m) => x.fatal
    BY <2>2, <2>3, <2>4, ReleaseMore DEF HeldIn
  <2>7. w = [x EXCEPT !.fate[m] = "none"]
    BY Zenon, <2>1, <2>4
  <2>8. /\ w.disk = x.disk /\ w.listing = x.listing /\ w.full = x.full /\ w.fatal = x.fatal
        /\ w.enq = x.enq /\ w.alloc = x.alloc
    BY Zenon, <2>5, <2>7 DEF WorldType
  <2>9. QED
    BY Zenon, <2>6, <2>8, CalmSame DEF HeldIn
<1>3. QED
  BY Zenon, <1>1, <1>2

\* pww_lock, its failures and what a client is told leave the PDS alone.
LEMMA LockMore ==
  ASSUME NEW w \in WorldType, NEW m \in Members, NEW u,
         u \in {Lock(w, m), Owe(w, m), Fail(w, m)} \/ u \in LockFailures(w, m)
  PROVE  /\ u.disk = w.disk /\ u.listing = w.listing /\ u.full = w.full /\ u.fatal = w.fatal
         /\ Calm(w, u)
         /\ u \in LockFailures(w, m) /\ ReleaseOK => u = w
<1>1. \/ u = w \/ u = Lock(w, m) \/ u = [w EXCEPT !.enq[m] = "nfsd"]
      \/ \E t \in {"owed", "failed"} : u = [w EXCEPT !.fate[m] = t]
  BY Zenon DEF LockFailures, Owe, Fail
<1>2. u.disk = w.disk /\ u.listing = w.listing /\ u.full = w.full /\ u.fatal = w.fatal
  <2>1. CASE u = w
    BY Zenon, <2>1
  <2>2. CASE u = Lock(w, m)
    BY Zenon, <2>2 DEF Lock, WorldType
  <2>3. CASE u = [w EXCEPT !.enq[m] = "nfsd"]
    BY Zenon, <2>3 DEF WorldType
  <2>4. CASE \E t \in {"owed", "failed"} : u = [w EXCEPT !.fate[m] = t]
    BY Zenon, <2>4 DEF WorldType
  <2>5. QED
    BY Zenon, <1>1, <2>1, <2>2, <2>3, <2>4
<1>3. u \in LockFailures(w, m) /\ ReleaseOK => u = w
  BY Zenon DEF LockFailures, ReleaseOK
<1>4. QED
  BY Zenon, <1>2, <1>3, CalmSame

-----------------------------------------------------------------------------
(* A slot is rewritten, evicted or swept *)

\* A request for a pending member rewrites its slot and keeps its locks.
LEMMA Rewritten ==
  ASSUME PoolInv, NEW m \in Members, NEW i \in Found(m),
         NEW s, Coherent(s), s.status = "USED", s.member = m,
         s.enq_held = pool[i].enq_held, s.allocated = pool[i].allocated,
         SetSlot(i, s),
         NEW w \in WorldType, Become(w), w.enq = enq, w.alloc = alloc,
         SameElsewhere(World, w, m),
         w.fate[m] = "owed" => s.dirty
  PROVE  PoolInv'
<1>1. i \in Slots /\ pool[i].status = "USED" /\ pool[i].member = m
      /\ \A j \in Slots : pool[j].status = "USED" /\ pool[j].member = m => j = i
  BY FoundIsPending DEF PoolInv, Pends
<1>2. World' = w
  BY Zenon, BecomeWorld
<1>3. pool \in [Slots -> SlotType] /\ s \in SlotType /\ World \in WorldType
  BY Zenon DEF PoolInv, PoolTypeOK, Coherent
<1>4. pool' \in [Slots -> SlotType] /\ pool'[i] = s
      /\ \A j \in Slots \ {i} : pool'[j] = pool[j]
  BY Zenon, <1>1, <1>3 DEF SetSlot
<1>5. PoolTypeOK'
  BY Zenon, <1>2, <1>4 DEF PoolTypeOK, Slots, SlotType, WorldType, IdleCap, FullTables,
     FullEntries,
     Contents, Units
<1>6. \A j \in Slots : Coherent(pool'[j])
  BY Zenon, <1>4 DEF PoolInv
<1>7. pool[i].enq_held /\ pool[i].allocated /\ enq[m] = "nfsd" /\ m \in alloc
  BY Zenon, <1>1 DEF PoolInv, FlagsNeverLie
<1>8. enq' = enq /\ alloc' = alloc /\ fate' = w.fate
  BY Zenon DEF Become
<1> DEFINE X == {m}
<1>9. Spares(X)
  BY Zenon DEF SameElsewhere, Become, World, Spares
<1>10. KeepsSlots(X)
  BY Zenon, <1>1, <1>4 DEF KeepsSlots
<1>11. LocksSlots(X)
  BY Zenon, <1>1, <1>4, <1>7, <1>8 DEF LocksSlots
<1>12. NoTwins(X)
  BY Zenon, <1>1, <1>4 DEF NoTwins
<1>13. KeepsOwed(X)
  BY Zenon, <1>1, <1>4, <1>8 DEF KeepsOwed
<1> QED
  BY Zenon, <1>5, <1>6, <1>9, <1>10, <1>11, <1>12, <1>13, Frame

\* A slot is vacated and left as s, for a member of M if it is used again.
LEMMA Evicted ==
  ASSUME PoolInv, NEW v \in Slots, NEW w \in Vacated(v),
         NEW M \in SUBSET Members, \A x \in M : Found(x) = {},
         NEW u \in WorldType,
         \A x \in Members \ M :
            u.enq[x] = w.enq[x] /\ (x \in u.alloc <=> x \in w.alloc) /\ u.fate[x] = w.fate[x],
         NEW s, Coherent(s), SetSlot(v, s), Become(u),
         s.status = "USED" =>
            /\ s.member \in M
            /\ s.enq_held /\ u.enq[s.member] = "nfsd"
            /\ s.allocated /\ s.member \in u.alloc,
         \A x \in M : u.fate[x] = "owed" => s.status = "USED" /\ s.member = x /\ s.dirty
  PROVE  PoolInv'
<1> DEFINE X == M \cup {x \in Members : Pends(v, x)}
<1>1. X \in SUBSET Members
  BY Zenon
<1>2. World' = u /\ enq' = u.enq /\ alloc' = u.alloc /\ fate' = u.fate
  BY Zenon, BecomeWorld DEF Become
<1>3. pool \in [Slots -> SlotType] /\ s \in SlotType /\ World \in WorldType
  BY Zenon DEF PoolInv, PoolTypeOK, Coherent
<1>4. pool' \in [Slots -> SlotType] /\ pool'[v] = s
      /\ \A j \in Slots \ {v} : pool'[j] = pool[j]
  BY Zenon, <1>3 DEF SetSlot
<1>5. PoolTypeOK'
  BY Zenon, <1>2, <1>4 DEF PoolTypeOK, Slots, SlotType, WorldType, IdleCap, FullTables,
     FullEntries,
     Contents, Units
<1>6. \A j \in Slots : Coherent(pool'[j])
  BY Zenon, <1>4 DEF PoolInv
<1>7. /\ w \in WorldType
      /\ pool[v].status = "FREE" => w = World
      /\ SameElsewhere(World, w, pool[v].member)
      /\ pool[v].status = "USED" => w.fate[pool[v].member] # "owed"
  BY Zenon, VacatedStep
<1>8. pool[v].status \in {"FREE", "USED"}
  BY Zenon, <1>3 DEF SlotType
<1>9. \A j \in Slots : pool[j].status = "USED" => pool[j].member \in Members \ M
  BY Zenon, FoundIsPending DEF PoolInv, Coherent, Pends
<1>10. \A j \in Slots \ {v} : pool[j].status = "USED" => pool[j].member \notin X
  BY Zenon, <1>9 DEF PoolInv, OneSlotPerMember, Pends
<1>11. \A x \in Members \ X :
         w.enq[x] = enq[x] /\ (x \in w.alloc <=> x \in alloc) /\ w.fate[x] = fate[x]
  BY <1>7, <1>8 DEF SameElsewhere, World, Pends
<1>12. Spares(X)
  BY Zenon, <1>2, <1>11 DEF Spares
<1>13. KeepsSlots(X)
  BY Zenon, <1>4, <1>9 DEF KeepsSlots, Pends
<1>14. LocksSlots(X)
  BY <1>2, <1>4, <1>10 DEF LocksSlots
<1>15. NoTwins(X)
  BY <1>4, <1>10 DEF NoTwins
<1>16. KeepsOwed(X)
  <2> SUFFICES ASSUME NEW x \in X, u.fate[x] = "owed"
               PROVE  x \in M
    BY <1>2, <1>4 DEF KeepsOwed
  <2> QED
    BY Zenon, <1>7 DEF Pends
<1> QED
  BY Zenon, <1>1, <1>5, <1>6, <1>12, <1>13, <1>14, <1>15, <1>16, Frame

\* A slot is vacated and left free.
LEMMA EvictedFree ==
  ASSUME PoolInv, NEW v \in Slots, NEW w \in Vacated(v),
         NEW M \in SUBSET Members, \A x \in M : Found(x) = {},
         NEW u \in WorldType,
         \A x \in Members \ M :
            u.enq[x] = w.enq[x] /\ (x \in u.alloc <=> x \in w.alloc) /\ u.fate[x] = w.fate[x],
         SetSlot(v, FreeSlot), Become(u),
         \A x \in M : u.fate[x] # "owed"
  PROVE  PoolInv'
<1>1. Coherent(FreeSlot) /\ FreeSlot.status # "USED"
  BY PayloadType, PendingPoolAssumption DEF Coherent, FreeSlot, SlotType, IdleCap
<1> QED
  BY ZenonT(30), <1>1, Evicted

\* A slot swept or drained.
LEMMA SweptSlot ==
  ASSUME PoolInv, NEW v \in Slots, NEW w \in Vacated(v), SetSlot(v, FreeSlot), Become(w)
  PROVE  PoolInv'
<1> DEFINE M == {}
<1>1. w \in WorldType
  BY Zenon, VacatedStep
<1>2. M \in SUBSET Members /\ (\A x \in M : Found(x) = {}) /\ \A x \in M : w.fate[x] # "owed"
  BY Zenon
<1> HIDE DEF M
<1> QED
  BY Zenon, <1>1, <1>2, EvictedFree

-----------------------------------------------------------------------------
(* Taking a slot for a new member *)

\* pww_slot_new, whichever way it goes.
LEMMA NewMemberStep ==
  ASSUME PoolInv, NEW m \in Members, Found(m) = {},
         NEW s, Coherent(s), s.status = "USED", s.member = m, s.enq_held, s.allocated,
         NewMember(m, s) \/ NewMemberFails(m) \/ NewMemberRefused(m)
  PROVE  PoolInv'
<1> DEFINE M == {m}
<1>1. M \in SUBSET Members /\ \A x \in M : Found(x) = {}
  BY Zenon
<1>2. ASSUME NEW v \in Slots, NEW w \in Vacated(v)
      PROVE  w \in WorldType /\ w.fate[m] # "owed"
  <2>1. /\ w \in WorldType
        /\ pool[v].status = "FREE" => w = World
        /\ SameElsewhere(World, w, pool[v].member)
    BY Zenon, VacatedStep
  <2>2. pool[v].status = "FREE" \/ pool[v].member # m
    BY Zenon, FoundIsPending DEF PoolInv, Pends, Coherent, SlotType
  <2>3. fate[m] # "owed"
    BY Zenon, NotPendingNotOwed
  <2> QED
    BY <2>1, <2>2, <2>3 DEF SameElsewhere, World
<1>4. CASE NewMember(m, s)
  <2>1. PICK v \in Slots : SlotTake(v) /\ \E w \in Vacated(v) :
          /\ w.enq[m] = "free"
          /\ SetSlot(v, s)
          /\ Become(IF s.dirty THEN Owe(Lock(w, m), m) ELSE Lock(w, m))
    BY Zenon, <1>4 DEF NewMember
  <2>2. PICK w \in Vacated(v) :
          SetSlot(v, s) /\ Become(IF s.dirty THEN Owe(Lock(w, m), m) ELSE Lock(w, m))
    BY Zenon, <2>1
  <2> DEFINE l == Lock(w, m)
             u == IF s.dirty THEN Owe(l, m) ELSE l
  <2>3. w \in WorldType /\ w.fate[m] # "owed"
    BY Zenon, <1>2
  <2>4. l \in WorldType /\ SameElsewhere(w, l, m) /\ l.enq[m] = "nfsd" /\ m \in l.alloc
        /\ l.fate = w.fate
    BY Zenon, <2>3, LockStep
  <2> HIDE DEF l
  <2>5. u \in WorldType /\ u.enq = l.enq /\ u.alloc = l.alloc /\ SameElsewhere(l, u, m)
        /\ (~s.dirty => u = l)
    BY <2>4, ToldStep DEF SameElsewhere
  <2>6. Become(u) /\ SetSlot(v, s)
    BY Zenon, <2>2 DEF l
  <2> HIDE DEF u
  <2>7. \A x \in Members \ M :
          u.enq[x] = w.enq[x] /\ (x \in u.alloc <=> x \in w.alloc) /\ u.fate[x] = w.fate[x]
    BY <2>4, <2>5 DEF SameElsewhere
  <2>8. \A x \in M : u.fate[x] = "owed" => s.status = "USED" /\ s.member = x /\ s.dirty
    BY Zenon, <2>3, <2>4, <2>5
  <2>9. s.member \in M /\ u.enq[s.member] = "nfsd" /\ s.member \in u.alloc
    BY Zenon, <2>4, <2>5
  <2> HIDE DEF M
  <2> QED
    BY <1>1, <2>5, <2>6, <2>7, <2>8, <2>9, Evicted
<1>5. ASSUME NEW v \in Slots, NEW w \in Vacated(v), NEW u \in WorldType,
             SameElsewhere(w, u, m), u.fate[m] # "owed",
             SetSlot(v, FreeSlot), Become(u)
      PROVE  PoolInv'
  <2>1. \A x \in Members \ M :
          u.enq[x] = w.enq[x] /\ (x \in u.alloc <=> x \in w.alloc) /\ u.fate[x] = w.fate[x]
    BY Zenon, <1>5 DEF SameElsewhere
  <2>2. \A x \in M : u.fate[x] # "owed"
    BY Zenon, <1>5
  <2> HIDE DEF M
  <2> QED
    BY <1>1, <1>5, <2>1, <2>2, EvictedFree
<1>6. CASE NewMemberFails(m)
  <2>1. PICK v \in Slots : SlotTake(v) /\ \E w \in Vacated(v) : \E u \in LockFailures(w, m) :
          SetSlot(v, FreeSlot) /\ Become(u)
    BY Zenon, <1>6 DEF NewMemberFails
  <2>2. PICK w \in Vacated(v) :
          \E u \in LockFailures(w, m) : SetSlot(v, FreeSlot) /\ Become(u)
    BY Zenon, <2>1
  <2>3. PICK u \in LockFailures(w, m) : SetSlot(v, FreeSlot) /\ Become(u)
    BY Zenon, <2>2
  <2>4. w \in WorldType /\ w.fate[m] # "owed"
    BY Zenon, <1>2
  <2>5. u \in WorldType /\ SameElsewhere(w, u, m) /\ u.fate = w.fate
    BY <2>4, LockStep
  <2> QED
    BY Zenon, <1>5, <2>3, <2>4, <2>5
<1>7. CASE NewMemberRefused(m)
  <2>1. PICK v \in Slots : SlotTake(v) /\ \E w \in Vacated(v) :
          \E r \in Releases(NewSlot(m)) :
            /\ SetSlot(v, FreeSlot)
            /\ Become(Release(Lock(w, m), NewSlot(m), r))
    BY Zenon, <1>7 DEF NewMemberRefused
  <2>2. PICK w \in Vacated(v), r \in Releases(NewSlot(m)) :
          SetSlot(v, FreeSlot) /\ Become(Release(Lock(w, m), NewSlot(m), r))
    BY Zenon, <2>1
  <2>3. w \in WorldType /\ w.fate[m] # "owed"
    BY Zenon, <1>2
  <2> DEFINE l == Lock(w, m)
             u == Release(l, NewSlot(m), r)
  <2>4. l \in WorldType /\ SameElsewhere(w, l, m) /\ l.fate = w.fate
    BY Zenon, <2>3, LockStep
  <2>5. r \in [unalloc : ReleaseKinds, deq : ReleaseKinds]
    BY Zenon, ReleasesType
  <2>6. Coherent(NewSlot(m)) /\ NewSlot(m).status = "USED" /\ NewSlot(m).member = m
    BY Zenon, NewSlotForm
  <2> HIDE DEF l
  <2>7. u \in WorldType /\ SameElsewhere(l, u, m)
        /\ u.fate[m] = IF l.fate[m] = "owed" THEN "owed" ELSE "none"
    BY <2>4, <2>5, <2>6, ReleaseStep
  <2>8. Become(u) /\ SetSlot(v, FreeSlot)
    BY Zenon, <2>2 DEF l
  <2> HIDE DEF u
  <2>9. SameElsewhere(w, u, m)
    BY <2>4, <2>7 DEF SameElsewhere
  <2>10. u.fate[m] # "owed"
    BY Zenon, <2>3, <2>4, <2>7
  <2>11. u \in WorldType
    BY Zenon, <2>7
  <2> QED
    BY Zenon, <1>5, <2>8, <2>9, <2>10, <2>11
<1> QED
  BY Zenon, <1>4, <1>6, <1>7

-----------------------------------------------------------------------------
(* One lemma per request *)

\* The content of a found slot is replaced and the client is owed it.
LEMMA AcceptStep ==
  ASSUME PoolInv, NEW m \in Members, NEW i \in Found(m),
         NEW c \in Contents, NEW b \in BOOLEAN,
         SetSlot(i, Accepted(pool[i], c, b)), Become(Owe(World, m))
  PROVE  PoolInv'
<1> DEFINE s == Accepted(pool[i], c, b)
           w == Owe(World, m)
<1>1. /\ Coherent(s) /\ s.status = "USED" /\ s.member = m /\ s.dirty
      /\ s.enq_held = pool[i].enq_held /\ s.allocated = pool[i].allocated
  BY FoundSlot, AcceptedForm
<1>2. World \in WorldType /\ World.enq = enq /\ World.alloc = alloc
  BY Zenon DEF PoolInv, PoolTypeOK, World
<1>3. w \in WorldType /\ w.enq = enq /\ w.alloc = alloc /\ SameElsewhere(World, w, m)
  BY Zenon, <1>2, ToldStep
<1> HIDE DEF s, w
<1>4. SetSlot(i, s) /\ Become(w)
  BY Zenon DEF s, w
<1> QED
  BY Zenon, <1>1, <1>3, <1>4, Rewritten

\* The content of a found slot is spoilt and the client is told.
LEMMA SpoilStep ==
  ASSUME PoolInv, NEW m \in Members, NEW i \in Found(m), NEW c \in Contents,
         SetSlot(i, [pool[i] EXCEPT !.content = c]), Become(Fail(World, m))
  PROVE  PoolInv'
<1> DEFINE s == [pool[i] EXCEPT !.content = c]
           w == Fail(World, m)
<1>1. Coherent(pool[i]) /\ pool[i].status = "USED" /\ pool[i].member = m
      /\ pool[i].dirty \in BOOLEAN
  BY Zenon, FoundSlot
<1>2. /\ Coherent(s) /\ s.status = "USED" /\ s.member = m
      /\ s.enq_held = pool[i].enq_held /\ s.allocated = pool[i].allocated
  BY Zenon, <1>1 DEF Coherent, SlotType
<1>3. World \in WorldType /\ World.enq = enq /\ World.alloc = alloc
  BY Zenon DEF PoolInv, PoolTypeOK, World
<1>4. w \in WorldType /\ w.enq = enq /\ w.alloc = alloc /\ SameElsewhere(World, w, m)
      /\ w.fate[m] = "failed"
  BY Zenon, <1>3, ToldStep
<1> HIDE DEF s, w
<1>5. SetSlot(i, s) /\ Become(w)
  BY Zenon DEF s, w
<1> QED
  BY Zenon, <1>2, <1>4, <1>5, Rewritten

\* Starting an empty member (CREATE, or a truncate to 0) keeps the invariant,
\* whether it succeeds, fails to lock or is refused.
LEMMA StartEmptyStep ==
  ASSUME PoolInv, NEW m \in Members, Found(m) = {}, StartEmpty(m)
  PROVE  PoolInv'
<1> DEFINE s == Accepted(NewSlot(m), <<>>, TRUE)
<1>1. Coherent(s) /\ s.status = "USED" /\ s.member = m /\ s.enq_held /\ s.allocated
  BY ZenonT(30), NewSlotForm, AcceptedForm, PayloadType
<1>2. NewMember(m, s) \/ NewMemberFails(m) \/ NewMemberRefused(m)
  BY Zenon DEF StartEmpty
<1> HIDE DEF s
<1> QED
  BY Zenon, <1>1, <1>2, NewMemberStep

\* CREATE keeps the invariant.
LEMMA CreateStep ==
  ASSUME PoolInv, NEW m \in Members, Create(m)
  PROVE  PoolInv'
<1>1. CASE Found(m) = {}
  BY Zenon, <1>1, StartEmptyStep DEF Create
<1>2. CASE Found(m) # {}
  <2>1. PICK i \in Found(m) :
          \/ SetSlot(i, Accepted(pool[i], <<>>, TRUE)) /\ Become(Owe(World, m))
          \/ SetSlot(i, [pool[i] EXCEPT !.content = <<>>]) /\ Become(Fail(World, m))
    BY Zenon, <1>2 DEF Create, CreateOver
  <2> QED
    BY Zenon, <2>1, AcceptStep, SpoilStep, PayloadType
<1> QED
  BY Zenon, <1>1, <1>2

\* WRITE keeps the invariant: first write, further write and failed store.
LEMMA WriteStep ==
  ASSUME PoolInv, NEW m \in Members, NEW off \in 0 .. MaxLen, NEW dat \in Payloads,
         Write(m, off, dat)
  PROVE  PoolInv'
<1>1. CASE Found(m) = {}
  <2> DEFINE s == Accepted(NewSlot(m), dat, TRUE)
  <2>1. Coherent(s) /\ s.status = "USED" /\ s.member = m /\ s.enq_held /\ s.allocated
    BY ZenonT(30), NewSlotForm, AcceptedForm, PayloadType
  <2>2. NewMember(m, s) \/ NewMember(m, NewSlot(m)) \/ NewMemberFails(m)
    BY Zenon, <1>1 DEF Write, FirstWrite
  <2> HIDE DEF s
  <2> QED
    BY Zenon, <1>1, <2>1, <2>2, NewSlotForm, NewMemberStep
<1>2. CASE Found(m) # {}
  <2>1. PICK i \in Found(m) :
          \/ /\ SetSlot(i, Accepted(pool[i], Overlay(pool[i].content, off, dat),
                                    pool[i].begun \/ off = 0))
             /\ Become(Owe(World, m))
          \/ \E c \in Garbled(pool[i].content) :
               SetSlot(i, [pool[i] EXCEPT !.content = c]) /\ Become(Fail(World, m))
    BY Zenon, <1>2 DEF Write, NextWrite
  <2>2. Overlay(pool[i].content, off, dat) \in Contents
    <3>1. off + Len(dat) <= MaxLen /\ off \in Nat
      BY MemberBytesAssumption DEF Write
    <3> QED
      BY Zenon, <3>1, FoundSlot, OverlayType
  <2>3. (pool[i].begun \/ off = 0) \in BOOLEAN
    BY Zenon
  <2>4. Garbled(pool[i].content) \subseteq Contents
    BY Zenon, FoundSlot
  <2> QED
    BY Zenon, <2>1, <2>2, <2>3, <2>4, AcceptStep, SpoilStep
<1> QED
  BY Zenon, <1>1, <1>2

\* SETATTR of the size keeps the invariant.
LEMMA TruncateStep ==
  ASSUME PoolInv, NEW m \in Members, NEW n \in 0 .. MaxLen, Truncate(m, n)
  PROVE  PoolInv'
<1>1. CASE Found(m) = {}
  BY Zenon, <1>1, StartEmptyStep DEF Truncate
<1>2. CASE Found(m) # {}
  <2>1. PICK i \in Found(m) :
          \/ /\ SetSlot(i, Accepted(pool[i], Resize(pool[i].content, n),
                                    pool[i].begun \/ n = 0))
             /\ Become(Owe(World, m))
          \/ \E c \in Garbled(pool[i].content) :
               SetSlot(i, [pool[i] EXCEPT !.content = c]) /\ Become(Fail(World, m))
    BY Zenon, <1>2 DEF Truncate, ResizePending
  <2>2. Resize(pool[i].content, n) \in Contents
    BY Zenon, FoundSlot, ResizeType
  <2>3. (pool[i].begun \/ n = 0) \in BOOLEAN
    BY Zenon
  <2>4. Garbled(pool[i].content) \subseteq Contents
    BY Zenon, FoundSlot
  <2> QED
    BY Zenon, <2>1, <2>2, <2>3, <2>4, AcceptStep, SpoilStep
<1> QED
  BY Zenon, <1>1, <1>2

\* A flush that keeps the slot: COMMIT, and a RENAME it stops.
LEMMA FlushKeepsSlot ==
  ASSUME PoolInv, NEW m \in Members, NEW i \in Found(m), pool[i].dirty,
         NEW f \in Flushes(World, pool[i]),
         NEW s \in FlushedSlots(World, pool[i], f), SetSlot(i, s),
         Become(Flush(World, pool[i], f))
  PROVE  PoolInv'
<1> DEFINE w == Flush(World, pool[i], f)
<1>1. /\ Coherent(pool[i]) /\ pool[i].status = "USED" /\ pool[i].member = m
      /\ pool[i].content \in Contents /\ Garbled(pool[i].content) \subseteq Contents
  BY Zenon, FoundSlot
<1>2. World \in WorldType /\ World.enq = enq /\ World.alloc = alloc
  BY Zenon DEF PoolInv, PoolTypeOK, World
<1>3. /\ w \in WorldType /\ w.enq = enq /\ w.alloc = alloc
      /\ SameElsewhere(World, w, m)
      /\ w.fate[m] \in {"stowed", "failed"}
  BY Zenon, <1>1, <1>2, FlushStep
<1>4. PICK c \in Contents, b \in BOOLEAN : s = [pool[i] EXCEPT !.dirty = b, !.content = c]
  BY Zenon, <1>1 DEF FlushedSlots, DirtyAfter
<1>5. /\ Coherent(s) /\ s.status = "USED" /\ s.member = m
      /\ s.enq_held = pool[i].enq_held /\ s.allocated = pool[i].allocated
  BY Zenon, <1>1, <1>4 DEF Coherent, SlotType
<1> HIDE DEF w
<1>6. Become(w)
  BY Zenon DEF w
<1> QED
  BY Zenon, <1>3, <1>5, <1>6, Rewritten

\* COMMIT keeps the invariant, whatever the flush says.
LEMMA CommitStep ==
  ASSUME PoolInv, NEW m \in Members, Commit(m)
  PROVE  PoolInv'
<1>1. PICK i \in Found(m) : \E f \in Flushes(World, pool[i]) :
        /\ pool[i].dirty
        /\ \E s \in FlushedSlots(World, pool[i], f) : SetSlot(i, s)
        /\ Become(Flush(World, pool[i], f))
  BY Zenon DEF Commit
<1>2. PICK f \in Flushes(World, pool[i]) :
        /\ pool[i].dirty
        /\ \E s \in FlushedSlots(World, pool[i], f) : SetSlot(i, s)
        /\ Become(Flush(World, pool[i], f))
  BY Zenon, <1>1
<1> QED
  BY Zenon, <1>2, FlushKeepsSlot

\* A READ that loses the scratch dataset keeps the invariant.
LEMMA ReadLosesScratchStep ==
  ASSUME PoolInv, NEW m \in Members, ReadLosesScratch(m)
  PROVE  PoolInv'
<1>1. PICK i \in Found(m) : \E c \in Garbled(pool[i].content) :
        SetSlot(i, [pool[i] EXCEPT !.content = c])
  BY Zenon DEF ReadLosesScratch
<1>2. Garbled(pool[i].content) \subseteq Contents /\ Become(Fail(World, m))
  BY Zenon, FoundSlot DEF ReadLosesScratch
<1> QED
  BY Zenon, <1>1, <1>2, SpoilStep

\* Steps that change no slot, no allocation and no fate: a member's enqueue may
\* change hands only when no slot depends on it.
LEMMA OutsideStep ==
  ASSUME PoolInv, World' \in WorldType, UNCHANGED <<pool, alloc, fate>>,
         \A m \in Members : enq[m] = "nfsd" => enq'[m] = "nfsd"
  PROVE  PoolInv'
<1> USE DEF Slots, Pends
<1>1. PoolTypeOK'
  BY Zenon DEF PoolInv, PoolTypeOK, SlotType, WorldType, IdleCap, FullTables, FullEntries,
     Contents, Units
<1>2. (\A i \in Slots : Coherent(pool[i]))'
  BY Zenon DEF PoolInv, Coherent, SlotType, IdleCap, Contents, Units
<1>3. OneSlotPerMember' /\ AcknowledgedKept'
  BY Zenon DEF PoolInv, OneSlotPerMember, AcknowledgedKept
<1>4. FlagsNeverLie'
  BY Zenon DEF PoolInv, FlagsNeverLie, Coherent
<1> QED
  BY Zenon, <1>1, <1>2, <1>3, <1>4 DEF PoolInv

\* SETATTR of the times keeps the invariant: it takes an enqueue only for a
\* member that is not pending.
LEMMA SetTimesStep ==
  ASSUME PoolInv, NEW m \in Members, SetTimes(m)
  PROVE  PoolInv'
<1>1. World \in WorldType /\ DatasetOf[m] \in Datasets
  BY Zenon, PendingPoolAssumption DEF PoolInv, PoolTypeOK
<1>2. UNCHANGED <<pool, alloc, full, fatal, disk, fate>>
      /\ enq' \in {enq, [enq EXCEPT ![m] = "nfsd"]}
      /\ listing' \in {listing, [listing EXCEPT ![DatasetOf[m]] = "none"]}
  BY Zenon DEF SetTimes
<1>3. World' \in WorldType
  BY <1>1, <1>2 DEF World, WorldType
<1>4. \A x \in Members : enq[x] = "nfsd" => enq'[x] = "nfsd"
  BY <1>1, <1>2 DEF World, WorldType
<1> QED
  BY Zenon, <1>2, <1>3, <1>4, OutsideStep

\* READDIR touches the cached listing only.
LEMMA ReadDirStep ==
  ASSUME PoolInv, NEW ds \in Datasets, ReadDir(ds)
  PROVE  PoolInv'
<1>1. World \in WorldType
  BY Zenon DEF PoolInv, PoolTypeOK
<1>2. World' \in WorldType
  BY Zenon, <1>1 DEF ReadDir, World, WorldType
<1> QED
  BY Zenon, <1>2, OutsideStep DEF ReadDir

\* An editor cannot take what the pool holds, since it takes free enqueues.
LEMMA EditorStep ==
  ASSUME PoolInv, NEW m \in Members, EditorOpen(m) \/ EditorSave(m) \/ EditorClose(m)
  PROVE  PoolInv'
<1>1. World \in WorldType /\ DatasetOf[m] \in Datasets
  BY Zenon, PendingPoolAssumption DEF PoolInv, PoolTypeOK
<1>2. /\ UNCHANGED <<pool, alloc, full, fatal, fate>>
      /\ \/ enq' = enq
         \/ /\ enq[m] # "nfsd"
            /\ enq' = [enq EXCEPT ![m] = "editor"] \/ enq' = [enq EXCEPT ![m] = "free"]
      /\ \/ listing' = listing
         \/ listing' =
              [listing EXCEPT ![DatasetOf[m]] = IF @ = "current" THEN "stale" ELSE @]
  BY Zenon DEF EditorOpen, EditorSave, EditorClose
<1>3. disk' = disk \/ \E d \in Payloads : disk' = [disk EXCEPT ![m] = d]
  BY Zenon DEF EditorOpen, EditorSave, EditorClose
<1>4. /\ enq \in [Members -> {"free", "nfsd", "editor"}]
      /\ disk \in [Members -> Contents \cup {Absent}]
      /\ listing \in [Datasets -> {"none", "current", "stale"}]
  BY Zenon, <1>1 DEF World, WorldType
<1>5. enq' \in [Members -> {"free", "nfsd", "editor"}]
      /\ listing' \in [Datasets -> {"none", "current", "stale"}]
  BY <1>2, <1>4
<1>6. disk' \in [Members -> Contents \cup {Absent}]
  BY Zenon, <1>3, <1>4, PayloadType
<1>7. World' \in WorldType
  BY Zenon, <1>1, <1>2, <1>5, <1>6 DEF World, WorldType
<1>8. \A x \in Members : enq[x] = "nfsd" => enq'[x] = "nfsd"
  BY Zenon, <1>2, <1>4
<1> QED
  BY Zenon, <1>2, <1>7, <1>8, OutsideStep

-----------------------------------------------------------------------------
(* The requests that drop pending members *)

\* The type of the pool and its world carry over a step.
LEMMA NextTyped ==
  ASSUME pool' \in [Slots -> SlotType], World' \in WorldType
  PROVE  PoolTypeOK'
  BY Zenon DEF PoolTypeOK, Slots, SlotType, WorldType, IdleCap, FullTables, FullEntries,
         Contents, Units

\* The slots of the members of X are freed, or kept clean and locked.
LEMMA DroppedStep ==
  ASSUME PoolInv, NEW X \in SUBSET Members, NEW u \in WorldType, Become(u),
         pool' \in [Slots -> SlotType], \A i \in Slots : Coherent(pool'[i]),
         \A i \in Slots :
            \/ pool'[i] = pool[i] /\ (pool[i].status = "USED" => pool[i].member \notin X)
            \/ pool'[i] = FreeSlot /\ (pool[i].status = "USED" => pool[i].member \in X)
            \/ /\ pool[i].status = "USED" /\ pool'[i] = [pool[i] EXCEPT !.dirty = FALSE]
               /\ pool[i].member \in X
               /\ u.enq[pool[i].member] = "nfsd" /\ pool[i].member \in u.alloc,
         \A x \in Members \ X :
            u.enq[x] = enq[x] /\ (x \in u.alloc <=> x \in alloc) /\ u.fate[x] = fate[x],
         \A x \in X : u.fate[x] # "owed"
  PROVE  PoolInv'
<1>1. World' = u /\ enq' = u.enq /\ alloc' = u.alloc /\ fate' = u.fate
  BY Zenon, BecomeWorld DEF Become
<1>2. PoolTypeOK'
  BY Zenon, <1>1, NextTyped
<1>3. FreeSlot.status = "FREE"
  BY Zenon DEF FreeSlot
<1>4. \A i \in Slots : pool[i] \in SlotType
  BY Zenon DEF PoolInv, PoolTypeOK
<1>5. ASSUME NEW i \in Slots, pool'[i].status = "USED"
      PROVE  /\ pool[i].status = "USED" /\ pool'[i].member = pool[i].member
             /\ pool'[i].enq_held = pool[i].enq_held
             /\ pool'[i].allocated = pool[i].allocated
  BY Zenon, <1>3, <1>4, <1>5 DEF SlotType
<1>6. Spares(X)
  BY Zenon, <1>1 DEF Spares
<1>7. KeepsSlots(X)
  BY Zenon DEF KeepsSlots
<1>8. LocksSlots(X)
  BY <1>1, <1>3, <1>5 DEF LocksSlots, PoolInv, FlagsNeverLie
<1>9. NoTwins(X)
  BY <1>5 DEF NoTwins, PoolInv, OneSlotPerMember, Pends, Coherent
<1>10. KeepsOwed(X)
  BY Zenon, <1>1 DEF KeepsOwed
<1> QED
  BY Zenon, <1>2, <1>6, <1>7, <1>8, <1>9, <1>10, Frame

\* A FREE slot is coherent.
LEMMA FreeSlotForm == Coherent(FreeSlot)
  BY PayloadType, PendingPoolAssumption DEF Coherent, FreeSlot, SlotType, IdleCap

\* REMOVE keeps the invariant: the member it drops is owed nothing afterwards.
LEMMA RemoveStep ==
  ASSUME PoolInv, NEW m \in Members, Remove(m)
  PROVE  PoolInv'
<1>1. World \in WorldType /\ pool \in [Slots -> SlotType] /\ DatasetOf[m] \in Datasets
  BY Zenon, PendingPoolAssumption DEF PoolInv, PoolTypeOK
<1>2. PICK w \in Discards(World, m) :
        \/ Become([w EXCEPT !.disk[m] = Absent, !.listing[DatasetOf[m]] = "none"])
        \/ Become(w)
  BY Zenon DEF Remove
<1>3. /\ w \in WorldType /\ SameElsewhere(World, w, m)
      /\ Found(m) = {} => w = World
      /\ Found(m) # {} => w.fate[m] = "none"
  BY <1>1, DiscardStep
<1>4. w.fate[m] # "owed"
  BY <1>3, NotPendingNotOwed DEF World
<1>5. PICK u \in WorldType :
        Become(u) /\ u.enq = w.enq /\ u.alloc = w.alloc /\ u.fate = w.fate
  <2> DEFINE v == [w EXCEPT !.disk[m] = Absent, !.listing[DatasetOf[m]] = "none"]
  <2>1. v \in WorldType /\ v.enq = w.enq /\ v.alloc = w.alloc /\ v.fate = w.fate
    BY Zenon, <1>1, <1>3 DEF WorldType
  <2> QED
    BY Zenon, <1>2, <1>3, <2>1
<1>6. pool' = [i \in Slots |-> IF i \in Found(m) THEN FreeSlot ELSE pool[i]]
  BY Zenon DEF Remove, FreeSlots
<1>7. pool' \in [Slots -> SlotType] /\ \A i \in Slots : Coherent(pool'[i])
  BY Zenon, <1>1, <1>6, FreeSlotForm DEF PoolInv, Coherent
<1> DEFINE X == {m}
<1>8. \A i \in Slots :
        \/ pool'[i] = pool[i] /\ (pool[i].status = "USED" => pool[i].member \notin X)
        \/ pool'[i] = FreeSlot /\ (pool[i].status = "USED" => pool[i].member \in X)
  BY Zenon, <1>6, FoundIsPending DEF PoolInv, Pends
<1>9. \A x \in Members \ X :
        u.enq[x] = enq[x] /\ (x \in u.alloc <=> x \in alloc) /\ u.fate[x] = fate[x]
  BY Zenon, <1>3, <1>5 DEF SameElsewhere, World
<1>10. \A x \in X : u.fate[x] # "owed"
  BY Zenon, <1>4, <1>5
<1>11. X \in SUBSET Members
  BY Zenon
<1> HIDE DEF X
<1> QED
  BY Zenon, <1>5, <1>7, <1>8, <1>9, <1>10, <1>11, DroppedStep

\* A RENAME whose last step fails has freed the target's slot and keeps the
\* source's, clean.
LEMMA RenameStopped ==
  ASSUME PoolInv, NEW a \in Members, NEW b \in Members,
         NEW w1 \in Settled(a), NEW w2 \in Discards(w1, b), Become(w2),
         pool' = [i \in Slots |-> IF i \in Found(b) THEN FreeSlot
                                  ELSE IF i \in Found(a)
                                  THEN [pool[i] EXCEPT !.dirty = FALSE]
                                  ELSE pool[i]]
  PROVE  PoolInv'
<1> DEFINE X == {a, b}
<1>1. /\ w1 \in WorldType /\ w1.enq = enq /\ w1.alloc = alloc
      /\ SameElsewhere(World, w1, a) /\ w1.fate[a] # "owed"
  BY Zenon, SettledStep
<1>2. /\ w2 \in WorldType /\ SameElsewhere(w1, w2, b)
      /\ Found(b) = {} => w2 = w1
      /\ Found(b) # {} => w2.fate[b] = "none"
  BY <1>1, DiscardStep
<1>3. ASSUME NEW i \in Slots
      PROVE  Coherent(pool'[i])
  <2>1. Coherent(pool[i])
    BY Zenon DEF PoolInv
  <2>2. CASE pool'[i] = FreeSlot
    BY Zenon, <2>2, FreeSlotForm
  <2>3. CASE pool'[i] = pool[i]
    BY Zenon, <2>1, <2>3
  <2>4. CASE pool'[i] = [pool[i] EXCEPT !.dirty = FALSE]
    BY Zenon, <2>1, <2>4 DEF Coherent, SlotType
  <2> QED
    BY Zenon, <2>2, <2>3, <2>4
<1>4. pool' \in [Slots -> SlotType]
  BY Zenon, <1>3 DEF Coherent
<1>5. \A i \in Slots : /\ i \in Found(a) <=> Pends(i, a)
                       /\ i \in Found(b) <=> Pends(i, b)
  BY Zenon, FoundIsPending DEF PoolInv
<1>6. ASSUME NEW i \in Slots
      PROVE  \/ pool'[i] = pool[i] /\ (pool[i].status = "USED" => pool[i].member \notin X)
             \/ pool'[i] = FreeSlot /\ (pool[i].status = "USED" => pool[i].member \in X)
             \/ /\ pool[i].status = "USED" /\ pool'[i] = [pool[i] EXCEPT !.dirty = FALSE]
                /\ pool[i].member \in X
                /\ w2.enq[pool[i].member] = "nfsd" /\ pool[i].member \in w2.alloc
  <2>1. CASE i \in Found(b)
    BY Zenon, <2>1, <1>5 DEF Pends
  <2>2. CASE i \notin Found(b) /\ i \in Found(a)
    <3>1. pool[i].status = "USED" /\ pool[i].member = a /\ a # b
      BY Zenon, <2>2, <1>5 DEF Pends
    <3>2. enq[a] = "nfsd" /\ a \in alloc
      BY Zenon, <3>1 DEF PoolInv, FlagsNeverLie
    <3>3. w2.enq[a] = "nfsd" /\ a \in w2.alloc
      BY Zenon, <1>1, <1>2, <3>1, <3>2 DEF SameElsewhere
    <3> QED
      BY Zenon, <2>2, <3>1, <3>3
  <2>3. CASE i \notin Found(b) /\ i \notin Found(a)
    BY Zenon, <2>3, <1>5 DEF Pends
  <2> QED
    BY Zenon, <2>1, <2>2, <2>3
<1>7. \A x \in Members \ X :
        w2.enq[x] = enq[x] /\ (x \in w2.alloc <=> x \in alloc) /\ w2.fate[x] = fate[x]
  BY Zenon, <1>1, <1>2 DEF SameElsewhere, World
<1>8. \A x \in X : w2.fate[x] # "owed"
  BY Zenon, <1>1, <1>2, NotPendingNotOwed DEF SameElsewhere, World
<1>9. X \in SUBSET Members
  BY Zenon
<1> HIDE DEF X
<1> QED
  BY Zenon, <1>2, <1>3, <1>4, <1>6, <1>7, <1>8, <1>9, DroppedStep

\* A RENAME that goes through has freed the slots of both names.
LEMMA RenameDone ==
  ASSUME PoolInv, NEW a \in Members, NEW b \in Members,
         NEW w1 \in Settled(a), NEW w2 \in Discards(w1, b),
         NEW w3 \in (IF a = b THEN {w2} ELSE Discards(w2, a)),
         FreeSlots(Found(a) \cup Found(b)),
         Become([w3 EXCEPT !.disk = Renamed(w2.disk, a, b), !.listing[DatasetOf[a]] = "none"])
  PROVE  PoolInv'
<1> DEFINE X == {a, b}
           u == [w3 EXCEPT !.disk = Renamed(w2.disk, a, b), !.listing[DatasetOf[a]] = "none"]
<1>1. /\ w1 \in WorldType /\ w1.enq = enq /\ w1.alloc = alloc
      /\ SameElsewhere(World, w1, a) /\ w1.fate[a] # "owed"
  BY Zenon, SettledStep
<1>2. /\ w2 \in WorldType /\ SameElsewhere(w1, w2, b)
      /\ Found(b) = {} => w2 = w1
      /\ Found(b) # {} => w2.fate[b] = "none"
  BY <1>1, DiscardStep
<1>3. \A x \in X : w2.fate[x] # "owed"
  BY Zenon, <1>1, <1>2, NotPendingNotOwed DEF SameElsewhere, World
<1>4. /\ w3 \in WorldType /\ SameElsewhere(w2, w3, a) /\ w3.fate[a] # "owed"
  <2>1. CASE a = b
    BY Zenon, <1>2, <1>3, <2>1 DEF SameElsewhere
  <2>2. CASE a # b
    BY <1>2, <1>3, <2>2, DiscardStep
  <2> QED
    BY Zenon, <2>1, <2>2
<1>5. Renamed(w2.disk, a, b) \in [Members -> Contents \cup {Absent}]
  BY Zenon, <1>2 DEF Renamed, WorldType
<1>6. u \in WorldType /\ u.enq = w3.enq /\ u.alloc = w3.alloc /\ u.fate = w3.fate
  BY Zenon, <1>4, <1>5, PendingPoolAssumption DEF WorldType
<1> HIDE DEF u
<1>7. Become(u)
  BY Zenon DEF u
<1>8. pool' = [i \in Slots |-> IF i \in Found(a) \cup Found(b) THEN FreeSlot ELSE pool[i]]
  BY Zenon DEF FreeSlots
<1>9. pool' \in [Slots -> SlotType] /\ \A i \in Slots : Coherent(pool'[i])
  BY Zenon, <1>8, FreeSlotForm DEF PoolInv, Coherent
<1>10. \A i \in Slots :
         \/ pool'[i] = pool[i] /\ (pool[i].status = "USED" => pool[i].member \notin X)
         \/ pool'[i] = FreeSlot /\ (pool[i].status = "USED" => pool[i].member \in X)
  BY Zenon, <1>8, FoundIsPending DEF PoolInv, Pends
<1>11. \A x \in Members \ X :
         u.enq[x] = enq[x] /\ (x \in u.alloc <=> x \in alloc) /\ u.fate[x] = fate[x]
  BY <1>1, <1>2, <1>4, <1>6 DEF SameElsewhere, World
<1>12. \A x \in X : u.fate[x] # "owed"
  BY Zenon, <1>3, <1>4, <1>6 DEF SameElsewhere
<1>13. X \in SUBSET Members
  BY Zenon
<1> HIDE DEF X
<1> QED
  BY Zenon, <1>6, <1>7, <1>9, <1>10, <1>11, <1>12, <1>13, DroppedStep

\* RENAME keeps the invariant, however far it gets.
LEMMA RenameStep ==
  ASSUME PoolInv, NEW a \in Members, NEW b \in Members, Rename(a, b)
  PROVE  PoolInv'
<1>1. CASE RenameUnsettled(a)
  <2>1. PICK i \in Found(a) : \E f \in Flushes(World, pool[i]) :
          /\ pool[i].dirty
          /\ \E s \in FlushedSlots(World, pool[i], f) : SetSlot(i, s)
          /\ Become(Flush(World, pool[i], f))
    BY Zenon, <1>1 DEF RenameUnsettled
  <2>2. PICK f \in Flushes(World, pool[i]) :
          /\ pool[i].dirty
          /\ \E s \in FlushedSlots(World, pool[i], f) : SetSlot(i, s)
          /\ Become(Flush(World, pool[i], f))
    BY Zenon, <2>1
  <2> QED
    BY Zenon, <2>2, FlushKeepsSlot
<1>2. ASSUME NEW w1 \in Settled(a), NEW w2 \in Discards(w1, b),
             pool' = [i \in Slots |-> IF i \in Found(b) THEN FreeSlot
                                      ELSE IF i \in Found(a)
                                      THEN [pool[i] EXCEPT !.dirty = FALSE]
                                      ELSE pool[i]],
             Become(w2)
      PROVE  PoolInv'
  BY Zenon, <1>2, RenameStopped
<1>3. ASSUME NEW w1 \in Settled(a), NEW w2 \in Discards(w1, b),
             NEW w3 \in (IF a = b THEN {w2} ELSE Discards(w2, a)),
             FreeSlots(Found(a) \cup Found(b)),
             Become([w3 EXCEPT !.disk = Renamed(w2.disk, a, b),
                               !.listing[DatasetOf[a]] = "none"])
      PROVE  PoolInv'
  BY Zenon, <1>3, RenameDone
<1> QED
  BY Zenon, <1>1, <1>2, <1>3 DEF Rename

-----------------------------------------------------------------------------
(* Time, and the end of the task *)

\* A second passing ages the slots and the full table, nothing else.
LEMMA TickStep ==
  ASSUME PoolInv, Tick
  PROVE  PoolInv'
<1> DEFINE X == {}
<1>1. pool \in [Slots -> SlotType] /\ World \in WorldType
  BY Zenon DEF PoolInv, PoolTypeOK
<1>2. \A i \in Slots : Coherent(pool[i])
  BY Zenon DEF PoolInv
<1>3. ASSUME NEW i \in Slots
      PROVE  /\ Coherent(pool'[i])
             /\ pool'[i].status = pool[i].status /\ pool'[i].member = pool[i].member
             /\ pool'[i].dirty = pool[i].dirty /\ pool'[i].enq_held = pool[i].enq_held
             /\ pool'[i].allocated = pool[i].allocated
  <2>1. CASE pool[i].status = "USED" /\ pool[i].idle < IdleCap
    <3>1. pool'[i] = [pool[i] EXCEPT !.idle = pool[i].idle + 1]
      BY Zenon, <2>1 DEF Tick
    <3>2. pool[i].idle + 1 \in 0 .. IdleCap
      BY <1>1, <2>1, PendingPoolAssumption DEF SlotType, IdleCap
    <3> QED
      BY Zenon, <1>2, <3>1, <3>2 DEF Coherent, SlotType
  <2>2. CASE ~(pool[i].status = "USED" /\ pool[i].idle < IdleCap)
    <3>1. pool'[i] = pool[i]
      BY Zenon, <2>2 DEF Tick
    <3> QED
      BY Zenon, <1>2, <3>1
  <2> QED
    BY Zenon, <2>1, <2>2
<1>4. pool' \in [Slots -> SlotType]
  BY Zenon, <1>3 DEF Tick, Coherent
<1>5. full' \in FullTables
  BY Zenon, <1>1, AgedType DEF Tick, World, WorldType
<1>6. World' \in WorldType
  BY Zenon, <1>1, <1>5 DEF Tick, World, WorldType
<1>7. PoolTypeOK'
  BY Zenon, <1>4, <1>6, NextTyped
<1>8. Spares(X) /\ KeepsOwed(X) /\ NoTwins(X)
  BY Zenon DEF Tick, Spares, KeepsOwed, NoTwins
<1>9. KeepsSlots(X) /\ LocksSlots(X)
  BY Zenon, <1>3 DEF KeepsSlots, LocksSlots
<1>10. X \in SUBSET Members
  BY Zenon
<1> HIDE DEF X
<1> QED
  BY Zenon, <1>3, <1>7, <1>8, <1>9, <1>10, Frame

\* With the task everything it held is gone.
LEMMA TaskEndsStep ==
  ASSUME PoolInv, TaskEnds, disk' \in [Members -> Contents \cup {Absent}]
  PROVE  PoolInv'
<1>1. World \in WorldType
  BY Zenon DEF PoolInv, PoolTypeOK
<1>2. World' \in WorldType
  BY Zenon, <1>1, EmptyFullType DEF TaskEnds, World, WorldType
<1>3. pool' \in [Slots -> SlotType] /\ \A i \in Slots : pool'[i] = FreeSlot
  BY Zenon, FreeSlotForm DEF TaskEnds, Coherent
<1>4. PoolTypeOK'
  BY Zenon, <1>2, <1>3, NextTyped
<1>5. FreeSlot.status = "FREE" /\ Slots' = Slots
  BY Zenon DEF FreeSlot, Slots
<1>6. (\A i \in Slots : Coherent(pool[i]))'
  BY Zenon, <1>3, <1>5, FreeSlotForm DEF Coherent, SlotType, IdleCap, Contents, Units
<1>7. OneSlotPerMember' /\ FlagsNeverLie'
  BY Zenon, <1>3, <1>5 DEF OneSlotPerMember, FlagsNeverLie, Pends
<1>8. AcknowledgedKept'
  BY Zenon DEF AcknowledgedKept, TaskEnds
<1> QED
  BY Zenon, <1>4, <1>6, <1>7, <1>8 DEF PoolInv

\* Every step of the write path preserves the inductive invariant.
LEMMA NextStep ==
  ASSUME IInv, [Next]_vars
  PROVE  IInv'
<1> USE DEF IInv
<1>1. World \in WorldType /\ Slots' = Slots /\ Phases' = Phases
  BY Zenon DEF PoolInv, PoolTypeOK, Slots, Phases
<1>2. CASE Request
  <2>1. PoolInv'
    BY Zenon, <1>2, CreateStep, WriteStep, TruncateStep, SetTimesStep, CommitStep,
       RemoveStep,
       RenameStep, ReadLosesScratchStep, ReadDirStep DEF Request
  <2>2. UNCHANGED <<phase, due>>
    BY Zenon, <1>2 DEF Request, Create, Write, Truncate, SetTimes, Commit, Remove, Rename,
       ReadLosesScratch, ReadDir, Serving
  <2> QED
    BY Zenon, <1>1, <2>1, <2>2
<1>3. ASSUME UNCHANGED poolVars
      PROVE  PoolInv'
  <2>1. World' \in WorldType
    BY Zenon, <1>1, <1>3 DEF poolVars, World
  <2> QED
    BY Zenon, <1>3, <2>1, OutsideStep DEF poolVars
<1>4. CASE Wake \/ Leave \/ LeaveOnFatal \/ SweepDone \/ ServeDone \/ Restart
  <2>1. PoolInv'
    BY Zenon, <1>3, <1>4 DEF Wake, Leave, LeaveOnFatal, SweepDone, ServeDone, Restart
  <2>2. phase' \in Phases /\ due' \subseteq Slots
    BY Zenon, <1>4 DEF Wake, Leave, LeaveOnFatal, SweepDone, ServeDone, Restart, Phases
  <2> QED
    BY Zenon, <1>1, <2>1, <2>2
<1>5. CASE Sweep
  <2>1. PoolInv'
    BY Zenon, <1>5, SweptSlot DEF Sweep
  <2> QED
    BY Zenon, <1>1, <1>5, <2>1 DEF Sweep
<1>6. CASE Drain
  <2>1. PoolInv'
    BY Zenon, <1>6, SweptSlot DEF Drain
  <2> QED
    BY Zenon, <1>1, <1>6, <2>1 DEF Drain
<1>7. CASE Exit \/ Crash
  <2>1. disk \in [Members -> Contents \cup {Absent}]
    BY Zenon, <1>1 DEF World, WorldType
  <2>2. disk' \in [Members -> Contents \cup {Absent}]
    <3>1. CASE UNCHANGED disk
      BY Zenon, <2>1, <3>1
    <3>2. CASE \E i \in Slots : \E c \in Prefixes(pool[i].content) :
                 disk' = [disk EXCEPT ![pool[i].member] = c]
      <4>1. PICK i \in Slots : \E c \in Prefixes(pool[i].content) :
              disk' = [disk EXCEPT ![pool[i].member] = c]
        BY Zenon, <3>2
      <4>2. pool[i].content \in Contents
        BY Zenon DEF PoolInv, Coherent, SlotType
      <4> QED
        BY Zenon, <2>1, <4>1, <4>2, ScrapsType
    <3> QED
      BY Zenon, <1>7, <3>1, <3>2 DEF Exit, Crash
  <2>3. TaskEnds
    BY Zenon, <1>7 DEF Exit, Crash
  <2>4. PoolInv'
    BY Zenon, <2>2, <2>3, TaskEndsStep
  <2> QED
    BY Zenon, <1>1, <2>3, <2>4 DEF TaskEnds, Phases
<1>8. CASE \E m \in Members : EditorOpen(m) \/ EditorSave(m) \/ EditorClose(m)
  <2>1. PoolInv'
    BY Zenon, <1>8, EditorStep
  <2>2. UNCHANGED <<phase, due>>
    BY Zenon, <1>8 DEF EditorOpen, EditorSave, EditorClose
  <2> QED
    BY <1>1, <2>1, <2>2
<1>9. CASE Tick
  <2>1. PoolInv'
    BY Zenon, <1>9, TickStep
  <2> QED
    BY Zenon, <1>1, <1>9, <2>1 DEF Tick
<1>10. CASE UNCHANGED vars
  <2>1. PoolInv' /\ UNCHANGED <<phase, due>>
    BY Zenon, <1>3, <1>10 DEF vars
  <2> QED
    BY Zenon, <1>1, <2>1
<1> QED
  BY Zenon, <1>2, <1>4, <1>5, <1>6, <1>7, <1>8, <1>9, <1>10 DEF Next, Loop, Environment

\* The initial states satisfy it.
LEMMA InitStep ==
  ASSUME Init
  PROVE  IInv
<1>1. pool \in [Slots -> SlotType] /\ \A i \in Slots : pool[i] = FreeSlot
  BY Zenon, FreeSlotForm DEF Init, PoolInit, Coherent
<1>2. World \in WorldType
  <2>1. \A d \in Data : <<d>> \in Contents
    BY Zenon, PayloadType DEF Payloads
  <2>2. /\ enq \in [Members -> {"free", "nfsd", "editor"}]
        /\ alloc \in SUBSET Members /\ full \in FullTables /\ fatal \in BOOLEAN
        /\ listing \in [Datasets -> {"none", "current", "stale"}]
        /\ fate \in [Members -> {"none", "owed", "stowed", "failed"}]
    BY Zenon, EmptyFullType DEF Init, PoolInit
  <2>3. disk \in [Members -> Contents \cup {Absent}]
    BY <2>1 DEF Init, PoolInit
  <2> QED
    BY Zenon, <2>2, <2>3 DEF World, WorldType
<1>3. FreeSlot.status = "FREE"
  BY Zenon DEF FreeSlot
<1>4. OneSlotPerMember /\ FlagsNeverLie /\ AcknowledgedKept
  BY Zenon, <1>1, <1>3 DEF Init, PoolInit, OneSlotPerMember, FlagsNeverLie,
     AcknowledgedKept, Pends
<1> QED
  BY Zenon, <1>1, <1>2, <1>4, FreeSlotForm DEF Init, IInv, PoolInv, PoolTypeOK, Phases

\* In every behaviour of the write path the pool and the world around it stay
\* well formed, whatever the number of slots, members and units.
THEOREM TypeCorrect == Spec => []TypeOK
<1>1. IInv => TypeOK
  BY Zenon DEF IInv, PoolInv, TypeOK
<1> QED
  BY <1>1, InitStep, NextStep, PTL DEF Spec

\* No member is ever pending in two slots (pww_slot_find before pww_slot_new in
\* every handler).
THEOREM NeverPendingTwice == Spec => []OneSlotPerMember
<1>1. IInv => OneSlotPerMember
  BY Zenon DEF IInv, PoolInv
<1> QED
  BY <1>1, InitStep, NextStep, PTL DEF Spec

\* A pending member's enqueue and allocation are really held, as its slot's
\* flags say, whatever fails around it.
THEOREM LocksHeld == Spec => []FlagsNeverLie
<1>1. IInv => FlagsNeverLie
  BY Zenon DEF IInv, PoolInv
<1> QED
  BY <1>1, InitStep, NextStep, PTL DEF Spec

\* Content a client was told is safe is stowed, or still pending and dirty, or
\* its loss has been reported: eviction, sweep and shutdown included.
THEOREM NothingLostSilently == Spec => []AcknowledgedKept
<1>1. IInv => AcknowledgedKept
  BY Zenon DEF IInv, PoolInv
<1> QED
  BY <1>1, InitStep, NextStep, PTL DEF Spec
=============================================================================
