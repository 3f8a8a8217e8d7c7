---------------------------- MODULE EffectProofs ----------------------------
(***************************************************************************)
(* What a step of the write path is to one member (Keeps, Vacates), what   *)
(* the requests, the end of the task, the ISPF editor and time do to the   *)
(* PDS, to the cached listings and to what the task holds, and what a step *)
(* must do for a committed write to stay backed, for every number of       *)
(* members, slots, units and restarts.                                     *)
(***************************************************************************)
EXTENDS Durability, WritePathProofs

-----------------------------------------------------------------------------
(* What a step is to one member *)

\* It keeps all there is about member x.
Keeps(x) ==
  /\ enq'[x] = enq[x] /\ (x \in alloc' <=> x \in alloc)
  /\ fate'[x] = fate[x] /\ disk'[x] = disk[x]
  /\ \A i \in Slots :
       /\ Pends(i, x)' <=> Pends(i, x)
       /\ Pends(i, x) => pool'[i].dirty = pool[i].dirty /\ pool'[i].content = pool[i].content

\* It flushes the slot of x if that is dirty, and releases it.
Vacates(x) ==
  /\ fate'[x] = "none" /\ \A i \in Slots : ~Pends(i, x)'
  /\ ReleaseOK /\ (enq'[x] = "nfsd" \/ x \in alloc') => fatal'
  /\ \E i \in Slots :
       /\ Pends(i, x)
       /\ ~pool[i].dirty => disk'[x] = disk[x]
       /\ pool[i].dirty /\ FlushOK /\ ~IsFull(full, DatasetOf[x]) => disk'[x] = pool[i].content

\* It is either, for all members but those of M.
Around(M) == Calm(World, World') /\ \A x \in Members \ M : Keeps(x) \/ Vacates(x)

\* StowedIsOnDisk and NothingStranded, of one member.
StowedAt(x) ==
  fate[x] = "stowed" =>
    \E i \in Slots : Pends(i, x) /\ ~pool[i].dirty /\ disk[x] = pool[i].content

Accounted(x) ==
  ReleaseOK /\ (enq[x] = "nfsd" \/ x \in alloc) => fatal \/ \E i \in Slots : Pends(i, x)

SInv == PoolInv /\ \A x \in Members : StowedAt(x) /\ Accounted(x)

\* A slot rewritten for member m is nothing to the others.
LEMMA RewriteEffect ==
  ASSUME PoolInv, NEW m \in Members, NEW i \in Found(m),
         NEW s, s.status = "USED", s.member = m, SetSlot(i, s),
         NEW w \in WorldType, Become(w),
         SameElsewhere(World, w, m), DiskElsewhere(World, w, m), Calm(World, w)
  PROVE  Around({m}) /\ Pends(i, m)' /\ pool'[i] = s /\ World' = w
<1>1. i \in Slots /\ pool[i].status = "USED" /\ pool[i].member = m
  BY Zenon, FoundIsPending DEF PoolInv, Pends
<1>2. World' = w
  BY Zenon, BecomeWorld
<1>3. pool \in [Slots -> SlotType]
  BY Zenon DEF PoolInv, PoolTypeOK
<1>4. pool'[i] = s /\ \A j \in Slots \ {i} : pool'[j] = pool[j]
  BY Zenon, <1>1, <1>3 DEF SetSlot
<1>5. ASSUME NEW x \in Members \ {m}
      PROVE  Keeps(x)
  <2>1. /\ enq'[x] = enq[x] /\ (x \in alloc' <=> x \in alloc)
        /\ fate'[x] = fate[x] /\ disk'[x] = disk[x]
    BY Zenon DEF SameElsewhere, DiskElsewhere, Become, World
  <2>2. \A j \in Slots :
          /\ Pends(j, x)' <=> Pends(j, x)
          /\ Pends(j, x) => pool'[j].dirty = pool[j].dirty /\ pool'[j].content = pool[j].content
    BY Zenon, <1>1, <1>4 DEF Pends
  <2>3. QED
    BY Zenon, <2>1, <2>2 DEF Keeps
<1>6. Around({m})
  BY Zenon, <1>2, <1>5 DEF Around
<1>7. QED
  BY Zenon, <1>1, <1>2, <1>4, <1>6 DEF Pends

\* A slot is vacated, and left free or for a member of M.
LEMMA EvictEffect ==
  ASSUME PoolInv, NEW v \in Slots, NEW w \in Vacated(v),
         NEW M \in SUBSET Members, \A x \in M : Found(x) = {},
         NEW u \in WorldType, Calm(w, u),
         \A x \in Members \ M :
            /\ u.enq[x] = w.enq[x] /\ (x \in u.alloc <=> x \in w.alloc)
            /\ u.fate[x] = w.fate[x] /\ u.disk[x] = w.disk[x],
         NEW s, s.status = "USED" => s.member \in M,
         SetSlot(v, s), Become(u)
  PROVE  Around(M) /\ pool'[v] = s /\ World' = u
<1>1. World' = u /\ enq' = u.enq /\ alloc' = u.alloc /\ fate' = u.fate /\ disk' = u.disk
      /\ fatal' = u.fatal
  BY Zenon, BecomeWorld DEF Become
<1>2. pool \in [Slots -> SlotType]
  BY Zenon DEF PoolInv, PoolTypeOK
<1>3. pool'[v] = s /\ \A j \in Slots \ {v} : pool'[j] = pool[j]
  BY Zenon, <1>2 DEF SetSlot
<1>4. /\ w \in WorldType /\ SameElsewhere(World, w, pool[v].member)
      /\ pool[v].status = "FREE" => w = World
  BY Zenon, VacatedStep
<1>5. /\ Calm(World, w) /\ DiskElsewhere(World, w, pool[v].member)
      /\ pool[v].status = "USED" =>
           /\ w.fate[pool[v].member] = "none"
           /\ ReleaseOK /\ HeldIn(w, pool[v].member) => w.fatal
           /\ ~pool[v].dirty => w.disk = disk
           /\ pool[v].dirty /\ FlushOK /\ ~IsFull(full, DatasetOf[pool[v].member]) =>
                w.disk[pool[v].member] = pool[v].content
  BY Zenon, VacatedMore
<1>6. pool[v].status \in {"FREE", "USED"}
  BY Zenon, <1>2 DEF SlotType
<1>7. ASSUME NEW x \in Members \ M
      PROVE  Keeps(x) \/ Vacates(x)
  <2>1. /\ enq'[x] = w.enq[x] /\ (x \in alloc' <=> x \in w.alloc)
        /\ fate'[x] = w.fate[x] /\ disk'[x] = w.disk[x]
    BY Zenon, <1>1
  <2>2. ~Pends(v, x)'
    BY Zenon, <1>3 DEF Pends
  <2>3. CASE Pends(v, x)
    <3>1. \A j \in Slots : ~Pends(j, x)'
      BY <1>3, <2>2, <2>3 DEF PoolInv, OneSlotPerMember, Pends
    <3>2. w.fatal => fatal'
      BY Zenon, <1>1 DEF Calm
    <3>3. pool[v].status = "USED" /\ pool[v].member = x
      BY Zenon, <2>3 DEF Pends
    <3>4. ReleaseOK /\ (enq'[x] = "nfsd" \/ x \in alloc') => fatal'
      BY Zenon, <1>5, <2>1, <3>2, <3>3 DEF HeldIn
    <3>5. fate'[x] = "none"
      BY Zenon, <1>5, <2>1, <3>3
    <3>6. /\ ~pool[v].dirty => disk'[x] = disk[x]
          /\ pool[v].dirty /\ FlushOK /\ ~IsFull(full, DatasetOf[x]) =>
               disk'[x] = pool[v].content
      BY Zenon, <1>5, <2>1, <3>3
    <3>7. QED
      BY Zenon, <2>3, <3>1, <3>4, <3>5, <3>6 DEF Vacates
  <2>4. CASE ~Pends(v, x)
    <3>1. /\ w.enq[x] = enq[x] /\ (x \in w.alloc <=> x \in alloc)
          /\ w.fate[x] = fate[x] /\ w.disk[x] = disk[x]
      <4>1. World.enq = enq /\ World.alloc = alloc /\ World.fate = fate /\ World.disk = disk
        BY Zenon DEF World
      <4>2. w = World \/ x # pool[v].member
        BY Zenon, <1>4, <1>6, <2>4 DEF Pends
      <4>3. CASE w = World
        BY Zenon, <4>1, <4>3
      <4>4. CASE x # pool[v].member
        <5>1. w.enq[x] = World.enq[x] /\ (x \in w.alloc <=> x \in World.alloc)
              /\ w.fate[x] = World.fate[x]
          BY Zenon, <1>4, <4>4 DEF SameElsewhere
        <5>2. w.disk[x] = World.disk[x]
          BY Zenon, <1>5, <4>4 DEF DiskElsewhere
        <5>3. QED
          BY Zenon, <4>1, <5>1, <5>2
      <4>5. QED
        BY Zenon, <4>2, <4>3, <4>4
    <3>2. \A j \in Slots :
            /\ Pends(j, x)' <=> Pends(j, x)
            /\ Pends(j, x) => pool'[j].dirty = pool[j].dirty /\ pool'[j].content = pool[j].content
      BY Zenon, <1>3, <2>2, <2>4 DEF Pends
    <3>3. QED
      BY Zenon, <2>1, <3>1, <3>2 DEF Keeps
  <2>5. QED
    BY Zenon, <2>3, <2>4
<1>8. Calm(World, World')
  BY Zenon, <1>1, <1>5, CalmTrans
<1>9. QED
  BY Zenon, <1>1, <1>3, <1>7, <1>8 DEF Around

-----------------------------------------------------------------------------
(* The requests that give a member content *)

\* To the others the request is nothing, or an eviction; its own member stays
\* as it is in the PDS, and is not left held without a slot.
Gives(m) ==
  Around({m}) /\ disk'[m] = disk[m] /\ fate'[m] # "stowed" /\ Accounted(m)'

\* What an eviction on behalf of another member leaves of one not pending.
LEMMA VictimOther ==
  ASSUME SInv, NEW m \in Members, Found(m) = {}, NEW v \in Slots, NEW w \in Vacated(v)
  PROVE  /\ w \in WorldType
         /\ w.enq[m] = enq[m] /\ (m \in w.alloc <=> m \in alloc)
         /\ w.fate[m] = fate[m] /\ fate[m] # "stowed" /\ w.disk[m] = disk[m]
         /\ ReleaseOK /\ HeldIn(w, m) => w.fatal
<1>1. /\ w \in WorldType /\ SameElsewhere(World, w, pool[v].member)
      /\ pool[v].status = "FREE" => w = World
  BY Zenon, VacatedStep DEF SInv
<1>2. Calm(World, w) /\ DiskElsewhere(World, w, pool[v].member)
  BY Zenon, VacatedMore DEF SInv
<1>3. \A i \in Slots : ~Pends(i, m)
  BY Zenon, FoundIsPending DEF SInv, PoolInv
<1>4. pool[v].status = "FREE" \/ pool[v].member # m
  BY Zenon, <1>3 DEF SInv, PoolInv, Pends, Coherent, SlotType
<1>5. /\ w.enq[m] = enq[m] /\ (m \in w.alloc <=> m \in alloc)
      /\ w.fate[m] = fate[m] /\ w.disk[m] = disk[m]
  BY <1>1, <1>2, <1>4 DEF SameElsewhere, DiskElsewhere, World
<1>6. fate[m] # "stowed" /\ (ReleaseOK /\ (enq[m] = "nfsd" \/ m \in alloc) => fatal)
  BY Zenon, <1>3 DEF SInv, StowedAt, Accounted
<1>7. fatal => w.fatal
  BY Zenon, <1>2 DEF Calm, World
<1>8. QED
  BY Zenon, <1>1, <1>5, <1>6, <1>7 DEF HeldIn

\* pww_slot_new succeeds.
LEMMA NewMemberEffect ==
  ASSUME SInv, NEW m \in Members, Found(m) = {}, NEW s, s.status = "USED", s.member = m,
         NewMember(m, s)
  PROVE  Gives(m)
<1> DEFINE M == {m}
<1>1. M \in SUBSET Members /\ \A x \in M : Found(x) = {}
  BY Zenon
<1>2. PICK v \in Slots : \E w \in Vacated(v) :
        SetSlot(v, s) /\ Become(IF s.dirty THEN Owe(Lock(w, m), m) ELSE Lock(w, m))
  BY Zenon DEF NewMember
<1>3. PICK w \in Vacated(v) :
        SetSlot(v, s) /\ Become(IF s.dirty THEN Owe(Lock(w, m), m) ELSE Lock(w, m))
  BY Zenon, <1>2
<1>4. PICK l : l = Lock(w, m)
  BY Zenon
<1>5. PICK u : u = IF s.dirty THEN Owe(l, m) ELSE l
  BY Zenon
<1>6. /\ w \in WorldType /\ w.fate[m] = fate[m] /\ fate[m] # "stowed" /\ w.disk[m] = disk[m]
  BY VictimOther
<1>7. l \in WorldType /\ SameElsewhere(w, l, m) /\ l.fate = w.fate
  BY Zenon, <1>4, <1>6, LockStep
<1>8. l.disk = w.disk /\ Calm(w, l)
  BY <1>4, <1>6, LockMore
<1>9. u \in WorldType /\ SameElsewhere(l, u, m) /\ u.disk = l.disk /\ Calm(l, u)
      /\ u.fate[m] # "stowed"
  <2>1. CASE s.dirty
    <3>1. u = Owe(l, m)
      BY Zenon, <1>5, <2>1
    <3>2. u \in WorldType /\ SameElsewhere(l, u, m)
      BY Zenon, <1>7, <3>1, ToldStep
    <3>3. u.disk = l.disk /\ Calm(l, u)
      BY <1>7, <3>1, LockMore
    <3>4. u.fate = [l.fate EXCEPT ![m] = "owed"]
      BY Zenon, <1>7, <3>1 DEF Owe, WorldType
    <3>5. u.fate[m] = "owed"
      BY Zenon, <1>7, <3>4 DEF WorldType
    <3>6. QED
      BY Zenon, <3>2, <3>3, <3>5
  <2>2. CASE ~s.dirty
    <3>1. u = l
      BY Zenon, <1>5, <2>2
    <3>2. QED
      BY Zenon, <1>6, <1>7, <3>1, CalmSame DEF SameElsewhere
  <2>3. QED
    BY Zenon, <2>1, <2>2
<1>10. Become(u) /\ SetSlot(v, s)
  BY Zenon, <1>3, <1>4, <1>5
<1>11. Calm(w, u)
  BY Zenon, <1>8, <1>9, CalmTrans
<1>12. \A x \in Members \ M :
         /\ u.enq[x] = w.enq[x] /\ (x \in u.alloc <=> x \in w.alloc)
         /\ u.fate[x] = w.fate[x] /\ u.disk[x] = w.disk[x]
  BY Zenon, <1>7, <1>8, <1>9 DEF SameElsewhere
<1>13. s.member \in M
  BY Zenon
<1> HIDE DEF M
<1>14. Around(M) /\ pool'[v] = s /\ World' = u
  BY <1>1, <1>9, <1>10, <1>11, <1>12, <1>13, EvictEffect DEF SInv
<1>15. disk' = u.disk /\ fate' = u.fate
  BY Zenon, <1>10 DEF Become
<1>16. Accounted(m)'
  BY Zenon, <1>14 DEF Accounted, Pends, Slots
<1>17. QED
  BY Zenon, <1>6, <1>8, <1>9, <1>14, <1>15, <1>16 DEF Gives, M

\* It fails, or the member is refused: the slot is left free.
LEMMA NotTakenEffect ==
  ASSUME SInv, NEW m \in Members, Found(m) = {}, NewMemberFails(m) \/ NewMemberRefused(m)
  PROVE  Gives(m)
<1> DEFINE M == {m}
<1>1. M \in SUBSET Members /\ \A x \in M : Found(x) = {}
  BY Zenon
<1>2. ASSUME NEW v \in Slots, NEW w \in Vacated(v), NEW u \in WorldType,
             SameElsewhere(w, u, m), u.disk = w.disk, Calm(w, u), u.fate[m] # "stowed",
             ReleaseOK /\ HeldIn(u, m) => u.fatal,
             SetSlot(v, FreeSlot), Become(u)
      PROVE  Gives(m)
  <2>1. \A x \in Members \ M :
          /\ u.enq[x] = w.enq[x] /\ (x \in u.alloc <=> x \in w.alloc)
          /\ u.fate[x] = w.fate[x] /\ u.disk[x] = w.disk[x]
    BY Zenon, <1>2 DEF SameElsewhere
  <2>2. FreeSlot.status # "USED"
    BY Zenon DEF FreeSlot
  <2> HIDE DEF M
  <2>3. Around(M)
    BY Zenon, <1>1, <1>2, <2>1, <2>2, EvictEffect DEF SInv
  <2>4. disk' = u.disk /\ fate' = u.fate /\ enq' = u.enq /\ alloc' = u.alloc /\ fatal' = u.fatal
    BY Zenon, <1>2 DEF Become
  <2>5. Accounted(m)'
    BY Zenon, <1>2, <2>4 DEF Accounted, HeldIn, ReleaseOK
  <2>6. disk'[m] = disk[m]
    BY <1>2, <2>4, VictimOther
  <2>7. QED
    BY Zenon, <1>2, <2>3, <2>4, <2>5, <2>6 DEF Gives, M
<1>3. CASE NewMemberFails(m)
  <2>1. PICK v \in Slots : \E w \in Vacated(v) : \E u \in LockFailures(w, m) :
          SetSlot(v, FreeSlot) /\ Become(u)
    BY Zenon, <1>3 DEF NewMemberFails
  <2>2. PICK w \in Vacated(v) :
          \E u \in LockFailures(w, m) : SetSlot(v, FreeSlot) /\ Become(u)
    BY Zenon, <2>1
  <2>3. PICK u \in LockFailures(w, m) : SetSlot(v, FreeSlot) /\ Become(u)
    BY Zenon, <2>2
  <2>4. /\ w \in WorldType /\ w.fate[m] # "stowed"
        /\ ReleaseOK /\ HeldIn(w, m) => w.fatal
    BY Zenon, VictimOther
  <2>5. u \in WorldType /\ SameElsewhere(w, u, m) /\ u.fate = w.fate
    BY Zenon, <2>4, LockStep
  <2>6. u.disk = w.disk /\ Calm(w, u) /\ (ReleaseOK => u = w)
    BY Zenon, <2>4, LockMore
  <2>7. QED
    BY Zenon, <1>2, <2>3, <2>4, <2>5, <2>6
<1>4. CASE NewMemberRefused(m)
  <2>1. PICK v \in Slots : \E w \in Vacated(v) : \E r \in Releases(NewSlot(m)) :
          SetSlot(v, FreeSlot) /\ Become(Release(Lock(w, m), NewSlot(m), r))
    BY Zenon, <1>4 DEF NewMemberRefused
  <2>2. PICK w \in Vacated(v), r \in Releases(NewSlot(m)) :
          SetSlot(v, FreeSlot) /\ Become(Release(Lock(w, m), NewSlot(m), r))
    BY Zenon, <2>1
  <2>3. w \in WorldType
    BY Zenon, VictimOther
  <2>4. PICK l : l = Lock(w, m)
    BY Zenon
  <2>5. PICK u : u = Release(l, NewSlot(m), r)
    BY Zenon
  <2>6. l \in WorldType /\ SameElsewhere(w, l, m) /\ l.disk = w.disk /\ Calm(w, l)
    BY Zenon, <2>3, <2>4, LockStep, LockMore
  <2>7. r \in [unalloc : ReleaseKinds, deq : ReleaseKinds]
    BY Zenon, ReleasesType
  <2>8. /\ Coherent(NewSlot(m)) /\ NewSlot(m).status = "USED" /\ NewSlot(m).member = m
        /\ NewSlot(m).enq_held /\ NewSlot(m).allocated
    BY Zenon, NewSlotForm
  <2>9. u \in WorldType /\ SameElsewhere(l, u, m) /\ u.fate[m] # "stowed"
    BY <2>5, <2>6, <2>7, <2>8, ReleaseStep
  <2>10. /\ u.disk = l.disk /\ u.listing = l.listing /\ u.full = l.full
         /\ l.fatal => u.fatal
         /\ ReleaseOK /\ HeldIn(u, m) => u.fatal
    BY <2>5, <2>6, <2>8, ReleaseMore DEF HeldIn
  <2>11. Calm(w, u)
    BY Zenon, <2>6, <2>10, CalmSame, CalmTrans
  <2>12. SameElsewhere(w, u, m) /\ u.disk = w.disk
    BY Zenon, <2>6, <2>9, <2>10 DEF SameElsewhere
  <2>13. SetSlot(v, FreeSlot) /\ Become(u)
    BY Zenon, <2>2, <2>4, <2>5
  <2>14. QED
    BY Zenon, <1>2, <2>9, <2>10, <2>11, <2>12, <2>13
<1>5. QED
  BY Zenon, <1>3, <1>4

\* A request accepted, or failing, for a member that is pending.
LEMMA ToldEffect ==
  ASSUME SInv, NEW m \in Members, NEW i \in Found(m),
         NEW s, s.status = "USED", s.member = m, SetSlot(i, s),
         NEW u \in {Owe(World, m), Fail(World, m)}, Become(u)
  PROVE  Gives(m)
<1>1. PoolInv /\ World \in WorldType /\ i \in Slots
  BY Zenon, FoundIsPending DEF SInv, PoolInv, PoolTypeOK
<1>2. u \in WorldType /\ SameElsewhere(World, u, m)
  BY Zenon, <1>1, ToldStep
<1>3. u.disk = disk /\ Calm(World, u)
  BY <1>1, LockMore DEF World
<1>4. \E t \in {"owed", "failed"} : u = [World EXCEPT !.fate[m] = t]
  BY Zenon DEF Owe, Fail
<1>5. \E t \in {"owed", "failed"} : u.fate = [fate EXCEPT ![m] = t]
  BY Zenon, <1>1, <1>4 DEF World
<1>6. u.fate[m] # "stowed"
  BY Zenon, <1>1, <1>5 DEF World, WorldType
<1>7. DiskElsewhere(World, u, m)
  BY Zenon, <1>3 DEF DiskElsewhere, World
<1>8. Around({m}) /\ Pends(i, m)' /\ World' = u
  BY Zenon, <1>1, <1>2, <1>3, <1>7, RewriteEffect
<1>9. disk' = u.disk /\ fate' = u.fate
  BY Zenon DEF Become
<1>10. Accounted(m)'
  BY Zenon, <1>1, <1>8 DEF Accounted, Slots
<1>11. QED
  BY Zenon, <1>3, <1>6, <1>8, <1>9, <1>10 DEF Gives

\* The content of a found slot replaced or spoilt.
LEMMA ContentEffect ==
  ASSUME SInv, NEW m \in Members, NEW i \in Found(m), NEW c \in Contents, NEW b \in BOOLEAN,
         \/ SetSlot(i, Accepted(pool[i], c, b)) /\ Become(Owe(World, m))
         \/ SetSlot(i, [pool[i] EXCEPT !.content = c]) /\ Become(Fail(World, m))
  PROVE  Gives(m)
<1>1. PoolInv /\ Coherent(pool[i]) /\ pool[i].status = "USED" /\ pool[i].member = m
  BY Zenon, FoundSlot DEF SInv
<1>2. CASE SetSlot(i, Accepted(pool[i], c, b)) /\ Become(Owe(World, m))
  BY <1>1, <1>2, AcceptedForm, ToldEffect
<1>3. CASE SetSlot(i, [pool[i] EXCEPT !.content = c]) /\ Become(Fail(World, m))
  <2>1. PICK s : s = [pool[i] EXCEPT !.content = c]
    BY Zenon
  <2>2. s.status = "USED" /\ s.member = m
    BY Zenon, <1>1, <2>1 DEF Coherent, SlotType
  <2>3. QED
    BY Zenon, <1>3, <2>1, <2>2, ToldEffect
<1>4. QED
  BY Zenon, <1>2, <1>3

\* pww_truncate starts a member that is not pending empty, or fails to.
LEMMA StartEmptyEffect ==
  ASSUME SInv, NEW m \in Members, Found(m) = {}, StartEmpty(m)
  PROVE  Gives(m)
<1> DEFINE s == Accepted(NewSlot(m), <<>>, TRUE)
<1>1. s.status = "USED" /\ s.member = m
  BY ZenonT(30), NewSlotForm, AcceptedForm, PayloadType
<1>2. NewMember(m, s) \/ NewMemberFails(m) \/ NewMemberRefused(m)
  BY Zenon DEF StartEmpty
<1> HIDE DEF s
<1>3. QED
  BY Zenon, <1>1, <1>2, NewMemberEffect, NotTakenEffect

\* CREATE (pww_create) starts the member empty, pending or not.
LEMMA CreateEffect ==
  ASSUME SInv, NEW m \in Members, Create(m)
  PROVE  Gives(m)
<1>1. CASE Found(m) = {}
  BY Zenon, <1>1, StartEmptyEffect DEF Create
<1>2. CASE Found(m) # {}
  <2>1. PICK i \in Found(m) :
          \/ SetSlot(i, Accepted(pool[i], <<>>, TRUE)) /\ Become(Owe(World, m))
          \/ SetSlot(i, [pool[i] EXCEPT !.content = <<>>]) /\ Become(Fail(World, m))
    BY Zenon, <1>2 DEF Create, CreateOver
  <2>2. <<>> \in Contents /\ TRUE \in BOOLEAN
    BY Zenon, PayloadType
  <2>3. QED
    BY Zenon, <2>1, <2>2, ContentEffect
<1>3. QED
  BY Zenon, <1>1, <1>2

\* WRITE (pww_write), first or later, accepted or refused.
LEMMA WriteEffect ==
  ASSUME SInv, NEW m \in Members, NEW off \in 0 .. MaxLen, NEW dat \in Payloads,
         Write(m, off, dat)
  PROVE  Gives(m)
<1>1. CASE Found(m) = {}
  <2> DEFINE s == Accepted(NewSlot(m), dat, TRUE)
  <2>1. s.status = "USED" /\ s.member = m
    BY ZenonT(30), NewSlotForm, AcceptedForm, PayloadType
  <2>2. NewMember(m, s) \/ NewMember(m, NewSlot(m)) \/ NewMemberFails(m)
    BY Zenon, <1>1 DEF Write, FirstWrite
  <2> HIDE DEF s
  <2>3. QED
    BY Zenon, <1>1, <2>1, <2>2, NewSlotForm, NewMemberEffect, NotTakenEffect
<1>2. CASE Found(m) # {}
  <2>1. PICK i \in Found(m) :
          \/ /\ SetSlot(i, Accepted(pool[i], Overlay(pool[i].content, off, dat),
                                    pool[i].begun \/ off = 0))
             /\ Become(Owe(World, m))
          \/ \E c \in Garbled(pool[i].content) :
               SetSlot(i, [pool[i] EXCEPT !.content = c]) /\ Become(Fail(World, m))
    BY Zenon, <1>2 DEF Write, NextWrite
  <2>2. Overlay(pool[i].content, off, dat) \in Contents
    <3>1. off + Len(dat) <= MaxLen /\ off \in Nat
      BY MemberBytesAssumption DEF Write
    <3>2. QED
      BY Zenon, <3>1, FoundSlot, OverlayType DEF SInv
  <2>3. (pool[i].begun \/ off = 0) \in BOOLEAN
    BY Zenon
  <2>4. Garbled(pool[i].content) \subseteq Contents
    BY Zenon, FoundSlot DEF SInv
  <2>5. QED
    BY Zenon, <2>1, <2>2, <2>3, <2>4, ContentEffect
<1>3. QED
  BY Zenon, <1>1, <1>2

\* SETATTR of the size (vfs_truncate, pww_truncate).
LEMMA TruncateEffect ==
  ASSUME SInv, NEW m \in Members, NEW n \in 0 .. MaxLen, Truncate(m, n)
  PROVE  Gives(m)
<1>1. CASE Found(m) = {}
  BY Zenon, <1>1, StartEmptyEffect DEF Truncate
<1>2. CASE Found(m) # {}
  <2>1. PICK i \in Found(m) :
          \/ /\ SetSlot(i, Accepted(pool[i], Resize(pool[i].content, n),
                                    pool[i].begun \/ n = 0))
             /\ Become(Owe(World, m))
          \/ \E c \in Garbled(pool[i].content) :
               SetSlot(i, [pool[i] EXCEPT !.content = c]) /\ Become(Fail(World, m))
    BY Zenon, <1>2 DEF Truncate, ResizePending
  <2>2. Resize(pool[i].content, n) \in Contents
    BY Zenon, FoundSlot, ResizeType DEF SInv
  <2>3. (pool[i].begun \/ n = 0) \in BOOLEAN
    BY Zenon
  <2>4. Garbled(pool[i].content) \subseteq Contents
    BY Zenon, FoundSlot DEF SInv
  <2>5. QED
    BY Zenon, <2>1, <2>2, <2>3, <2>4, ContentEffect
<1>3. QED
  BY Zenon, <1>1, <1>2

\* A READ that loses the scratch dataset spoils the content and says so.
LEMMA ReadLosesScratchEffect ==
  ASSUME SInv, NEW m \in Members, ReadLosesScratch(m)
  PROVE  Gives(m)
<1>1. PICK i \in Found(m) : \E c \in Garbled(pool[i].content) :
        SetSlot(i, [pool[i] EXCEPT !.content = c])
  BY Zenon DEF ReadLosesScratch
<1>2. Garbled(pool[i].content) \subseteq Contents /\ Become(Fail(World, m))
  BY Zenon, FoundSlot DEF ReadLosesScratch, SInv
<1>3. TRUE \in BOOLEAN
  BY Zenon
<1>4. QED
  BY Zenon, <1>1, <1>2, <1>3, ContentEffect

-----------------------------------------------------------------------------
(* COMMIT, REMOVE and RENAME *)

\* The slot of m keeps pending; if the flush stowed, its content, which is
\* what it was, is in the PDS.
Stowing(m) ==
  /\ Around({m})
  /\ \E i \in Slots :
       /\ Pends(i, m) /\ pool[i].dirty /\ Pends(i, m)'
       /\ fate'[m] = "stowed" =>
            /\ ~pool'[i].dirty /\ pool'[i].content = pool[i].content
            /\ disk'[m] = pool[i].content

\* A flush that keeps the slot: COMMIT, and a RENAME it stops.
LEMMA FlushEffect ==
  ASSUME PoolInv, NEW m \in Members, NEW i \in Found(m), pool[i].dirty,
         NEW f \in Flushes(World, pool[i]),
         NEW s \in FlushedSlots(World, pool[i], f), SetSlot(i, s),
         Become(Flush(World, pool[i], f))
  PROVE  Stowing(m)
<1>1. /\ i \in Slots /\ Coherent(pool[i]) /\ pool[i].status = "USED" /\ pool[i].member = m
  BY Zenon, FoundSlot
<1>2. World \in WorldType
  BY Zenon DEF PoolInv, PoolTypeOK
<1>3. PICK u : u = Flush(World, pool[i], f)
  BY Zenon
<1>4. u \in WorldType /\ SameElsewhere(World, u, m)
  BY Zenon, <1>1, <1>2, <1>3, FlushStep
<1>5. /\ Calm(World, u) /\ DiskElsewhere(World, u, m)
      /\ Stows(World, pool[i], f) => u.disk[m] = pool[i].content
      /\ ~Stows(World, pool[i], f) => u.fate[m] = "failed"
  BY <1>1, <1>2, <1>3, FlushMore
<1>6. PICK c : s = [pool[i] EXCEPT !.dirty = DirtyAfter(World, pool[i], f), !.content = c]
               /\ (~DirtyAfter(World, pool[i], f) => c = pool[i].content)
  BY Zenon DEF FlushedSlots
<1>7. s.status = "USED" /\ s.member = m /\ s.content = c
      /\ s.dirty = DirtyAfter(World, pool[i], f)
  BY Zenon, <1>1, <1>6 DEF Coherent, SlotType
<1>8. Stows(World, pool[i], f) => ~DirtyAfter(World, pool[i], f)
  BY Zenon DEF Stows, DirtyAfter
<1>9. Around({m}) /\ Pends(i, m)' /\ pool'[i] = s
  BY Zenon, <1>1, <1>3, <1>4, <1>5, <1>7, RewriteEffect
<1>10. disk' = u.disk /\ fate' = u.fate
  BY Zenon, <1>3 DEF Become
<1>11. fate'[m] = "stowed" => ~s.dirty /\ s.content = pool[i].content
                              /\ disk'[m] = pool[i].content
  BY Zenon, <1>5, <1>6, <1>7, <1>8, <1>10
<1>12. Pends(i, m)
  BY Zenon, <1>1 DEF Pends
<1>13. QED
  BY Zenon, <1>1, <1>9, <1>11, <1>12 DEF Stowing

\* COMMIT (vfs_commit) flushes the slot of its member, if there is one.
LEMMA CommitEffect ==
  ASSUME PoolInv, NEW m \in Members, Commit(m)
  PROVE  Stowing(m)
<1>1. PICK i \in Found(m) : \E f \in Flushes(World, pool[i]) :
        /\ pool[i].dirty
        /\ \E s \in FlushedSlots(World, pool[i], f) : SetSlot(i, s)
        /\ Become(Flush(World, pool[i], f))
  BY Zenon DEF Commit
<1>2. PICK f \in Flushes(World, pool[i]) :
        /\ pool[i].dirty
        /\ \E s \in FlushedSlots(World, pool[i], f) : SetSlot(i, s)
        /\ Become(Flush(World, pool[i], f))
  BY Zenon, <1>1
<1>3. QED
  BY Zenon, <1>2, FlushEffect

\* What the invariant asks of member x after the step.
Right(x) == StowedAt(x)' /\ Accounted(x)'

\* All members but those of M are kept, and those of M are right.
Drops(M) ==
  Calm(World, World') /\ (\A x \in Members \ M : Keeps(x)) /\ \A x \in M : Right(x)

\* The slots of members of M are freed or cleaned, the others are kept.
LEMMA OthersKept ==
  ASSUME NEW M \in SUBSET Members, NEW u, Become(u),
         \A x \in Members \ M :
            /\ u.enq[x] = enq[x] /\ (x \in u.alloc <=> x \in alloc)
            /\ u.fate[x] = fate[x] /\ u.disk[x] = disk[x],
         \A i \in Slots :
            \/ pool'[i] = pool[i]
            \/ /\ pool[i].status = "USED" => pool[i].member \in M
               /\ pool'[i].status = "USED" => pool'[i].member \in M
  PROVE  \A x \in Members \ M : Keeps(x)
<1> SUFFICES ASSUME NEW x \in Members \ M
             PROVE  Keeps(x)
  BY Zenon
<1>1. /\ enq'[x] = enq[x] /\ (x \in alloc' <=> x \in alloc)
      /\ fate'[x] = fate[x] /\ disk'[x] = disk[x]
  BY Zenon DEF Become
<1>2. \A i \in Slots :
        /\ Pends(i, x)' <=> Pends(i, x)
        /\ Pends(i, x) => pool'[i].dirty = pool[i].dirty /\ pool'[i].content = pool[i].content
  BY Zenon DEF Pends
<1>3. QED
  BY Zenon, <1>1, <1>2 DEF Keeps

\* REMOVE (vfs_remove) drops the slot unflushed and deletes from the PDS.
LEMMA RemoveEffect ==
  ASSUME SInv, NEW m \in Members, Remove(m)
  PROVE  Drops({m})
<1>1. PoolInv /\ World \in WorldType /\ DatasetOf[m] \in Datasets
  BY Zenon, PendingPoolAssumption DEF SInv, PoolInv, PoolTypeOK
<1>2. PICK w \in Discards(World, m) :
        \/ Become([w EXCEPT !.disk[m] = Absent, !.listing[DatasetOf[m]] = "none"])
        \/ Become(w)
  BY Zenon DEF Remove
<1>3. /\ w \in WorldType /\ SameElsewhere(World, w, m)
      /\ Found(m) = {} => w = World
      /\ Found(m) # {} => w.fate[m] = "none"
  BY <1>1, DiscardStep
<1>4. /\ Calm(World, w) /\ w.disk = disk
      /\ Found(m) # {} /\ ReleaseOK /\ HeldIn(w, m) => w.fatal
  BY Zenon, <1>1, DiscardMore DEF World
<1>5. PICK u : /\ Become(u) /\ u \in WorldType /\ u.enq = w.enq /\ u.alloc = w.alloc
               /\ u.fate = w.fate /\ u.fatal = w.fatal
               /\ DiskElsewhere(w, u, m) /\ Calm(w, u)
  <2>1. CASE Become(w)
    BY Zenon, <1>3, <2>1, CalmSame
  <2>2. CASE Become([w EXCEPT !.disk[m] = Absent, !.listing[DatasetOf[m]] = "none"])
    <3>1. PICK u : u = [w EXCEPT !.disk[m] = Absent, !.listing[DatasetOf[m]] = "none"]
      BY Zenon
    <3>2. u \in WorldType
      BY Zenon, <1>1, <1>3, <3>1 DEF WorldType
    <3>3. u.enq = w.enq /\ u.alloc = w.alloc /\ u.fate = w.fate
      BY Zenon, <1>3, <3>1 DEF WorldType
    <3>4. u.fatal = w.fatal /\ u.full = w.full
      BY Zenon, <1>3, <3>1 DEF WorldType
    <3>5. /\ u.disk = [w.disk EXCEPT ![m] = Absent]
          /\ u.listing = [w.listing EXCEPT ![DatasetOf[m]] = "none"]
      BY Zenon, <1>3, <3>1 DEF WorldType
    <3>6. /\ w.disk \in [Members -> Contents \cup {Absent}]
          /\ w.listing \in [Datasets -> {"none", "current", "stale"}]
      BY Zenon, <1>3 DEF WorldType
    <3>7. DiskElsewhere(w, u, m) /\ Calm(w, u)
      BY Zenon, <1>1, <3>4, <3>5, <3>6 DEF DiskElsewhere, Calm
    <3>8. QED
      BY Zenon, <2>2, <3>1, <3>2, <3>3, <3>4, <3>7
  <2>3. QED
    BY Zenon, <1>2, <2>1, <2>2
<1>6. World' = u /\ Calm(World, u)
  BY Zenon, <1>4, <1>5, BecomeWorld, CalmTrans
<1>7. pool' = [i \in Slots |-> IF i \in Found(m) THEN FreeSlot ELSE pool[i]]
  BY Zenon DEF Remove, FreeSlots
<1>8. \A i \in Slots : i \in Found(m) <=> Pends(i, m)
  BY Zenon, <1>1, FoundIsPending DEF PoolInv
<1> DEFINE M == {m}
<1>9. M \in SUBSET Members
  BY Zenon
<1>10. \A x \in Members \ M :
         /\ u.enq[x] = enq[x] /\ (x \in u.alloc <=> x \in alloc)
         /\ u.fate[x] = fate[x] /\ u.disk[x] = disk[x]
  BY <1>3, <1>4, <1>5 DEF SameElsewhere, DiskElsewhere, World
<1>11. \A i \in Slots :
         \/ pool'[i] = pool[i]
         \/ /\ pool[i].status = "USED" => pool[i].member \in M
            /\ pool'[i].status = "USED" => pool'[i].member \in M
  BY Zenon, <1>7, <1>8 DEF Pends, FreeSlot
<1>12. fate'[m] # "stowed" /\ (ReleaseOK /\ (enq'[m] = "nfsd" \/ m \in alloc') => fatal')
  <2>1. fate' = w.fate /\ enq' = w.enq /\ alloc' = w.alloc /\ fatal' = w.fatal
    BY Zenon, <1>5 DEF Become
  <2>2. CASE Found(m) # {}
    BY Zenon, <1>3, <1>4, <2>1, <2>2 DEF HeldIn
  <2>3. CASE Found(m) = {}
    <3>1. fate[m] # "stowed" /\ (ReleaseOK /\ (enq[m] = "nfsd" \/ m \in alloc) => fatal)
      BY Zenon, <1>8, <2>3 DEF SInv, StowedAt, Accounted
    <3>2. QED
      BY <1>3, <2>1, <2>3, <3>1 DEF World
  <2>4. QED
    BY Zenon, <2>2, <2>3
<1>13. Right(m)
  BY Zenon, <1>12 DEF Right, StowedAt, Accounted, ReleaseOK
<1> HIDE DEF M
<1>14. \A x \in Members \ M : Keeps(x)
  BY Zenon, <1>5, <1>9, <1>10, <1>11, OthersKept
<1>15. QED
  BY Zenon, <1>6, <1>13, <1>14 DEF Drops, M

-----------------------------------------------------------------------------
(* RENAME *)

\* The source of a RENAME before it is moved: nothing was to stow, or it was
\* stowed.
LEMMA SettledMore ==
  ASSUME PoolInv, NEW a \in Members, NEW w \in Settled(a)
  PROVE  /\ Calm(World, w) /\ DiskElsewhere(World, w, a)
         /\ \/ w = World /\ \A i \in Found(a) : ~pool[i].dirty
            \/ \A i \in Found(a) : w.disk[a] = pool[i].content
         /\ Found(a) = {} => w = World
<1>1. World \in WorldType
  BY Zenon DEF PoolInv, PoolTypeOK
<1>2. CASE \A i \in Found(a) : ~pool[i].dirty
  <2>1. w = World
    BY Zenon, <1>2 DEF Settled
  <2>2. QED
    BY Zenon, <1>2, <2>1, CalmSame
<1>3. CASE \E i \in Found(a) : pool[i].dirty
  <2>1. PICK i \in Found(a) : \E f \in Flushes(World, pool[i]) :
          Stows(World, pool[i], f) /\ w = Flush(World, pool[i], f)
    BY Zenon, <1>3 DEF Settled
  <2>2. PICK f \in Flushes(World, pool[i]) :
          Stows(World, pool[i], f) /\ w = Flush(World, pool[i], f)
    BY Zenon, <2>1
  <2>3. pool[i].dirty /\ \A j \in Found(a) : j = i
    BY Zenon, <1>3, FoundIsPending DEF PoolInv
  <2>4. Coherent(pool[i]) /\ pool[i].status = "USED" /\ pool[i].member = a
    BY Zenon, FoundSlot
  <2>5. Calm(World, w) /\ DiskElsewhere(World, w, a) /\ w.disk[a] = pool[i].content
    BY <1>1, <2>2, <2>3, <2>4, FlushMore
  <2>6. QED
    BY Zenon, <2>3, <2>5
<1>4. QED
  BY Zenon, <1>2, <1>3

\* A member without a slot was not stowed, and is held only after an abend.
LEMMA NotFoundRight ==
  ASSUME SInv, NEW m \in Members, Found(m) = {}
  PROVE  fate[m] # "stowed" /\ (ReleaseOK /\ HeldIn(World, m) => fatal)
<1>1. \A i \in Slots : ~Pends(i, m)
  BY Zenon, FoundIsPending DEF SInv, PoolInv
<1>2. QED
  BY Zenon, <1>1 DEF SInv, StowedAt, Accounted, HeldIn, World

\* Both names of a RENAME after the discard of the target's slot.
LEMMA DiscardedTarget ==
  ASSUME SInv, NEW a \in Members, NEW b \in Members,
         NEW w1 \in Settled(a), NEW w2 \in Discards(w1, b)
  PROVE  /\ w1 \in WorldType /\ w2 \in WorldType /\ Calm(World, w2)
         /\ \A x \in Members \ {a, b} :
              /\ w2.enq[x] = enq[x] /\ (x \in w2.alloc <=> x \in alloc)
              /\ w2.fate[x] = fate[x] /\ w2.disk[x] = disk[x]
         /\ w2.disk = w1.disk
         /\ w2.fate[b] # "stowed" /\ (ReleaseOK /\ HeldIn(w2, b) => w2.fatal)
         /\ a # b => /\ w2.fate[a] = w1.fate[a] /\ w2.enq[a] = enq[a]
                     /\ a \in w2.alloc <=> a \in alloc
         /\ fatal => w2.fatal
<1>1. PoolInv
  BY Zenon DEF SInv
<1>2. /\ w1 \in WorldType /\ w1.enq = enq /\ w1.alloc = alloc
      /\ SameElsewhere(World, w1, a)
  BY Zenon, <1>1, SettledStep
<1>3. /\ Calm(World, w1) /\ DiskElsewhere(World, w1, a)
      /\ Found(a) = {} => w1 = World
  BY Zenon, <1>1, SettledMore
<1>4. /\ w2 \in WorldType /\ SameElsewhere(w1, w2, b) /\ w2.disk = w1.disk
      /\ Found(b) = {} => w2 = w1
      /\ Found(b) # {} => w2.fate[b] = "none"
  BY <1>1, <1>2, DiscardStep
<1>5. /\ Calm(w1, w2)
      /\ Found(b) # {} /\ ReleaseOK /\ HeldIn(w2, b) => w2.fatal
  BY Zenon, <1>1, <1>2, DiscardMore
<1>6. Calm(World, w2)
  BY Zenon, <1>3, <1>5, CalmTrans
<1>7. fatal => w2.fatal
  BY Zenon, <1>6 DEF Calm, World
<1>8. \A x \in Members \ {a, b} :
        /\ w2.enq[x] = enq[x] /\ (x \in w2.alloc <=> x \in alloc)
        /\ w2.fate[x] = fate[x] /\ w2.disk[x] = disk[x]
  BY Zenon, <1>2, <1>3, <1>4 DEF SameElsewhere, DiskElsewhere, World
<1>9. w2.fate[b] # "stowed" /\ (ReleaseOK /\ HeldIn(w2, b) => w2.fatal)
  <2>1. CASE Found(b) # {}
    BY Zenon, <1>4, <1>5, <2>1
  <2>2. CASE Found(b) = {}
    <3>1. fate[b] # "stowed" /\ (ReleaseOK /\ HeldIn(World, b) => fatal)
      BY Zenon, <2>2, NotFoundRight
    <3>2. w2 = w1 /\ w1.fate[b] = fate[b]
      BY <1>2, <1>3, <1>4, <2>2 DEF SameElsewhere, World
    <3>3. QED
      BY Zenon, <1>2, <1>7, <3>1, <3>2 DEF HeldIn, World
  <2>3. QED
    BY Zenon, <2>1, <2>2
<1>10. a # b => /\ w2.fate[a] = w1.fate[a] /\ w2.enq[a] = enq[a]
                /\ a \in w2.alloc <=> a \in alloc
  BY Zenon, <1>2, <1>4 DEF SameElsewhere
<1>11. QED
  BY Zenon, <1>2, <1>4, <1>6, <1>7, <1>8, <1>9, <1>10

\* A RENAME whose last step fails keeps the source's slot, clean.
LEMMA RenameStoppedEffect ==
  ASSUME SInv, NEW a \in Members, NEW b \in Members,
         NEW w1 \in Settled(a), NEW w2 \in Discards(w1, b), Become(w2),
         pool' = [i \in Slots |-> IF i \in Found(b) THEN FreeSlot
                                  ELSE IF i \in Found(a)
                                  THEN [pool[i] EXCEPT !.dirty = FALSE]
                                  ELSE pool[i]]
  PROVE  Drops({a, b})
<1> DEFINE M == {a, b}
<1>1. /\ w2 \in WorldType /\ Calm(World, w2) /\ w2.disk = w1.disk
      /\ w2.fate[b] # "stowed" /\ (ReleaseOK /\ HeldIn(w2, b) => w2.fatal)
      /\ a # b => /\ w2.fate[a] = w1.fate[a] /\ w2.enq[a] = enq[a]
                  /\ a \in w2.alloc <=> a \in alloc
      /\ fatal => w2.fatal
  BY DiscardedTarget
<1>2. \A x \in Members \ M :
        /\ w2.enq[x] = enq[x] /\ (x \in w2.alloc <=> x \in alloc)
        /\ w2.fate[x] = fate[x] /\ w2.disk[x] = disk[x]
  BY DiscardedTarget
<1>3. \A i \in Slots : /\ i \in Found(a) <=> Pends(i, a)
                       /\ i \in Found(b) <=> Pends(i, b)
  BY Zenon, FoundIsPending DEF SInv, PoolInv
<1>4. \A i \in Slots : pool[i] \in SlotType
  BY Zenon DEF SInv, PoolInv, PoolTypeOK
<1>5. World' = w2 /\ M \in SUBSET Members
  BY Zenon, <1>1, BecomeWorld
<1>6. \A i \in Slots :
         \/ pool'[i] = pool[i]
         \/ /\ pool[i].status = "USED" => pool[i].member \in M
            /\ pool'[i].status = "USED" => pool'[i].member \in M
  BY Zenon, <1>3, <1>4 DEF Pends, FreeSlot, SlotType
<1>7. \A x \in Members \ M : Keeps(x)
  <2> HIDE DEF M
  <2>1. QED
    BY Zenon, <1>2, <1>5, <1>6, OthersKept
<1>8. Right(b)
  BY Zenon, <1>1 DEF Right, StowedAt, Accounted, Become, HeldIn, ReleaseOK
<1>9. ASSUME a # b
      PROVE  Right(a)
  <2>1. CASE Found(a) = {}
    <3>1. fate[a] # "stowed" /\ (ReleaseOK /\ HeldIn(World, a) => fatal)
      BY Zenon, <2>1, NotFoundRight
    <3>2. w1 = World
      BY Zenon, <2>1, SettledMore DEF SInv
    <3>3. QED
      BY Zenon, <1>1, <1>9, <3>1, <3>2 DEF Right, StowedAt, Accounted, Become, HeldIn,
         World, ReleaseOK
  <2>2. CASE Found(a) # {}
    <3>1. PICK i \in Found(a) : TRUE
      BY Zenon, <2>2
    <3>2. i \in Slots /\ Pends(i, a) /\ i \notin Found(b)
      BY Zenon, <1>3, <1>9, FoundSlot DEF Pends, SInv
    <3>3. pool'[i] = [pool[i] EXCEPT !.dirty = FALSE]
      BY Zenon, <3>2
    <3>4. Pends(i, a)' /\ ~pool'[i].dirty /\ pool'[i].content = pool[i].content
      BY Zenon, <1>4, <3>2, <3>3 DEF Pends, SlotType
    <3>5. fate'[a] = "stowed" => disk'[a] = pool[i].content
      <4>1. fate' = w2.fate /\ disk' = w2.disk
        BY Zenon DEF Become
      <4>2. CASE w1.disk[a] = pool[i].content
        BY Zenon, <1>1, <4>1, <4>2
      <4>3. CASE w1 = World
        <5>1. \A j \in Slots : Pends(j, a) => j = i
          BY Zenon, <1>3, FoundIsPending DEF SInv, PoolInv
        <5>2. QED
          BY Zenon, <1>1, <1>9, <4>1, <4>3, <5>1 DEF SInv, StowedAt, World
      <4>4. QED
        BY Zenon, <4>2, <4>3, SettledMore DEF SInv
    <3>6. QED
      BY Zenon, <3>2, <3>4, <3>5 DEF Right, StowedAt, Accounted, Slots
  <2>3. QED
    BY Zenon, <2>1, <2>2
<1>10. QED
  BY Zenon, <1>1, <1>5, <1>7, <1>8, <1>9 DEF Drops

\* A RENAME that goes through leaves neither name pending, and the directory
\* of both without a cached listing.
LEMMA RenameDoneEffect ==
  ASSUME SInv, NEW a \in Members, NEW b \in Members, DatasetOf[a] = DatasetOf[b],
         NEW w1 \in Settled(a), NEW w2 \in Discards(w1, b),
         NEW w3 \in (IF a = b THEN {w2} ELSE Discards(w2, a)),
         FreeSlots(Found(a) \cup Found(b)),
         NEW u, u = [w3 EXCEPT !.disk = Renamed(w2.disk, a, b), !.listing[DatasetOf[a]] = "none"],
         Become(u)
  PROVE  Drops({a, b})
<1> DEFINE M == {a, b}
<1>1. /\ w2 \in WorldType /\ Calm(World, w2) /\ w2.disk = w1.disk
      /\ w2.fate[b] # "stowed" /\ (ReleaseOK /\ HeldIn(w2, b) => w2.fatal)
      /\ a # b => /\ w2.fate[a] = w1.fate[a] /\ w2.enq[a] = enq[a]
                  /\ a \in w2.alloc <=> a \in alloc
      /\ fatal => w2.fatal
  BY DiscardedTarget
<1>2. \A x \in Members \ M :
        /\ w2.enq[x] = enq[x] /\ (x \in w2.alloc <=> x \in alloc)
        /\ w2.fate[x] = fate[x] /\ w2.disk[x] = disk[x]
  BY DiscardedTarget
<1>3. /\ w3 \in WorldType /\ SameElsewhere(w2, w3, a) /\ Calm(w2, w3) /\ w3.disk = w2.disk
      /\ w3.fate[a] # "stowed" /\ (ReleaseOK /\ HeldIn(w3, a) => w3.fatal)
  <2>1. CASE a = b
    BY Zenon, <1>1, <2>1, CalmSame DEF SameElsewhere
  <2>2. CASE a # b
    <3>1. w3 \in Discards(w2, a)
      BY Zenon, <2>2
    <3>2. /\ w3 \in WorldType /\ SameElsewhere(w2, w3, a) /\ w3.disk = w2.disk
          /\ Found(a) = {} => w3 = w2
          /\ Found(a) # {} => w3.fate[a] = "none"
      BY <1>1, <3>1, DiscardStep DEF SInv
    <3>3. /\ Calm(w2, w3)
          /\ Found(a) # {} /\ ReleaseOK /\ HeldIn(w3, a) => w3.fatal
      BY Zenon, <1>1, <3>1, DiscardMore DEF SInv
    <3>4. CASE Found(a) = {}
      <4>1. fate[a] # "stowed" /\ (ReleaseOK /\ HeldIn(World, a) => fatal)
        BY Zenon, <3>4, NotFoundRight
      <4>2. w1 = World
        BY Zenon, <3>4, SettledMore DEF SInv
      <4>3. QED
        BY Zenon, <1>1, <2>2, <3>2, <3>3, <3>4, <4>1, <4>2 DEF HeldIn, World
    <3>5. QED
      BY Zenon, <3>2, <3>3, <3>4
  <2>3. QED
    BY Zenon, <2>1, <2>2
<1>4. DatasetOf[a] \in Datasets
  BY Zenon, PendingPoolAssumption
<1>5. Renamed(w2.disk, a, b) \in [Members -> Contents \cup {Absent}]
  BY Zenon, <1>1 DEF Renamed, WorldType
<1>6. u \in WorldType
  BY Zenon, <1>3, <1>4, <1>5 DEF WorldType
<1>7. u.enq = w3.enq /\ u.alloc = w3.alloc /\ u.fate = w3.fate
  BY Zenon, <1>3 DEF WorldType
<1>8. u.fatal = w3.fatal /\ u.full = w3.full
  BY Zenon, <1>3 DEF WorldType
<1>9. /\ u.disk = Renamed(w2.disk, a, b)
      /\ u.listing = [w3.listing EXCEPT ![DatasetOf[a]] = "none"]
  BY Zenon, <1>3 DEF WorldType
<1>10. \A x \in Members \ M : u.disk[x] = w3.disk[x]
  BY <1>1, <1>3, <1>9 DEF Renamed, WorldType
<1>11. w3.listing \in [Datasets -> {"none", "current", "stale"}]
  BY Zenon, <1>3 DEF WorldType
<1>12. Calm(w3, u)
  BY <1>4, <1>8, <1>9, <1>10, <1>11 DEF Calm
<1>13. Calm(World, u) /\ World' = u
  BY Zenon, <1>1, <1>3, <1>6, <1>12, CalmTrans, BecomeWorld
<1>14. M \in SUBSET Members
  BY Zenon
<1>15. \A x \in Members \ M :
        /\ u.enq[x] = enq[x] /\ (x \in u.alloc <=> x \in alloc)
        /\ u.fate[x] = fate[x] /\ u.disk[x] = disk[x]
  BY <1>2, <1>3, <1>7, <1>10 DEF SameElsewhere
<1>16. \A i \in Slots :
         \/ pool'[i] = pool[i]
         \/ /\ pool[i].status = "USED" => pool[i].member \in M
            /\ pool'[i].status = "USED" => pool'[i].member \in M
  <2>1. \A i \in Slots : /\ i \in Found(a) <=> Pends(i, a)
                         /\ i \in Found(b) <=> Pends(i, b)
    BY Zenon, FoundIsPending DEF SInv, PoolInv
  <2>2. QED
    BY Zenon, <2>1 DEF FreeSlots, Pends, FreeSlot
<1>17. \A x \in Members \ M : Keeps(x)
  <2> HIDE DEF M
  <2>1. QED
    BY Zenon, <1>14, <1>15, <1>16, OthersKept
<1>18. w2.fatal => u.fatal
  BY Zenon, <1>3, <1>8 DEF Calm
<1>19. \A x \in M : u.fate[x] # "stowed" /\ (ReleaseOK /\ HeldIn(u, x) => u.fatal)
  BY <1>1, <1>3, <1>7, <1>8, <1>18 DEF SameElsewhere, HeldIn
<1>20. \A x \in M : Right(x)
  BY Zenon, <1>19 DEF Right, StowedAt, Accounted, Become, HeldIn, ReleaseOK
<1>21. QED
  BY Zenon, <1>13, <1>17, <1>20 DEF Drops

\* RENAME, however far it gets: stopped by a failed flush it is a COMMIT that
\* failed.
LEMMA RenameEffect ==
  ASSUME SInv, NEW a \in Members, NEW b \in Members, Rename(a, b)
  PROVE  Stowing(a) \/ Drops({a, b})
<1>1. CASE RenameUnsettled(a)
  <2>1. PICK i \in Found(a) : \E f \in Flushes(World, pool[i]) :
          /\ pool[i].dirty
          /\ \E s \in FlushedSlots(World, pool[i], f) : SetSlot(i, s)
          /\ Become(Flush(World, pool[i], f))
    BY Zenon, <1>1 DEF RenameUnsettled
  <2>2. PICK f \in Flushes(World, pool[i]) :
          /\ pool[i].dirty
          /\ \E s \in FlushedSlots(World, pool[i], f) : SetSlot(i, s)
          /\ Become(Flush(World, pool[i], f))
    BY Zenon, <2>1
  <2>3. QED
    BY Zenon, <2>2, FlushEffect DEF SInv
<1>2. ASSUME NEW w1 \in Settled(a), NEW w2 \in Discards(w1, b),
             pool' = [i \in Slots |-> IF i \in Found(b) THEN FreeSlot
                                      ELSE IF i \in Found(a)
                                      THEN [pool[i] EXCEPT !.dirty = FALSE]
                                      ELSE pool[i]],
             Become(w2)
      PROVE  Drops({a, b})
  BY Zenon, <1>2, RenameStoppedEffect
<1>3. ASSUME NEW w1 \in Settled(a), NEW w2 \in Discards(w1, b),
             NEW w3 \in (IF a = b THEN {w2} ELSE Discards(w2, a)),
             FreeSlots(Found(a) \cup Found(b)),
             Become([w3 EXCEPT !.disk = Renamed(w2.disk, a, b),
                               !.listing[DatasetOf[a]] = "none"])
      PROVE  Drops({a, b})
  <2>1. DatasetOf[a] = DatasetOf[b]
    BY Zenon DEF Rename
  <2>2. PICK u : u = [w3 EXCEPT !.disk = Renamed(w2.disk, a, b),
                                !.listing[DatasetOf[a]] = "none"]
    BY Zenon
  <2>3. Become(u)
    BY Zenon, <1>3, <2>2
  <2>4. QED
    BY Zenon, <1>3, <2>1, <2>2, <2>3, RenameDoneEffect
<1>4. QED
  BY Zenon, <1>1, <1>2, <1>3 DEF Rename

-----------------------------------------------------------------------------
(* The loop, the environment and time *)

\* A slot swept or drained.
LEMMA SweptEffect ==
  ASSUME PoolInv, NEW v \in Slots, NEW w \in Vacated(v), SetSlot(v, FreeSlot), Become(w)
  PROVE  Around({})
<1> DEFINE M == {}
<1>1. w \in WorldType /\ Calm(w, w)
  BY Zenon, VacatedStep, CalmSame
<1>2. M \in SUBSET Members /\ (\A x \in M : Found(x) = {})
  BY Zenon
<1>3. FreeSlot.status = "FREE"
  BY Zenon DEF FreeSlot
<1>4. Around(M)
  <2> HIDE DEF M
  <2>1. QED
    BY Zenon, <1>1, <1>2, <1>3, EvictEffect
<1>5. QED
  BY Zenon, <1>4

\* A step that leaves the pool, the PDS and the fates alone.
LEMMA AsideEffect ==
  ASSUME SInv, NEW M \in SUBSET Members, UNCHANGED <<pool, alloc, fatal, fate>>,
         \A x \in Members \ M : enq'[x] = enq[x] /\ disk'[x] = disk[x],
         \A x \in M : disk'[x] # disk[x] => \A i \in Slots : ~Pends(i, x),
         \A x \in M : ReleaseOK /\ enq'[x] = "nfsd" => enq[x] = "nfsd"
  PROVE  (\A x \in Members \ M : Keeps(x)) /\ \A x \in M : Right(x)
<1>1. \A x \in Members, i \in Slots : Pends(i, x)' <=> Pends(i, x)
  BY Zenon DEF Pends
<1>2. \A x \in Members \ M : Keeps(x)
  BY Zenon, <1>1 DEF Keeps
<1>3. \A x \in M : StowedAt(x)'
  BY <1>1 DEF StowedAt, SInv, Slots
<1>4. \A x \in M : Accounted(x)'
  BY Zenon, <1>1 DEF Accounted, SInv, ReleaseOK, Slots
<1>5. QED
  BY Zenon, <1>2, <1>3, <1>4 DEF Right

\* SETATTR of the times, at most, drops a listing; the enqueue it takes for
\* itself stays only if the DEQ fails.
LEMMA SetTimesEffect ==
  ASSUME SInv, NEW m \in Members, SetTimes(m)
  PROVE  Drops({m})
<1> DEFINE M == {m}
<1>1. /\ enq \in [Members -> {"free", "nfsd", "editor"}]
      /\ listing \in [Datasets -> {"none", "current", "stale"}]
      /\ DatasetOf[m] \in Datasets
  BY Zenon, PendingPoolAssumption DEF SInv, PoolInv, PoolTypeOK, World, WorldType
<1>2. UNCHANGED <<pool, alloc, full, fatal, disk, fate>>
  BY Zenon DEF SetTimes
<1>3. /\ \A x \in Members \ M : enq'[x] = enq[x]
      /\ ReleaseOK => enq' = enq
      /\ \A d \in Datasets : listing[d] # "current" => listing'[d] # "current"
  BY Zenon, <1>1 DEF SetTimes, ReleaseOK
<1>4. Calm(World, World')
  BY Zenon, <1>2, <1>3 DEF Calm, World, NoneFull, FlushOK, IsFull, FullEntries
<1>5. (\A x \in Members \ M : Keeps(x)) /\ \A x \in M : Right(x)
  <2>1. M \in SUBSET Members
    BY Zenon
  <2>2. \A x \in Members : x \in M => (ReleaseOK /\ enq'[x] = "nfsd" => enq[x] = "nfsd")
    BY Zenon, <1>3
  <2> HIDE DEF M
  <2>3. QED
    BY Zenon, <1>2, <1>3, <2>1, <2>2, AsideEffect
<1>6. QED
  BY Zenon, <1>4, <1>5 DEF Drops

\* An editor opens, saves and closes only members that are not pending.
LEMMA EditorEffect ==
  ASSUME SInv, NEW m \in Members, EditorOpen(m) \/ EditorSave(m) \/ EditorClose(m)
  PROVE  Drops({m})
<1> DEFINE M == {m}
<1>1. /\ enq \in [Members -> {"free", "nfsd", "editor"}]
      /\ disk \in [Members -> Contents \cup {Absent}]
      /\ listing \in [Datasets -> {"none", "current", "stale"}]
      /\ DatasetOf[m] \in Datasets
  BY Zenon, PendingPoolAssumption DEF SInv, PoolInv, PoolTypeOK, World, WorldType
<1>2. UNCHANGED <<pool, alloc, full, fatal, fate>>
  BY Zenon DEF EditorOpen, EditorSave, EditorClose
<1>3. /\ enq'[m] # "nfsd" /\ enq[m] # "nfsd"
      /\ \A x \in Members \ M : enq'[x] = enq[x] /\ disk'[x] = disk[x]
  BY Zenon, <1>1 DEF EditorOpen, EditorSave, EditorClose
<1>4. /\ \A d \in Datasets : listing[d] # "current" => listing'[d] # "current"
      /\ disk'[m] # disk[m] => listing'[DatasetOf[m]] # "current"
  BY Zenon, <1>1 DEF EditorOpen, EditorSave, EditorClose
<1>5. Calm(World, World')
  BY Zenon, <1>2, <1>3, <1>4 DEF Calm, World, NoneFull, FlushOK, IsFull, FullEntries
<1>6. \A i \in Slots : ~Pends(i, m)
  BY Zenon, <1>3 DEF SInv, PoolInv, FlagsNeverLie, Pends
<1>7. (\A x \in Members \ M : Keeps(x)) /\ \A x \in M : Right(x)
  <2>1. M \in SUBSET Members
    BY Zenon
  <2>2. /\ \A x \in M : enq'[x] # "nfsd"
        /\ \A x \in M : \A i \in Slots : ~Pends(i, x)
    BY Zenon, <1>3, <1>6
  <2> HIDE DEF M
  <2>3. QED
    BY Zenon, <1>2, <1>3, <2>1, <2>2, AsideEffect
<1>8. QED
  BY Zenon, <1>5, <1>7 DEF Drops

\* A second passing makes no dataset full and touches no content.
LEMMA TickEffect ==
  ASSUME PoolInv, Tick
  PROVE  Calm(World, World') /\ \A x \in Members : Keeps(x)
<1>1. pool \in [Slots -> SlotType] /\ full \in FullTables
  BY Zenon DEF PoolInv, PoolTypeOK, World, WorldType
<1>2. /\ full' = Aged(full) /\ UNCHANGED <<enq, alloc, fatal, disk, listing, fate>>
      /\ pool' = [i \in Slots |->
                IF pool[i].status = "USED" /\ pool[i].idle < IdleCap
                THEN [pool[i] EXCEPT !.idle = @ + 1] ELSE pool[i]]
  BY Zenon DEF Tick
<1>3. \A i \in Slots : /\ pool'[i].status = pool[i].status /\ pool'[i].member = pool[i].member
                       /\ pool'[i].dirty = pool[i].dirty /\ pool'[i].content = pool[i].content
  BY Zenon, <1>1, <1>2 DEF SlotType
<1>4. \A x \in Members : Keeps(x)
  BY Zenon, <1>2, <1>3 DEF Keeps, Pends
<1>5. ASSUME NEW ds \in Datasets, IsFull(Aged(full), ds)
      PROVE  IsFull(full, ds)
  <2>1. PICK k \in FullEntries : Aged(full)[k].dsname = ds /\ Aged(full)[k].age <= FullExpiry
    BY Zenon, <1>5 DEF IsFull
  <2>2. Aged(full)[k] = IF full[k].age < FullExpiry
                        THEN [full[k] EXCEPT !.age = @ + 1] ELSE Unused
    BY Zenon DEF Aged
  <2>3. Unused.dsname # ds
    BY Zenon, FullTableAssumption DEF Unused
  <2>4. full[k].age < FullExpiry /\ full[k] \in [dsname : Datasets \cup {NoDataset},
                                                 age : 0 .. FullExpiry + 1]
    BY Zenon, <1>1, <2>1, <2>2, <2>3 DEF FullTables
  <2>5. full[k].dsname = ds
    BY Zenon, <2>1, <2>2, <2>4
  <2>6. QED
    BY <2>4, <2>5, FullTableAssumption DEF IsFull
<1>6. FlushOK /\ NoneFull(full) => NoneFull(Aged(full))
  BY Zenon, <1>5 DEF NoneFull
<1>7. Calm(World, World')
  BY Zenon, <1>2, <1>6 DEF Calm, World, NoneFull, FlushOK, IsFull, FullEntries
<1>8. QED
  BY Zenon, <1>4, <1>7

\* A step of the loop that only moves it.
LEMMA QuietEffect ==
  ASSUME UNCHANGED poolVars
  PROVE  Calm(World, World') /\ \A x \in Members : Keeps(x)
<1>1. World' = World
  BY Zenon DEF World, poolVars
<1>2. Calm(World, World')
  BY Zenon, <1>1, CalmSame
<1>3. QED
  BY Zenon, <1>2 DEF Keeps, Pends, poolVars

\* The task takes all it knew with it; of the PDS it damages at most the member
\* it was writing.
LEMMA EndEffect ==
  ASSUME PoolInv, Exit \/ Crash
  PROVE  /\ \A x \in Members : Right(x)
         /\ \A ds \in Datasets : listing'[ds] = "none"
         /\ full' = EmptyFull
         /\ \A x \in Members : disk'[x] # disk[x] =>
              \E i \in Slots : Pends(i, x) /\ pool[i].dirty
<1>1. TaskEnds
  BY Zenon DEF Exit, Crash
<1>2. /\ \A x \in Members : fate'[x] = "none" /\ enq'[x] # "nfsd" /\ x \notin alloc'
      /\ \A ds \in Datasets : listing'[ds] = "none"
      /\ full' = EmptyFull
  BY Zenon, <1>1 DEF TaskEnds
<1>3. \A x \in Members : Right(x)
  BY Zenon, <1>2 DEF Right, StowedAt, Accounted
<1>4. disk \in [Members -> Contents \cup {Absent}]
  BY Zenon DEF PoolInv, PoolTypeOK, World, WorldType
<1>5. ASSUME NEW x \in Members, disk'[x] # disk[x]
      PROVE  \E i \in Slots : Pends(i, x) /\ pool[i].dirty
  <2>1. PICK i \in Slots : \E c \in Prefixes(pool[i].content) :
          pool[i].dirty /\ disk' = [disk EXCEPT ![pool[i].member] = c]
    BY Zenon, <1>5 DEF Exit, Crash
  <2>2. pool[i].member = x /\ pool[i].dirty
    BY Zenon, <1>4, <1>5, <2>1
  <2>3. pool[i].status = "USED"
    BY Zenon, <2>2 DEF PoolInv, Coherent, SlotType
  <2>4. QED
    BY Zenon, <2>2, <2>3 DEF Pends
<1>6. QED
  BY Zenon, <1>2, <1>3, <1>5

-----------------------------------------------------------------------------
(* What a committed write rests on *)

Verifiers == Nat \X Nat

KeptType ==
  [st : {"none", "unstable", "safe"}, want : Contents, verfs : SUBSET Verifiers]

\* The verifier names this start, and a client has seen none of a later one.
Stamped ==
  /\ started \in [time : Nat, job : Nat]
  /\ verf = Verifier(started)
  /\ kept \in [Members -> KeptType]
  /\ \A m \in Members : \A v \in kept[m].verfs : v[2] <= started.job

\* The client may count on the content of m: it was told so, or a COMMIT that
\* answers with the present verifier would tell it.
Counted(m) ==
  \/ kept[m].st = "safe"
  \/ kept[m].st = "unstable" /\ kept[m].verfs = {verf} /\ phase # "ended"

\* The wanted content is in the PDS and nothing pends that would replace it.
Settles(m) ==
  disk[m] = kept[m].want /\ \A i \in Slots : Pends(i, m) => ~pool[i].dirty

\* It is pending, to be stowed.
Waits(m) ==
  /\ kept[m].st = "unstable"
  /\ \E i \in Slots : Pends(i, m) /\ pool[i].dirty /\ pool[i].content = kept[m].want

Backed(m) == Counted(m) => Settles(m) \/ Waits(m)

DInv == Stamped /\ (FlushOK => NoneFull(full) /\ \A m \in Members : Backed(m))

-----------------------------------------------------------------------------
\* Nothing about the content of x changes.
Same(x) ==
  /\ disk'[x] = disk[x]
  /\ \A i \in Slots :
       /\ Pends(i, x)' <=> Pends(i, x)
       /\ Pends(i, x) => pool'[i].dirty = pool[i].dirty /\ pool'[i].content = pool[i].content

\* A member that is kept, or flushed and released, stays backed.
LEMMA BackedKept ==
  ASSUME PoolInv, NEW x \in Members, FlushOK, NoneFull(full), Backed(x),
         Same(x) \/ Vacates(x), kept'[x] = kept[x], verf' = verf,
         phase = "ended" => phase' = "ended"
  PROVE  Backed(x)'
<1> SUFFICES ASSUME Counted(x)'
             PROVE  Settles(x)' \/ Waits(x)'
  BY Zenon DEF Backed
<1>1. Counted(x)
  BY Zenon DEF Counted
<1>2. Settles(x) \/ Waits(x)
  BY Zenon, <1>1 DEF Backed
<1>3. CASE Same(x)
  BY Zenon, <1>2, <1>3 DEF Same, Settles, Waits, Slots
<1>4. CASE Vacates(x)
  <2>1. PICK i \in Slots :
       /\ Pends(i, x)
       /\ ~pool[i].dirty => disk'[x] = disk[x]
       /\ pool[i].dirty /\ FlushOK /\ ~IsFull(full, DatasetOf[x]) => disk'[x] = pool[i].content
    BY Zenon, <1>4 DEF Vacates
  <2>2. ~IsFull(full, DatasetOf[x])
    BY Zenon, PendingPoolAssumption DEF NoneFull
  <2>3. \A j \in Slots : Pends(j, x) => j = i
    BY Zenon, <2>1 DEF PoolInv, OneSlotPerMember
  <2>4. pool[i].dirty \in BOOLEAN
    BY Zenon, <2>1 DEF PoolInv, PoolTypeOK, SlotType
  <2>5. disk'[x] = kept[x].want
    BY Zenon, <1>2, <2>1, <2>2, <2>3, <2>4 DEF Settles, Waits
  <2>6. \A j \in Slots : ~Pends(j, x)'
    BY Zenon, <1>4 DEF Vacates
  <2>7. QED
    BY Zenon, <2>5, <2>6 DEF Settles, Slots
<1>5. QED
  BY Zenon, <1>3, <1>4

\* No dataset becomes full while flushes succeed.
LEMMA CalmNoneFull ==
  ASSUME FlushOK, NoneFull(full), Calm(World, World')
  PROVE  NoneFull(full)'
  BY Zenon DEF Calm, World, NoneFull, IsFull, FullEntries, FlushOK

\* A request for the members of M, after which those are backed again.
LEMMA RequestBacks ==
  ASSUME SInv, DInv, FlushOK, NEW M \in SUBSET Members,
         Calm(World, World'), \A x \in Members \ M : Same(x) \/ Vacates(x),
         \A x \in Members \ M : kept'[x] = kept[x], verf' = verf,
         phase = "ended" => phase' = "ended",
         \A x \in M : Backed(x)'
  PROVE  NoneFull(full)' /\ \A x \in Members : Backed(x)'
<1>1. NoneFull(full)'
  BY Zenon, CalmNoneFull DEF DInv
<1>2. \A x \in Members \ M : Backed(x)'
  BY Zenon, BackedKept DEF DInv, SInv
<1>3. QED
  BY Zenon, <1>1, <1>2

\* What is kept is the same.
LEMMA KeepsIsSame ==
  ASSUME NEW x, Keeps(x)
  PROVE  Same(x)
  BY Zenon DEF Keeps, Same

-----------------------------------------------------------------------------
(* The requests *)

\* The verifier of this start is one.
LEMMA VerfType ==
  ASSUME Stamped
  PROVE  verf \in Verifiers /\ verf[2] = started.job /\ started.job \in Nat
  BY Zenon DEF Stamped, Verifier, Verifiers

\* A client's record after a request is one of a start it has seen.
LEMMA StampedAfter ==
  ASSUME Stamped, NEW M \in SUBSET Members, UNCHANGED <<verf, started>>,
         kept' \in [Members -> KeptType],
         \A x \in Members \ M : kept'[x] = kept[x],
         \A x \in M : kept'[x].verfs \subseteq kept[x].verfs \cup {verf}
  PROVE  Stamped'
<1>1. verf' = Verifier(started)'
  BY Zenon DEF Stamped, Verifier
<1>2. \A x \in Members : kept'[x].verfs \subseteq kept[x].verfs \cup {verf}
  BY Zenon
<1>3. \A x \in Members : \A v \in kept'[x].verfs : v[2] <= started.job
  BY <1>2, VerfType DEF Stamped
<1>4. (kept \in [Members -> KeptType])'
  BY Zenon DEF KeptType, Contents, Units, Verifiers
<1>5. QED
  BY Zenon, <1>1, <1>3, <1>4 DEF Stamped

\* Nothing is what a client has that counts on nothing.
LEMMA NothingType == Nothing \in KeptType /\ Nothing.st = "none" /\ Nothing.verfs = {}
  BY Zenon, PayloadType DEF Nothing, KeptType

\* A WRITE, CREATE or SETATTR of the size and the reply to it: what the client
\* wants now is what pends.
LEMMA RepliedStep ==
  ASSUME SInv, PoolInv', DInv, NEW m \in Members, Gives(m), Replied(m), phase' = phase
  PROVE  DInv'
<1> DEFINE M == {m}
<1>1. Stamped /\ kept \in [Members -> KeptType] /\ UNCHANGED <<verf, started>>
  BY Zenon DEF DInv, Stamped, Replied
<1>2. PICK k : k = IF Taken(m) = {} THEN Nothing
                   ELSE [st |-> "unstable",
                         want |-> pool'[CHOOSE i \in Taken(m) : TRUE].content,
                         verfs |-> {verf} \cup IF kept[m].st = "unstable" THEN kept[m].verfs ELSE {}]
  BY Zenon
<1>3. kept' = [kept EXCEPT ![m] = k]
  BY Zenon, <1>2 DEF Replied
<1>4. Taken(m) # {} => \E i \in Slots :
        /\ pool'[i].status = "USED" /\ pool'[i].member = m /\ pool'[i].dirty
        /\ k.want = pool'[i].content /\ k.st = "unstable"
        /\ k.verfs = {verf} \cup IF kept[m].st = "unstable" THEN kept[m].verfs ELSE {}
  BY Zenon, <1>2 DEF Taken
<1>5. \A i \in Slots : pool'[i].content \in Contents
  BY Zenon DEF PoolInv, PoolTypeOK, SlotType, Slots, Contents, Units
<1>6. k \in KeptType /\ k.verfs \subseteq kept[m].verfs \cup {verf}
  <2>1. CASE Taken(m) = {}
    BY Zenon, <1>2, <2>1, NothingType
  <2>2. CASE Taken(m) # {}
    <3>1. k = [st |-> "unstable", want |-> k.want, verfs |-> k.verfs]
      BY Zenon, <1>2, <2>2
    <3>2. k.want \in Contents /\ k.verfs \subseteq kept[m].verfs \cup {verf}
      BY Zenon, <1>4, <1>5, <2>2
    <3>3. k.verfs \in SUBSET Verifiers
      BY Zenon, <1>1, <3>2, VerfType DEF KeptType
    <3>4. QED
      BY <3>1, <3>2, <3>3 DEF KeptType
  <2>3. QED
    BY Zenon, <2>1, <2>2
<1>7. Stamped'
  <2>1. M \in SUBSET Members /\ kept' \in [Members -> KeptType]
    BY Zenon, <1>1, <1>3, <1>6
  <2>2. (\A x \in Members \ M : kept'[x] = kept[x])
        /\ \A x \in M : kept'[x].verfs \subseteq kept[x].verfs \cup {verf}
    BY Zenon, <1>1, <1>3, <1>6
  <2> HIDE DEF M
  <2>3. QED
    BY Zenon, <1>1, <2>1, <2>2, StampedAfter
<1>8. Backed(m)'
  <2>1. kept'[m] = k
    BY Zenon, <1>1, <1>3
  <2>2. CASE Taken(m) = {}
    BY Zenon, <1>2, <2>1, <2>2, NothingType DEF Backed, Counted
  <2>3. CASE Taken(m) # {}
    BY Zenon, <1>4, <2>1, <2>3 DEF Backed, Waits, Pends, Slots
  <2>4. QED
    BY Zenon, <2>2, <2>3
<1>9. ASSUME FlushOK
      PROVE  NoneFull(full)' /\ \A x \in Members : Backed(x)'
  <2>1. Calm(World, World') /\ \A x \in Members \ M : Same(x) \/ Vacates(x)
    BY Zenon, KeepsIsSame DEF Gives, Around
  <2>2. (\A x \in Members \ M : kept'[x] = kept[x]) /\ \A x \in M : Backed(x)'
    BY Zenon, <1>1, <1>3, <1>8
  <2>3. M \in SUBSET Members
    BY Zenon
  <2> HIDE DEF M
  <2>4. QED
    BY Zenon, <1>1, <1>9, <2>1, <2>2, <2>3, RequestBacks
<1>10. QED
  BY Zenon, <1>7, <1>9 DEF DInv, FlushOK

\* Requests and saves that take members away, after which the client counts on
\* nothing there.
LEMMA ForgetStep ==
  ASSUME SInv, DInv, NEW M \in SUBSET Members, Forget(M),
         Calm(World, World'), \A x \in Members \ M : Keeps(x) \/ Vacates(x),
         phase' = phase
  PROVE  DInv'
<1>1. Stamped /\ kept \in [Members -> KeptType] /\ UNCHANGED <<verf, started>>
  BY Zenon DEF DInv, Stamped, Forget
<1>2. kept' = [m \in Members |-> IF m \in M THEN Nothing ELSE kept[m]]
  BY Zenon DEF Forget
<1>3. kept' \in [Members -> KeptType]
  BY Zenon, <1>1, <1>2, NothingType
<1>4. (\A x \in Members \ M : kept'[x] = kept[x]) /\ \A x \in M : kept'[x] = Nothing
  BY Zenon, <1>2
<1>5. Stamped'
  BY Zenon, <1>1, <1>3, <1>4, NothingType, StampedAfter
<1>6. \A x \in M : Backed(x)'
  BY Zenon, <1>4, NothingType DEF Backed, Counted
<1>7. ASSUME FlushOK
      PROVE  NoneFull(full)' /\ \A x \in Members : Backed(x)'
  BY Zenon, <1>1, <1>4, <1>6, <1>7, KeepsIsSame, RequestBacks
<1>8. QED
  BY Zenon, <1>5, <1>7 DEF DInv, FlushOK

\* The client's record after a COMMIT that succeeded.
LEMMA CommittedForm ==
  ASSUME NEW k \in KeptType, NEW c, c = Committed(k)
  PROVE  /\ c \in KeptType /\ c.verfs \subseteq k.verfs
         /\ c.st # "unstable"
         /\ c.st = "safe" => /\ c.want = k.want
                             /\ k.st = "safe" \/ (k.st = "unstable" /\ k.verfs = {verf})
<1>1. CASE k.st = "unstable" /\ k.verfs = {verf}
  <2>1. c = [k EXCEPT !.st = "safe"]
    BY Zenon, <1>1 DEF Committed
  <2>2. QED
    BY Zenon, <1>1, <2>1 DEF KeptType
<1>2. CASE k.st = "unstable" /\ k.verfs # {verf}
  BY Zenon, <1>2, NothingType DEF Committed
<1>3. CASE k.st # "unstable"
  BY Zenon, <1>3 DEF Committed, KeptType
<1>4. QED
  BY Zenon, <1>1, <1>2, <1>3
=============================================================================
