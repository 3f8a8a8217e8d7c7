----------------------------- MODULE StowProofs -----------------------------
(***************************************************************************)
(* What the write path does to the PDS, to the cached listings and to what *)
(* the task holds, and what a client was told is committed, for every      *)
(* number of members, slots, units and restarts.                           *)
(*                                                                         *)
(* The theorems rest on the invariant of WritePathProofs and on what every *)
(* step is to one member (EffectProofs): most keep it as it is, an         *)
(* eviction, a sweep and a drain vacate its slot, and the request for it   *)
(* does the rest.                                                          *)
(***************************************************************************)
EXTENDS EffectProofs

-----------------------------------------------------------------------------
(* The theorems *)

\* A step leaves members outside M kept or vacated, and those of M right.
Steady(M) ==
  /\ Calm(World, World')
  /\ \A x \in Members \ M : Keeps(x) \/ Vacates(x)
  /\ \A x \in M : Right(x)

\* Kept or vacated, a member that was right stays right.
LEMMA SteadyKeepsSInv ==
  ASSUME SInv, PoolInv', NEW M \in SUBSET Members,
         \A x \in Members \ M : Keeps(x) \/ Vacates(x),
         \A x \in M : Right(x), fatal => fatal'
  PROVE  SInv'
<1>1. ASSUME NEW x \in Members, Keeps(x)
      PROVE  Right(x)
  <2>1. StowedAt(x)'
    BY Zenon, <1>1 DEF Keeps, SInv, StowedAt, Slots
  <2>2. Accounted(x)'
    BY Zenon, <1>1 DEF Keeps, SInv, Accounted, Slots, ReleaseOK
  <2>3. QED
    BY Zenon, <2>1, <2>2 DEF Right
<1>2. ASSUME NEW x \in Members, Vacates(x)
      PROVE  Right(x)
  BY Zenon, <1>2 DEF Vacates, Right, StowedAt, Accounted, ReleaseOK
<1>3. \A x \in Members : Right(x)
  BY Zenon, <1>1, <1>2
<1>4. QED
  BY Zenon, <1>3 DEF SInv, Right

\* A request that gives a member content, or stows it, leaves it right.
LEMMA RequestSteady ==
  ASSUME PoolInv, NEW m \in Members, Gives(m) \/ Stowing(m) \/ Drops({m})
  PROVE  Steady({m})
<1>1. CASE Gives(m)
  BY Zenon, <1>1 DEF Gives, Steady, Around, Right, StowedAt
<1>2. CASE Stowing(m)
  <2>1. PICK i \in Slots :
          /\ Pends(i, m)'
          /\ fate'[m] = "stowed" =>
               /\ ~pool'[i].dirty /\ pool'[i].content = pool[i].content
               /\ disk'[m] = pool[i].content
    BY Zenon, <1>2 DEF Stowing
  <2>2. StowedAt(m)' /\ Accounted(m)'
    BY Zenon, <2>1 DEF StowedAt, Accounted, Slots
  <2>3. QED
    BY Zenon, <1>2, <2>2 DEF Stowing, Steady, Around, Right
<1>3. CASE Drops({m})
  BY Zenon, <1>3 DEF Drops, Steady
<1>4. QED
  BY Zenon, <1>1, <1>2, <1>3

\* What the requests are: all but READDIR are steady.
LEMMA RequestEffect ==
  ASSUME SInv, Request
  PROVE  \/ \E M \in SUBSET Members : Steady(M)
         \/ UNCHANGED <<pool, enq, alloc, full, fatal, disk, fate>>
<1> USE DEF SInv
<1>1. ASSUME NEW m \in Members, Gives(m) \/ Stowing(m) \/ Drops({m})
      PROVE  \E M \in SUBSET Members : Steady(M)
  <2>1. Steady({m})
    BY Zenon, <1>1, RequestSteady
  <2>2. QED
    BY Zenon, <2>1
<1>2. ASSUME NEW m \in Members, NEW b \in Members, Drops({m, b})
      PROVE  \E M \in SUBSET Members : Steady(M)
  <2>1. Steady({m, b})
    BY Zenon, <1>2 DEF Drops, Steady
  <2>2. QED
    BY Zenon, <2>1
<1> HIDE DEF SInv
<1>3. CASE \E m \in Members :
             \/ Create(m) \/ SetTimes(m) \/ Commit(m) \/ Remove(m) \/ ReadLosesScratch(m)
             \/ \E off \in 0 .. MaxLen : \E dat \in Payloads : Write(m, off, dat)
             \/ \E n \in 0 .. MaxLen : Truncate(m, n)
             \/ \E b \in Members : Rename(m, b)
  <2>1. PICK m \in Members :
             \/ Create(m) \/ SetTimes(m) \/ Commit(m) \/ Remove(m) \/ ReadLosesScratch(m)
             \/ \E off \in 0 .. MaxLen : \E dat \in Payloads : Write(m, off, dat)
             \/ \E n \in 0 .. MaxLen : Truncate(m, n)
             \/ \E b \in Members : Rename(m, b)
    BY Zenon, <1>3
  <2>2. \/ Gives(m) \/ Stowing(m) \/ Drops({m})
        \/ \E b \in Members : Drops({m, b})
    BY Zenon, <2>1, CreateEffect, SetTimesEffect, CommitEffect, RemoveEffect, WriteEffect,
       TruncateEffect, ReadLosesScratchEffect, RenameEffect DEF SInv
  <2>3. QED
    BY Zenon, <1>1, <1>2, <2>2
<1>4. CASE \E ds \in Datasets : ReadDir(ds)
  BY Zenon, <1>4 DEF ReadDir
<1>5. QED
  BY Zenon, <1>3, <1>4 DEF Request

\* Every step preserves what is stowed and what is accounted for.
LEMMA SInvStep ==
  ASSUME IInv, SInv, [Next]_vars
  PROVE  SInv'
<1>1. PoolInv'
  BY Zenon, NextStep DEF IInv
<1> DEFINE N == {}
<1>2. N \in SUBSET Members /\ (Members \ N = Members) /\ \A x \in N : Right(x)
  BY Zenon
<1> HIDE DEF N
<1>3. ASSUME Calm(World, World')
      PROVE  fatal => fatal'
  BY Zenon, <1>3 DEF Calm, World
<1>4. CASE Request
  <2>1. CASE \E M \in SUBSET Members : Steady(M)
    <3>1. PICK M \in SUBSET Members : Steady(M)
      BY Zenon, <2>1
    <3>2. QED
      BY Zenon, <1>1, <1>3, <3>1, SteadyKeepsSInv DEF Steady
  <2>2. CASE UNCHANGED <<pool, enq, alloc, full, fatal, disk, fate>>
    <3>1. \A x \in Members : Keeps(x)
      BY Zenon, <2>2 DEF Keeps, Pends
    <3>2. QED
      BY Zenon, <1>1, <1>2, <2>2, <3>1, SteadyKeepsSInv
  <2>3. QED
    BY Zenon, <1>4, <2>1, <2>2, RequestEffect
<1>5. CASE Sweep \/ Drain
  <2>1. Around({})
    BY Zenon, <1>5, SweptEffect DEF Sweep, Drain, SInv, IInv
  <2>2. QED
    BY Zenon, <1>1, <1>2, <1>3, <2>1, SteadyKeepsSInv DEF Around
<1>6. CASE Exit \/ Crash
  <2>1. \A x \in Members : Right(x)
    BY Zenon, <1>6, EndEffect DEF SInv
  <2>2. QED
    BY Zenon, <1>1, <2>1 DEF SInv, Right
<1>7. CASE \E m \in Members : EditorOpen(m) \/ EditorSave(m) \/ EditorClose(m)
  <2>1. PICK m \in Members : EditorOpen(m) \/ EditorSave(m) \/ EditorClose(m)
    BY Zenon, <1>7
  <2>2. Steady({m})
    BY Zenon, <2>1, EditorEffect, RequestSteady DEF SInv
  <2>3. {m} \in SUBSET Members
    BY Zenon
  <2>4. QED
    BY Zenon, <1>1, <1>3, <2>2, <2>3, SteadyKeepsSInv DEF Steady
<1>8. CASE Tick \/ UNCHANGED poolVars
  <2>1. Calm(World, World') /\ \A x \in Members : Keeps(x)
    BY Zenon, <1>8, TickEffect, QuietEffect DEF SInv
  <2>2. QED
    BY Zenon, <1>1, <1>2, <1>3, <2>1, SteadyKeepsSInv
<1>9. CASE Wake \/ Leave \/ LeaveOnFatal \/ SweepDone \/ ServeDone \/ Restart \/ UNCHANGED vars
  <2>1. UNCHANGED poolVars
    BY Zenon, <1>9 DEF Wake, Leave, LeaveOnFatal, SweepDone, ServeDone, Restart, vars
  <2>2. QED
    BY Zenon, <1>8, <2>1
<1>10. QED
  BY Zenon, <1>4, <1>5, <1>6, <1>7, <1>8, <1>9 DEF Next, Loop, Environment

\* At the start nothing is stowed and nothing is held.
LEMMA SInvInit ==
  ASSUME Init
  PROVE  SInv
<1>1. PoolInv
  BY Zenon, InitStep DEF IInv
<1>2. \A x \in Members : fate[x] = "none" /\ enq[x] # "nfsd" /\ x \notin alloc
  BY Zenon DEF Init, PoolInit
<1>3. QED
  BY Zenon, <1>1, <1>2 DEF SInv, StowedAt, Accounted

\* Both invariants hold throughout.
LEMMA AlwaysSInv == Spec => [](IInv /\ SInv)
<1>1. Init => IInv /\ SInv
  BY Zenon, InitStep, SInvInit
<1>2. IInv /\ SInv /\ [Next]_vars => (IInv /\ SInv)'
  BY Zenon, NextStep, SInvStep
<1>3. QED
  BY <1>1, <1>2, PTL DEF Spec

\* After a flush that reported success the PDS holds exactly what the slot
\* serves, until the slot is released or written again: no sweep, eviction or
\* rename of another member and no request for it disturbs that
\* (pdsflush_slot, pww_flush_idle, pww_slot_take).
THEOREM StowedStays == Spec => []StowedIsOnDisk
<1>1. SInv => StowedIsOnDisk
  BY Zenon DEF SInv, StowedAt, StowedIsOnDisk
<1>2. QED
  BY <1>1, AlwaysSInv, PTL

\* If an unallocate or a DEQ succeeds or abends, then whatever the task holds
\* without a slot to release it by has raised the fatal flag.  A return code
\* the code ignores, or a STAE that is not established, can strand it: those
\* two outcomes are the hypothesis (pww_slot_release, pww_lock).
THEOREM HoldsAccounted == Spec => [](ReleaseOK => NothingStranded)
<1>1. SInv => (ReleaseOK => NothingStranded)
  BY Zenon DEF SInv, Accounted, NothingStranded
<1>2. QED
  BY <1>1, AlwaysSInv, PTL

\* A step that changes a member leaves no listing of its dataset that is taken
\* to be current.
LEMMA ListingStep ==
  ASSUME IInv, SInv, Next, NEW m \in Members, disk'[m] # disk[m]
  PROVE  listing'[DatasetOf[m]] # "current"
<1>1. ASSUME Calm(World, World')
      PROVE  listing'[DatasetOf[m]] # "current"
  BY Zenon, <1>1 DEF Calm, World
<1>2. CASE Request
  BY Zenon, <1>1, <1>2, RequestEffect DEF Steady
<1>3. CASE Sweep \/ Drain
  BY Zenon, <1>1, <1>3, SweptEffect DEF Sweep, Drain, SInv, IInv, Around
<1>4. CASE Exit \/ Crash
  <2>1. DatasetOf[m] \in Datasets
    BY Zenon, PendingPoolAssumption
  <2>2. QED
    BY Zenon, <1>4, <2>1, EndEffect DEF SInv
<1>5. CASE \E x \in Members : EditorOpen(x) \/ EditorSave(x) \/ EditorClose(x)
  BY Zenon, <1>1, <1>5, EditorEffect DEF Drops
<1>6. CASE Tick
  BY Zenon, <1>6 DEF Tick
<1>7. CASE Wake \/ Leave \/ LeaveOnFatal \/ SweepDone \/ ServeDone \/ Restart
  BY Zenon, <1>7 DEF Wake, Leave, LeaveOnFatal, SweepDone, ServeDone, Restart, poolVars
<1>8. QED
  BY Zenon, <1>2, <1>3, <1>4, <1>5, <1>6, <1>7 DEF Next, Loop, Environment

\* A directory never changes under a cached listing taken to be current: the
\* flush, the unlink and the rename drop it (mvsdcache_invalidate).
THEOREM ListingsFollow == Spec => ListingFollows
<1>1. IInv /\ SInv /\ [Next]_vars =>
        [\A m \in Members : disk'[m] # disk[m] => listing'[DatasetOf[m]] # "current"]_vars
  BY Zenon, ListingStep
<1>2. QED
  BY <1>1, AlwaysSInv, PTL DEF Spec, ListingFollows

\* What changes a member an editor has open is the editor's own save, or a
\* REMOVE or a RENAME that names it.
LEMMA EditedStep ==
  ASSUME IInv, SInv, Next, NEW m \in Members, enq[m] = "editor", disk'[m] # disk[m]
  PROVE  \/ EditorSave(m) \/ Remove(m)
         \/ \E b \in Members : Rename(m, b) \/ Rename(b, m)
<1>1. \A i \in Slots : ~Pends(i, m)
  BY Zenon DEF SInv, PoolInv, FlagsNeverLie, Pends
<1>2. ~Keeps(m) /\ ~Vacates(m)
  BY Zenon, <1>1 DEF Keeps, Vacates
<1>3. \A x \in Members : ~Gives(x)
  BY Zenon, <1>2 DEF Gives, Around
<1>4. \A x \in Members : ~Stowing(x)
  BY Zenon, <1>1, <1>2 DEF Stowing, Around
<1>5. \A x \in Members : Drops({x}) => x = m
  BY Zenon, <1>2 DEF Drops
<1>6. \A x, y \in Members : Drops({x, y}) => x = m \/ y = m
  BY Zenon, <1>2 DEF Drops
<1>7. CASE Request
  <2>1. ~\E ds \in Datasets : ReadDir(ds)
    BY Zenon DEF ReadDir
  <2>2. PICK x \in Members :
             \/ Create(x) \/ SetTimes(x) \/ Commit(x) \/ Remove(x) \/ ReadLosesScratch(x)
             \/ \E off \in 0 .. MaxLen : \E dat \in Payloads : Write(x, off, dat)
             \/ \E n \in 0 .. MaxLen : Truncate(x, n)
             \/ \E b \in Members : Rename(x, b)
    BY Zenon, <1>7, <2>1 DEF Request
  <2>3. Remove(x) \/ \E b \in Members : Rename(x, b)
    <3>1. ~SetTimes(x)
      BY Zenon DEF SetTimes
    <3>2. ~Create(x) /\ ~ReadLosesScratch(x) /\ ~Commit(x)
      BY Zenon, <1>3, <1>4, CreateEffect, ReadLosesScratchEffect, CommitEffect DEF SInv
    <3>3. QED
      BY Zenon, <1>3, <2>2, <3>1, <3>2, WriteEffect, TruncateEffect
  <2>4. CASE Remove(x)
    <3>1. x = m
      BY Zenon, <1>5, <2>4, RemoveEffect
    <3>2. QED
      BY Zenon, <2>4, <3>1
  <2>5. CASE \E b \in Members : Rename(x, b)
    <3>1. PICK b \in Members : Rename(x, b)
      BY Zenon, <2>5
    <3>2. x = m \/ b = m
      BY Zenon, <1>4, <1>6, <3>1, RenameEffect
    <3>3. QED
      BY Zenon, <3>1, <3>2
  <2>6. QED
    BY Zenon, <2>3, <2>4, <2>5
<1>8. CASE Sweep \/ Drain
  BY Zenon, <1>2, <1>8, SweptEffect DEF Sweep, Drain, SInv, IInv, Around
<1>9. CASE Exit \/ Crash
  BY Zenon, <1>1, <1>9, EndEffect DEF SInv
<1>10. CASE \E x \in Members : EditorOpen(x) \/ EditorSave(x) \/ EditorClose(x)
  <2>1. PICK x \in Members : EditorOpen(x) \/ EditorSave(x) \/ EditorClose(x)
    BY Zenon, <1>10
  <2>2. x = m
    BY Zenon, <1>5, <2>1, EditorEffect
  <2>3. QED
    BY Zenon, <2>1, <2>2 DEF EditorOpen, EditorClose
<1>11. CASE Tick
  BY Zenon, <1>11 DEF Tick
<1>12. CASE Wake \/ Leave \/ LeaveOnFatal \/ SweepDone \/ ServeDone \/ Restart
  BY Zenon, <1>12 DEF Wake, Leave, LeaveOnFatal, SweepDone, ServeDone, Restart, poolVars
<1>13. QED
  BY Zenon, <1>7, <1>8, <1>9, <1>10, <1>11, <1>12 DEF Next, Loop, Environment

\* While an editor holds a member no flush, sweep, eviction or crash of the
\* server touches it: a pending member is one this task holds the SPFEDIT
\* enqueue of (pww_lock, pdsflush_slot).
THEOREM EditorsSafe == Spec => EditorSafe
<1>1. IInv /\ SInv /\ [Next]_vars =>
        [\A m \in Members : enq[m] = "editor" /\ disk'[m] # disk[m] =>
           \/ EditorSave(m) \/ Remove(m)
           \/ \E b \in Members : Rename(m, b) \/ Rename(b, m)]_vars
  BY Zenon, EditedStep
<1>2. QED
  BY <1>1, AlwaysSInv, PTL DEF Spec, EditorSafe

-----------------------------------------------------------------------------
(* What was told committed *)

\* COMMIT: if the flush stowed, what the client wants is in the PDS.
LEMMA DCommitStep ==
  ASSUME SInv, PoolInv', DInv, NEW m \in Members, DCommit(m)
  PROVE  DInv'
<1> DEFINE M == {m}
<1>1. Stamped /\ kept \in [Members -> KeptType] /\ UNCHANGED <<verf, started>>
  BY Zenon DEF DInv, Stamped, DCommit
<1>2. Stowing(m) /\ phase = "serve" /\ phase' = phase
  BY Zenon, CommitEffect DEF DCommit, Commit, Serving, SInv
<1>3. PICK k : k = IF fate'[m] = "stowed" THEN Committed(kept[m]) ELSE Nothing
  BY Zenon
<1>4. kept' = [kept EXCEPT ![m] = k]
  BY Zenon, <1>3 DEF DCommit
<1>5. /\ k \in KeptType /\ k.verfs \subseteq kept[m].verfs /\ k.st # "unstable"
      /\ k.st = "safe" => /\ k.want = kept[m].want /\ Counted(m) /\ fate'[m] = "stowed"
  <2>1. kept[m] \in KeptType
    BY Zenon, <1>1
  <2>2. CASE fate'[m] = "stowed"
    <3>1. k = Committed(kept[m])
      BY Zenon, <1>3, <2>2
    <3>2. QED
      BY Zenon, <1>2, <2>1, <2>2, <3>1, CommittedForm DEF Counted
  <2>3. CASE fate'[m] # "stowed"
    BY Zenon, <1>3, <2>3, NothingType
  <2>4. QED
    BY Zenon, <2>2, <2>3
<1>6. Stamped'
  <2>1. M \in SUBSET Members /\ kept' \in [Members -> KeptType]
    BY Zenon, <1>1, <1>4, <1>5
  <2>2. (\A x \in Members \ M : kept'[x] = kept[x])
        /\ \A x \in M : kept'[x].verfs \subseteq kept[x].verfs \cup {verf}
    BY Zenon, <1>1, <1>4, <1>5
  <2> HIDE DEF M
  <2>3. QED
    BY Zenon, <1>1, <2>1, <2>2, StampedAfter
<1>7. kept'[m] = k
  BY Zenon, <1>1, <1>4
<1>8. ASSUME FlushOK, k.st = "safe"
      PROVE  Settles(m)'
  <2>1. PICK i \in Slots :
       /\ Pends(i, m) /\ pool[i].dirty /\ Pends(i, m)'
       /\ ~pool'[i].dirty /\ pool'[i].content = pool[i].content
       /\ disk'[m] = pool[i].content
    BY Zenon, <1>2, <1>5, <1>8 DEF Stowing
  <2>2. \A j \in Slots : (Pends(j, m) => j = i) /\ (Pends(j, m)' => j = i)
    BY Zenon, <2>1 DEF SInv, PoolInv, OneSlotPerMember, Slots
  <2>3. Settles(m) \/ Waits(m)
    BY Zenon, <1>5, <1>8 DEF DInv, Backed
  <2>4. pool[i].content = kept[m].want
    BY Zenon, <2>1, <2>2, <2>3 DEF Settles, Waits
  <2>5. QED
    BY Zenon, <1>5, <1>7, <1>8, <2>1, <2>2, <2>4 DEF Settles, Slots
<1>9. ASSUME FlushOK
      PROVE  NoneFull(full)' /\ \A x \in Members : Backed(x)'
  <2>1. Calm(World, World') /\ \A x \in Members \ M : Same(x) \/ Vacates(x)
    BY Zenon, <1>2, KeepsIsSame DEF Stowing, Around
  <2>2. Backed(m)'
    BY Zenon, <1>5, <1>7, <1>8, <1>9 DEF Backed, Counted
  <2>3. (\A x \in Members \ M : kept'[x] = kept[x]) /\ \A x \in M : Backed(x)'
    BY Zenon, <1>1, <1>4, <2>2
  <2>4. M \in SUBSET Members
    BY Zenon
  <2> HIDE DEF M
  <2>5. QED
    BY Zenon, <1>1, <1>2, <1>9, <2>1, <2>3, <2>4, RequestBacks
<1>10. QED
  BY Zenon, <1>6, <1>9 DEF DInv, FlushOK

\* COMMIT with nothing to flush: with the present verifier the content cannot
\* have been lost with an earlier task, and an eviction or a sweep stowed it.
LEMMA CommitNothingStep ==
  ASSUME SInv, DInv, NEW m \in Members, CommitNothing(m)
  PROVE  DInv'
<1> DEFINE M == {m}
<1>1. /\ Stamped /\ kept \in [Members -> KeptType] /\ UNCHANGED <<verf, started>>
      /\ UNCHANGED poolVars /\ phase = "serve" /\ phase' = phase
  BY Zenon DEF DInv, Stamped, CommitNothing, Serving
<1>2. \A i \in Slots : Pends(i, m) => ~pool[i].dirty
  BY Zenon, FoundIsPending DEF SInv, PoolInv, CommitNothing
<1>3. PICK k : k = Committed(kept[m])
  BY Zenon
<1>4. kept' = [kept EXCEPT ![m] = k]
  BY Zenon, <1>3 DEF CommitNothing
<1>5. /\ k \in KeptType /\ k.verfs \subseteq kept[m].verfs /\ k.st # "unstable"
      /\ k.st = "safe" => k.want = kept[m].want /\ Counted(m)
  <2>1. kept[m] \in KeptType
    BY Zenon, <1>1
  <2>2. QED
    BY Zenon, <1>1, <1>3, <2>1, CommittedForm DEF Counted
<1>6. Stamped'
  <2>1. M \in SUBSET Members /\ kept' \in [Members -> KeptType]
    BY Zenon, <1>1, <1>4, <1>5
  <2>2. (\A x \in Members \ M : kept'[x] = kept[x])
        /\ \A x \in M : kept'[x].verfs \subseteq kept[x].verfs \cup {verf}
    BY Zenon, <1>1, <1>4, <1>5
  <2> HIDE DEF M
  <2>3. QED
    BY Zenon, <1>1, <2>1, <2>2, StampedAfter
<1>7. kept'[m] = k
  BY Zenon, <1>1, <1>4
<1>8. ASSUME FlushOK
      PROVE  NoneFull(full)' /\ \A x \in Members : Backed(x)'
  <2>1. Calm(World, World') /\ \A x \in Members \ M : Same(x) \/ Vacates(x)
    BY Zenon, <1>1, QuietEffect, KeepsIsSame
  <2>2. Counted(m) => disk[m] = kept[m].want
    BY Zenon, <1>2, <1>8 DEF DInv, Backed, Settles, Waits
  <2>3. Backed(m)'
    BY Zenon, <1>1, <1>2, <1>5, <1>7, <2>2 DEF Backed, Counted, Settles, Pends,
       poolVars, Slots
  <2>4. (\A x \in Members \ M : kept'[x] = kept[x]) /\ \A x \in M : Backed(x)'
    BY Zenon, <1>1, <1>4, <2>3
  <2>5. M \in SUBSET Members
    BY Zenon
  <2> HIDE DEF M
  <2>6. QED
    BY Zenon, <1>1, <1>8, <2>1, <2>4, <2>5, RequestBacks
<1>9. QED
  BY Zenon, <1>6, <1>8 DEF DInv, FlushOK

-----------------------------------------------------------------------------
(* Everything else *)

\* Steps the client takes no notice of.
LEMMA AsideStep ==
  ASSUME SInv, DInv, UNCHANGED <<verf, started, kept>>,
         Calm(World, World'), \A x \in Members : Same(x) \/ Vacates(x),
         phase = "ended" => phase' = "ended"
  PROVE  DInv'
<1> DEFINE M == {}
<1>1. /\ Stamped /\ kept' \in [Members -> KeptType] /\ M \in SUBSET Members
      /\ (\A x \in M : Backed(x)') /\ \A x \in M : kept'[x].verfs \subseteq kept[x].verfs \cup {verf}
  BY Zenon DEF DInv, Stamped
<1> HIDE DEF M
<1>2. Stamped'
  BY Zenon, <1>1, StampedAfter
<1>3. FlushOK => NoneFull(full)' /\ \A x \in Members : Backed(x)'
  BY Zenon, <1>1, RequestBacks
<1>4. QED
  BY Zenon, <1>2, <1>3 DEF DInv, FlushOK

\* The task ends: what is unstable may be lost, what is safe is not pending.
LEMMA EndStep ==
  ASSUME SInv, DInv, Exit \/ Crash, UNCHANGED <<verf, started, kept>>
  PROVE  DInv'
<1> DEFINE M == {}
<1>1. /\ Stamped /\ kept' \in [Members -> KeptType] /\ M \in SUBSET Members
      /\ \A x \in M : kept'[x].verfs \subseteq kept[x].verfs \cup {verf}
  BY Zenon DEF DInv, Stamped
<1> HIDE DEF M
<1>2. Stamped'
  BY Zenon, <1>1, StampedAfter
<1>3. /\ full' = EmptyFull
      /\ \A x \in Members : disk'[x] # disk[x] =>
              \E i \in Slots : Pends(i, x) /\ pool[i].dirty
  BY Zenon, EndEffect DEF SInv
<1>4. NoneFull(full)'
  <2>1. \A k \in FullEntries : full'[k].age = FullExpiry + 1
    BY Zenon, <1>3 DEF EmptyFull, Unused
  <2>2. QED
    BY <2>1, FullTableAssumption DEF NoneFull, IsFull, FullEntries
<1>5. phase' = "ended" /\ pool' = [i \in Slots |-> FreeSlot]
  BY Zenon DEF Exit, Crash, TaskEnds
<1>6. \A i \in Slots : pool'[i].status = "FREE"
  BY Zenon, <1>5 DEF FreeSlot
<1>7. ASSUME NEW x \in Members, FlushOK
      PROVE  Backed(x)'
  <2>1. Counted(x)' => kept[x].st = "safe"
    BY Zenon, <1>5 DEF Counted
  <2>2. kept[x].st = "safe" => Settles(x)
    BY Zenon, <1>7 DEF DInv, Backed, Counted, Waits
  <2>3. QED
    BY Zenon, <1>3, <1>6, <2>1, <2>2 DEF Backed, Settles, Pends, Slots
<1>8. QED
  BY Zenon, <1>2, <1>4, <1>7 DEF DInv, FlushOK

\* A restart: no client has seen the new verifier.
LEMMA DRestartStep ==
  ASSUME DInv, DRestart
  PROVE  DInv'
<1>1. UNCHANGED poolVars /\ phase' = "top" /\ kept' = kept /\ verf' = Verifier(started')
  BY Zenon DEF DRestart, Restart
<1>2. PICK d \in {0, 1} : started' = [time |-> started.time + d, job |-> started.job + 1]
  BY Zenon DEF DRestart
<1>3. /\ started.job \in Nat /\ started.time \in Nat /\ kept \in [Members -> KeptType]
      /\ \A m \in Members : \A v \in kept[m].verfs : v[2] <= started.job
      /\ \A m \in Members : \A v \in kept[m].verfs : v[2] \in Nat
  BY DEF DInv, Stamped, KeptType, Verifiers
<1>4. started' \in [time : Nat, job : Nat] /\ started'.job = started.job + 1
  BY <1>2, <1>3
<1>5. Stamped'
  BY <1>1, <1>3, <1>4 DEF Stamped, Verifier, KeptType, Contents, Units, Verifiers
<1>6. verf'[2] = started.job + 1
  BY Zenon, <1>1, <1>4 DEF Verifier
<1>7. \A x \in Members : kept[x].verfs # {verf'}
  BY <1>3, <1>6
<1>8. ASSUME FlushOK, NEW x \in Members
      PROVE  Backed(x)'
  <2>1. Counted(x)' => kept[x].st = "safe"
    BY Zenon, <1>1, <1>7 DEF Counted
  <2>2. kept[x].st = "safe" => Settles(x)
    BY Zenon, <1>8 DEF DInv, Backed, Counted, Waits
  <2>3. QED
    BY Zenon, <1>1, <2>1, <2>2 DEF Backed, Settles, Pends, Slots, poolVars
<1>9. FlushOK => NoneFull(full)'
  BY Zenon, <1>1 DEF DInv, poolVars, NoneFull, IsFull, FullEntries
<1>10. QED
  BY Zenon, <1>5, <1>8, <1>9 DEF DInv, FlushOK

\* What the client takes no notice of.
LEMMA DAsideStep ==
  ASSUME IInv, SInv, DInv, Aside
  PROVE  DInv'
<1>1. UNCHANGED <<verf, started, kept>>
  BY Zenon DEF Aside
<1>2. CASE Sweep \/ Drain
  <2>1. Around({}) /\ phase' = phase
    BY Zenon, <1>2, SweptEffect DEF Sweep, Drain, SInv, IInv
  <2>2. Calm(World, World') /\ \A x \in Members : Same(x) \/ Vacates(x)
    BY Zenon, <2>1, KeepsIsSame DEF Around
  <2>3. QED
    BY Zenon, <1>1, <2>1, <2>2, AsideStep
<1>3. CASE Exit \/ Crash
  BY Zenon, <1>1, <1>3, EndStep
<1>4. CASE Wake \/ Leave \/ LeaveOnFatal \/ SweepDone \/ ServeDone
  <2>1. UNCHANGED poolVars /\ phase # "ended"
    BY Zenon, <1>4 DEF Wake, Leave, LeaveOnFatal, SweepDone, ServeDone
  <2>2. QED
    BY Zenon, <1>1, <2>1, QuietEffect, KeepsIsSame, AsideStep
<1>5. CASE Tick
  BY Zenon, <1>1, <1>5, TickEffect, KeepsIsSame, AsideStep DEF SInv, Tick
<1>6. CASE \E m \in Members : SetTimes(m) \/ EditorOpen(m) \/ EditorClose(m)
  <2>1. PICK m \in Members : SetTimes(m) \/ EditorOpen(m) \/ EditorClose(m)
    BY Zenon, <1>6
  <2>2. Calm(World, World')
    BY Zenon, <2>1, SetTimesEffect, EditorEffect DEF Drops
  <2>3. UNCHANGED <<pool, disk, phase>>
    BY Zenon, <2>1 DEF SetTimes, EditorOpen, EditorClose, Serving
  <2>4. \A x \in Members : Same(x)
    BY Zenon, <2>3 DEF Same, Pends
  <2>5. QED
    BY Zenon, <1>1, <2>2, <2>3, <2>4, AsideStep
<1>7. QED
  BY Zenon, <1>2, <1>3, <1>4, <1>5, <1>6 DEF Aside, Loop

\* A step of the client's view is a step of the write path.
LEMMA DNextIsNext ==
  ASSUME [DNext]_dvars
  PROVE  [Next]_vars
<1>1. CASE \E m \in Members : CommitNothing(m)
  BY Zenon, <1>1 DEF CommitNothing, Serving, vars
<1>2. CASE UNCHANGED dvars
  BY Zenon, <1>2 DEF dvars
<1>3. CASE Aside \/ DRestart
  BY Zenon, <1>3 DEF Aside, DRestart, Next, Request, Environment
<1>4. CASE \E m \in Members :
       \/ \E off \in 0 .. MaxLen : \E dat \in Payloads : DWrite(m, off, dat)
       \/ \E n \in 0 .. MaxLen : DTruncate(m, n)
       \/ DCreate(m) \/ DCommit(m) \/ DRemove(m) \/ DReadFails(m)
       \/ \E b \in Members : DRename(m, b)
  <2>1. Request
    BY Zenon, <1>4 DEF Request, DWrite, DTruncate, DCreate, DCommit, DRemove, DReadFails,
       DRename
  <2>2. QED
    BY Zenon, <2>1 DEF Next
<1>5. CASE \E m \in Members : DSave(m)
  BY Zenon, <1>5 DEF DSave, Next, Environment
<1>6. QED
  BY Zenon, <1>1, <1>2, <1>3, <1>4, <1>5 DEF DNext

\* Every step keeps a client's content backed.
LEMMA DInvStep ==
  ASSUME IInv, SInv, DInv, [DNext]_dvars
  PROVE  DInv'
<1>1. PoolInv'
  BY Zenon, DNextIsNext, NextStep DEF IInv
<1>2. ASSUME NEW m \in Members, DCreate(m) \/ (\E n \in 0 .. MaxLen : DTruncate(m, n))
             \/ \E off \in 0 .. MaxLen : \E dat \in Payloads : DWrite(m, off, dat)
      PROVE  DInv'
  <2>1. Gives(m)
    BY Zenon, <1>2, CreateEffect, TruncateEffect, WriteEffect DEF DCreate, DTruncate,
       DWrite
  <2>2. Replied(m) /\ phase' = phase
    BY Zenon, <1>2 DEF DCreate, DTruncate, DWrite, Create, Truncate, Write, Serving
  <2>3. QED
    BY Zenon, <1>1, <2>1, <2>2, RepliedStep
<1>3. ASSUME NEW m \in Members, DRemove(m) \/ DReadFails(m) \/ DSave(m)
      PROVE  DInv'
  <2> DEFINE M == {m}
  <2>1. Drops({m}) \/ Gives(m)
    BY Zenon, <1>3, RemoveEffect, ReadLosesScratchEffect, EditorEffect DEF DRemove,
       DReadFails, DSave
  <2>2. Calm(World, World') /\ (\A x \in Members \ M : Keeps(x) \/ Vacates(x))
    BY Zenon, <2>1 DEF Drops, Gives, Around
  <2>3. Forget(M) /\ phase' = phase /\ M \in SUBSET Members
    BY Zenon, <1>3 DEF DRemove, DReadFails, DSave, Remove, ReadLosesScratch, EditorSave,
       Serving
  <2> HIDE DEF M
  <2>4. QED
    BY Zenon, <2>2, <2>3, ForgetStep
<1>4. ASSUME NEW a \in Members, NEW b \in Members, DRename(a, b)
      PROVE  DInv'
  <2> DEFINE M == {a, b}
  <2>1. Stowing(a) \/ Drops({a, b})
    BY Zenon, <1>4, RenameEffect DEF DRename
  <2>2. Calm(World, World') /\ (\A x \in Members \ M : Keeps(x) \/ Vacates(x))
    BY Zenon, <2>1 DEF Drops, Stowing, Around
  <2>3. Forget(M) /\ phase' = phase /\ M \in SUBSET Members
    BY Zenon, <1>4 DEF DRename, Rename, Serving
  <2> HIDE DEF M
  <2>4. QED
    BY Zenon, <2>2, <2>3, ForgetStep
<1>5. CASE UNCHANGED dvars
  <2>1. UNCHANGED <<verf, started, kept>> /\ UNCHANGED poolVars /\ phase' = phase
    BY Zenon, <1>5 DEF dvars, vars
  <2>2. QED
    BY Zenon, <2>1, QuietEffect, KeepsIsSame, AsideStep
<1>6. QED
  BY Zenon, <1>1, <1>2, <1>3, <1>4, <1>5, DCommitStep, CommitNothingStep, DRestartStep,
     DAsideStep
  DEF DNext

\* At the start a client counts on nothing.
LEMMA DInvInit ==
  ASSUME DInit
  PROVE  DInv
<1>1. Stamped
  BY Zenon, NothingType DEF DInit, Stamped
<1>2. \A m \in Members : Backed(m)
  BY Zenon, NothingType DEF DInit, Backed, Counted
<1>3. NoneFull(full)
  <2>1. \A k \in FullEntries : full[k].age = FullExpiry + 1
    BY Zenon DEF DInit, Init, PoolInit, EmptyFull, Unused
  <2>2. QED
    BY <2>1, FullTableAssumption DEF NoneFull, IsFull
<1>4. QED
  BY Zenon, <1>1, <1>2, <1>3 DEF DInv

\* If every flush stows, what a COMMIT told the client is in the PDS, and stays
\* there through evictions, sweeps, crashes in the middle of a write and
\* restarts, until a request or a save replaces it; it rests on the verifier
\* (set_write_verifier), which a client sees change when the task that held
\* its data is gone.  A flush that fails in a sweep or an eviction reports to
\* nobody (pww_flush_idle, pww_slot_take), hence the hypothesis.
THEOREM CommittedIsKept == DSpec => [](FlushOK => CommittedStays)
<1>1. DInit => IInv /\ SInv /\ DInv
  BY Zenon, InitStep, SInvInit, DInvInit DEF DInit
<1>2. IInv /\ SInv /\ DInv /\ [DNext]_dvars => (IInv /\ SInv /\ DInv)'
  BY Zenon, DNextIsNext, NextStep, SInvStep, DInvStep
<1>3. DInv => (FlushOK => CommittedStays)
  BY Zenon DEF DInv, Backed, Counted, Settles, Waits, CommittedStays
<1>4. QED
  BY <1>1, <1>2, <1>3, PTL DEF DSpec
=============================================================================
