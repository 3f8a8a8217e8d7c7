------------------------------ MODULE WritePath ------------------------------
(***************************************************************************)
(* The write path end to end: the request handlers that reach the pending  *)
(* pool (mvsvfs.c, mvspww.c), the select loop that sweeps and drains it    *)
(* (nfsd.c), an ISPF editor that competes for the members through the      *)
(* SPFEDIT enqueue, the passing of time, and the end of the task.          *)
(*                                                                         *)
(* The server is one thread, so a request is one step; a sweep or a drain  *)
(* is one step per slot, since an editor can act between two of them and   *)
(* the task can die there.                                                 *)
(***************************************************************************)
EXTENDS PendingPool

VARIABLES phase,  \* where the select loop is
          due     \* the slots the running sweep still has to vacate

vars == <<poolVars, phase, due>>

Phases == {"top", "sweep", "serve", "drain", "ended"}

\* The types of the pool, of the world around it and of the loop's place.
TypeOK == PoolTypeOK /\ phase \in Phases /\ due \subseteq Slots

Init == PoolInit /\ phase = "top" /\ due = {}

Serving == phase = "serve" /\ UNCHANGED <<phase, due>>

Owe(w, m) == [w EXCEPT !.fate[m] = "owed"]

\* The client was answered with an error after content it is owed was lost.
Fail(w, m) == [w EXCEPT !.fate[m] = "failed"]

SetSlot(i, s) == pool' = [pool EXCEPT ![i] = s]

FreeSlots(I) == pool' = [i \in Slots |-> IF i \in I THEN FreeSlot ELSE pool[i]]

-----------------------------------------------------------------------------
(* Starting a new pending member: pww_slot_new *)

\* It succeeds, and the handler leaves the new slot as s.
NewMember(m, s) ==
  \E v \in Slots : SlotTake(v) /\ \E w \in Vacated(v) :
    /\ w.enq[m] = "free"
    /\ SetSlot(v, s)
    /\ Become(IF s.dirty THEN Owe(Lock(w, m), m) ELSE Lock(w, m))

\* It fails; the victim of the eviction is gone all the same.
NewMemberFails(m) ==
  \E v \in Slots : SlotTake(v) /\ \E w \in Vacated(v) : \E w2 \in LockFailures(w, m) :
    /\ SetSlot(v, FreeSlot)
    /\ Become(w2)

\* It succeeds but the member is predicted not to fit, and is released again.
NewMemberRefused(m) ==
  \E v \in Slots : SlotTake(v) /\ \E w \in Vacated(v) : \E r \in Releases(NewSlot(m)) :
    /\ w.enq[m] = "free"
    /\ SetSlot(v, FreeSlot)
    /\ Become(Release(Lock(w, m), NewSlot(m), r))

\* pww_create and pww_truncate to 0 of a member that is not pending.
StartEmpty(m) ==
  \/ NewMember(m, Accepted(NewSlot(m), <<>>, TRUE))
  \/ NewMemberFails(m)
  \/ NewMemberRefused(m)

-----------------------------------------------------------------------------
(* CREATE, WRITE and SETATTR *)

\* CREATE of a member already pending empties it before it asks whether the
\* empty member fits; a refusal then leaves it empty, and as dirty as it was.
CreateOver(m) ==
  \E i \in Found(m) :
    \/ /\ SetSlot(i, Accepted(pool[i], <<>>, TRUE))
       /\ Become(Owe(World, m))
    \/ /\ SetSlot(i, [pool[i] EXCEPT !.content = <<>>])
       /\ Become(Fail(World, m))

Create(m) ==
  /\ Serving
  /\ ~IsFull(full, DatasetOf[m])
  /\ IF Found(m) = {} THEN StartEmpty(m) ELSE CreateOver(m)

\* A first write must start at 0.  Refused by the space prediction, or failing
\* in the store, it leaves its new slot behind, empty and clean.
FirstWrite(m, off, dat) ==
  /\ off = 0
  /\ \/ NewMember(m, Accepted(NewSlot(m), dat, TRUE))
     \/ NewMember(m, NewSlot(m))
     \/ NewMemberFails(m)

\* A further write; when the store fails the bytes are not to be trusted.
NextWrite(m, off, dat) ==
  \E i \in Found(m) :
    \/ /\ SetSlot(i, Accepted(pool[i], Overlay(pool[i].content, off, dat),
                              pool[i].begun \/ off = 0))
       /\ Become(Owe(World, m))
    \/ \E c \in Garbled(pool[i].content) :
         /\ SetSlot(i, [pool[i] EXCEPT !.content = c])
         /\ Become(Fail(World, m))

\* Mutant: the cap on the member's size is not checked.
WriteUncapped(m, off, dat) ==
  /\ Serving
  /\ ~IsFull(full, DatasetOf[m])
  /\ IF Found(m) = {} THEN FirstWrite(m, off, dat) ELSE NextWrite(m, off, dat)

Write(m, off, dat) ==
  /\ Serving
  /\ off + Len(dat) <= MaxLen
  /\ ~IsFull(full, DatasetOf[m])
  /\ IF Found(m) = {} THEN FirstWrite(m, off, dat) ELSE NextWrite(m, off, dat)

\* A new size for a pending member; one it already has changes nothing, and
\* only growing can fail.
ResizePending(m, n) ==
  \E i \in Found(m) :
    /\ n # Len(pool[i].content)
    /\ \/ /\ SetSlot(i, Accepted(pool[i], Resize(pool[i].content, n),
                                 pool[i].begun \/ n = 0))
          /\ Become(Owe(World, m))
       \/ /\ n > Len(pool[i].content)
          /\ \E c \in Garbled(pool[i].content) :
               /\ SetSlot(i, [pool[i] EXCEPT !.content = c])
               /\ Become(Fail(World, m))

Truncate(m, n) ==
  /\ Serving
  /\ IF Found(m) = {} THEN n = 0 /\ StartEmpty(m) ELSE ResizePending(m, n)

\* Mutant: the DEQ that follows also drops the enqueue of a pending slot.
SetTimesDequeues(m) ==
  /\ Serving
  /\ \A i \in Found(m) : ~pool[i].dirty
  /\ disk[m] # Absent
  /\ enq[m] = "free" \/ Found(m) # {}
  /\ enq' = [enq EXCEPT ![m] = "free"]
  /\ UNCHANGED <<pool, alloc, full, fatal, disk, listing, fate>>

\* SETATTR of the times rewrites the directory entry of a stowed member, under
\* the slot's enqueue or one of its own; if the STOW fails, or there is nothing
\* to change, the listing stays.  (SETATTR of size and times is either
\* this or Truncate: a resized member is dirty, and a dirty member is skipped.)
SetTimes(m) ==
  /\ Serving
  /\ \A i \in Found(m) : ~pool[i].dirty
  /\ disk[m] # Absent
  /\ enq[m] = "free" \/ Found(m) # {}
  /\ \/ UNCHANGED listing
     \/ listing' = [listing EXCEPT ![DatasetOf[m]] = "none"]
  /\ \/ UNCHANGED enq
     \/ /\ Found(m) = {} /\ "failed" \in ReleaseOutcomes
        /\ enq' = [enq EXCEPT ![m] = "nfsd"]
  /\ UNCHANGED <<pool, alloc, full, fatal, disk, fate>>

-----------------------------------------------------------------------------
(* COMMIT, REMOVE, RENAME, READ and READDIR *)

Commit(m) ==
  /\ Serving
  /\ \E i \in Found(m) : \E f \in Flushes(World, pool[i]) :
       /\ pool[i].dirty
       /\ \E s \in FlushedSlots(World, pool[i], f) : SetSlot(i, s)
       /\ Become(Flush(World, pool[i], f))

\* Mutant: the cached listing survives the unlink.
RemoveUnlisted(m) ==
  /\ Serving
  /\ FreeSlots(Found(m))
  /\ \E w \in Discards(World, m) : Become([w EXCEPT !.disk[m] = Absent])

\* Drop what is pending, then unlink the member.  One that was only pending is
\* not there to unlink, which counts as success.
Remove(m) ==
  /\ Serving
  /\ FreeSlots(Found(m))
  /\ \E w \in Discards(World, m) :
       \/ /\ disk[m] # Absent \/ Found(m) # {}
          /\ Become([w EXCEPT !.disk[m] = Absent, !.listing[DatasetOf[m]] = "none"])
       \/ Become(w)

\* The source could not be stowed: the rename stops there.
RenameUnsettled(a) ==
  \E i \in Found(a) : \E f \in Flushes(World, pool[i]) :
    /\ pool[i].dirty
    /\ ~Stows(World, pool[i], f)
    /\ \E s \in FlushedSlots(World, pool[i], f) : SetSlot(i, s)
    /\ Become(Flush(World, pool[i], f))

\* The worlds in which the source has nothing left to stow.
Settled(a) ==
  IF \A i \in Found(a) : ~pool[i].dirty THEN {World}
  ELSE UNION {{Flush(World, pool[i], f) :
                 f \in {g \in Flushes(World, pool[i]) : Stows(World, pool[i], g)}} :
              i \in Found(a)}

Renamed(d, a, b) == IF a = b THEN d ELSE [d EXCEPT ![b] = d[a], ![a] = Absent]

\* Mutant: a pending source is carried over to its new name.
RenameRetargets(a, b) ==
  /\ Serving
  /\ pool' = [i \in Slots |-> IF i \in Found(a) THEN [pool[i] EXCEPT !.member = b]
                              ELSE pool[i]]
  /\ Become([World EXCEPT !.enq[a] = "free", !.enq[b] = "nfsd",
                          !.alloc = (@ \ {a}) \cup {b}])

\* Stow the source, drop what is pending for the target, rename the member,
\* then drop the source's slot.  The target's slot is gone even if the rename
\* itself then fails.
Rename(a, b) ==
  /\ Serving
  /\ DatasetOf[a] = DatasetOf[b]
  /\ \/ RenameUnsettled(a)
     \/ \E w1 \in Settled(a) : \E w2 \in Discards(w1, b) :
          /\ pool' = [i \in Slots |-> IF i \in Found(b) THEN FreeSlot
                                      ELSE IF i \in Found(a)
                                      THEN [pool[i] EXCEPT !.dirty = FALSE]
                                      ELSE pool[i]]
          /\ Become(w2)
     \/ \E w1 \in Settled(a) : \E w2 \in Discards(w1, b) :
          \E w3 \in IF a = b THEN {w2} ELSE Discards(w2, a) :
            /\ w2.disk[a] # Absent
            /\ FreeSlots(Found(a) \cup Found(b))
            /\ Become([w3 EXCEPT !.disk = Renamed(w2.disk, a, b),
                                 !.listing[DatasetOf[a]] = "none"])

\* A READ of a spilled member may lose its scratch dataset.
ReadLosesScratch(m) ==
  /\ Serving
  /\ \E i \in Found(m) : \E c \in Garbled(pool[i].content) :
       SetSlot(i, [pool[i] EXCEPT !.content = c])
  /\ Become(Fail(World, m))

\* READDIR answers from the cached listing or scans the directory anew.
ReadDir(ds) ==
  /\ Serving
  /\ listing' = [listing EXCEPT ![ds] = "current"]
  /\ UNCHANGED <<pool, enq, alloc, full, fatal, disk, fate>>

-----------------------------------------------------------------------------
(* The select loop *)

\* Mutant: the sweep passes over clean slots.
IsDueDirty(s) == s.dirty /\ s.idle > IdleTimeout

\* Due when now - last_write_time > PWW_IDLE_TIMEOUT_SECONDS.
IsDue(s) == s.status = "USED" /\ s.idle > IdleTimeout

\* Mutant: the fatal flag is not polled.
WakeRegardless ==
  /\ phase = "top"
  /\ phase' = "sweep"
  /\ due' = {i \in Slots : IsDue(pool[i])}
  /\ UNCHANGED poolVars

\* No STOP, no fatal abend: select returned, and pww_flush_idle begins.
Wake ==
  /\ phase = "top" /\ ~fatal
  /\ phase' = "sweep"
  /\ due' = {i \in Slots : IsDue(pool[i])}
  /\ UNCHANGED poolVars

\* A STOP command, a fatal abend or a failed select ends the loop.
Leave ==
  /\ phase = "top"
  /\ phase' = "drain"
  /\ UNCHANGED <<poolVars, due>>

LeaveOnFatal == fatal /\ Leave

\* pww_flush_idle, one slot.
Sweep ==
  /\ phase = "sweep"
  /\ \E i \in due : (\A j \in due : i <= j) /\ \E w \in Vacated(i) :
       /\ due' = due \ {i}
       /\ SetSlot(i, FreeSlot)
       /\ Become(w)
  /\ UNCHANGED phase

SweepDone ==
  /\ phase = "sweep" /\ due = {}
  /\ phase' = "serve"
  /\ UNCHANGED <<poolVars, due>>

ServeDone ==
  /\ phase = "serve"
  /\ phase' = "top"
  /\ UNCHANGED <<poolVars, due>>

\* pww_flush_all, one slot.
Drain ==
  /\ phase = "drain"
  /\ \E i \in Slots :
       /\ pool[i].status = "USED"
       /\ \A j \in 1 .. i - 1 : pool[j].status = "FREE"
       /\ \E w \in Vacated(i) : SetSlot(i, FreeSlot) /\ Become(w)
  /\ UNCHANGED <<phase, due>>

\* The task is gone: its storage is lost and MVS takes back its enqueues and
\* allocations.  A restart begins with storage as PoolInit describes it.
TaskEnds ==
  /\ phase' = "ended" /\ due' = {}
  /\ pool' = [i \in Slots |-> FreeSlot]
  /\ enq' = [m \in Members |-> IF enq[m] = "nfsd" THEN "free" ELSE enq[m]]
  /\ alloc' = {} /\ full' = EmptyFull /\ fatal' = FALSE
  /\ listing' = [ds \in Datasets |-> "none"]
  /\ fate' = [m \in Members |-> "none"]

Exit ==
  /\ phase = "drain"
  /\ \A i \in Slots : pool[i].status = "FREE"
  /\ TaskEnds
  /\ UNCHANGED disk

\* A cancel, a system failure, or an abend outside every STAE, perhaps in the
\* middle of writing a member.
Crash ==
  /\ phase # "ended"
  /\ TaskEnds
  /\ \/ UNCHANGED disk
     \/ \E i \in Slots : \E c \in Prefixes(pool[i].content) :
          /\ pool[i].dirty /\ ~IsFull(full, DatasetOf[pool[i].member])
          /\ disk' = [disk EXCEPT ![pool[i].member] = c]

Restart ==
  /\ phase = "ended"
  /\ phase' = "top"
  /\ UNCHANGED <<poolVars, due>>

-----------------------------------------------------------------------------
(* The environment *)

EditorOpen(m) ==
  /\ enq[m] = "free"
  /\ enq' = [enq EXCEPT ![m] = "editor"]
  /\ UNCHANGED <<pool, alloc, full, fatal, disk, listing, fate, phase, due>>

EditorSave(m) ==
  /\ enq[m] = "editor"
  /\ \E d \in Payloads : disk[m] # d /\ disk' = [disk EXCEPT ![m] = d]
  /\ listing' = [listing EXCEPT ![DatasetOf[m]] = IF @ = "current" THEN "stale" ELSE @]
  /\ UNCHANGED <<pool, enq, alloc, full, fatal, fate, phase, due>>

EditorClose(m) ==
  /\ enq[m] = "editor"
  /\ enq' = [enq EXCEPT ![m] = "free"]
  /\ UNCHANGED <<pool, alloc, full, fatal, disk, listing, fate, phase, due>>

\* One second passes.
Tick ==
  /\ phase # "ended"
  /\ pool' = [i \in Slots |->
                IF pool[i].status = "USED" /\ pool[i].idle < IdleCap
                THEN [pool[i] EXCEPT !.idle = @ + 1] ELSE pool[i]]
  /\ full' = Aged(full)
  /\ UNCHANGED <<enq, alloc, fatal, disk, listing, fate, phase, due>>

-----------------------------------------------------------------------------
Loop == Wake \/ LeaveOnFatal \/ Sweep \/ SweepDone \/ ServeDone \/ Drain \/ Exit

Request ==
  \/ \E m \in Members :
       \/ Create(m) \/ SetTimes(m) \/ Commit(m) \/ Remove(m) \/ ReadLosesScratch(m)
       \/ \E off \in 0 .. MaxLen : \E dat \in Payloads : Write(m, off, dat)
       \/ \E n \in 0 .. MaxLen : Truncate(m, n)
       \/ \E b \in Members : Rename(m, b)
  \/ \E ds \in Datasets : ReadDir(ds)

Environment ==
  \/ \E m \in Members : EditorOpen(m) \/ EditorSave(m) \/ EditorClose(m)
  \/ Tick \/ Leave \/ Crash \/ Restart

Next == Loop \/ Request \/ Environment

Spec == Init /\ [][Next]_vars

-----------------------------------------------------------------------------
(* Properties *)

Pends(i, m) == pool[i].status = "USED" /\ pool[i].member = m

\* No member is pending twice.  Two slots for one member would stow it twice,
\* the older content last; only the order find, evict, claim in every handler
\* (pww_slot_find before pww_slot_new) rules it out.
OneSlotPerMember ==
  \A i, j \in Slots : \A m \in Members : Pends(i, m) /\ Pends(j, m) => i = j

\* While a member is pending its SPFEDIT enqueue and its allocation are really
\* held, as the slot's flags say: no other slot's release and no request for
\* another member frees them.
FlagsNeverLie ==
  \A i \in Slots : pool[i].status = "USED" =>
    /\ pool[i].enq_held /\ enq[pool[i].member] = "nfsd"
    /\ pool[i].allocated /\ pool[i].member \in alloc

\* An enqueue or allocation this task holds without a slot to release it by has
\* raised the fatal flag, so that the task ends and MVS takes it back.
NothingStranded ==
  \A m \in Members :
    (enq[m] = "nfsd" \/ m \in alloc) => fatal \/ \E i \in Slots : Pends(i, m)

\* Content a client was told is safe stays pending and dirty until a flush has
\* stowed it or has failed with an error: neither eviction, sweep, shutdown nor
\* another request drops it silently.  (A REMOVE or RENAME does discard what is
\* pending for the member it deletes or replaces, even if it then fails.)
AcknowledgedKept ==
  \A m \in Members : fate[m] = "owed" => \E i \in Slots : Pends(i, m) /\ pool[i].dirty

\* After a flush reported success, and until the slot is released or written
\* again, the PDS holds exactly the content the slot serves to READ.
StowedIsOnDisk ==
  \A m \in Members : fate[m] = "stowed" =>
    \E i \in Slots : Pends(i, m) /\ ~pool[i].dirty /\ disk[m] = pool[i].content

\* While an editor holds a member, no flush touches it: what changes in the PDS
\* is the editor's own save, or a REMOVE or RENAME, which take no enqueue.
EditorSafe ==
  [][\A m \in Members : enq[m] = "editor" /\ disk'[m] # disk[m] =>
       \/ EditorSave(m) \/ Remove(m)
       \/ \E b \in Members : Rename(m, b) \/ Rename(b, m)]_vars

\* A directory never changes under a listing that is taken to be current: the
\* request that changes it drops the listing.  (An editor's save and a flush
\* that fails half-way do leave the listing behind, as "stale".)
ListingFollows ==
  [][\A m \in Members : disk'[m] # disk[m] => listing'[DatasetOf[m]] # "current"]_vars

\* A member with content to stow was started by a CREATE, a truncate to 0 or a
\* write from offset 0 that was accepted, so no byte before it was invented.
DefinedStart == \A i \in Slots : pool[i].dirty => pool[i].begun

\* A clean slot has nothing that is not yet stowed, so a COMMIT may answer OK
\* without touching the PDS.
CleanIsStowed ==
  \A i \in Slots : pool[i].status = "USED" /\ pool[i].begun /\ ~pool[i].dirty
                     => disk[pool[i].member] = pool[i].content
=============================================================================
