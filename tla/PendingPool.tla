----------------------------- MODULE PendingPool -----------------------------
(***************************************************************************)
(* The pending-member write pool (mvspww.c) and its flush machinery        *)
(* (mvspwfl.c).                                                            *)
(*                                                                         *)
(* A PDS member can only be written in one sequential pass, so the server  *)
(* reassembles WRITEs in one of NSlots slots and stows the whole member at *)
(* COMMIT, when the slot goes idle, when it is evicted or at shutdown.     *)
(* From its first write until its release a slot holds two resources: the  *)
(* SPFEDIT enqueue that keeps an ISPF editor out of the member, and the    *)
(* dynamic allocation of DSN(member).                                      *)
(*                                                                         *)
(* This module holds the state of the pool and what each of its steps does *)
(* to it.  A step of the code is a function from one World (everything     *)
(* outside the slots that the step can change) to the next; WritePath      *)
(* composes the steps into the request handlers and the main loop.         *)
(*                                                                         *)
(* A member's bytes are what MemberBytes makes of the requests for it.  How*)
(* they are kept, in memory or in a spill file, is SpillBuffer's subject,  *)
(* which also shows where a spilled member that is shrunk departs from it. *)
(* Whether the space prediction (mvsblkc.c) admits a write is left open.   *)
(***************************************************************************)
EXTENDS FullTable, MemberBytes

CONSTANTS Members,          \* the writable members, each a DSN(member) pair
          NoMember,         \* the member of a FREE slot
          DatasetOf,        \* the dataset a member belongs to
          NSlots,           \* PWW_MAX_PENDING
          IdleTimeout,      \* PWW_IDLE_TIMEOUT_SECONDS
          Absent,           \* "not in the PDS directory"
          FlushOutcomes,    \* the ways a flush may go, see FlushKinds
          ReleaseOutcomes   \* the ways an unallocate or a DEQ may go

\* How the guarded member write of a flush may end:
\*   "ok"       written and stowed
\*   "badstats" stowed, then an unexpected abend while setting ISPF statistics
\*   "ioerr"    an ordinary failure: fopen, read-back, fwrite or fclose
\*   "space"    a trapped out-of-space abend (B14, B37, D37, E37)
\*   "program"  any other trapped abend
FlushKinds == {"ok", "badstats", "ioerr", "space", "program"}

\* How an unallocate or a DEQ under its own STAE may end: done, trapped
\* abend, non-zero return code, or skipped since the STAE was not established.
ReleaseKinds == {"ok", "abend", "failed", "nostae"}

ASSUME PendingPoolAssumption ==
  /\ NoMember \notin Members
  /\ DatasetOf \in [Members -> Datasets]
  /\ NSlots \in Nat \ {0}
  /\ IdleTimeout \in Nat
  /\ FlushOutcomes \subseteq FlushKinds /\ "ok" \in FlushOutcomes
  /\ ReleaseOutcomes \subseteq ReleaseKinds /\ "ok" \in ReleaseOutcomes

VARIABLES pool,      \* the slots, g_pww_pool
          enq,       \* who holds the SPFEDIT enqueue of each member
          alloc,     \* the members whose DSN(member) this task has allocated
          full,      \* g_pww_full
          fatal,     \* g_fatal_abend
          disk,      \* the content of each member in the PDS, or Absent
          listing,   \* this server's cached directory listing of each dataset
          fate       \* history: what became of the content last acknowledged

poolVars == <<pool, enq, alloc, full, fatal, disk, listing, fate>>

Slots == 1 .. NSlots

\* Ages past the idle timeout are not told apart.
IdleCap == IdleTimeout + 1

Payloads == {<<>>} \cup {<<d>> : d \in Data}

\* pending_member_t.  content stands for the bytes below high_water and idle
\* for now - last_write_time; begun is history, TRUE once an accepted request
\* has said what the member starts with.
SlotType ==
  [status : {"FREE", "USED"}, member : Members \cup {NoMember},
   content : Contents, dirty : BOOLEAN, idle : 0 .. IdleCap,
   enq_held : BOOLEAN, allocated : BOOLEAN, begun : BOOLEAN]

\* A slot as memset leaves it.
FreeSlot ==
  [status |-> "FREE", member |-> NoMember, content |-> <<>>, dirty |-> FALSE,
   idle |-> 0, enq_held |-> FALSE, allocated |-> FALSE, begun |-> FALSE]

\* A slot after pww_slot_init and a successful pww_lock.
NewSlot(m) ==
  [status |-> "USED", member |-> m, content |-> <<>>, dirty |-> FALSE,
   idle |-> 0, enq_held |-> TRUE, allocated |-> TRUE, begun |-> FALSE]

\* A slot whose content has just been accepted (pww_set_dirty).
Accepted(s, c, begun) ==
  [s EXCEPT !.content = c, !.dirty = TRUE, !.idle = 0, !.begun = begun]

\* fate of a member:
\*   "owed"    content was acknowledged and has not been stowed
\*   "stowed"  the content acknowledged last is in the PDS, its slot kept
\*   "failed"  it was lost or not stowed, an error was reported, its slot kept
\*   "none"    nothing outstanding
\* listing of a dataset: nothing cached; cached, and no change of the directory
\* since; or cached from before an editor's save or a partly stowed member.
WorldType ==
  [enq : [Members -> {"free", "nfsd", "editor"}], alloc : SUBSET Members,
   full : FullTables, fatal : BOOLEAN,
   disk : [Members -> Contents \cup {Absent}],
   listing : [Datasets -> {"none", "current", "stale"}],
   fate : [Members -> {"none", "owed", "stowed", "failed"}]]

World ==
  [enq |-> enq, alloc |-> alloc, full |-> full, fatal |-> fatal,
   disk |-> disk, listing |-> listing, fate |-> fate]

Become(w) ==
  /\ enq' = w.enq /\ alloc' = w.alloc /\ full' = w.full /\ fatal' = w.fatal
  /\ disk' = w.disk /\ listing' = w.listing /\ fate' = w.fate

PoolTypeOK == pool \in [Slots -> SlotType] /\ World \in WorldType

PoolInit ==
  /\ pool = [i \in Slots |-> FreeSlot]
  /\ enq \in [Members -> {"free", "editor"}]
  /\ alloc = {}
  /\ full = EmptyFull
  /\ fatal = FALSE
  /\ disk \in [Members -> {Absent} \cup {<<d>> : d \in Data}]
  /\ listing = [ds \in Datasets |-> "none"]
  /\ fate = [m \in Members |-> "none"]

-----------------------------------------------------------------------------
(* The content of a member *)

\* What an unfinished member write may leave as the member's content.
Prefixes(c) == {[k \in 1 .. n |-> c[k]] : n \in 0 .. Len(c)}

\* A failed store or read-back of a spilled member may leave any bytes at all
\* below high_water: blocks written before the failure, or, when the scratch
\* dataset could not be reopened, whatever a fresh buffer happens to hold.
Garbled(c) == [DOMAIN c -> Units]

-----------------------------------------------------------------------------
(* Finding and taking a slot *)

\* pww_slot_find returns slot i: the first USED slot for the member.
SlotFind(m, i) ==
  /\ pool[i].status = "USED" /\ pool[i].member = m
  /\ \A j \in 1 .. i - 1 : ~(pool[j].status = "USED" /\ pool[j].member = m)

\* The slot pww_slot_find returns, if any.
Found(m) == {i \in Slots : SlotFind(m, i)}

\* pww_slot_take returns slot v: the first FREE one, otherwise the one with
\* the oldest last write, the first of them on a tie.  Idle times at the cap
\* are not told apart, so any of those may be the oldest.
SlotTake(v) ==
  \/ /\ pool[v].status = "FREE"
     /\ \A j \in 1 .. v - 1 : pool[j].status = "USED"
  \/ /\ \A j \in Slots : pool[j].status = "USED" /\ pool[j].idle <= pool[v].idle
     /\ pool[v].idle = IdleCap \/ \A j \in 1 .. v - 1 : pool[j].idle < pool[v].idle

-----------------------------------------------------------------------------
(* Locking and releasing *)

\* Mutant: the member is allocated but not enqueued on.
LockUnserialised(w, m) == [w EXCEPT !.alloc = @ \cup {m}]

\* pww_lock, when both the enqueue and the allocation succeed.
Lock(w, m) == [w EXCEPT !.enq[m] = "nfsd", !.alloc = @ \cup {m}]

\* pww_lock fails: the enqueue is refused (an editor has it, or this very task
\* still does), or the allocation is and a DEQ follows whose result is ignored.
LockFailures(w, m) ==
  {w} \cup {[w EXCEPT !.enq[m] = "nfsd"] :
              o \in {x \in ReleaseOutcomes : x = "failed" /\ w.enq[m] = "free"}}

\* The ways a release of slot s may go.
Releases(s) ==
  IF s.status = "USED" THEN [unalloc : ReleaseOutcomes, deq : ReleaseOutcomes]
  ELSE [unalloc : {"ok"}, deq : {"ok"}]

\* Mutant: an abend in the clean-up is logged and forgotten.
ReleaseUnreported(w, s, r) ==
  IF s.status = "FREE" THEN w
  ELSE [w EXCEPT
          !.alloc = IF s.allocated /\ r.unalloc = "ok" THEN @ \ {s.member} ELSE @,
          !.enq[s.member] = IF s.enq_held /\ r.deq = "ok" THEN "free" ELSE @,
          !.fate[s.member] = IF @ = "owed" THEN @ ELSE "none"]

\* pww_slot_release: unallocate, then DEQ, each under its own STAE.  Content
\* still owed to a client stays owed, although nothing is left to stow.
Release(w, s, r) ==
  IF s.status = "FREE" THEN w
  ELSE [w EXCEPT
          !.alloc = IF s.allocated /\ r.unalloc = "ok" THEN @ \ {s.member} ELSE @,
          !.enq[s.member] = IF s.enq_held /\ r.deq = "ok" THEN "free" ELSE @,
          !.fatal = \/ @
                    \/ s.allocated /\ r.unalloc = "abend"
                    \/ s.enq_held /\ r.deq = "abend",
          !.fate[s.member] = IF @ = "owed" THEN @ ELSE "none"]

\* pww_discard of member m, which drops what was owed for it.
Discards(w, m) ==
  IF Found(m) = {} THEN {w}
  ELSE {[Release(w, pool[i], r) EXCEPT !.fate[m] = "none"] :
          i \in Found(m), r \in Releases(NewSlot(m))}

-----------------------------------------------------------------------------
(* Flushing *)

\* Mutant: a last record without a newline is not written out.
FlushesCutShort(w, s) ==
  [rc : FlushOutcomes, left : IF s.dirty THEN Prefixes(s.content) ELSE {s.content}]

\* The outcomes of a flush of slot s, with what it leaves in the PDS: the
\* whole content when it stows, else the old member or a part of the new one
\* (an error path that closes the member stows what was written so far).
Flushes(w, s) ==
  IF ~s.dirty THEN [rc : {"ok"}, left : {s.content}]
  ELSE [rc : FlushOutcomes \cap {"ok", "badstats"}, left : {s.content}]
         \cup [rc : FlushOutcomes \ {"ok", "badstats"},
               left : {w.disk[s.member]} \cup Prefixes(s.content)]

\* pdsflush_slot returns 0.
Stows(w, s, f) ==
  ~IsFull(w.full, DatasetOf[s.member]) /\ f.rc \in {"ok", "badstats"}

\* pm->dirty after pdsflush_slot: only an ordinary I/O failure leaves it set.
DirtyAfter(w, s, f) ==
  ~IsFull(w.full, DatasetOf[s.member]) /\ f.rc = "ioerr"

\* pdsflush_slot.  A dataset known to be full is not touched: the content is
\* discarded.  A stow drops the full memory and the cached listing.
Flush(w, s, f) ==
  LET m  == s.member
      ds == DatasetOf[m]
  IN  IF IsFull(w.full, ds) THEN [w EXCEPT !.fate[m] = "failed"]
      ELSE [w EXCEPT
              !.disk[m] = f.left,
              !.full = CASE f.rc \in {"ok", "badstats"} -> ClearFull(@, ds)
                         [] f.rc = "space"              -> MarkFull(@, ds)
                         [] OTHER                       -> @,
              !.fatal = @ \/ f.rc \in {"badstats", "program"},
              !.listing[ds] =
                 IF f.rc \in {"ok", "badstats"} THEN "none"
                 ELSE IF @ = "current" /\ f.left # w.disk[m] THEN "stale" ELSE @,
              !.fate[m] = IF f.rc \in {"ok", "badstats"} THEN "stowed" ELSE "failed"]

\* The slot after pdsflush_slot.  An I/O failure may be the read-back of a
\* spilled member, which can lose the scratch dataset and the bytes with it.
FlushedSlots(w, s, f) ==
  {[s EXCEPT !.dirty = DirtyAfter(w, s, f), !.content = c] :
     c \in IF DirtyAfter(w, s, f) THEN Garbled(s.content) ELSE {s.content}}

\* Mutant: the slot is released without a flush.
VacateUnflushed(w, s, f, r) == Release(w, s, r)

\* Flush the slot if it is dirty, then release it whatever the flush said:
\* what eviction, the idle sweep and shutdown all do.
Vacate(w, s, f, r) ==
  Release(IF s.dirty THEN Flush(w, s, f) ELSE w, s, r)

\* The worlds a vacated slot v may leave behind.
Vacated(v) ==
  {Vacate(World, pool[v], f, r) :
     f \in Flushes(World, pool[v]), r \in Releases(pool[v])}
=============================================================================
