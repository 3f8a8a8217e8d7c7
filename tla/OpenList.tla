------------------------------- MODULE OpenList -------------------------------
(***************************************************************************)
(* The pool of open-directory slots (mvsdol.c) and the reading of a PDS    *)
(* directory into a slot (mvspdir.c).                                      *)
(*                                                                         *)
(* Member names are their ranks 1 .. N in EBCDIC order and 0 stands below  *)
(* them all, as the empty name of cookie 0 does; a directory entry is a    *)
(* name with the version its TTR and statistics identify.                  *)
(***************************************************************************)
EXTENDS Integers, FiniteSets, Sequences, SequencesExt, FiniteSetsExt

CONSTANTS N,         \* how many member names there are
          Datasets,  \* dsnames
          Root,      \* the export path, which a slot for the root is named by
          NSlots,    \* MAX_OPEN_DIRS
          Timeout    \* MVSVFS_DIR_OPENLIST_TIMEOUT_SECS

ASSUME OpenListAssumption ==
  /\ N \in Nat /\ NSlots \in Nat \ {0} /\ Timeout \in Nat
  /\ Root \notin Datasets

Names == 1 .. N
Slots == 1 .. NSlots

\* A directory is a function from names to versions, 0 where there is none.
Listed(dir) == {n \in Names : dir[n] # 0}

(* dir_openlist_search_members: the binary search and its three answers *)

\* Where the search for name stops: the index of a match, or else 0, and the
\* insertion point.
Halving(list, name) ==
  LET at(i) == list[i].name
      cut[r \in (1 .. Len(list) + 1) \X (0 .. Len(list))] ==
        LET low == r[1]  high == r[2]  mid == (low + high) \div 2
        IN IF low > high THEN <<0, low>>
           ELSE IF at(mid) < name THEN cut[<<mid + 1, high>>]
           ELSE IF at(mid) > name THEN cut[<<low, mid - 1>>]
           ELSE <<mid, mid + 1>>
  IN cut[<<1, Len(list)>>]

\* The index of the entry equal to, or strictly after, name; 0 for none.
Search(list, name, op) ==
  LET found == Halving(list, name)
  IN IF op = "EQ" THEN found[1]
     ELSE IF found[2] <= Len(list) THEN found[2] ELSE 0

(* Slots *)

\* from is a history: where the read that built the list began.
FreeSlot ==
  [status |-> "free", dsname |-> Root, level |-> "root", list |-> <<>>,
   end_of_dir |-> FALSE, used |-> 0, from |-> 0]

\* dir_openlist_init
EmptyPool == [i \in Slots |-> FreeSlot]

Expired(slot, now) == now - slot.used > Timeout

\* dir_openlist_find_free: the first slot free or expired, else the one
\* longest idle.
FindFree(pool, now) ==
  LET idle == {i \in Slots : pool[i].status = "free" \/ Expired(pool[i], now)}
  IN IF idle # {} THEN Min(idle)
     ELSE Min({i \in Slots : \A j \in Slots : pool[i].used <= pool[j].used})

\* dir_openlist_claim, and what vfs_opendir writes into the slot it gets.
Claimed(name, level, now) ==
  [FreeSlot EXCEPT !.status = "used", !.dsname = name, !.level = level, !.used = now]

\* dir_openlist_find_by_dsname: the slot, or 0.
FindByDsname(pool, name, now) ==
  LET hits == {i \in Slots : /\ pool[i].status = "used"
                             /\ ~Expired(pool[i], now)
                             /\ pool[i].dsname = name}
  IN IF hits = {} THEN 0 ELSE Min(hits)

\* dir_openlist_invalidate and dir_openlist_free
Invalidate(pool, name) ==
  [i \in Slots |->
     IF pool[i].status = "used" /\ pool[i].dsname = name THEN FreeSlot ELSE pool[i]]

(* Reading a directory *)

\* Mutant: the entries of deleted members are read with the others.
EntriesKept(dir, start) ==
  SelectSeq([n \in Names |-> [name |-> n, version |-> dir[n]]], LAMBDA e : e.name >= start)

\* mvs_read_pds_dir to the end mark: every entry whose name is not below start.
Entries(dir, start) ==
  SelectSeq([n \in Names |-> [name |-> n, version |-> dir[n]]],
            LAMBDA e : e.name \in Listed(dir) /\ e.name >= start)

\* mvs_pds_get_member_entry: the first entry read from name, if it is name's.
MemberEntry(dir, name) ==
  LET read == Entries(dir, name)
  IN IF read # <<>> /\ read[1].name = name THEN read[1].version ELSE 0

\* mvs_pds_dir_signature of the entries read, count of them at most; the FNV
\* fold of mvs_pds_dir_sig_calc is taken to tell all lists of names and TTRs
\* apart.
Signature(dir, count) ==
  LET read == Entries(dir, 0) IN SubSeq(read, 1, Min({count, Len(read)}))
=============================================================================
