------------------------------- MODULE Listing -------------------------------
(***************************************************************************)
(* How a client sees a PDS directory: READDIR and READDIRPLUS page by      *)
(* page and GETATTR of the directory (nfs3.c, mvsvfs.c), over the open     *)
(* list and a directory that changes through this server and behind its    *)
(* back.  One action is one RPC.  What a READDIRPLUS reply says of each    *)
(* member is the subject of ReadPath.                                      *)
(***************************************************************************)
EXTENDS OpenList

CONSTANTS Throttle,    \* DIR_REFRESH_THROTTLE_SECS
          PageSizes,   \* how many entries a reply has room for
          AtStart,     \* the members each dataset starts with
          MaxTime,     \* bound: seconds modelled
          MaxUpsets,   \* bound: changes of the directories, and requests
                       \* that meet an error of the system
          None         \* no listing, no signature

VARIABLES now,      \* time(NULL)
          dir,      \* each PDS directory on disk
          pool,     \* g_dir_pool
          meta,     \* dir_mtime, dir_sig and dir_sig_check of each dataset
          epoch,    \* g_dir_epoch
          listing,  \* the client's listing under way
          view,     \* the client's last whole listing
          changes,  \* how many changes there have been
          faults,   \* how many errors there have been
          changed,  \* history: when others changed each entry and we the
                    \* directory, if that is recent
          tally     \* history: entries changed since the last check, those
                    \* changed twice between two, and whether it failed

vars == <<now, dir, pool, meta, epoch, listing, view, changes, faults,
          changed, tally>>

Versions == 0 .. MaxUpsets + 1

\* The version the next member stored gets; those of the start have 1.
NewVersion == changes + 2

Init ==
  /\ now = 1
  /\ dir = [d \in Datasets |-> [n \in Names |-> IF n \in AtStart THEN 1 ELSE 0]]
  /\ pool = EmptyPool
  /\ meta = [d \in Datasets |-> [mtime |-> 0, sig |-> None, check |-> 0]]
  /\ epoch = 0
  /\ listing = None /\ view = None
  /\ changes = 0 /\ faults = 0
  /\ changed = [d \in Datasets |-> [n \in {0} \cup Names |-> 0]]
  /\ tally = [d \in Datasets |-> [since |-> {}, twice |-> {}, missed |-> FALSE]]

-----------------------------------------------------------------------------
(* Attributes *)

CheckDue(d) == meta[d].check = 0 \/ now - meta[d].check >= Throttle

\* What may go wrong in a request: the check cannot read the directory, or is
\* ended by a bad block after some entries; the slot's stream cannot be opened
\* again; none can be opened; there is no storage for the list; its read ends on
\* a bad block; or the directory cannot be read for one member.
Faults == {<<"none", 0>>, <<"check", 0>>, <<"reopen", 0>>, <<"open", 0>>, <<"nomem", 1>>,
           <<"stat", 0>>}
            \cup {"checkshort", "short"} \X (0 .. N - 1)

NoFault == <<"none", 0>>

Readable(fault) == fault[1] # "check"

\* How many entries the check reads.
Seen(fault) == IF fault[1] = "checkshort" THEN fault[2] ELSE N

\* Mutant: a changed signature is recorded and the listing kept.
NoteOnly(d, fault) == FALSE

\* What a check that can read the directory, or part of it, concludes.
FoundChanged(d, fault) ==
  meta[d].check # 0 /\ Signature(dir[d], Seen(fault)) # meta[d].sig

\* vfs_stat_dataset: the throttled check for changes made behind our back.
CheckedMeta(d, fault) ==
  IF ~CheckDue(d) THEN meta[d]
  ELSE [mtime |-> IF Readable(fault) /\ FoundChanged(d, fault) THEN now ELSE meta[d].mtime,
        sig |-> IF Readable(fault) THEN Signature(dir[d], Seen(fault)) ELSE meta[d].sig,
        check |-> now]

CheckedPool(d, fault) ==
  IF CheckDue(d) /\ Readable(fault) /\ FoundChanged(d, fault)
  THEN Invalidate(pool, d) ELSE pool

\* vfs_dir_epoch, captured when it is first needed.
Epoch(m) == IF epoch = 0 /\ m.mtime = 0 THEN now ELSE epoch

Mtime(m) == IF m.mtime # 0 THEN m.mtime ELSE Epoch(m)

\* Entries the check did not come to.
Unseen(d, fault) ==
  {n \in Listed(dir[d]) : Cardinality({m \in Listed(dir[d]) : m <= n}) > Seen(fault)}

\* The part of every request on a directory that vfs_stat does.
StatDataset(d, fault) ==
  /\ meta' = [meta EXCEPT ![d] = CheckedMeta(d, fault)]
  /\ epoch' = Epoch(CheckedMeta(d, fault))
  /\ tally' = IF CheckDue(d)
              THEN [tally EXCEPT
                      ![d].since = IF Readable(fault) THEN Unseen(d, fault) ELSE @,
                      ![d].missed = fault[1] \in {"check", "checkshort"}]
              ELSE tally

\* The version vfs_stat_pds_member goes by: the cached entry if there is one,
\* else the directory's; 0 for ENOENT.
StatVersion(p, d, n, fault) ==
  LET i == FindByDsname(p, d, now)
      j == IF i = 0 THEN 0 ELSE Search(p[i].list, n, "EQ")
  IN IF j # 0 THEN p[i].list[j].version
     ELSE IF fault[1] = "stat" THEN 0 ELSE MemberEntry(dir[d], n)

\* find_by_dsname keeps the slot it finds alive.
Refreshed(p, d) ==
  LET i == FindByDsname(p, d, now)
  IN IF i = 0 THEN p ELSE [p EXCEPT ![i].used = now]
-----------------------------------------------------------------------------
(* Reading one page *)

\* vfs_opendir of a dataset: a complete list is used as it is, an incomplete
\* one is started afresh, else a slot is claimed.  The directory is opened for
\* the last two.  slot 0 is failure.
Opened(p, d, fault) ==
  LET i == FindByDsname(p, d, now)
      fresh == IF i = 0 \/ p[i].end_of_dir THEN Refreshed(p, d)
               ELSE [p EXCEPT ![i].list = <<>>, ![i].used = now]
      j == FindFree(fresh, now)
  IN IF i # 0 /\ (p[i].end_of_dir \/ fault[1] \notin {"reopen", "open"}) THEN [pool |-> fresh, slot |-> i]
     ELSE IF fault[1] # "open" THEN [pool |-> [fresh EXCEPT ![j] = Claimed(d, "dataset", now)], slot |-> j]
     ELSE [pool |-> [fresh EXCEPT ![j] = FreeSlot], slot |-> 0]

\* Whether vfs_readdir_next goes to the disk for what follows cookie.
Reloads(slot, cookie) ==
  ~slot.end_of_dir /\ (slot.list = <<>> \/ cookie >= Last(slot.list).name)

Meets(fault) ==
  /\ fault[1] = "none" \/ changes + faults < MaxUpsets
  /\ faults' = faults + (IF fault[1] = "none" THEN 0 ELSE 1)

CutShort(fault) == fault[1] \in {"nomem", "short"}

\* mvs_read_pds_dir from the cookie's name on, replacing what was cached.
Loaded(slot, d, cookie, fault) ==
  LET all == Entries(dir[d], cookie)
  IN [slot EXCEPT
        !.list = IF CutShort(fault) THEN SubSeq(all, 1, Min({fault[2], Len(all)})) ELSE all,
        !.end_of_dir = ~CutShort(fault),
        !.from = cookie]

\* The slot as the first vfs_readdir_next of a page leaves it.
Prepared(slot, d, cookie, fault) ==
  IF Reloads(slot, cookie) THEN Loaded(slot, d, cookie, fault) ELSE slot

\* The entries after cookie.
Following(slot, cookie) ==
  LET i == Search(slot.list, cookie, "GT")
  IN IF i = 0 THEN <<>> ELSE SubSeq(slot.list, i, Len(slot.list))

\* A list that was cut short is read on from a stream already at its end.
Drained(slot) == IF slot.end_of_dir THEN slot ELSE [slot EXCEPT !.list = <<>>]

Takes(k, seq) == SubSeq(seq, 1, Min({k, Len(seq)}))

\* The open list after the first vfs_readdir_next of a page, and whether the
\* read it made of the directory was cut short.
FirstNext(open, d, cookie, fault) ==
  [slot |-> open.slot,
   pool |-> [open.pool EXCEPT ![open.slot] = Prepared(@, d, cookie, fault)],
   cut |-> Reloads(open.pool[open.slot], cookie) /\ CutShort(fault)]

Found(first, cookie, fault) ==
  IF first.cut /\ fault[1] = "nomem" THEN <<>> ELSE Following(first.pool[first.slot], cookie)

\* READDIRPLUS stats each entry before it looks at the room left, and skips
\* one it cannot stat.
Sent(first, d, plus, fault, found) ==
  IF plus THEN SelectSeq(found, LAMBDA e : StatVersion(first.pool, d, e.name, fault) # 0)
  ELSE found

\* The reply with room for k of the entries to be sent, and the pool left
\* behind.
Reply(first, d, cookie, k, fault, found, sent) ==
  [ok |-> TRUE,
   pool |-> [first.pool EXCEPT ![first.slot] =
               IF found # <<>> /\ Len(sent) <= k THEN Drained(@) ELSE @],
   names |-> [i \in DOMAIN Takes(k, sent) |-> sent[i].name],
   eof |-> Len(sent) <= k,
   mtime |-> Mtime(CheckedMeta(d, fault)),
   from |-> first.pool[first.slot].from,
   trusted |-> /\ ~first.cut /\ fault[1] # "stat"
               /\ first.pool[first.slot].from <= cookie]

\* READDIR and, with plus, READDIRPLUS of the dataset from cookie.
Readdir(d, cookie, k, plus, fault) ==
  LET open == Opened(CheckedPool(d, fault), d, fault)
      first == FirstNext(open, d, cookie, fault)
      found == Found(first, cookie, fault)
  IN IF open.slot = 0 THEN [ok |-> FALSE, pool |-> open.pool]
     ELSE Reply(first, d, cookie, k, fault, found, Sent(first, d, plus, fault, found))

-----------------------------------------------------------------------------
(* The client and its listing *)

\* external: what the client makes of the page it gets for cookie; it starts
\* over when the directory's mtime moves under it.  Only a listing put together
\* from trusted pages is kept track of.
Follow(d, cookie, page) ==
  LET start == cookie = 0
      so_far == [ds |-> d, mtime |-> page.mtime,
                 names |-> Range(page.names) \cup (IF start THEN {} ELSE listing.names)]
  IN IF ~page.trusted \/ (~start /\ listing.mtime # page.mtime)
     THEN listing' = None /\ view' = None
     ELSE IF page.eof THEN listing' = None /\ view' = so_far
     ELSE listing' = so_far /\ view' = None

\* Whether READDIRPLUS may differ from READDIR: it stats what it found in one
\* list by another one.
TwoLists(d) ==
  Cardinality({i \in Slots : pool[i].status = "used" /\ pool[i].dsname = d}) > 1

\* What goes wrong is something the request tries.
Tries(d, plus, fault) ==
  LET p == CheckedPool(d, NoFault)
      i == FindByDsname(p, d, now)
  IN /\ fault[1] \in {"check", "checkshort"} => CheckDue(d)
     /\ fault[1] \in {"reopen", "open", "nomem", "short"} => ~(i # 0 /\ p[i].end_of_dir)
     /\ fault[1] = "reopen" => i # 0
     /\ fault[1] = "stat" => plus

\* A page for the client, from the beginning or from where it stands, or for
\* another client with any cookie.
List(d) ==
  \E cookie \in {0} \cup Names, k \in PageSizes,
     plus \in {FALSE, TwoLists(d)}, fault \in Faults :
    /\ Meets(fault) /\ Tries(d, plus, fault)
    /\ \E page \in {Readdir(d, cookie, k, plus, fault)} :
         /\ pool' = page.pool
         /\ \/ UNCHANGED <<listing, view>>
            \/ /\ page.ok
               /\ \/ cookie = 0
                  \/ listing # None /\ listing.ds = d /\ cookie = Max(listing.names)
               /\ Follow(d, cookie, page)
    /\ StatDataset(d, fault)
    /\ UNCHANGED <<now, dir, changes, changed>>

\* READDIR of the export root: vfs_opendir always claims a slot for it.
ListRoot ==
  /\ epoch' = IF epoch = 0 THEN now ELSE epoch
  /\ pool' = [pool EXCEPT ![FindFree(pool, now)] = Claimed(Root, "root", now)]
  /\ UNCHANGED <<now, dir, meta, listing, view, changes, faults, changed, tally>>

\* GETATTR of the directory; a client that sees its mtime move drops its view.
GetattrDir(d) ==
  \E fault \in {f \in Faults : f[1] \in {"none", "check", "checkshort"}} :
    LET m == CheckedMeta(d, fault)
    IN /\ Meets(fault) /\ Tries(d, FALSE, fault)
       /\ StatDataset(d, fault)
       /\ pool' = CheckedPool(d, fault)
       /\ view' = IF view # None /\ view.ds = d /\ view.mtime # Mtime(m) THEN None ELSE view
       /\ UNCHANGED <<now, dir, listing, changes, changed>>

-----------------------------------------------------------------------------
(* Changes of the directory *)

Note(d, names, when) ==
  /\ changes + faults < MaxUpsets
  /\ changes' = changes + 1
  /\ changed' = [changed EXCEPT ![d] = when]
  /\ tally' = [tally EXCEPT ![d].since = @ \cup names,
                            ![d].twice = @ \cup (tally[d].since \cap names)]
  /\ UNCHANGED <<now, epoch, listing, view, faults>>

\* A change of ours drops the cached listing, and with it what it had missed.
Ours == [n \in {0} \cup Names |-> IF n = 0 THEN now ELSE 0]

\* Mutant: the mtime moves and the cached listing stays.
MtimeOnly(d) ==
  /\ meta' = [meta EXCEPT ![d].mtime = now]
  /\ UNCHANGED pool

\* export_dataset_touch and dir_openlist_invalidate, at the end of every
\* change this server makes.
Touch(d) ==
  /\ meta' = [meta EXCEPT ![d].mtime = now]
  /\ pool' = Invalidate(pool, d)

\* A member stowed by a flush, or its statistics by SETATTR.
Stow(d, n) ==
  /\ dir' = [dir EXCEPT ![d][n] = NewVersion]
  /\ Touch(d)
  /\ Note(d, {n}, Ours)

\* vfs_remove of a member that is there.
RemoveMember(d, n) ==
  /\ dir[d][n] # 0
  /\ dir' = [dir EXCEPT ![d][n] = 0]
  /\ Touch(d)
  /\ Note(d, {n}, Ours)

\* vfs_rename of n to m; the directory keeps the TTR.
Rename(d, n, m) ==
  /\ dir[d][n] # 0 /\ dir[d][m] = 0
  /\ dir' = [dir EXCEPT ![d][n] = 0, ![d][m] = dir[d][n]]
  /\ Touch(d)
  /\ Note(d, {n, m}, Ours)

\* external: a job on MVS adds, replaces or deletes a member.
Behind(d, n) ==
  /\ \E version \in {NewVersion} \cup ({0} \ {dir[d][n]}) :
       dir' = [dir EXCEPT ![d][n] = version]
  /\ Note(d, {n}, [changed[d] EXCEPT ![n] = now])
  /\ UNCHANGED <<pool, meta>>

\* A second passes.  An expired slot is as good as a free one to whoever looks
\* at it, and is written as one.
Tick ==
  /\ now < MaxTime
  /\ now' = now + 1
  /\ changed' = [d \in Datasets |-> [n \in {0} \cup Names |->
                  IF changed[d][n] + Throttle <= now' THEN 0 ELSE changed[d][n]]]
  /\ pool' = [i \in Slots |-> IF Expired(pool[i], now') THEN FreeSlot ELSE pool[i]]
  /\ UNCHANGED <<dir, meta, epoch, listing, view, changes, faults, tally>>

Next ==
  \/ Tick
  \/ ListRoot
  \/ \E d \in Datasets :
       \/ List(d)
       \/ GetattrDir(d)
       \/ \E n \in Names : \/ Stow(d, n)
                           \/ RemoveMember(d, n)
                           \/ Behind(d, n)
                           \/ \E m \in Names \ {n} : Rename(d, n, m)

Spec == Init /\ [][Next]_vars

-----------------------------------------------------------------------------
(* What is checked *)

\* The types of the open list and of the directory's times: a list holds only
\* entries of members there were (mvs_read_pds_dir, dir_openlist_claim).
TypeOK ==
  /\ now \in 1 .. MaxTime /\ epoch \in 0 .. now /\ changes + faults \in 0 .. MaxUpsets
  /\ dir \in [Datasets -> [Names -> Versions]]
  /\ \A i \in Slots :
       /\ pool[i].status \in {"free", "used"}
       /\ pool[i].dsname \in Datasets \cup {Root}
       /\ pool[i].used \in 0 .. now
       /\ pool[i].from \in 0 .. N
       /\ \A e \in Range(pool[i].list) : e.name \in Names /\ e.version \in Versions \ {0}
  /\ \A d \in Datasets : meta[d].mtime \in 0 .. now /\ meta[d].check \in 0 .. now

\* An entry that others have left alone for as long as the throttle lasts, not
\* changed twice between two checks, and the last check read all of the
\* directory.
Settled(d, n) == changed[d][n] + Throttle <= now /\ n \notin tally[d].twice /\ ~tally[d].missed

\* The page the server would now send for any cookie names, in order and once
\* each, exactly the members between its cookie and its end, whatever was stowed,
\* removed, renamed, evicted, expired or cut short before; those changed behind
\* the server's back once they are settled.  Of members below the name the list
\* it is served from was begun at, which may be another client's cookie, nothing
\* is said (vfs_opendir, vfs_readdir_next).
PageExact ==
  \A d \in Datasets : \A cookie \in {0} \cup Names, k \in PageSizes, plus \in {FALSE, TwoLists(d)} :
    \A page \in {Readdir(d, cookie, k, plus, NoFault)} :
    LET end == IF page.eof THEN N ELSE Last(page.names)
    IN /\ \A i, j \in DOMAIN page.names : i < j => page.names[i] < page.names[j]
       /\ page.eof \/ page.names # <<>>
       /\ \A n \in Names : Settled(d, n) /\ n >= page.from =>
            (n \in Range(page.names)) = (n > cookie /\ n <= end /\ dir[d][n] # 0)

\* A list marked complete holds all members (mvsvfs.c:1227-1230, 1290): what
\* ends a listing leaves no settled member out.
CompleteListHasAll ==
  \A d \in Datasets, cookie \in {0} \cup Names, k \in PageSizes :
    LET page == Readdir(d, cookie, k, FALSE, NoFault)
    IN page.eof => \A n \in Names : Settled(d, n) /\ n > cookie /\ dir[d][n] # 0 =>
                     n \in Range(page.names)

\* A client that keeps its listing because GETATTR would now show the mtime it
\* had keeps a listing that is right about every settled member, however the
\* pages it was put together from were interleaved with changes.  Two changes
\* of ours in one second share an mtime: those tell when the throttle has run
\* out, by the next check (vfs_stat_dataset, export_dataset_touch).
MtimeTells ==
  view # None /\ changed[view.ds][0] + Throttle <= now
  /\ view.mtime = Mtime(CheckedMeta(view.ds, NoFault)) =>
    \A n \in Names : Settled(view.ds, n) => (n \in view.names) = (dir[view.ds][n] # 0)
=============================================================================
