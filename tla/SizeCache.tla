------------------------------ MODULE SizeCache ------------------------------
(***************************************************************************)
(* The cache of member sizes (mvsfsz.c).  A size is costly, since the      *)
(* member has to be read through, so it is kept with what the directory    *)
(* said of the member then: TTR, ISPF size and change date, which together *)
(* are its version here.  A file is a dataset name with a member name.     *)
(***************************************************************************)
EXTENDS Integers, FiniteSets, FiniteSetsExt

CONSTANTS NSizes,  \* MVSFSZ_CACHE_CAPACITY
          NotInUse \* what a slot not g_in_use is for

ASSUME SizeCacheAssumption == NSizes \in Nat \ {0}

SizeSlots == 1 .. NSizes

\* whole is history: the size counts all the member's bytes.
NoSize == [file |-> NotInUse, version |-> 0, size |-> 0, whole |-> TRUE, used |-> 0]

\* mvsfsz_init
NoSizes == [i \in SizeSlots |-> NoSize]

\* find_entry: the slot, or 0.
FindSize(cache, file) ==
  LET hits == {i \in SizeSlots : cache[i].file = file}
  IN IF hits = {} THEN 0 ELSE Min(hits)

\* find_free_slot: the first empty slot, else the one not used for longest.
FreeSize(cache) ==
  LET empty == {i \in SizeSlots : cache[i].file = NotInUse}
  IN IF empty # {} THEN Min(empty)
     ELSE Min({i \in SizeSlots : \A j \in SizeSlots : cache[i].used <= cache[j].used})

\* mvsfsz_put, fill_entry
PutSize(cache, file, version, size, whole, now) ==
  LET i == FindSize(cache, file)
  IN [cache EXCEPT ![IF i # 0 THEN i ELSE FreeSize(cache)] =
        [file |-> file, version |-> version, size |-> size, whole |-> whole, used |-> now]]

\* Mutant: an entry for the member is taken whatever the directory says.
StillValidAlways(entry, version) == TRUE

StillValid(entry, version) == entry.version = version

\* Mutant: a member that cannot be opened is given the size -1 for good.
CachesFailure(cache, file, version, through, actual, now) ==
  LET size == IF through.opens THEN through.bytes ELSE -1
  IN [cache |-> PutSize(cache, file, version, size, TRUE, now),
      known |-> TRUE, size |-> size, whole |-> TRUE]

\* mvsfsz_get_member_size, for a file the directory gives version: a valid
\* entry, or the member of actual bytes read through.  through is how that
\* goes: whether it opens, and how many bytes fread returns before it returns
\* none, at the end or at an error.  When it cannot be opened the caller's
\* size stays as it was, whatever that is.
GetMemberSize(cache, file, version, through, actual, now) ==
  LET i == FindSize(cache, file)
      evicted == IF i = 0 THEN cache ELSE [cache EXCEPT ![i] = NoSize]
      whole == through.bytes = actual
  IN IF i # 0 /\ StillValid(cache[i], version)
       THEN [cache |-> [cache EXCEPT ![i].used = now],
             known |-> TRUE, size |-> cache[i].size, whole |-> cache[i].whole]
     ELSE IF ~through.opens
       THEN [cache |-> evicted, known |-> FALSE, size |-> 0, whole |-> TRUE]
     ELSE [cache |-> PutSize(evicted, file, version, through.bytes, whole, now),
           known |-> TRUE, size |-> through.bytes, whole |-> whole]
=============================================================================
