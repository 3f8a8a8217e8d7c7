# Verification of the MVS NFS server

TLA+ models of the NFSv3 server in `src/`, the TLC runs that check them on small
instances, and proofs of their main properties with TLAPS. `PROJECT.json` lists
components, runs, mutants, hazards, findings and theorems, and maps every definition
to the source lines it stands for.

## The system

The server (`nfsd.c`) is one thread around `select`. Each pass of its loop polls the
operator and the fatal flag, waits at most one second, sweeps the idle pending members,
then answers one RPC on each connection that is ready. Files are members of partitioned
datasets (PDS), directories are the datasets of an export.

| Part | Source | State it keeps | Modelled in |
|---|---|---|---|
| server loop, connections | `nfsd.c` | connection table | `Server`, `WritePath`, `WriteLive` |
| write verifier, COMMIT | `nfsd.c`, `nfs3.c` | verifier | `Durability` |
| RPC records | `rpc.c` | one receive buffer | `RpcRecord`, `Server` |
| mount, NFS procedures | `mount3.c`, `nfs3.c` | none | with what they call |
| file handles, file ids | `fhandle.c`, `mvsfid.c`, `mvsio.c` | none | `FileHandle` |
| exports and configuration | `exports.c`, `cfgopts.c` | export table, directory times | `ExportConfig`, `Exports`, `Listing` |
| MVS file layer | `mvsvfs.c` | none of its own | `WritePath`, `Listing`, `ReadPath`, `Exports` |
| pending-member write pool | `mvspww.c` | eight slots, fatal flag | `PendingPool`, `WritePath` |
| flush, out-of-space memory | `mvspwfl.c` | table of full datasets | `FullTable`, `PendingPool` |
| spill store | `mvsspl.c` | one scratch dataset per slot | `SpillBuffer` |
| block-space prediction | `mvsblkc.c` | an estimate per slot | `Fitting`, `RecordCount`, `BlockSpace` |
| directory reader, open list | `mvspdir.c`, `mvsdol.c` | pool of directory lists | `OpenList`, `Listing` |
| read-position cache | `mvsprw.c` | positions in members | `ReadCache`, `ReadPath` |
| file-size cache | `mvsfsz.c` | sizes of members | `SizeCache`, `ReadPath` |

The part that is hardest to get right is writing. NFS writes come in any order, a PDS
member is written once from start to end, an ISPF user may want the same member, the
dataset may run full in the middle, and the client is answered long before the member
is stowed. Next come the caches, each of which is right only by leave of another one,
and the single thread, which any client could hold up.

## Modules

| Module | Models |
|---|---|
| `FullTable` | the out-of-space memory of `mvspwfl.c` as operators on the table |
| `MemberBytes` | what WRITE and SETATTR of the size mean for the bytes of a member |
| `PendingPool` | `mvspww.c` and `mvspwfl.c`: slots, locking, flushing, releasing |
| `WritePath` | the handlers of `mvsvfs.c`/`mvspww.c`, the loop of `nfsd.c`, an editor, time, crashes |
| `WriteLive` | `WritePath` with the lock in the C runtime that a trapped abend may leave behind |
| `Durability` | `WritePath` with clients that hold verifiers, and with restarts |
| `SpillBuffer` | `mvsspl.c` and the memory buffer: where one member's bytes are kept |
| `Fitting` | where blocks go on the tracks of a dataset, and whether so many still fit |
| `RecordCount` | records and blocks of a text, counted as it arrives, and a recount of the whole |
| `BlockSpace` | admission of writes for the members pending on one dataset |
| `OpenList` | `mvsdol.c` and the reading of a directory by `mvspdir.c`, as operators |
| `Listing` | READDIR, READDIRPLUS, GETATTR of a directory that changes |
| `ReadCache`, `SizeCache` | `mvsprw.c` and `mvsfsz.c`, as operators on the caches |
| `ReadPath` | READ and GETATTR of members that are replaced meanwhile |
| `RpcRecord` | one message: length, self-check against a garbled buffer, CALL header |
| `ServiceRounds` | abstract: each ready connection has one turn per round |
| `Server` | the event loop, its connection table, its clients and the socket layer |
| `Sublists` | what a loop leaves that copies some entries of a list |
| `ExportConfig` | `cfgopts.c`, `exports.c`: what each line of the file does to the table |
| `FileHandle` | path to object, object to handle, handle to path |
| `Exports` | load, serve, end, and load again, with a client that keeps its handle |
| `MC...` | constants and symmetry for the runs |
| `WritePathProofs` | the theorems about the pool of `WritePath` |
| `EffectProofs`, `StowProofs` | the theorems about the PDS, the listings and the holds of `WritePath`, and about `Durability` |
| `BlockProofs` | the theorems about `Fitting` and `SpillBuffer` |
| `ReadProofs` | the theorems about `ReadPath` |
| `ServerProofs` | the theorems about `Server` and `RpcRecord` |
| `ConfigProofs`, `ExportProofs` | the theorems about `ExportConfig`, `FileHandle` and `Exports` |

`WritePath` EXTENDS `PendingPool`, which EXTENDS `FullTable` and `MemberBytes`;
`Durability` and `WriteLive` EXTEND `WritePath`. `SpillBuffer` EXTENDS `MemberBytes` and carries a
variable `ref` that follows it, so that the bytes `PendingPool` takes for granted are
compared with the bytes the code keeps. `BlockSpace` composes `RecordCount` and
`Fitting`, `ReadPath` the two caches, `Exports` the parser and the handles. `Server`
is shown to implement `ServiceRounds` (`Turns == INSTANCE ServiceRounds WITH ...`).

### The write path

* `pool[i]` is `g_pww_pool[i]`. `content` stands for the bytes below `high_water`,
  `idle` for `now - last_write_time` up to one past the timeout. `begun` is history: some
  accepted request has fixed how the member starts.
* `enq`, `alloc` are MVS's view: who holds each member's SPFEDIT enqueue, and which
  members this task has allocated. The slot's flags are compared with them.
* `full` is `g_pww_full`, `fatal` is `g_fatal_abend`, `disk` the PDS, `listing` whether
  `mvsdol.c` has a listing of the dataset and whether the directory changed since.
* `fate` is history, what the client may believe of each member: `owed` (acknowledged,
  not stowed), `stowed`, `failed` (an error was reported or logged), `none`.
* `phase`, `due` place the loop: top, sweep with the slots still due, serve, drain, ended.

A request is one step, since the server is one thread. A sweep or a drain is one step
per slot: between two of them an editor may act or the task may die. What one step of
the pool does to the world outside the slots is a function from one `World` record to
the next (`Lock`, `Flush`, `Release`, `Vacate`); a handler composes them in the order of
the code. CREATE applies none of the attributes it carries (`vfs_create` ignores the
mode, `proc_create` the rest); a GUARDED or EXCLUSIVE one of a member that exists changes
nothing. SETATTR of size and times is a `Truncate` or a `SetTimes`, because a member
just resized is dirty and a dirty member's times are left alone.

A flush ends in one of five ways (`FlushKinds`): stowed, stowed with a bad abend in the
statistics, I/O failure, trapped out-of-space abend, trapped program abend. When it does
not stow, the member on disk is the old one or any prefix of the new one. An unallocate
or DEQ ends in one of four (`ReleaseKinds`). The constants `FlushOutcomes` and
`ReleaseOutcomes` choose which of them an instance considers. Whether the space
prediction admits a write is a free choice here; `BlockSpace` is where it is computed.

A failed store or read-back of a spilled member may leave any bytes below `high_water`
(`Garbled`): when the scratch dataset cannot be reopened the slot counts as in memory,
without a buffer.

`WriteLive` adds `io`, the state of the C runtime's I/O lock. An abend that is trapped
leaves the runtime by a `longjmp`; the lock may then be `leaked`, and any later step of the
server may be the one that waits for it for ever (`stuck`), until the task is cancelled.
The server's docs describe this hang (`doc/dev/analysis_io_lock_hang.md`,
`doc/dev/design_nfs_write.md` §7.3); why the lock is not always left behind is not known,
so the model lets it happen after any trapped abend, or not.

In `Durability` a client's `kept[m]` is what it relies on: nothing, content it wrote
UNSTABLE with the verifiers of the answers, or content a COMMIT with that one verifier
made safe. A restart happens in the same second as the last start or in the next; the
job's id is another one each time. (`set_write_verifier` allows for a system that does
not tell the job's id; then two starts within a second have the same verifier.)

### Block space

A text is a sequence of newlines and other bytes. `BlockSpace` keeps for each member the
text the slot holds and the estimate the code keeps, and reads the VTOC anew in every
admission, which may say anything of `Dscbs`: other jobs extend and fill the dataset.
The reference is `FewestBlocks`, which lays out the records of the whole text.

### Listing

Names are ranks in EBCDIC order, an entry is a name with a version (its TTR and ISPF
statistics). One action is one RPC with all its refreshes, reloads and re-reads. `Behind`
changes the directory without the server's knowledge; a read of the directory, for a list,
for one member or for the check for changes, may fail or stop half way. The client puts a
listing together page by page and keeps the time GETATTR showed. `changed` and `tally` are
history, from which `Settled` tells the entries that the code's throttled check can have
noticed.

### Read path

A position is the place in the text it was taken at and means nothing in a later text:
`fsetpos` with such a one may go anywhere (`astray`). The cached listing is a directory as
it once was, or none. `crossed` is history: members replaced while a position was kept.

A READ's offset has 64 bits, the cached offset 32, and `fseek` is given a `long`. `LongMax`
stands for 2^31: `Word`, twice as many, is what the cached offset is kept modulo, and an
offset whose low word is not below `LongMax` is a negative one to `fseek`. Reading a member
through for its size may end in an error after any number of bytes, which the loop takes
for the end.

### Server

`Select` marks descriptors and listeners; `Accept`, `WalkInto`, `Handle`, `TurnFails`,
`TimeOut`, `WalkPast`, `RoundOver` are the steps of one round, and the clients and the
kernel act between any two of them. The kernel gives a new connection any free
descriptor. While the loop receives (`pc = "recv"`), the client may send the rest, send a
piece of it (`Continue`, after which the timeout starts anew), hang up, or do nothing until
the timeout. What a whole message leads to is `Outcomes`: every message of `Messages`,
delivered as sent or started over from its first word part of the way, through the
self-check and the parser. The fields of a WRITE are in the order of the wire; the
credential, the name in the handle and the data may hold the magic, and the data the words
of a CALL header.

### Exports and handles

A line is the sequence of its tokens, the parser a record that `ReadLine` rewrites. At
the end of the file the DSCB of each dataset may be missing, failed exports are dropped,
and the table is served. A path is the sequence of its components; the export id of a
handle is `HashedOf` its path, which says which part of the path the hash sees.
Assumed: no component of an export's path is the name of a dataset, names are in one
case, no export is `/`, the first token of a line that opens a block or names a dataset is
a path, no path or dataset is called like a keyword or `{`, and the hash is injective on
what it sees. `dirperm=` and `memperm=` are one keyword.

## Runs

| Run | Expected | Shows |
|---|---|---|
| `write_pool` | pass | `OneSlotPerMember`, `FlagsNeverLie`, `NothingStranded`, `AcknowledgedKept` |
| `write_content` | pass | `TypeOK`, `StowedIsOnDisk`, `EditorSafe`, `ListingFollows` |
| `write_live` | pass | `EnqueueGivenUp`, `FatalEnds` (liveness) |
| `spill` | pass | `TypeOK`, `ReadsBackExactly`, `NoSeekPastEnd` |
| `listing` | pass | `TypeOK`, `PageExact`, `MtimeTells` |
| `read` | pass | `TypeOK`, `ReadExact`, `SizeFits` |
| `space` | pass | `TypeOK`, `EstimateCovers`, `FitTogether` |
| `server` | pass | `TypeOK`, `TableExact`, `NeverWaitsOnIdle`, `ReplayCaught`, `GoodMessageKept`, `TurnsInRounds` (refinement), `Attended`, `StopHeeded` (liveness) |
| `exports` | pass | `TypeOK`, `HandleExact`, `AlwaysResolvable`, `AccessHonest`, `ServedAsWritten` |
| `durability` | pass | `CommittedStays`, when every flush stows |
| `commit_after_loss` | violation | `CommittedStays`, when a flush may fail |
| `ro_ceiling` | violation | `CeilingHolds` |

More configurations to run by hand. Each shows one property violated by the code as it
is; what goes wrong is described under "What was found".

| Configuration | Module | Violates |
|---|---|---|
| `WritePathStranded.cfg` | `MCWritePath` | `NothingStranded` |
| `WritePathStart.cfg` | `MCWritePath` | `DefinedStart` |
| `WritePathClean.cfg` | `MCWritePath` | `CleanIsStowed` |
| `SpillBufferGaps.cfg` | `SpillBuffer` | `GapsStayZero` |
| `SpillBufferCreate.cfg` | `SpillBuffer` | `CreateTruncates` |
| `ListingHole.cfg` | `Listing` | `CompleteListHasAll` |
| `BlockSpaceFailed.cfg` | `MCBlockSpace` | `EstimateAlwaysCovers` |
| `BlockSpaceExtend.cfg` | `MCBlockSpace` | `AdmittedFit` |
| `HandleLongPath.cfg` | `MCExports` | `HandleExact` |

The same is seen of these properties when one of them takes the place of all those that
the configuration of the run names:

| Configuration | Module | Instead, as | Violated |
|---|---|---|---|
| `WriteLive.cfg` | `MCWriteLive` | `PROPERTY` | `FatalAlwaysEnds` |
| `ReadPath.cfg` | `ReadPath` | `INVARIANT` | `ReadExactAnywhere` |
| `ReadPath.cfg` | `ReadPath` | `INVARIANT` | `SizeFitsAfterErrors` |
| `Server.cfg` | `MCServer` | `INVARIANT` | `CorruptNeverStored` |
| `Server.cfg` | `MCServer` | `INVARIANT` | `ValidDataKept` |
| `Server.cfg` | `MCServer` | `PROPERTY` | `StopAlwaysHeeded` |

### Bounds

* `write_pool`: three members for two slots, so that finding, evicting and reusing a
  slot, RENAME between two pending members, and a third party all happen at once;
  contents are empty there (`Data = {}`), because its properties do not look at them.
* `write_content`: two members for one slot, contents of at most one unit, all five flush
  outcomes, a full table of one entry that expires after a second.
* `write_live`: two members for one slot, contents empty, an idle timeout of one second, and
  every trapped abend of a flush and of a release.
* `durability`: two members for one slot, one unit, two starts of the server. READDIR is
  left out, as the cached listing decides nothing there.
* `spill`: blocks of two units, a threshold of two, a track of one block and at most five
  units, so that a member has three blocks, the last of them partial, and a write can
  reach below the tail, into it, across a block boundary and past the end.
* `listing`: one dataset with two names, two slots (one may be taken by the root or by the
  second list of READDIRPLUS), pages of one entry, an expiry of one second and a throttle
  of two within three, and two upsets: changes of the directory or failing reads in any
  mixture. With `MaxTime = 4` (755 thousand states) and `5` (1.6 million) the same holds;
  these take too long to be run every time.
* `read`: two members of up to three bytes, one size slot and two read slots, so that both
  evict; a long of four values that are not negative, so a word of eight, and offsets 0, 2,
  3 (within a member), 5 (negative as a long) and 9 (beyond a word); one change, one fault,
  and time enough for an entry to grow too old.
* `space`: two members of up to three bytes; records of two bytes, blocks of two records,
  tracks of two blocks, fixed, variable and unusable formats; datasets that are full, end
  inside and at the end of a track, have more records on the last track than full blocks
  fit, and are at their last extent.
* `server`: three clients on two listeners, three descriptors, a table of two, so that the
  table is full and entries are exchanged while a third client waits; a buffer of twelve
  words, a seven-word header, and data of up to five words, in which a magic and a CALL
  header fit before and after a replay; one message is too long for the buffer.
* `exports`: four lines out of fourteen, two exports (a nested pair among three paths),
  two datasets, two starts. The lines include a block that fails, one that is not closed,
  a header inside a block, too many tokens, a keyword of the wrong level, `rw` under `ro`.

Members are interchangeable, hence the symmetry in the safety runs of `WritePath`,
`Durability` and `ReadPath`; runs with liveness use none. Deadlock is checked except
where the system ends: the server has ended, or the starts are used up (`server`,
`exports`, `durability`).

### Fairness

* `write_live`: weak fairness of the loop's own steps, while the runtime's lock does not
  stand in their way, and of the clock. `select` returns after at most a second, a sweep
  and a drain visit each slot once, and `LeaveOnFatal` is polled in every pass. That
  serving ends is what `server` shows. A server that is `stuck` takes no step, and both
  properties except it.
* `server`: weak fairness of `Loop`, the next step of the one thread, whatever it is. The
  step `TimeOut` is among them because `rpc_wait_io` waits with a timeout. The timeout is
  for each piece of a message, and `rpc_recv` takes empty fragments without end, so
  `Attended` and `StopHeeded` have the alternative `Drips`: some client never ceases to send
  pieces. Nothing else is assumed of clients or the operator.

### What the properties except

`PageExact` is about the members from the name on at which the list was begun that a page
is served from; `CompleteListHasAll` shows what can be missing below it. `MtimeTells` is
about listings put together from pages whose list began no later than their cookie and was
not cut short. Both are about entries that are `Settled`: changes behind the server's back
are only looked for every few seconds, a look may fail, and twice the same entry between
two looks is not seen. Two changes by the server in one second share a time, which
`MtimeTells` allows for until the throttle has run out.
`ReadsBackExactly` is about members that were not shrunk or created anew while spilled and
whose stores did not fail. `ReadExact` excepts a member in
which a position older than its text is kept, and offsets of more than 32 bits; `SizeFits` a
size taken by a reading that an error ended. `ReplayCaught` and `GoodMessageKept` name the
messages the self-check misjudges. `EnqueueGivenUp` and `FatalEnds` except a server that
hangs on the runtime's lock. `EstimateCovers` excepts a member with a
store that failed after it was admitted, `FitTogether` datasets that may extend. Each of
these exceptions is where the code goes wrong, or is known to.

## What was found

With a run:

* **COMMIT after a lost flush succeeds** (`commit_after_loss`). When an eviction or the
  idle sweep cannot flush a member, its slot is released. The client's COMMIT finds
  nothing pending, succeeds, and bears the same verifier, so the client drops its copy.
  Answering UNSTABLE, which the design notes propose, does not close that gap.
* **`ro` is no ceiling over flat lines** (`ro_ceiling`). A dataset added by a flat line is
  read-write even if a block makes its export read-only, before or after.

With one of the further configurations:

* A release that fails by return code, or whose STAE cannot be established, strands an
  enqueue or allocation without raising the fatal flag (`mvspww.c:325`, `mvspww.h:141`).
* A first WRITE that is refused leaves a blank slot; a later WRITE at a non-zero offset is
  then accepted, which the code means to refuse (`mvspww.c:880-908`).
* After an out-of-space COMMIT the slot is clean, so a second COMMIT reports success
  (`mvspwfl.c:485`).
* A spilled member that is shrunk inside a block and grown again shows the bytes that were
  cut off (`mvsspl.c:249`); one that is created anew shows bytes of its predecessor
  (`mvspww.c:836`).
* After a trapped abend the server may hang instead of shutting down, and holds its
  enqueues until it is cancelled (`mvspwfl.c:289`; the docs know of it).
* A directory list that was begun at one client's cookie counts as complete, and serves
  other clients without the members below it until it expires (`mvsvfs.c:1290`, against
  `1227-1230`).
* A READ at an offset of 2^32 or more returns the bytes at its low 32 bits, and one whose
  low 32 bits are 2^31 or more fails (`mvsprw.c:129`).
* A member whose reading ends in an error is given the size read so far, and keeps it until
  it is stored again (`mvsfsz.c:190-191`).
* The estimate is updated before the store it is for; if the store fails, a later write
  is added to an estimate of text that is not there (`mvsblkc.c:689`).
* Every member pending for a dataset is allowed all the secondary extents again, so two
  are admitted that do not fit together (`mvsblkc.c:291-295`, against `660-661`).
* The self-check of a message misses a replay that ends before the handle's magic, and one
  of a WRITE whose credential, name or data holds the magic, since only the first two magics
  are looked at (`rpc.c:336-342`), though `rpc.c:409-411` says "corrupt data can never be
  written". It refuses, again and again, a WRITE of a file that holds the magic and the
  image of a CALL header at the right distance, though `rpc.c:404` says that it cannot occur
  in valid data.
* A client that sends empty fragments without end holds the loop, and STOP is not heeded
  (`rpc.c:438-456`).
* Export ids hash the first 44 characters of a path (`mvsfid.c:151`); exports that differ
  only after them are confused, though `fhandle.c:33-34` says that a hash "either matches
  the same export or matches none".

Observed while modelling, without a run: a RENAME that fails in its last step has already
dropped the target's pending writes. The out-of-space memory is only ever cleared by time:
a known-full dataset is not flushed to, so the clearing on success that `mvspwfl.c:59-60` and
`doc/dev/design_nfs_write.md:633-635` describe is not reached while there is something to
clear.
A read position is not tied to the version of its member (`mvsprw.c:120-130`). After a
CREATE over a pending member is refused its text is gone (`mvspww.c:836`). A FILE_SYNC
WRITE is answered FILE_SYNC though it is only buffered (`nfs3.c:553-563`). A flat line
with too few or too many tokens does not fail its export (`exports.c:458-462`). A nested
export listed after its parent cannot be reached (`mvsio.c:112`).

## Proofs

The theorems hold for every value of the constants that satisfies the named assumptions
of the modules (`PendingPoolAssumption`, `FullTableAssumption`, `MemberBytesAssumption`,
`SpillBufferAssumption`, `FittingAssumption`, `ReadCacheAssumption`, `SizeCacheAssumption`,
`ReadPathAssumption`, `RpcAssumption`, `ServerAssumption`, `ConfigAssumption`,
`HandleAssumption`, `LinesAssumption`); TLC evaluates them in the runs. Some theorems have
a hypothesis besides, without which the code does not have the property:

| Hypothesis | In | Without it |
|---|---|---|
| `ReleaseOK`: a release succeeds, or abends and is trapped | `HoldsAccounted` | `WritePathStranded.cfg` |
| `FlushOK`: no flush loses its content | `CommittedIsKept` | `commit_after_loss` |
| `HashTellsApart`: the hashed parts of the exports' paths differ | `HandleForOneObject`, `HandlesExact`, `HandlesResolvable` | `HandleLongPath.cfg` |

**The pool** (`WritePathProofs`): `TypeCorrect` (`TypeOK`), `NeverPendingTwice`
(`OneSlotPerMember`), `LocksHeld` (`FlagsNeverLie`), `NothingLostSilently`
(`AcknowledgedKept`). The inductive invariant is `IInv`, around `PoolInv`: the types,
`Coherent` for every slot (a USED slot names a member, only a USED slot is dirty), and the
three safety properties together. They need each other: a release frees what its slot's
flags name, which is harmless to the other slots because no member is pending twice;
content owed survives an eviction because the victim was flushed, and because no second
slot is owed the same. Each handler is reduced to one of a few frame lemmas: `Frame` says
what it takes for a step that rewrites the slots of a set of members to keep the
invariant; `VacatedStep`, `LockStep`, `FlushStep` and `DiscardStep` say what the steps of
the pool do to the world; `Rewritten`, `Evicted` and `DroppedStep` combine them.

**The PDS and the holds** (`EffectProofs`, `StowProofs`): `StowedStays` (`StowedIsOnDisk`),
`HoldsAccounted` (`NothingStranded`), `ListingsFollow` and `EditorsSafe` (the action
properties `ListingFollows`, `EditorSafe`). The invariant `SInv` adds to `PoolInv`, for each
member, that what is `stowed` is on disk and in a clean slot, and that what is held has a
slot or the fatal flag is up. An eviction changes a member the request does not name, so
each step is described by what it is to every other member: it `Keeps` all there is about
it, or `Vacates` it.

**COMMIT** (`EffectProofs`, `StowProofs`): `CommittedIsKept`, that what a client was told is
committed is in the PDS until it is replaced. The invariant `DInv` says that the verifier
names this start and no client has seen a later one, and that whatever a client counts on,
or would after the next COMMIT, is either settled in the PDS or pending and dirty. The
second case is what makes the first one inductive.

**The spill store** (`BlockProofs`): `SpillTyped` (`TypeOK`), `NeverPastEnd`
(`NoSeekPastEnd`), `ReadsBack` (`ReadsBackExactly`). The invariant says that the scratch
dataset is made of whole blocks that cover the extent, that the reference is as long as
`high_water`, and, while nothing was shrunk, created anew or failed, that the bytes are in
the buffer or, exactly, in the scratch dataset.

**Space** (`BlockProofs`), for every geometry and every end of the data of a dataset that
cannot extend: `AddChargesExactly`, that `blkc_ttr_add` of a member that fits takes exactly
its blocks from `blkc_blocks_available`, and from it `ChainDecides`, that asking for two
members in a chain gives the answer for their sum. The proof splits on whether the blocks
stay on the track the data ends on; beyond it whole tracks are counted by rounding up,
which is the lemma `CeilingDivision`.

**Reading** (`ReadProofs`): `CachesTyped` (`TypeOK`), `ReadsExact` (`ReadExact`), `SizesFit`
(`SizeFits`). The invariant has the types, `UsedByNow`, `PositionsHold` (a position that may
be found, of a member not `crossed`, is of the present text and at the byte after the last
one read), `VersionsPast` (no version in use is one a later text will have, so a kept size
never comes to fit by accident) and `SizesHold`. That an evicted entry is one of the oldest
needs that a finite set of times has a least one.

**The server** (`ServerProofs`): `TableCorrect` (`TableExact`), `LoopServesInRounds`
(`TurnsInRounds`, the refinement of `ServiceRounds`), `NoIdleWait` (`NeverWaitsOnIdle`),
`LoopTyped` (`TypeOK`). The invariant `Inv` adds to the table that a marked listener still
has somebody waiting, that marked descriptors are in the table until the walk begins, and
that a turn is one of a marked connection. `IInv` adds who sits behind each descriptor and
that the marked entries not yet visited are still readable: a client's end only becomes
more readable until the server reads it. `ReplaysCaught` (`ReplayCaught`) and
`GoodMessagesKept` (`GoodMessageKept`) go by where the magic can be in a message that was
started over and in one that was not, for buffers and data of up to 99 words
(`RpcAssumption`, which keeps a count apart from the other words).

**Exports and handles** (`ConfigProofs`, `ExportProofs`): `HandleForOneObject`, that a
handle made under one table leads under any other to the same object or to nothing;
`ExportsTyped` (`TypeOK`), `HandlesExact` (`HandleExact`), `HandlesResolvable`
(`AlwaysResolvable`), `AccessIsHonest` (`AccessHonest`), and `ConfigurationServed`
(`ServedAsWritten`). `IInv` says that the parser is orderly (each path once, and what is
no export's path has failed or has a dataset that cannot be served) and the table within
its limits; `HInv` adds that the client's handle is the hash and the names of its object;
`RInv` adds that the parser, after the lines read so far, is in the section and the block
those lines put it in and holds what they say (`ReadsAs`), and that a loaded table is as
written. What the parser's folds compute for a list of any length is shown without
induction on data: a list for which it were otherwise would have a least place where it
goes wrong (`HasLeast`).

Only model-checked: liveness (`EnqueueGivenUp`, `FatalEnds`, `Attended`, `StopHeeded`), which
is out of the prover's reach; `Listing`; and `RecordCount` and `BlockSpace`
(`EstimateCovers`, `FitTogether`), which are about recursive counts over a text.

## Not modelled

* Conversions on which no state depends: XDR (`xdr.c`), translation and record layout of
  the member writer (`ebcdic.c`, part of `mvspwfl.c`), the binary fields of directory
  blocks, ISPF statistics and DSCBs (part of `mvspdir.c`, `exports.c`, `mvsblkc.c`), and
  the FNV hash (`mvsfid.c`). Where they matter they are inputs: versions, geometries, the
  part of a text that is hashed.
* Logging, statistics, hex dumps (`logger.c`, `mvsprf.c`, `hexdump.c`) and the operator
  commands that set them: nothing depends on their state.
* `portmap.c`, FSSTAT, FSINFO, PATHCONF, MOUNT's EXPORT and DUMP: answers without state.
* `ressock.c` and `src-asm/`: the socket library and MVS services, modelled by the
  outcomes their callers see.
* `vfs.c` and `mockvfs.c`: stand-ins for `mvsvfs.c` off MVS and in tests.
* The verdict of `BlockSpace` inside `WritePath`, where it stays a free choice: the two
  state spaces together are out of TLC's reach, and a free choice includes every verdict.
* The status a retransmitted REMOVE or RENAME is answered with. There is no duplicate
  request cache; a second execution is a step like any other.
