----------------------------- MODULE Durability -----------------------------
(***************************************************************************)
(* The write path as a client of NFS version 3 relies on it, across ends   *)
(* and restarts of the server.  A client that writes UNSTABLE keeps its    *)
(* copy, with the verifier each WRITE was answered with, until a COMMIT    *)
(* succeeds and bears that very verifier; then it counts on the server.    *)
(* A client told of an error counts on nothing.                            *)
(***************************************************************************)
EXTENDS WritePath

CONSTANT MaxStarts

VARIABLES verf,     \* g_write_verifier
          started,  \* when, in seconds, and how often the server was started
          kept      \* each member, as the client sees it

dvars == <<vars, verf, started, kept>>

Nothing == [st |-> "none", want |-> <<>>, verfs |-> {}]

\* Mutant: the verifier is the time of the start.
VerifierOfTime(s) == <<s.time>>

\* set_write_verifier: the second of the start and the job's id, which is
\* another one at each start; that the system tells the id is assumed.
Verifier(s) == <<s.time, s.job>>

DInit ==
  /\ Init
  /\ started = [time |-> 0, job |-> 1]
  /\ verf = Verifier(started)
  /\ kept = [m \in Members |-> Nothing]

\* The slot a request for m leaves dirty, if the request was accepted.
Taken(m) ==
  {i \in Slots : pool'[i].status = "USED" /\ pool'[i].member = m /\ pool'[i].dirty
                 /\ fate'[m] = "owed"}

\* The client after a request that gives member m content.
Replied(m) ==
  /\ kept' = [kept EXCEPT ![m] =
       IF Taken(m) = {} THEN Nothing
       ELSE [st |-> "unstable",
             want |-> pool'[CHOOSE i \in Taken(m) : TRUE].content,
             verfs |-> {verf} \cup IF @.st = "unstable" THEN @.verfs ELSE {}]]
  /\ UNCHANGED <<verf, started>>

DWrite(m, off, dat) == Write(m, off, dat) /\ Replied(m)
DCreate(m) == Create(m) /\ Replied(m)
DTruncate(m, n) == Truncate(m, n) /\ Replied(m)

\* The client after a successful COMMIT: with another verifier than the WRITEs
\* had it has to send them again.
Committed(k) ==
  IF k.st = "unstable" /\ k.verfs = {verf} THEN [k EXCEPT !.st = "safe"]
  ELSE IF k.st = "unstable" THEN Nothing ELSE k

DCommit(m) ==
  /\ Commit(m)
  /\ kept' = [kept EXCEPT ![m] = IF fate'[m] = "stowed" THEN Committed(@) ELSE Nothing]
  /\ UNCHANGED <<verf, started>>

\* pww_flush_member succeeds where there is nothing to flush.
CommitNothing(m) ==
  /\ Serving /\ \A i \in Found(m) : ~pool[i].dirty
  /\ kept[m].st = "unstable"
  /\ kept' = [kept EXCEPT ![m] = Committed(@)]
  /\ UNCHANGED <<poolVars, verf, started>>

\* Requests that take a member away, a READ that fails, and a save by someone
\* else: the client no longer counts on what it wrote.
Forget(M) ==
  /\ kept' = [m \in Members |-> IF m \in M THEN Nothing ELSE kept[m]]
  /\ UNCHANGED <<verf, started>>

DRemove(m) == Remove(m) /\ Forget({m})
DRename(a, b) == Rename(a, b) /\ Forget({a, b})
DReadFails(m) == ReadLosesScratch(m) /\ Forget({m})
DSave(m) == EditorSave(m) /\ Forget({m})

\* The server is started again, in the same second or a later one.
DRestart ==
  /\ started.job < MaxStarts
  /\ Restart
  /\ \E d \in {0, 1} : started' = [time |-> started.time + d, job |-> started.job + 1]
  /\ verf' = Verifier(started')
  /\ UNCHANGED kept

\* READDIR is left out: all it changes is the cached listing, which neither
\* the content of a member nor a reply to the client goes by.
Aside ==
  /\ \/ Loop \/ Leave \/ Tick \/ Crash
     \/ \E m \in Members : SetTimes(m) \/ EditorOpen(m) \/ EditorClose(m)
  /\ UNCHANGED <<verf, started, kept>>

DNext ==
  \/ \E m \in Members :
       \/ \E off \in 0 .. MaxLen : \E dat \in Payloads : DWrite(m, off, dat)
       \/ \E n \in 0 .. MaxLen : DTruncate(m, n)
       \/ DCreate(m) \/ DCommit(m) \/ CommitNothing(m) \/ DRemove(m)
       \/ DReadFails(m) \/ DSave(m)
       \/ \E b \in Members : DRename(m, b)
  \/ DRestart
  \/ Aside

DSpec == DInit /\ [][DNext]_dvars

-----------------------------------------------------------------------------
\* What a client was told is committed is in the PDS, and stays there through
\* crashes, restarts, sweeps and evictions, until a request or a save replaces
\* it.
CommittedStays ==
  \A m \in Members : kept[m].st = "safe" => disk[m] = kept[m].want
=============================================================================
