------------------------------ MODULE WriteLive ------------------------------
(***************************************************************************)
(* What becomes of the write path in the end, and what may keep it from    *)
(* getting there: an abend trapped in pdsflush_write_member_guarded, in    *)
(* pdsflush_apply_stats_guarded or in pww_slot_release leaves the C        *)
(* runtime by a longjmp, and a lock the runtime held then is never given   *)
(* back.  Whichever file operation next needs it waits forever, and only a *)
(* CANCEL ends the task (doc/dev/analysis_io_lock_hang.md).                *)
(***************************************************************************)
EXTENDS WritePath

VARIABLE io     \* external: the runtime's I/O lock

liveVars == <<vars, io>>

\* "leaked" if an abend has left the lock behind, which does not show until
\* the server is "stuck" on it.
LockStates == {"sound", "leaked", "stuck"}

LiveInit == Init /\ io = "sound"

\* An abend is trapped: the dataset is noted as out of space, or the fatal flag
\* is raised.
Abends ==
  \/ fatal' /\ ~fatal
  \/ \E ds \in Datasets : IsFull(full', ds) /\ ~IsFull(full, ds)

\* A member is stowed: there may be no directory block left for its statistics,
\* an abend that leaves no other trace.
MayAbend == \E m \in Members : fate[m] = "owed" /\ fate'[m] # "owed"

\* The lock goes with the task.
LockFollows ==
  io' \in IF phase' = "ended" THEN {"sound"}
          ELSE IF Abends THEN {"leaked"}
          ELSE {io} \cup (IF MayAbend THEN {"leaked"} ELSE {})

LoopStep == io # "stuck" /\ Loop /\ LockFollows

\* A request, or a STOP at the top of the loop.
OtherStep == io # "stuck" /\ (Request \/ Leave) /\ LockFollows

\* external: the next step of the server never comes back.
Stick ==
  /\ io = "leaked" /\ phase # "ended"
  /\ io' = "stuck"
  /\ UNCHANGED vars

\* The clock, the editors, and the end and the start of the task do not wait
\* for the server.
TickStep == Tick /\ LockFollows

OutsideStep ==
  /\ \/ \E m \in Members : EditorOpen(m) \/ EditorSave(m) \/ EditorClose(m)
     \/ Crash \/ Restart
  /\ LockFollows

LiveNext == LoopStep \/ OtherStep \/ Stick \/ TickStep \/ OutsideStep

\* The loop never blocks for more than select's one-second timeout, and a
\* sweep, a drain and the set of ready connections are all finite, so long as
\* the runtime's lock is not in the way.  The clock does not stop.
Fairness == WF_liveVars(LoopStep) /\ WF_liveVars(TickStep)

LiveSpec == LiveInit /\ [][LiveNext]_liveVars /\ Fairness

-----------------------------------------------------------------------------
(* Properties *)

\* An enqueue this task holds is given up in the end unless its member keeps
\* being written, by the idle sweep, by an eviction, or with the task; or else
\* the server hangs after an abend, and holds it until it is cancelled.
EnqueueGivenUp ==
  \A m \in Members :
    []<>(\/ enq[m] # "nfsd" \/ io = "stuck"
         \/ \E i \in Slots : Pends(i, m) /\ pool[i].idle = 0)

\* After a fatal abend the server shuts down, or hangs on the runtime's lock.
FatalEnds == fatal ~> (phase = "ended" \/ io = "stuck")

\* The server shuts down after every fatal abend.
FatalAlwaysEnds == fatal ~> phase = "ended"
=============================================================================
