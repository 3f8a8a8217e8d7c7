----------------------------- MODULE BlockSpace -----------------------------
(***************************************************************************)
(* The admission of writes to a PDS by the space they will need            *)
(* (blkcalc_admit_write and its callers in mvspww.c), for the members      *)
(* pending on one dataset.  Each keeps the text buffered for it and a      *)
(* running estimate of its blocks; every admission reads the VTOC anew.    *)
(*                                                                         *)
(* The pool, its locks and the dataset-full list are WritePath's subject:  *)
(* a member here has a slot or has none.                                   *)
(***************************************************************************)
EXTENDS RecordCount, Fitting

CONSTANTS NMembers,   \* how many members there are; a member is its slot
          Writes,     \* the data of a WRITE
          MaxLen,     \* bound: PWW_MAX_MEMBER_BYTES
          MaxFailed,  \* bound: members with a store that failed
          Dcbs,       \* record formats
          Dscbs,      \* what the VTOC may say of the dataset
          NoSlot      \* nothing is pending

ASSUME BlockSpaceAssumption == NMembers \in Nat \ {0} /\ MaxLen \in Nat

Members == 1 .. NMembers

VARIABLES dcb,      \* recfm, blksize and lrecl of the dataset, and whether its
                    \* geometry is usable (dscb.valid)
          pending,  \* g_pww_pool: text and estimate of each member
          failed    \* history: members a write to which was admitted, then not stored

vars == <<dcb, pending, failed>>

\* pww_slot_init with blkcalc_slot_reset
FreshSlot == [text |-> <<>>, est |-> NoBlocks]

Init ==
  /\ dcb \in Dcbs
  /\ pending = [m \in Members |-> NoSlot]
  /\ failed = {}

\* What blkc_vtoc_read may find; validity was settled at config time.
Vtoc == {ds \in Dscbs : ds.valid = dcb.valid}

Zeros(n) == [i \in 1 .. n |-> Zero]

\* pww_store_range: the text after data is written at offset.
Stored(text, offset, data) ==
  [i \in 1 .. Max({Len(text), offset + Len(data)}) |->
     IF i > offset /\ i <= offset + Len(data) THEN data[i - offset]
     ELSE IF i <= Len(text) THEN text[i] ELSE Zero]

\* Mutant: any append is taken to continue the estimate.
TrialByOffset(slot, offset, data) ==
  IF offset = Len(slot.text)
  THEN [AddBlocksForData(dcb, slot.est, data) EXCEPT !.upto = offset + Len(data)]
  ELSE [AddBlocksForData(dcb, NoBlocks, Stored(slot.text, offset, data))
          EXCEPT !.upto = Len(Stored(slot.text, offset, data))]

\* blkc_build_trial: a sequential append is folded into the estimate; for
\* anything else it is rebuilt from what precedes the write, with the hole
\* before it, the write, and what follows it.
BuildTrial(slot, offset, data) ==
  LET high == Len(slot.text)
      end == offset + Len(data)
      precedes == IF offset <= high THEN SubSeq(slot.text, 1, offset)
                  ELSE slot.text \o Zeros(offset - high)
      follows == SubSeq(slot.text, end + 1, high)
      add(e, bytes) == AddBlocksForData(dcb, e, bytes)
  IN IF offset = high /\ slot.est.upto = high
     THEN [add(slot.est, data) EXCEPT !.upto = end]
     ELSE [add(add(add(NoBlocks, precedes), data), follows) EXCEPT !.upto = Max({end, high})]

\* The members pending but m, in the order of the pool.
Others(m) == SelectSeq([i \in Members |-> i], LAMBDA o : o # m /\ pending[o] # NoSlot)

\* blkcalc_admit_write, the decision: m first, from the end of the data, then
\* every other pending member, each from where the one before would end.
Admits(m, trial, ds) ==
  LET first == WillMemberFit(ds, EndOfData(ds), Need(dcb, trial))
      chain == FoldLeft(LAMBDA fit, o :
                          LET next == WillMemberFit(ds, fit.ttr, Need(dcb, pending[o].est))
                          IN [fits |-> fit.fits /\ next.fits, ttr |-> next.ttr],
                        first, Others(m))
  IN ds.valid => chain.fits

\* The answers blkcalc_admit_write may give: the one of any end of data the
\* VTOC may show, and a refusal when it cannot be read.  Without usable
\* geometry everything is let through.
Verdicts(m, trial) ==
  {admitted \in BOOLEAN :
     IF dcb.valid THEN admitted => \E ds \in Vtoc : Admits(m, trial, ds) ELSE admitted}

\* The slot with the trial committed.
Estimated(slot, trial) == IF dcb.valid THEN [slot EXCEPT !.est = trial] ELSE slot

Becomes(m, slot) == pending' = [pending EXCEPT ![m] = slot]

\* The slot after a request with this trial, and what the request did to its
\* text once it was stored: the buffer or the spill file may fail to take it.
Settles(m, slot, trial, admitted, text) ==
  IF ~admitted THEN Becomes(m, slot) /\ UNCHANGED failed
  ELSE \/ Becomes(m, [trial EXCEPT !.text = text]) /\ UNCHANGED failed
       \/ /\ Cardinality(failed) < MaxFailed
          /\ Becomes(m, trial)
          /\ failed' = failed \cup {m}

\* pww_create: a member already pending loses its text whatever the answer.
Create(m) ==
  LET trial == BuildTrial(FreshSlot, 0, <<>>)
  IN /\ \E admitted \in Verdicts(m, trial) :
          Becomes(m, IF admitted THEN Estimated(FreshSlot, trial)
                     ELSE IF pending[m] = NoSlot THEN NoSlot ELSE FreshSlot)
     /\ failed' = failed \ {m}
     /\ UNCHANGED dcb

\* pww_write: without a slot only from the start, and then with a new one,
\* which stays when the write is refused.
Write(m, offset, data) ==
  LET slot == IF pending[m] = NoSlot THEN FreshSlot ELSE pending[m]
      trial == BuildTrial(slot, offset, data)
  IN /\ offset + Len(data) <= MaxLen
     /\ pending[m] # NoSlot \/ offset = 0
     /\ \E admitted \in Verdicts(m, trial) :
          Settles(m, slot, Estimated(slot, trial), admitted, Stored(slot.text, offset, data))
     /\ UNCHANGED dcb

\* pww_truncate of a pending member to a larger size.
Grow(m, size) ==
  LET slot == pending[m]
      trial == BuildTrial(slot, size, <<>>)
  IN /\ slot # NoSlot
     /\ size > Len(slot.text)
     /\ \E admitted \in Verdicts(m, trial) :
          Settles(m, slot, Estimated(slot, trial), admitted, Stored(slot.text, size, <<>>))
     /\ UNCHANGED dcb

\* pww_truncate to a smaller one, which frees space and is not checked.
Shrink(m, size) ==
  /\ pending[m] # NoSlot
  /\ size < Len(pending[m].text)
  /\ Becomes(m, [pending[m] EXCEPT !.text = SubSeq(@, 1, size)])
  /\ UNCHANGED <<dcb, failed>>

\* pww_truncate to nothing of a member that is not pending.
TruncateStowed(m) ==
  LET trial == BuildTrial(FreshSlot, 0, <<>>)
  IN /\ pending[m] = NoSlot
     /\ TRUE \in Verdicts(m, trial)
     /\ Becomes(m, Estimated(FreshSlot, trial))
     /\ UNCHANGED <<dcb, failed>>

\* pww_slot_release, after a flush or a discard.
Release(m) ==
  /\ pending[m] # NoSlot
  /\ Becomes(m, NoSlot)
  /\ failed' = failed \ {m}
  /\ UNCHANGED dcb

Next ==
  \E m \in Members :
    \/ Create(m)
    \/ TruncateStowed(m)
    \/ Release(m)
    \/ \E offset \in 0 .. MaxLen, data \in Writes : Write(m, offset, data)
    \/ \E size \in 0 .. MaxLen : Grow(m, size) \/ Shrink(m, size)

Spec == Init /\ [][Next]_vars

-----------------------------------------------------------------------------
(* What is checked *)

Bytes(n) == UNION {[1 .. k -> {NL, Zero}] : k \in 0 .. n}

\* The types of the pending members and their estimates: a block in the making
\* is never longer than the block size (blkc_emit_line).
TypeOK ==
  /\ dcb \in Dcbs /\ failed \subseteq Members
  /\ \A m \in Members : pending[m] # NoSlot =>
       /\ pending[m].text \in Bytes(MaxLen)
       /\ pending[m].est.partial \in 0 .. dcb.blksize
       /\ pending[m].est.run \in 0 .. MaxLen
       /\ pending[m].est.upto \in 0 .. MaxLen

\* The estimate of a pending member never falls short of the blocks its text
\* takes, in whatever pieces and order it was written, overwritten, cut and
\* grown, unless an admitted write was then not stored; and where it claims
\* to cover the text exactly, it is exact (blkc_build_trial).
EstimateCovers ==
  \A m \in Members \ failed : dcb.valid /\ pending[m] # NoSlot =>
    LET slot == pending[m]
        fewest == FewestBlocks(dcb, slot.text)
    IN /\ TotalBlocks(dcb, slot.est) >= fewest
       /\ slot.est.upto = Len(slot.text) => TotalBlocks(dcb, slot.est) = fewest

\* The same of every pending member: "the running estimate is already correct
\* up to the write's offset" (mvsblkc.c:547-549).
EstimateAlwaysCovers ==
  \A m \in Members : dcb.valid /\ pending[m] # NoSlot =>
    TotalBlocks(dcb, pending[m].est) >= FewestBlocks(dcb, pending[m].text)

\* The blocks all pending members need.
AllNeed ==
  FoldLeft(LAMBDA sum, m : sum + Need(dcb, pending[m].est), 0,
           SelectSeq([i \in Members |-> i], LAMBDA m : pending[m] # NoSlot))

\* On a dataset that cannot extend, the pending members are admitted exactly
\* if they fit together, whichever of them asks: predicting each from where
\* the one before would end loses and invents no block, over track ends, the
\* partly used last track and the largest record number (blkcalc_admit_write,
\* blkc_ttr_add).
FitTogether ==
  \A ds \in Vtoc : ds.valid /\ Extension(ds) = 0 =>
    LET together == AllNeed <= BlocksAvailable(ds, EndOfData(ds))
    IN \A m \in Members : pending[m] # NoSlot => Admits(m, pending[m].est, ds) = together

\* Members admitted fit together, on any dataset: "They will all be stowed
\* eventually, so they all have to fit together" (mvsblkc.c:660-661).
AdmittedFit ==
  \A m \in Members, ds \in Vtoc : pending[m] # NoSlot /\ ds.valid =>
    (Admits(m, pending[m].est, ds) => AllNeed <= BlocksAvailable(ds, EndOfData(ds)))
=============================================================================
