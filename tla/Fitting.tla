-------------------------------- MODULE Fitting --------------------------------
(***************************************************************************)
(* Will so many blocks still fit in the PDS?  (mvsblkc.c)                  *)
(*                                                                         *)
(* A dataset is what its DSCB says: how many full blocks a track holds,    *)
(* the track length, the tracks allocated, the secondary quantity, the     *)
(* extents, and where its data ends (DS1LSTAR, DS1TRBAL).                  *)
(***************************************************************************)
EXTENDS Integers

CONSTANTS MaxR,        \* 255: R is one byte of a TTR
          MaxExtents   \* BLKC_MAX_EXTENTS

ASSUME FittingAssumption == MaxR \in Nat \ {0} /\ MaxExtents \in Nat

Least(a, b) == IF a <= b THEN a ELSE b

\* a - b, or 0 where that would be negative.
Beyond(a, b) == IF a > b THEN a - b ELSE 0

\* Full blocks DS1TRBAL leaves room for on the last track.
Balance(ds) ==
  LET slot == ds.trklen \div ds.bpt
  IN IF slot > 0 THEN Least(ds.trbal \div slot, ds.bpt) ELSE 0

\* Mutant: blocks already predicted onto the last track are not taken off.
RoomUncharged(ds, tt, r) ==
  IF ds.bpt = 0 THEN 0
  ELSE Least(IF tt = ds.lstar_tt THEN Balance(ds) ELSE Beyond(ds.bpt, r), Beyond(MaxR, r))

\* blkc_track_room
TrackRoom(ds, tt, r) ==
  IF ds.bpt = 0 THEN 0
  ELSE Least(IF tt = ds.lstar_tt THEN Beyond(Balance(ds), Beyond(r, ds.lstar_r))
                                 ELSE Beyond(ds.bpt, r),
             Beyond(MaxR, r))

\* Tracks the dataset could still extend by.
Extension(ds) ==
  IF ds.sec_tracks > 0 /\ ds.nextents < MaxExtents
  THEN ds.sec_tracks * (MaxExtents - ds.nextents) ELSE 0

\* blkc_blocks_available
BlocksAvailable(ds, ttr) ==
  IF ds.bpt = 0 THEN 0
  ELSE TrackRoom(ds, ttr.tt, ttr.r)
       + Beyond(ds.tracks, ttr.tt + 1) * ds.bpt
       + Extension(ds) * ds.bpt

\* blkc_ttr_add
TtrAdd(ds, ttr, nblocks) ==
  LET room == TrackRoom(ds, ttr.tt, ttr.r)
      over == nblocks - room
      trks == (over + ds.bpt - 1) \div ds.bpt
  IN IF ds.bpt = 0 \/ nblocks = 0 THEN ttr
     ELSE IF nblocks <= room THEN [tt |-> ttr.tt, r |-> ttr.r + nblocks]
     ELSE [tt |-> ttr.tt + trks, r |-> over - (trks - 1) * ds.bpt]

\* Where the data of the dataset ends.
EndOfData(ds) == [tt |-> ds.lstar_tt, r |-> ds.lstar_r]

\* blkcalc_will_member_fit, for a member that needs so many blocks.
WillMemberFit(ds, ttr, need) ==
  [fits |-> ds.valid /\ ds.bpt > 0 /\ need <= BlocksAvailable(ds, ttr),
   ttr |-> IF ds.valid /\ ds.bpt > 0 THEN TtrAdd(ds, ttr, need) ELSE ttr]
=============================================================================
