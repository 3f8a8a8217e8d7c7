---------------------------- MODULE MCBlockSpace ----------------------------
(***************************************************************************)
(* BlockSpace for TLC: records of two data bytes, two records to a block,  *)
(* two blocks to a track, one fixed and one variable format.               *)
(***************************************************************************)
EXTENDS BlockSpace

MCDcbs ==
  {[recfm |-> "F", lrecl |-> 2, blksize |-> 4, valid |-> TRUE],
   [recfm |-> "V", lrecl |-> 6, blksize |-> 15, valid |-> TRUE],
   [recfm |-> "U", lrecl |-> 2, blksize |-> 4, valid |-> FALSE]}

MCWrites == {<<Zero>>, <<NL>>, <<Zero, Zero, NL>>}

Dscb(tt, r, trbal, tracks, sec, nextents) ==
  [valid |-> TRUE, bpt |-> 2, trklen |-> 20, lstar_tt |-> tt, lstar_r |-> r,
   trbal |-> trbal, tracks |-> tracks, sec_tracks |-> sec, nextents |-> nextents]

\* A full dataset, ends in the middle and at the end of a track, one with more
\* records on its last track than a track holds full blocks, a dataset at its
\* last extent, and one without usable geometry.
MCDscbs ==
  {Dscb(1, 1, 0, 2, 0, 1), Dscb(0, 1, 10, 2, 0, 1), Dscb(0, 2, 9, 2, 0, 1),
   Dscb(0, 3, 20, 3, 0, 1), Dscb(1, 4, 20, 2, 1, 3), Dscb(0, 1, 10, 1, 0, 1),
   [Dscb(0, 0, 20, 1, 0, 1) EXCEPT !.valid = FALSE]}

\* One that may extend, once, by a track.
MCExtending == {Dscb(0, 2, 0, 1, 1, 2)}
=============================================================================
