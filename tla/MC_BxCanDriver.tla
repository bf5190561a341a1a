---------------------------- MODULE MC_BxCanDriver ----------------------------
(* TLC instance of BxCanDriver: four frames, so that all three mailboxes   *)
(* fill and a fourth frame can displace one; an 8-tick clock, so that the  *)
(* clock wraps and the half-range comparison is exercised.                 *)
EXTENDS BxCanDriver, TLC

CONSTANTS f1, f2, f3, f4

MCFrames == {f1, f2, f3, f4}

FrameSymmetry == Permutations(MCFrames)
=============================================================================
