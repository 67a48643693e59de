------------------------------ MODULE HidLibMC ------------------------------
(* Small instances of HidLib and of the sample program for TLC.            *)
EXTENDS HidSample, TLC

(* The strip, and a device whose capabilities cannot be read.             *)
MCKinds == {{"in", "out"}, {}}

MCSymmetry ==
  Permutations(Sets) \cup Permutations(Devs)
    \cup Permutations(Lists) \cup Permutations(Files)
=============================================================================
