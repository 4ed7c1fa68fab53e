---------------------------- MODULE MCHarnessRun ----------------------------
(* HarnessRun on small instances.                                          *)
EXTENDS HarnessRun, TLC

Symmetry == Permutations(Proc)

=============================================================================
