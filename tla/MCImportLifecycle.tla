------------------------- MODULE MCImportLifecycle -------------------------
(***************************************************************************)
(* Instances of ImportLifecycle for TLC.                                   *)
(***************************************************************************)
EXTENDS ImportLifecycle, TLC

CONSTANTS i1, i2, w1, w2, q1, q2, q3, q4, q5

\* Requests differ only in name as long as none is named by a property.
RequestSymmetry == Permutations(Requests)
=============================================================================
