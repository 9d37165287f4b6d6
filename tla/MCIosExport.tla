---------------------------- MODULE MCIosExport ----------------------------
(***************************************************************************)
(* Instances of IosExport for TLC.                                         *)
(***************************************************************************)
EXTENDS IosExport

CONSTANTS q1, w1, w2
=============================================================================
