---------------------------- MODULE MCLogLoading ----------------------------
(***************************************************************************)
(* Instances of LogLoading for TLC: two files that share a line, and one   *)
(* file that psql refuses.                                                 *)
(***************************************************************************)
EXTENDS LogLoading

CONSTANTS i1, i2, i3

MCFile == [i \in Imports |->
    CASE i = i1 -> {1, 2}
      [] i = i2 -> {2, 3}
      [] OTHER -> {3}]
=============================================================================
