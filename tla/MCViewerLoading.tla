-------------------------- MODULE MCViewerLoading --------------------------
(* Instances of ViewerLoading for TLC. *)
EXTENDS ViewerLoading

CONSTANTS a, b, c, d, newest

MCPages == [q \in Queries |-> <<<<a, b, c, d>>>>]
OnePage == [q \in Queries |-> 1]
ManyPages == [q \in Queries |-> 250]
MCIdLists == {<<a, b>>}
=============================================================================
