------------------------------ MODULE Ordering ------------------------------
(***************************************************************************)
(* Sequences made of the elements of a set, and of some of the elements of *)
(* a sequence: what the viewer computes with Array.prototype.sort, and     *)
(* with loops that copy what they select to the front.                     *)
(***************************************************************************)
EXTENDS Integers, Sequences, FiniteSets

\* The elements of S in the order before, a set of pairs: n - 1 of the others
\* come before the nth.
InOrder(S, before) ==
    [n \in 1 .. Cardinality(S) |->
        CHOOSE c \in S :
            Cardinality({d \in S : <<d, c>> \in before}) = n - 1]

\* The elements of s at the positions in I, in their order in s.
Pick(s, I) ==
    LET at == InOrder(I, {p \in I \X I : p[1] < p[2]})
    IN  [n \in 1 .. Cardinality(I) |-> s[at[n]]]
=============================================================================
