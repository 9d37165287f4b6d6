---------------------------- MODULE MCViewerMap ----------------------------
(* Instances of ViewerMap for TLC: points on a line of eight pixels, at     *)
(* zoom 1 in two tiles and four cells, at zoom 2 in four tiles.             *)
EXTENDS ViewerMap

CONSTANTS p1, p2, p3, p4, p5, p6

MCX == (p1 :> 0) @@ (p2 :> 1) @@ (p3 :> 2) @@ (p4 :> 5) @@ (p5 :> 7) @@ (p6 :> 6)
MCCpm == (p1 :> 9) @@ (p2 :> 1) @@ (p3 :> 1) @@ (p4 :> 2) @@ (p5 :> 1) @@ (p6 :> 1)
MCMinZoom ==
    (p1 :> 1) @@ (p2 :> 1) @@ (p3 :> 2) @@ (p4 :> 1) @@ (p5 :> 1) @@ (p6 :> 2)

\* A log of three points, one that is sorted with it, one that makes too many
\* points to be sorted with it, and one that is not worth adding.
MCLogs == {<<p5, p2, p1>>, <<p4, p3>>, <<p4, p3, p6>>, <<p6>>}

Line == 0 .. 7
MCTileOf ==
    (1 :> [x \in Line |-> x \div 4]) @@ (2 :> [x \in Line |-> x \div 2])
    @@ (21 :> [x \in Line |-> x])
MCCellOf ==
    (1 :> [x \in Line |-> x \div 2]) @@ (2 :> [x \in Line |-> x])
    @@ (21 :> [x \in Line |-> x])

All(z) == [lo |-> 0, hi |-> 7, z |-> z]
Left == [lo |-> 0, hi |-> 3, z |-> 1]
MCViews == {All(2), Left}
MCStreets == {[lo |-> 1, hi |-> 5, z |-> 21]}
=============================================================================
