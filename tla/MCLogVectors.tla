---------------------------- MODULE MCLogVectors ----------------------------
(* An instance of LogVectors for TLC: a world of 64 pixels at zoom 4, where *)
(* 0 and 5 share a cell up to zoom 3, and 0, 5 and 9 up to zoom 2.          *)
EXTENDS LogVectors, TLC

At(x, cpm, cp5s) == [cols |-> 15, x |-> x, cpm |-> cpm, cp5s |-> cp5s]

\* Counts that hide nothing (3), that hide others and are hidden (60, 5000),
\* that wrap around (350100), that cannot be read, and that are corrected.
Low == At(0, 3, NaN)
Mid == At(0, 60, NaN)
Near == At(5, 5000, NaN)
Aside == At(9, 50, 1)
Huge == At(40, 350100, NaN)
Unreadable == At(0, NaN, NaN)
Dead == At(40, 7, 100000)
Beyond == At(OffMap, 200, 20)
Empty == [cols |-> 1, x |-> NoPosition, cpm |-> NaN, cp5s |-> NaN]

MCLines == {Low, Mid, Near, Aside, Huge, Unreadable, Dead, Beyond, Empty}

\* The first log, a second one that is added to it directly, a third one that
\* is compared with both, and a fourth one.
MCFiles ==
    <<{<<Mid, Huge, Empty>>, <<Aside, Near, Low>>, <<Unreadable, Aside, Empty>>},
      {<<Low, Aside, Huge>>, <<Near, Beyond, Empty>>},
      [1 .. 3 -> MCLines],
      {<<Low, Huge, Dead>>, <<Aside, Mid, Empty>>}>>

\* fast / (1 - fast * 0.0000018833), for fast = 12 c
MCDeadTime == 1 :> 12 @@ 20 :> 240 @@ 100000 :> -952396
=============================================================================
