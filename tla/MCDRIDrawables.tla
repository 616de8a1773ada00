--------------------------- MODULE MCDRIDrawables ---------------------------
(* Instances of DRIDrawables for TLC.                                      *)
EXTENDS DRIDrawables, TLC

CONSTANTS c1, c2, w1, w2

Own == c1 :> w1 @@ c2 :> w2
Shared == c1 :> w1 @@ c2 :> w1

\* A table with an entry for every window, and one with too few; clients of
\* windows of their own, and of one window.
MCSetups ==
  [size : {1, 2}, faults : {{}, {"death", "destroy"}, {"stall"}}, target : {Own}]
    \cup [size : {1}, faults : {{}, {"death", "destroy"}}, target : {Shared}]
=============================================================================
