---------------------------- MODULE MCResources ----------------------------
(* Instances of Resources for TLC.                                        *)
EXTENDS Resources, TLC

CONSTANTS c1, c2

Own(m, n) == c1 :> 0 .. m - 1 @@ c2 :> 0 .. n - 1

\* Entries of event lists, until a range of XIDs is used up; privates, that
\* share the XID of a window; save sets; selections; retained resources.
MCSetups == {
  [own |-> Own(2, 0), sends |-> {"destroy", "select"}, retain |-> {}, adds |-> 5],
  [own |-> Own(2, 1), sends |-> {"destroy", "dri"}, retain |-> {}, adds |-> 5],
  [own |-> Own(2, 2), sends |-> {"save"}, retain |-> {}, adds |-> 3],
  [own |-> Own(2, 1), sends |-> {"subwindows", "selection", "reparent"}, retain |-> {c1}, adds |-> 3],
  [own |-> Own(1, 1), sends |-> {"select", "dri"}, retain |-> {c1}, adds |-> 4],
  [own |-> Own(1, 1), sends |-> {"select", "destroy", "save"}, retain |-> {c1}, adds |-> 3]}
=============================================================================
