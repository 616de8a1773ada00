---------------------------- MODULE MCSyncGrabs ----------------------------
(* Instances of SyncGrabs for TLC: two clients and passive grabs of one of *)
(* them, on its own window and on the root window.                         *)
EXTENDS SyncGrabs

CONSTANTS a, b

KeyGrab    == [device |-> "keyboard", client |-> a, window |-> Root,
               sync |-> TRUE, syncOther |-> FALSE]
LowKeyGrab == [KeyGrab EXCEPT !.window = a]
ButtonGrab == [device |-> "pointer", client |-> a, window |-> a,
               sync |-> TRUE, syncOther |-> TRUE]

OneLowGrab  == {LowKeyGrab}
BothGrabs   == {KeyGrab, ButtonGrab}
=============================================================================
