---------------------------- MODULE MCSmartSched ----------------------------
(* Instances of SmartSched for TLC.  A configuration file has no negative  *)
(* numbers: the lowest priority gets its value here.                       *)
EXTENDS SmartSched

MCMinPriority == -1
=============================================================================
