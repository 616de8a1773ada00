---------------------------- MODULE MCServerTime ----------------------------
(* Instances of ServerTime for TLC.                                        *)
EXTENDS ServerTime
=============================================================================
