---------------------------- MODULE MCInputQueue ----------------------------
(* Instances of InputQueue for TLC: two screens and a queue of two events, *)
(* which wraps around and fills up within a few events.                    *)
EXTENDS InputQueue
=============================================================================
