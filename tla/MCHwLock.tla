------------------------------ MODULE MCHwLock ------------------------------
(* Instances of HwLock for TLC: the X server and two interchangeable       *)
(* clients over the server's context and two more.                         *)
EXTENDS HwLock, TLC

ClientSymmetry == Permutations(Proc \ {Server}) \cup Permutations(Ctx \ {ServerCtx})
=============================================================================
