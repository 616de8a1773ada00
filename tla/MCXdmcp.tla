------------------------------ MODULE MCXdmcp ------------------------------
(* Instances of Xdmcp for TLC.                                             *)
EXTENDS Xdmcp

MCScenarios == {{"copy"}, {"unwilling"}, {"hang", "fork"}, {"restart"}, {"power"}}
=============================================================================
