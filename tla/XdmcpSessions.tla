--------------------------- MODULE XdmcpSessions ---------------------------
(***************************************************************************)
(* What XDMCP promises of the sessions of one display: each is begun at    *)
(* most once, one runs at a time, and a display that takes a session to    *)
(* run which does not find that out.                                       *)
(***************************************************************************)
EXTENDS Naturals

CONSTANT Id \* session ids, numbers from 1

VARIABLES
  stage, \* of each session, with the manager
  taken  \* the session that the display takes to run, or 0

vars == <<stage, taken>>

TypeOK == stage \in [Id -> {"new", "running", "over"}] /\ taken \in Id \cup {0}

Init == stage = [s \in Id |-> "new"] /\ taken = 0

\* A session begins and the one that ran ends, or some end.
Begin(s) ==
  /\ stage[s] = "new"
  /\ stage' = [r \in Id |-> IF r = s THEN "running"
                            ELSE IF stage[r] = "running" THEN "over" ELSE stage[r]]
  /\ UNCHANGED taken

End == \E S \in SUBSET Id : stage' = [r \in Id |-> IF r \in S THEN "over" ELSE stage[r]]
                            /\ UNCHANGED taken

\* The display takes a session up that was offered to it, and gives it up.
Take == taken = 0 /\ taken' \in Id /\ UNCHANGED stage
Drop == taken # 0 /\ taken' = 0 /\ UNCHANGED stage

\* It does not keep what does not run.
Notice == taken # 0 /\ stage[taken] # "running" /\ Drop

Next == (\E s \in Id : Begin(s)) \/ End \/ Take \/ Drop

Spec == Init /\ [][Next]_vars /\ WF_vars(Notice)
=============================================================================
