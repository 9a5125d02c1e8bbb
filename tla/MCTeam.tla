------------------------------ MODULE MCTeam ------------------------------
(* Small instances of Team for TLC: all projects belong to u1.  The trial  *)
(* has its real limits (one project, no participant); the paid plan allows *)
(* two projects with one participant each.                                 *)
EXTENDS Team, TLC

CONSTANTS u1

MCOwnerOf == [x \in Projects |-> u1]
MCPlans == {"trial", "max"}
MCMaxProjects == [q \in Plans |-> IF q = "trial" THEN 1 ELSE 2]
MCMaxInvited == [q \in Plans |-> IF q = "trial" THEN 0 ELSE 1]

Symmetric == Permutations(People \ {u1}) \cup Permutations(Projects) \cup Permutations(Calls)
=============================================================================
