---------------------------- MODULE MC_Scheduler ----------------------------
(* Two CPUs, three user processes, two of them of equal priority so that *)
(* the ">=" rotation rule matters, one of lower priority.  The run also  *)
(* checks the refinement of SchedulerAbstract.                             *)
EXTENDS SchedulerRefinement, TLC

CONSTANTS c1, c2, p1, p2, p3

MCCPUs == {c1, c2}
MCProcs == {p1, p2, p3}
MCPriority == (p1 :> 2) @@ (p2 :> 2) @@ (p3 :> 1)
=============================================================================
