----------------------- MODULE MC_PreemptiveScheduling -----------------------
(* One CPU, three user processes: two of equal top priority, so that the  *)
(* ">=" rotation has to be driven by the timer, and one of lower priority.*)
EXTENDS PreemptiveScheduling, TLC

CONSTANTS c1, p1, p2, p3

MCCPUs == {c1}
MCProcs == {p1, p2, p3}
MCPriority == (p1 :> 2) @@ (p2 :> 2) @@ (p3 :> 1)
=============================================================================
