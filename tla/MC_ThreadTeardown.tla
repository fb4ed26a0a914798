------------------------- MODULE MC_ThreadTeardown -------------------------
(* Two CPUs and three processes whose main threads all take the first    *)
(* user stack slot, USER_STACK_AREA_BASE, in their own address spaces.   *)
EXTENDS ThreadTeardown, TLC

CONSTANTS c1, c2, p1, p2, p3

MCCPUs == {c1, c2}
MCProcs == {p1, p2, p3}
MCPriority == (p1 :> 2) @@ (p2 :> 2) @@ (p3 :> 1)
MCUserStack == [p \in MCProcs |-> {0}]
=============================================================================
