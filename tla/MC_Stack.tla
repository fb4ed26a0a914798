------------------------------ MODULE MC_Stack ------------------------------
(* Three stack slots of two pages each, a slot every four pages, as the  *)
(* stack areas place one max_size stack every 2 * max_size.               *)
EXTENDS Stack

CONSTANTS k1, k2, k3

MCStacks == {k1, k2, k3}
MCStartOf == [s \in MCStacks |-> CASE s = k1 -> 8 [] s = k2 -> 16 [] s = k3 -> 24]
=============================================================================
