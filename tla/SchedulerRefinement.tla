------------------------ MODULE SchedulerRefinement ------------------------
(***************************************************************************)
(* Scheduler implements SchedulerAbstract.  The refinement mapping:       *)
(*   - a thread parked in OLD_THREAD between schedule_next_thread and     *)
(*     after_context_switch is waiting if it is alive and a zombie if it  *)
(*     is dead, so the push back in after_context_switch is a stutter and *)
(*     the drop of a dead TCB is the abstract Reap;                        *)
(*   - the PCB thread_count is hidden: a process is registered while its  *)
(*     PCB is in PROCESS_LIST, and the abstract Reap removes it exactly   *)
(*     when no thread of it is left.                                      *)
(***************************************************************************)
EXTENDS Scheduler

Parked(c) == IF old[c] = NONE THEN {} ELSE {old[c]}

A == INSTANCE SchedulerAbstract WITH
       running <- current,
       waiting <- [c \in CPUs |-> ready[c] \cup {t \in Parked(c) : ~IsDead(t)}],
       zombies <- [c \in CPUs |-> {t \in Parked(c) : IsDead(t)}],
       threads <- DOMAIN tcbs,
       dead    <- {t \in DOMAIN tcbs : IsDead(t)},
       procs   <- [p \in DOMAIN pcbs |-> pcbs[p].state],
       spawned <- spawned

(* The two-phase switch, the OLD_THREAD slot and the counted process      *)
(* teardown of schedule_next_thread, after_context_switch and the TCB     *)
(* destructor behave as the atomic switch and set-based reaping of the    *)
(* abstract scheduler, including its fairness.                             *)
ImplementsAbstractScheduler == A!ASpec

=============================================================================
