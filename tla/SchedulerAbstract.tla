------------------------- MODULE SchedulerAbstract -------------------------
(***************************************************************************)
(* What the per-CPU scheduler promises, without its mechanism.  A switch  *)
(* is one atomic step that hands the CPU to a highest-priority waiting    *)
(* thread; a thread that is switched away from either waits again or, if  *)
(* it is dead, becomes a zombie of that CPU until it is reaped.  Reaping  *)
(* removes the thread and, with its last thread, a dead process: the      *)
(* process registry is a set of threads, not a counter.                   *)
(*                                                                         *)
(* Scheduler.tla implements this specification: OLD_THREAD, the split of  *)
(* the switch into schedule_next_thread and after_context_switch, and the *)
(* PCB thread_count are what the refinement mapping in                    *)
(* SchedulerRefinement.tla hides.                                          *)
(***************************************************************************)
EXTENDS Integers

CONSTANTS CPUs, Procs, IDLE, Priority, IdlePriority

IdleThread(c) == <<IDLE, c>>
MainThread(p) == <<p, "main">>
PidOf(t) == t[1]
Prio(t) == IF PidOf(t) = IDLE THEN IdlePriority ELSE Priority[PidOf(t)]

VARIABLES
  running,   \* per CPU, the thread that has the CPU
  waiting,   \* per CPU, the live threads waiting for it
  zombies,   \* per CPU, dead threads switched away from and not yet reaped
  threads,   \* the threads in existence
  dead,      \* the threads that have exited
  procs,     \* the registered processes and whether they are dead
  spawned    \* the process ids used so far

avars == <<running, waiting, zombies, threads, dead, procs, spawned>>

AInit ==
  /\ running = [c \in CPUs |-> IdleThread(c)]
  /\ waiting = [c \in CPUs |-> {}]
  /\ zombies = [c \in CPUs |-> {}]
  /\ threads = {IdleThread(c) : c \in CPUs}
  /\ dead = {}
  /\ procs = [p \in {IDLE} |-> "Active"]
  /\ spawned = {}

Register(p) == [q \in DOMAIN procs \cup {p} |-> IF q = p THEN "Active" ELSE procs[q]]

Spawn(c, p) ==
  /\ p \in Procs \ spawned
  /\ procs' = Register(p)
  /\ threads' = threads \cup {MainThread(p)}
  /\ waiting' = [waiting EXCEPT ![c] = @ \cup {MainThread(p)}]
  /\ spawned' = spawned \cup {p}
  /\ UNCHANGED <<running, zombies, dead>>

Die(c) ==
  LET t == running[c] IN
  /\ PidOf(t) # IDLE /\ t \notin dead
  /\ dead' = dead \cup {t}
  /\ procs' = [procs EXCEPT ![PidOf(t)] = "Dead"]
  /\ UNCHANGED <<running, waiting, zombies, threads, spawned>>

Terminate(p) ==
  /\ p \in DOMAIN procs \ {IDLE}
  /\ procs' = [procs EXCEPT ![p] = "Dead"]
  /\ UNCHANGED <<running, waiting, zombies, threads, dead, spawned>>

(* The CPU goes to a highest-priority waiting thread when that thread is *)
(* at least as urgent as the running one or the running one is dead.     *)
Dispatch(c) ==
  \E t \in waiting[c] :
    LET prev == running[c] IN
    /\ \A u \in waiting[c] : Prio(u) <= Prio(t)
    /\ Prio(t) >= Prio(prev) \/ prev \in dead
    /\ running' = [running EXCEPT ![c] = t]
    /\ waiting' = [waiting EXCEPT ![c] = (@ \ {t}) \cup (IF prev \in dead THEN {} ELSE {prev})]
    /\ zombies' = [zombies EXCEPT ![c] = @ \cup (IF prev \in dead THEN {prev} ELSE {})]
    /\ UNCHANGED <<threads, dead, procs, spawned>>

(* A zombie is removed; a dead process goes with its last thread.        *)
Reap(c) ==
  \E t \in zombies[c] :
    LET p == PidOf(t) IN
    /\ zombies' = [zombies EXCEPT ![c] = @ \ {t}]
    /\ threads' = threads \ {t}
    /\ dead' = dead \ {t}
    /\ procs' = IF procs[p] = "Dead" /\ \A u \in threads' : PidOf(u) # p
                  THEN [q \in DOMAIN procs \ {p} |-> procs[q]]
                  ELSE procs
    /\ UNCHANGED <<running, waiting, spawned>>

ANext ==
  \/ \E c \in CPUs, p \in Procs : Spawn(c, p)
  \/ \E c \in CPUs : Die(c) \/ Dispatch(c) \/ Reap(c)
  \/ \E p \in Procs : Terminate(p)

(* Every CPU keeps going to the most urgent waiting thread and keeps      *)
(* reaping its zombies.                                                    *)
ASpec ==
  /\ AInit /\ [][ANext]_avars
  /\ \A c \in CPUs : WF_avars(Dispatch(c)) /\ WF_avars(Reap(c))

=============================================================================
