--------------------------- MODULE ThreadTeardown ---------------------------
(***************************************************************************)
(* The scheduler composed with the user stacks of its threads and the     *)
(* address spaces of its processes.                                        *)
(*                                                                         *)
(* exec creates a process with its own address space and a main thread    *)
(* whose user stack is created with Stack::new(..., Some(address_space)), *)
(* so its pages are mapped in that address space.  A dead thread's TCB is *)
(* dropped in after_context_switch, on the thread switched to; dropping   *)
(* the TCB drops its user stack, and Drop for Stack unmaps the stack's    *)
(* pages with resize(0, None), i.e. in the address space active on the   *)
(* CPU, which is that of the thread now running there.  A process's      *)
(* address space goes when its PCB is removed.                            *)
(***************************************************************************)
EXTENDS Scheduler

CONSTANTS
  UserStack   \* the pages of the main thread's user stack of each process

ASSUME UserStack \in [Procs -> SUBSET Nat]

VARIABLES
  userMapped  \* per process in PROCESS_LIST, the user pages its address space maps

tvars == <<vars, userMapped>>

(* The address space CR3 points to on CPU c: that of the running thread. *)
ActiveSpace(c) == PidOf(current[c])

(* Drop for Stack, resize(0, None): the stack's pages are unmapped in the *)
(* active address space (what unmap_page does to a page that is not      *)
(* mapped there is left open: nothing changes in the model).              *)
DropUserStack(c, t) ==
  LET a == ActiveSpace(c) IN
  userMapped' = [q \in DOMAIN pcbs' |->
                   IF q = a THEN userMapped[q] \ UserStack[PidOf(t)] ELSE userMapped[q]]

TInit ==
  /\ Init
  /\ userMapped = [q \in {IDLE} |-> {}]

(* exec: a new address space with the main thread's user stack mapped.   *)
TExec(c, p) ==
  /\ Exec(c, p)
  /\ userMapped' = userMapped @@ (p :> UserStack[p])

(* after_context_switch: dropping a dead TCB drops its user stack in the *)
(* active address space; the PCB's address space goes with the PCB.       *)
TAfterContextSwitch(c) ==
  /\ AfterContextSwitch(c)
  /\ IF IsDead(old[c])
       THEN DropUserStack(c, old[c])
       ELSE UNCHANGED userMapped

TNext ==
  \/ \E c \in CPUs, p \in Procs : TExec(c, p)
  \/ \E c \in CPUs : TAfterContextSwitch(c)
  \/ /\ \/ \E c \in CPUs : Exit(c) \/ Schedule(c)
        \/ \E p \in Procs : Kill(p)
     /\ UNCHANGED userMapped

TSpec == TInit /\ [][TNext]_tvars

(* stack.rs Drop: "This assumes that the stack is dropped in its own     *)
(* address space."  Tearing down a dead thread never unmaps the user      *)
(* stack of a thread that is still alive.                                 *)
LiveStacksMapped ==
  \A t \in DOMAIN tcbs :
    PidOf(t) # IDLE /\ ~IsDead(t) => UserStack[PidOf(t)] \subseteq userMapped[PidOf(t)]

=============================================================================
