----------------------------- MODULE Scheduler -----------------------------
(***************************************************************************)
(* The per-CPU preemptive scheduler of the kernel together with the        *)
(* process registry it reclaims into.                                      *)
(*                                                                         *)
(*   kernel/src/multitasking/scheduler.rs  READY_LIST, CURRENT_THREAD,     *)
(*       OLD_THREAD, schedule_next_thread, after_context_switch            *)
(*   kernel/src/multitasking/pcb.rs        PCB, kill, is_droppable, Drop   *)
(*                                                                         *)
(* schedule_next_thread runs inside the schedule interrupt with interrupts *)
(* and preemption disabled, so everything it does on one CPU up to the     *)
(* switch_context call is one step (Schedule).  The code after the switch *)
(* (after_context_switch) runs later, on the stack of the thread switched *)
(* to, and is a step of its own; other CPUs may act in between.  Threads  *)
(* are bound to one CPU: every READY_LIST, CURRENT_THREAD and OLD_THREAD  *)
(* is per CPU, the PROCESS_LIST is shared.                                 *)
(*                                                                         *)
(* The thread control block (tcb.rs), the exec/exit system calls and the  *)
(* TCB destructor are not part of the sources; their parts here follow    *)
(* the spec (sections 3, 4.6 and 6) and are marked so in PROJECT.json.    *)
(***************************************************************************)
EXTENDS Integers, FiniteSets, TLC

CONSTANTS
  CPUs,          \* the CPUs, each with its own READY_LIST/CURRENT/OLD slots
  Procs,         \* ids of the user processes exec can create
  IDLE,          \* the process id of the single idle PCB
  CpuNum,        \* get_cpu_num(): the idle PCB's initial thread_count
  Priority,      \* priority of the main thread of each user process
  IdlePriority,  \* priority of the idle threads (the lowest)
  NONE           \* the empty OLD_THREAD slot

ASSUME IDLE \notin Procs
ASSUME Priority \in [Procs -> Nat] /\ IdlePriority \in Nat
ASSUME \A p \in Procs : Priority[p] > IdlePriority
ASSUME CpuNum \in Nat

(* A thread is named by its process and an index: the idle thread of CPU  *)
(* c is <<IDLE, c>>, the thread exec creates for p is <<p, "main">>.       *)
IdleThread(c) == <<IDLE, c>>
MainThread(p) == <<p, "main">>
Threads == {IdleThread(c) : c \in CPUs} \cup {MainThread(p) : p \in Procs}
PidOf(t) == t[1]

TcbStates == {"Ready", "Running", "Dead"}
PcbStates == {"Active", "Dead"}

VARIABLES
  ready,     \* READY_LIST: per CPU, the TCBs in the priority heap
  current,   \* CURRENT_THREAD: per CPU
  old,       \* OLD_THREAD: per CPU, NONE outside a context switch
  tcbs,      \* the TCBs in existence and their state (domain = live TCBs)
  pcbs,      \* PROCESS_LIST: pid -> [thread_count, state]
  spawned    \* the pids exec has used (process ids are never reused)

vars == <<ready, current, old, tcbs, pcbs, spawned>>

-----------------------------------------------------------------------------
(* Priority of a TCB and the TCB ordering used by the heap and by the    *)
(* comparison in schedule_next_thread.                                    *)
ThreadPriority(t) ==
  IF PidOf(t) = IDLE THEN IdlePriority ELSE Priority[PidOf(t)]

TcbGeq(a, b) == ThreadPriority(a) >= ThreadPriority(b)

(* READY_LIST.peek(): a greatest element of the binary heap.  Among equal *)
(* elements the heap does not fix which one is on top.                    *)
Peek(c) == {t \in ready[c] : \A u \in ready[c] : TcbGeq(t, u)}

IsDead(t) == tcbs[t] = "Dead"

(* Bug variant: a new process whose creating thread is not counted.      *)
NewPCBZeroThreads == [thread_count |-> 0, state |-> "Active"]

(* PCB::new: a fresh process has one thread and is active.               *)
NewPCB == [thread_count |-> 1, state |-> "Active"]

(* PCB::idle_pcb: one thread per CPU as reported by get_cpu_num().       *)
IdlePCB == [thread_count |-> CpuNum, state |-> "Active"]

(* PCB::is_droppable                                                       *)
IsDroppable(pcb) == pcb.thread_count = 0

-----------------------------------------------------------------------------
Init ==
  /\ ready   = [c \in CPUs |-> {}]
  /\ current = [c \in CPUs |-> IdleThread(c)]
  /\ old     = [c \in CPUs |-> NONE]
  /\ tcbs    = [t \in {IdleThread(c) : c \in CPUs} |-> "Running"]
  /\ pcbs    = IDLE :> IdlePCB
  /\ spawned = {}

(* exec: the thread running on c creates process p with one thread, which *)
(* is pushed onto the READY_LIST of c.                                    *)
Exec(c, p) ==
  /\ old[c] = NONE
  /\ p \notin spawned
  /\ pcbs'    = pcbs @@ (p :> NewPCB)
  /\ tcbs'    = tcbs @@ (MainThread(p) :> "Ready")
  /\ ready'   = [ready EXCEPT ![c] = @ \cup {MainThread(p)}]
  /\ spawned' = spawned \cup {p}
  /\ UNCHANGED <<current, old>>

(* exit: the user thread running on c marks its process and itself dead  *)
(* and requests a schedule; it never returns to user space.               *)
Exit(c) ==
  LET t == current[c] IN
  /\ old[c] = NONE
  /\ PidOf(t) # IDLE
  /\ ~IsDead(t)
  /\ tcbs' = [tcbs EXCEPT ![t] = "Dead"]
  /\ pcbs' = [pcbs EXCEPT ![PidOf(t)].state = "Dead"]
  /\ UNCHANGED <<ready, current, old, spawned>>

(* PCB::kill, on any CPU, of any live user process.                      *)
Kill(p) ==
  /\ p \in DOMAIN pcbs \ {IDLE}
  /\ pcbs' = [pcbs EXCEPT ![p].state = "Dead"]
  /\ UNCHANGED <<ready, current, old, tcbs, spawned>>

(* Bug variant: strict ">" instead of ">=" in the comparison.            *)
ScheduleNeededStrict(c, top) ==
  \/ ThreadPriority(top) > ThreadPriority(current[c])
  \/ IsDead(current[c])

(* The condition computed in schedule_next_thread.                       *)
ScheduleNeeded(c, top) ==
  \/ TcbGeq(top, current[c])
  \/ IsDead(current[c])

(* schedule_next_thread up to and including switch_context: pop the top  *)
(* of READY_LIST into OLD_THREAD, swap it with CURRENT_THREAD, mark the  *)
(* previous thread Ready unless it is dead, mark the new one Running.    *)
(* The pop unwraps: with an empty heap and a dead current thread the     *)
(* kernel panics, which NoSchedulerPanic rules out.  When no switch is   *)
(* needed the lock is dropped and nothing changes.                       *)
(* Bug variant: the previous thread is marked Ready even when dead.       *)
SwitchToRevivesDead(c, top) ==
  LET prev == current[c] IN
  /\ ScheduleNeeded(c, top)
  /\ ready'   = [ready EXCEPT ![c] = @ \ {top}]
  /\ current' = [current EXCEPT ![c] = top]
  /\ old'     = [old EXCEPT ![c] = prev]
  /\ tcbs'    = [tcbs EXCEPT ![prev] = "Ready", ![top] = "Running"]
  /\ UNCHANGED <<pcbs, spawned>>

SwitchTo(c, top) ==
  LET prev == current[c] IN
  /\ ScheduleNeeded(c, top)
  /\ ready'   = [ready EXCEPT ![c] = @ \ {top}]
  /\ current' = [current EXCEPT ![c] = top]
  /\ old'     = [old EXCEPT ![c] = prev]
  /\ tcbs'    = [tcbs EXCEPT ![prev] = IF IsDead(prev) THEN @ ELSE "Ready",
                             ![top]  = "Running"]
  /\ UNCHANGED <<pcbs, spawned>>

NoSwitch(c) ==
  /\ ~IsDead(current[c])
  /\ \A top \in Peek(c) : ~ScheduleNeeded(c, top)
  /\ UNCHANGED vars

Schedule(c) ==
  /\ old[c] = NONE
  /\ \/ \E top \in Peek(c) : SwitchTo(c, top)
     \/ NoSwitch(c)

(* Dropping a dead TCB: its process loses a thread; a dead process whose *)
(* last thread is gone is removed from PROCESS_LIST (PCB::drop asserts   *)
(* is_droppable).                                                         *)
(* Bug variants: the thread count is not decremented; the PCB is tested  *)
(* for droppability before the decrement instead of after it.            *)
DropTcbNoDecrement(t) ==
  LET p == PidOf(t) IN
  /\ tcbs' = [u \in DOMAIN tcbs \ {t} |-> tcbs[u]]
  /\ pcbs' = IF pcbs[p].state = "Dead" /\ IsDroppable(pcbs[p])
             THEN [q \in DOMAIN pcbs \ {p} |-> pcbs[q]]
             ELSE pcbs

DropTcbCheckFirst(t) ==
  LET p    == PidOf(t)
      left == [pcbs[p] EXCEPT !.thread_count = @ - 1]
  IN /\ tcbs' = [u \in DOMAIN tcbs \ {t} |-> tcbs[u]]
     /\ pcbs' = IF pcbs[p].state = "Dead" /\ IsDroppable(pcbs[p])
                THEN [q \in DOMAIN pcbs \ {p} |-> pcbs[q]]
                ELSE [pcbs EXCEPT ![p] = left]

DropTcb(t) ==
  LET p    == PidOf(t)
      left == [pcbs[p] EXCEPT !.thread_count = @ - 1]
  IN /\ tcbs' = [u \in DOMAIN tcbs \ {t} |-> tcbs[u]]
     /\ pcbs' = IF left.state = "Dead" /\ IsDroppable(left)
                THEN [q \in DOMAIN pcbs \ {p} |-> pcbs[q]]
                ELSE [pcbs EXCEPT ![p] = left]

(* after_context_switch, on the stack of the thread switched to: a dead  *)
(* OLD_THREAD is dropped, any other is pushed back onto READY_LIST.      *)
(* Bug variants: OLD_THREAD is pushed but not taken out of its slot; the *)
(* old thread is taken and dropped whether or not it is dead.            *)
AfterContextSwitchKeepsOld(c) ==
  LET t == old[c] IN
  /\ t # NONE
  /\ IF IsDead(t)
       THEN DropTcb(t) /\ UNCHANGED ready
       ELSE ready' = [ready EXCEPT ![c] = @ \cup {t}] /\ UNCHANGED <<tcbs, pcbs>>
  /\ UNCHANGED <<current, old, spawned>>

AfterContextSwitchDropsAll(c) ==
  LET t == old[c] IN
  /\ t # NONE
  /\ old' = [old EXCEPT ![c] = NONE]
  /\ IF IsDead(t)
       THEN DropTcb(t) /\ UNCHANGED ready
       ELSE UNCHANGED <<ready, tcbs, pcbs>>
  /\ UNCHANGED <<current, spawned>>

AfterContextSwitch(c) ==
  LET t == old[c] IN
  /\ t # NONE
  /\ old' = [old EXCEPT ![c] = NONE]
  /\ IF IsDead(t)
       THEN DropTcb(t) /\ UNCHANGED ready
       ELSE ready' = [ready EXCEPT ![c] = @ \cup {t}] /\ UNCHANGED <<tcbs, pcbs>>
  /\ UNCHANGED <<current, spawned>>

Next ==
  \/ \E c \in CPUs, p \in Procs : Exec(c, p)
  \/ \E c \in CPUs : Exit(c)
  \/ \E p \in Procs : Kill(p)
  \/ \E c \in CPUs : Schedule(c)
  \/ \E c \in CPUs : AfterContextSwitch(c)

(* The LAPIC timer raises a schedule interrupt periodically on every CPU, *)
(* so a switch that stays needed is eventually taken; after_context_switch *)
(* runs right after every switch.                                          *)
Fairness ==
  /\ \A c \in CPUs : WF_vars(Schedule(c))
  /\ \A c \in CPUs : WF_vars(AfterContextSwitch(c))

Spec == Init /\ [][Next]_vars /\ Fairness

-----------------------------------------------------------------------------
TypeOK ==
  /\ ready \in [CPUs -> SUBSET Threads]
  /\ current \in [CPUs -> Threads]
  /\ old \in [CPUs -> Threads \cup {NONE}]
  /\ DOMAIN tcbs \subseteq Threads /\ \A t \in DOMAIN tcbs : tcbs[t] \in TcbStates
  /\ DOMAIN pcbs \subseteq Procs \cup {IDLE}
  /\ \A p \in DOMAIN pcbs : pcbs[p].thread_count \in Nat /\ pcbs[p].state \in PcbStates
  /\ spawned \subseteq Procs

(* The slots of the per-CPU structures that hold thread t.               *)
SlotsOf(t) ==
  {<<"ready", c>> : c \in {c \in CPUs : t \in ready[c]}}
    \cup {<<"current", c>> : c \in {c \in CPUs : current[c] = t}}
    \cup {<<"old", c>> : c \in {c \in CPUs : old[c] = t}}

(* Ownership of TCBs across the swap in schedule_next_thread and the push *)
(* in after_context_switch: every live TCB sits in exactly one slot of    *)
(* one CPU, every slot holds a live TCB, a TCB in a READY_LIST is Ready   *)
(* and a CURRENT_THREAD is Running or Dead.                               *)
TcbPlacement ==
  /\ \A t \in DOMAIN tcbs : Cardinality(SlotsOf(t)) = 1
  /\ \A c \in CPUs :
       /\ ready[c] \subseteq DOMAIN tcbs
       /\ current[c] \in DOMAIN tcbs
       /\ old[c] # NONE => old[c] \in DOMAIN tcbs
       /\ \A t \in ready[c] : tcbs[t] = "Ready"
       /\ tcbs[current[c]] \in {"Running", "Dead"}

(* schedule_next_thread never reaches ready_list.pop().unwrap() on an    *)
(* empty heap: whenever the current thread is dead (so a switch is        *)
(* forced) there is another thread to switch to, the idle thread at least.*)
NoSchedulerPanic ==
  \A c \in CPUs : old[c] = NONE /\ IsDead(current[c]) => ready[c] # {}

(* The thread_count of every user PCB equals the number of its live      *)
(* TCBs, and every live TCB has its PCB in PROCESS_LIST, so dropping a    *)
(* TCB or get_current_process never finds the process missing and a PCB  *)
(* is removed exactly when its last thread is dropped.                    *)
ThreadCountMatches ==
  /\ \A t \in DOMAIN tcbs : PidOf(t) \in DOMAIN pcbs
  /\ \A p \in DOMAIN pcbs \ {IDLE} :
       pcbs[p].thread_count = Cardinality({t \in DOMAIN tcbs : PidOf(t) = p})

(* A dead thread is never revived: schedule_next_thread marks the         *)
(* previous thread Ready only if it is not dead, and after_context_switch *)
(* drops rather than re-queues it.                                        *)
DeadStaysDead ==
  [][\A t \in DOMAIN tcbs : IsDead(t) => t \notin DOMAIN tcbs' \/ tcbs'[t] = "Dead"]_vars

(* A process whose thread has exited is eventually removed from          *)
(* PROCESS_LIST: the dead thread is switched away from and dropped in     *)
(* after_context_switch, which drops the PCB with it.                     *)
ExitedProcessReclaimed ==
  \A p \in Procs :
    (MainThread(p) \in DOMAIN tcbs /\ tcbs[MainThread(p)] = "Dead") ~> p \notin DOMAIN pcbs

(* t has at least the priority of every thread on CPU c.                  *)
IsTop(c, t) == \A u \in ready[c] \cup {current[c]} : TcbGeq(t, u)

(* The ">=" rule of schedule_next_thread: a ready thread of the highest  *)
(* priority on its CPU does not wait forever, so equal-priority threads   *)
(* rotate at every schedule interrupt.                                    *)
TopPriorityNotStarved ==
  \A c \in CPUs, t \in Threads : []<>~(t \in ready[c] /\ IsTop(c, t))

(* pcb.rs, PCB::kill: "This will cause the scheduler to not schedule any *)
(* threads of this process anymore": a switch never dispatches a thread  *)
(* whose process is dead.                                                 *)
KilledProcessNotDispatched ==
  [][\A c \in CPUs :
       current'[c] # current[c] =>
         ~(PidOf(current'[c]) \in DOMAIN pcbs' /\ pcbs'[PidOf(current'[c])].state = "Dead")]_vars

=============================================================================
