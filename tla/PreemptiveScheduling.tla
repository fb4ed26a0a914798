------------------------- MODULE PreemptiveScheduling -------------------------
(***************************************************************************)
(* The scheduler of one CPU driven by that CPU's interrupts: Scheduler    *)
(* composed with Interrupts.                                               *)
(*                                                                         *)
(* Interrupts.tla abstracts schedule_next_thread to "keep the thread or   *)
(* switch to one switched out earlier".  Here the schedule vector runs    *)
(* the real decision over READY_LIST and CURRENT_THREAD, the thread the   *)
(* CPU runs is CURRENT_THREAD, and the code after switch_context runs on  *)
(* the thread switched to:                                                *)
(*   "schedule"  schedule_next_thread up to switch_context, with          *)
(*               preemption (IF) disabled from line 32 on;                *)
(*   "after"     where a switched-out thread resumes: after_context_switch *)
(*               (line 72) and restore_preemption_state (line 78);         *)
(*   "disable"   the rest of schedule_interrupt (interrupts/mod.rs 98-100).*)
(* A thread exec creates has never run; spec 4.6 step 7 has every thread  *)
(* the CPU switches to run after_context_switch on resume, so its first   *)
(* dispatch is taken to resume at "after" like any other.                  *)
(***************************************************************************)
EXTENDS Scheduler, Sequences

CONSTANTS Cpu   \* the one CPU modelled

ASSUME CPUs = {Cpu}

VARIABLES enabled, tpr, irr, isr, frames,
          running,   \* the thread whose stack the CPU is on: CURRENT_THREAD
          idlePc     \* where idle() is: "entry", "schedule" or "halt"

ivars == <<enabled, tpr, irr, isr, frames, running, idlePc>>
cvars == <<vars, ivars>>

I == INSTANCE Interrupts WITH
       Threads <- Threads, FirstThread <- IdleThread(Cpu)

Cur == frames[running]

(* The frame of a thread switched out inside schedule_next_thread: it was *)
(* entered by the schedule vector's trap gate from thread level (IF set)  *)
(* and resumes after switch_context.                                      *)
SwitchedOut == [vec |-> I!SCHEDULE_INTERRUPT_NUM, pc |-> "after", old |-> 0, ifl |-> TRUE]

(* enter_first_thread returns into idle() on the idle thread's stack;     *)
(* idle() enables preemption itself, so it starts disabled.               *)
CInit ==
  /\ Init
  /\ enabled = FALSE /\ idlePc = "entry" /\ tpr = 0 /\ irr = {} /\ isr = {}
  /\ running = IdleThread(Cpu)
  /\ frames = [t \in Threads |-> IF t = IdleThread(Cpu) THEN <<>> ELSE <<SwitchedOut>>]

(* Steps of the running thread at thread level.  exec creates a process; *)
(* exit marks the thread and its process dead and calls schedule(); a    *)
(* dead thread does nothing else.  schedule() is a self-IPI.              *)
AtThreadLevel == Cur = <<>> /\ ~IsDead(running)

CExec(p) == AtThreadLevel /\ Exec(Cpu, p) /\ UNCHANGED ivars

CExit ==
  /\ AtThreadLevel
  /\ Exit(Cpu)
  /\ irr' = irr \cup {I!SCHEDULE_INTERRUPT_NUM}
  /\ UNCHANGED <<enabled, tpr, isr, frames, running, idlePc>>

CRequest == AtThreadLevel /\ I!Schedule /\ UNCHANGED <<vars, idlePc>>

(* PCB::kill, from another CPU, at any time.                              *)
CKill(p) == Kill(p) /\ UNCHANGED ivars

(* The hardware and the handlers: none of these touches the scheduler.   *)
(* IRQ1 is left to Interrupts.tla: it outranks the timer (0x21 > 0x20),  *)
(* so an endless run of key presses would keep the timer pending, which  *)
(* no keyboard can do.                                                    *)
CInterrupt ==
  /\ \/ I!TimerTick \/ I!Deliver
     \/ I!EnvelopeEnter \/ I!EnvelopeBody \/ I!EnvelopeExit
     \/ I!SchedulePrio \/ I!ScheduleEoi \/ I!ScheduleExit
  /\ UNCHANGED <<vars, idlePc>>

(* schedule_interrupt line 97, schedule_next_thread: preemption is        *)
(* disabled and the decision is taken under the READY_LIST lock, which   *)
(* is dropped again within the step (line 53 before switch_context, line *)
(* 75 without a switch).  The previous thread is suspended at "after"    *)
(* and the CPU continues in the thread switched to, with preemption      *)
(* still disabled; without a switch the saved state is restored and the  *)
(* handler goes on.                                                        *)
CScheduleSwitch ==
  LET prev == current[Cpu] IN
  /\ Cur # <<>> /\ I!Top(Cur).pc = "schedule"
  /\ old[Cpu] = NONE
  /\ \E top \in Peek(Cpu) : SwitchTo(Cpu, top)
  /\ frames' = [frames EXCEPT ![prev] = I!SetTop(@, [I!Top(@) EXCEPT !.pc = "after"])]
  /\ running' = current'[Cpu]
  /\ enabled' = FALSE
  /\ UNCHANGED <<tpr, irr, isr, idlePc>>

CScheduleKeep ==
  /\ Cur # <<>> /\ I!Top(Cur).pc = "schedule"
  /\ NoSwitch(Cpu)
  /\ frames' = [frames EXCEPT ![running] = I!SetTop(@, [I!Top(@) EXCEPT !.pc = "disable"])]
  /\ UNCHANGED <<enabled, tpr, irr, isr, running, idlePc>>

(* scheduler.rs 72-78 on the thread switched to: after_context_switch    *)
(* (which pushes a live OLD_THREAD back under the READY_LIST lock, line  *)
(* 91), then                                                               *)
(* restore_preemption_state to what this thread saved at line 32.         *)
CAfterContextSwitch ==
  /\ Cur # <<>> /\ I!Top(Cur).pc = "after"
  /\ IF old[Cpu] # NONE THEN AfterContextSwitch(Cpu) ELSE UNCHANGED vars
  /\ frames' = [frames EXCEPT ![running] = I!SetTop(@, [I!Top(@) EXCEPT !.pc = "disable"])]
  /\ enabled' = I!Top(Cur).ifl
  /\ UNCHANGED <<tpr, irr, isr, running, idlePc>>

(* idle() on the idle thread (scheduler.rs 105-117): enable_preemption,  *)
(* schedule(), then halt until an interrupt, for ever.                    *)
(* Bug variant: the call to enable_preemption is missing.                 *)
IdleEnableMissing ==
  /\ running = IdleThread(Cpu) /\ Cur = <<>> /\ idlePc = "entry"
  /\ idlePc' = "schedule"
  /\ UNCHANGED <<vars, enabled, tpr, irr, isr, frames, running>>

IdleEnable ==
  /\ running = IdleThread(Cpu) /\ Cur = <<>> /\ idlePc = "entry"
  /\ enabled' = TRUE
  /\ idlePc' = "schedule"
  /\ UNCHANGED <<vars, tpr, irr, isr, frames, running>>

IdleSchedule ==
  /\ running = IdleThread(Cpu) /\ idlePc = "schedule"
  /\ I!Schedule
  /\ idlePc' = "halt"
  /\ UNCHANGED <<vars>>

CNext ==
  \/ IdleEnable \/ IdleSchedule
  \/ \E p \in Procs : CExec(p) \/ CKill(p)
  \/ CExit \/ CRequest \/ CInterrupt
  \/ CScheduleSwitch \/ CScheduleKeep \/ CAfterContextSwitch

(* The LAPIC timer is periodic (set_periodic_timer(150)), the APIC        *)
(* delivers what is not masked and a handler, once entered, runs on.      *)
(* Nothing is assumed of the scheduler beyond the interrupts that drive  *)
(* it.  The idle thread runs idle() straight through once it is entered.  *)
CFairness ==
  /\ WF_cvars(I!TimerTick /\ UNCHANGED <<vars, idlePc>>)
  /\ WF_cvars(I!Deliver /\ UNCHANGED <<vars, idlePc>>)
  /\ WF_cvars(I!EnvelopeEnter /\ UNCHANGED <<vars, idlePc>>)
  /\ WF_cvars(I!EnvelopeBody /\ UNCHANGED <<vars, idlePc>>)
  /\ WF_cvars(I!EnvelopeExit /\ UNCHANGED <<vars, idlePc>>)
  /\ WF_cvars(I!SchedulePrio /\ UNCHANGED <<vars, idlePc>>)
  /\ WF_cvars(I!ScheduleEoi /\ UNCHANGED <<vars, idlePc>>)
  /\ WF_cvars(I!ScheduleExit /\ UNCHANGED <<vars, idlePc>>)
  /\ WF_cvars(IdleEnable) /\ WF_cvars(IdleSchedule)
  /\ WF_cvars(CScheduleSwitch \/ CScheduleKeep)
  /\ WF_cvars(CAfterContextSwitch)

CSpec == CInit /\ [][CNext]_cvars /\ CFairness

-----------------------------------------------------------------------------
CTypeOK ==
  /\ TypeOK
  /\ running = current[Cpu]
  /\ enabled \in BOOLEAN /\ tpr \in {0, 32}
  /\ irr \subseteq I!Vectors /\ isr \subseteq I!Vectors
  /\ idlePc \in {"entry", "schedule", "halt"}
  /\ frames \in [Threads -> Seq([vec : I!Vectors, pc : I!EnvelopePcs \cup I!SchedulePcs \cup {"after"},
                                  old : {0, 32}, ifl : BOOLEAN])]

(* scheduler.rs:34, debug_assert!(OLD_THREAD.is_none()): no thread enters *)
(* schedule_next_thread while a switch on its CPU is unfinished, i.e.     *)
(* before the thread switched to has run after_context_switch.  Only the *)
(* masking by preemption, the task priority and the vector in service    *)
(* keeps a timer or schedule interrupt out of that window.                 *)
OldEmptyOnScheduleEntry ==
  \A t \in Threads : \A i \in DOMAIN frames[t] :
    frames[t][i].pc = "schedule" => old[Cpu] = NONE

(* Whatever thread the scheduler hands the CPU to (one switched out      *)
(* earlier, one exec created and never ran, the idle thread) reaches      *)
(* thread level with IF set, task priority 0 and nothing in service, so  *)
(* the periodic timer can preempt it, from the moment idle() has enabled *)
(* preemption on.                                                          *)
DispatchedThreadPreemptible ==
  Cur = <<>> /\ idlePc # "entry" => enabled /\ tpr = 0 /\ isr = {}

=============================================================================
