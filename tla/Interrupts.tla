----------------------------- MODULE Interrupts -----------------------------
(***************************************************************************)
(* Interrupt dispatch on one CPU (src/src/arch/x86_64/interrupts/mod.rs,  *)
(* kernel/src/arch/x86_64/mod.rs schedule()).                             *)
(*                                                                         *)
(* The local APIC holds the requested vectors (irr), the vectors in       *)
(* service (isr) and the task priority (tpr); the CPU holds the interrupt *)
(* flag (IF).  A vector is delivered when IF is set and its priority      *)
(* class (vector div 16) is above both the tpr's class and the class of   *)
(* every vector in service.  Each thread has its own kernel stack of      *)
(* handler frames; a frame records the handler, where in it the thread   *)
(* is, the old_priority local of the IRQ envelope and the IF the          *)
(* interrupt frame restores on return.  schedule_next_thread is           *)
(* abstracted to "keep the current thread or switch to another one": the *)
(* thread switched away from stays inside schedule_interrupt and resumes *)
(* there when it is switched back to.                                     *)
(***************************************************************************)
EXTENDS Integers, Sequences

CONSTANTS
  Threads,     \* the threads of this CPU
  FirstThread  \* the thread enter_first_thread starts

ASSUME FirstThread \in Threads

TIMER == 32                      \* idt.interrupts[0]
IRQ1 == 33                       \* idt.interrupts[1]
SCHEDULE_INTERRUPT_NUM == 34     \* idt.interrupts[2]
Vectors == {TIMER, IRQ1, SCHEDULE_INTERRUPT_NUM}
Class(v) == v \div 16

(* Where a thread is inside a handler.                                    *)
EnvelopePcs == {"enter", "body", "exit"}
SchedulePcs == {"prio", "eoi", "schedule", "disable"}
Frames == [vec : Vectors, pc : EnvelopePcs \cup SchedulePcs,
           old : {0, 32}, ifl : BOOLEAN]

VARIABLES
  enabled,   \* the interrupt flag (RFLAGS.IF) of the CPU
  tpr,       \* the LAPIC task priority register
  irr,       \* vectors requested and not yet delivered
  isr,       \* vectors delivered and not yet acknowledged by an EOI
  running,   \* the thread the CPU runs
  frames     \* each thread's stack of handler frames

vars == <<enabled, tpr, irr, isr, running, frames>>

(* The IDT gate of each vector: schedule_interrupt's entry is set with    *)
(* disable_interrupts(false) (a trap gate, IF kept); the others clear IF. *)
ClearsIF(v) == v # SCHEDULE_INTERRUPT_NUM

(* The processor priority: the higher of the tpr and the highest vector   *)
(* in service, compared by class.                                         *)
PprClass == LET inService == {Class(v) : v \in isr} IN
            IF \E c \in inService : c > Class(tpr)
              THEN CHOOSE c \in inService : \A d \in inService : d <= c
              ELSE Class(tpr)

Top(s) == s[Len(s)]
Pop(s) == SubSeq(s, 1, Len(s) - 1)
SetTop(s, f) == [s EXCEPT ![Len(s)] = f]
Cur == frames[running]

(* signal_eoi: the highest vector in service is acknowledged.             *)
Eoi == isr' = isr \ {CHOOSE v \in isr : \A w \in isr : w <= v}

-----------------------------------------------------------------------------
(* After interrupts::init and enter_first_thread: the periodic timer runs, *)
(* the first thread runs with interrupts enabled, every other thread of   *)
(* the CPU is switched out inside schedule_next_thread.                    *)
Init ==
  /\ enabled = TRUE
  /\ tpr = 0
  /\ irr = {}
  /\ isr = {}
  /\ running = FirstThread
  /\ frames = [t \in Threads |->
                 IF t = FirstThread THEN <<>>
                 ELSE <<[vec |-> SCHEDULE_INTERRUPT_NUM, pc |-> "disable",
                         old |-> 0, ifl |-> TRUE]>>]

(* Requests: the periodic LAPIC timer, a key press (IRQ1) and schedule()   *)
(* (a self-IPI at the schedule vector) by the running thread.  The timer  *)
(* handler's body (timer_interrupt) requests a schedule as well.           *)
Raise(v) == irr' = irr \cup {v} /\ UNCHANGED <<enabled, tpr, isr, running, frames>>
TimerTick == Raise(TIMER)
KeyPress == Raise(IRQ1)
Schedule == Cur = <<>> /\ Raise(SCHEDULE_INTERRUPT_NUM)

(* The LAPIC delivers its highest requested vector when it is not masked; *)
(* the CPU pushes an interrupt frame and enters the vector's gate.        *)
Deliver ==
  \E v \in irr :
    /\ \A w \in irr : w <= v
    /\ enabled /\ Class(v) > PprClass
    /\ irr' = irr \ {v}
    /\ isr' = isr \cup {v}
    /\ enabled' = (enabled /\ ~ClearsIF(v))
    /\ frames' = [frames EXCEPT ![running] =
                    Append(@, [vec |-> v, ifl |-> enabled, old |-> 0,
                               pc |-> IF v = SCHEDULE_INTERRUPT_NUM THEN "prio" ELSE "enter"])]
    /\ UNCHANGED <<tpr, running>>

-----------------------------------------------------------------------------
(* irq_interrupt!, lines 49-53, with IF still clear from the gate: save   *)
(* the task priority, raise it to 0x20, enable interrupts.                *)
EnvelopeEnter ==
  /\ Cur # <<>> /\ Top(Cur).pc = "enter"
  /\ frames' = [frames EXCEPT ![running] = SetTop(@, [Top(@) EXCEPT !.pc = "body", !.old = tpr])]
  /\ tpr' = 32
  /\ enabled' = TRUE
  /\ UNCHANGED <<irr, isr, running>>

(* The handler body: timer_interrupt issues schedule() (a self-IPI at the *)
(* schedule vector); the keyboard handler reads the scancode.             *)
EnvelopeBody ==
  /\ Cur # <<>> /\ Top(Cur).pc = "body"
  /\ frames' = [frames EXCEPT ![running] = SetTop(@, [Top(@) EXCEPT !.pc = "exit"])]
  /\ irr' = IF Top(Cur).vec = TIMER THEN irr \cup {SCHEDULE_INTERRUPT_NUM} ELSE irr
  /\ UNCHANGED <<enabled, tpr, isr, running>>

(* Bug variant: the end-of-interrupt is not signalled.                    *)
EnvelopeExitNoEoi ==
  /\ Cur # <<>> /\ Top(Cur).pc = "exit"
  /\ UNCHANGED isr
  /\ tpr' = Top(Cur).old
  /\ enabled' = Top(Cur).ifl
  /\ frames' = [frames EXCEPT ![running] = Pop(@)]
  /\ UNCHANGED <<irr, running>>

(* irq_interrupt!, lines 57-61, and the return from the interrupt:        *)
(* disable interrupts, signal EOI, restore the saved priority, pop the    *)
(* frame and restore its IF.                                              *)
EnvelopeExit ==
  /\ Cur # <<>> /\ Top(Cur).pc = "exit"
  /\ Eoi
  /\ tpr' = Top(Cur).old
  /\ enabled' = Top(Cur).ifl
  /\ frames' = [frames EXCEPT ![running] = Pop(@)]
  /\ UNCHANGED <<irr, running>>

(* Bug variant: schedule_interrupt does not raise the task priority.      *)
SchedulePrioKept ==
  /\ Cur # <<>> /\ Top(Cur).pc = "prio"
  /\ frames' = [frames EXCEPT ![running] = SetTop(@, [Top(@) EXCEPT !.pc = "eoi"])]
  /\ UNCHANGED <<enabled, tpr, irr, isr, running>>

(* Bug variant: the task priority is set to the vector number.          *)
SchedulePrioVector ==
  /\ Cur # <<>> /\ Top(Cur).pc = "prio"
  /\ frames' = [frames EXCEPT ![running] = SetTop(@, [Top(@) EXCEPT !.pc = "eoi"])]
  /\ tpr' = SCHEDULE_INTERRUPT_NUM
  /\ UNCHANGED <<enabled, irr, isr, running>>

(* schedule_interrupt, line 94: lapic::set_priority(0x20).                *)
SchedulePrio ==
  /\ Cur # <<>> /\ Top(Cur).pc = "prio"
  /\ frames' = [frames EXCEPT ![running] = SetTop(@, [Top(@) EXCEPT !.pc = "eoi"])]
  /\ tpr' = 32
  /\ UNCHANGED <<enabled, irr, isr, running>>

(* schedule_interrupt, line 95: lapic::signal_eoi().                      *)
ScheduleEoi ==
  /\ Cur # <<>> /\ Top(Cur).pc = "eoi"
  /\ frames' = [frames EXCEPT ![running] = SetTop(@, [Top(@) EXCEPT !.pc = "schedule"])]
  /\ Eoi
  /\ UNCHANGED <<enabled, tpr, irr, running>>

(* schedule_interrupt, line 97: schedule_next_thread either keeps the     *)
(* current thread or switches to another one, which resumes where it was  *)
(* switched out: inside its own schedule_next_thread call.                *)
ScheduleNext ==
  /\ Cur # <<>> /\ Top(Cur).pc = "schedule"
  /\ frames' = [frames EXCEPT ![running] = SetTop(@, [Top(@) EXCEPT !.pc = "disable"])]
  /\ \E t \in Threads :
       /\ t # running => (frames[t] # <<>> /\ Top(frames[t]).pc = "disable")
       /\ running' = t
  /\ UNCHANGED <<enabled, tpr, irr, isr>>

(* Bug variant: the task priority is left at 0x20 on return.            *)
ScheduleExitKeepsPriority ==
  /\ Cur # <<>> /\ Top(Cur).pc = "disable"
  /\ enabled' = Top(Cur).ifl
  /\ frames' = [frames EXCEPT ![running] = Pop(@)]
  /\ UNCHANGED <<tpr, irr, isr, running>>

(* schedule_interrupt, lines 98-100, and the return from the interrupt:   *)
(* disable interrupts, set the task priority to 0, restore IF.            *)
ScheduleExit ==
  /\ Cur # <<>> /\ Top(Cur).pc = "disable"
  /\ tpr' = 0
  /\ enabled' = Top(Cur).ifl
  /\ frames' = [frames EXCEPT ![running] = Pop(@)]
  /\ UNCHANGED <<irr, isr, running>>

Next ==
  \/ TimerTick \/ KeyPress \/ Schedule
  \/ Deliver
  \/ EnvelopeEnter \/ EnvelopeBody \/ EnvelopeExit
  \/ SchedulePrio \/ ScheduleEoi \/ ScheduleNext \/ ScheduleExit

(* The LAPIC delivers an unmasked request; a handler, once entered, runs  *)
(* on (interrupts and switches only delay it).                            *)
Fairness ==
  /\ WF_vars(Deliver)
  /\ WF_vars(EnvelopeEnter) /\ WF_vars(EnvelopeBody) /\ WF_vars(EnvelopeExit)
  /\ WF_vars(SchedulePrio) /\ WF_vars(ScheduleEoi) /\ WF_vars(ScheduleExit)
  /\ WF_vars(ScheduleNext)

Spec == Init /\ [][Next]_vars /\ Fairness

-----------------------------------------------------------------------------
TypeOK ==
  /\ enabled \in BOOLEAN
  /\ tpr \in {0, 32}
  /\ irr \subseteq Vectors /\ isr \subseteq Vectors
  /\ running \in Threads
  /\ frames \in [Threads -> Seq(Frames)]

(* No handler is ever interrupted by another: the envelope re-enables    *)
(* interrupts and schedule_interrupt's trap gate leaves them enabled, and *)
(* only the task priority and the vector in service keep a timer or       *)
(* keyboard interrupt out of schedule_next_thread (which holds the        *)
(* READY_LIST lock) and out of the other handlers.                        *)
HandlersNeverNest == \A t \in Threads : Len(frames[t]) <= 1

(* Whenever a thread runs outside every handler (also after it was        *)
(* switched out inside schedule_interrupt and switched back to), the      *)
(* interrupt flag is set, the task priority is 0 and no vector is in      *)
(* service, so the timer can preempt it.                                  *)
UnmaskedOutsideHandlers ==
  Cur = <<>> => enabled /\ tpr = 0 /\ isr = {}

(* Every schedule request, by schedule() or by the timer handler, is      *)
(* eventually delivered to schedule_interrupt.                            *)
ScheduleRequestServed ==
  SCHEDULE_INTERRUPT_NUM \in irr ~> SCHEDULE_INTERRUPT_NUM \notin irr

(* Spec 4.7: the schedule vector runs with interrupts disabled (its IDT   *)
(* entry clears IF), from its entry until schedule_next_thread disables   *)
(* preemption itself (scheduler.rs:31-32, "No interrupts during           *)
(* scheduling").                                                           *)
ScheduleVectorRunsMasked ==
  \A i \in DOMAIN Cur :
    Cur[i].vec = SCHEDULE_INTERRUPT_NUM /\ Cur[i].pc \in {"prio", "eoi", "schedule"}
      => ~enabled

=============================================================================
