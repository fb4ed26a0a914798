# TLA+ models of BoringOS

These are TLA+ specifications of the parts of the BoringOS kernel (`src/kernel`)
that have concurrency, ordering or arithmetic hazards: the per-CPU scheduler
with its process and thread bookkeeping, interrupt dispatch, the boot
path (boot-loader dispatch, the multiboot header and the memory-map
filter), and the stack manager. Each is checked with TLC.

## The system

| Part | Source | State | Operations |
|------|--------|-------|------------|
| Per-CPU scheduler | `multitasking/scheduler.rs` | `READY_LIST` (a max-heap of TCBs), `CURRENT_THREAD`, `OLD_THREAD`, one of each per CPU | `schedule_next_thread` (switch or keep), `after_context_switch` (on the successor thread), `idle` |
| PCB / process list | `multitasking/pcb.rs` | `PROCESS_LIST`: pid → PCB with `state` and `thread_count` | `PCB::new`, `idle_pcb`, `kill`, `is_droppable`, `Drop` (asserts droppable) |
| TCB, exec, exit | not under `src/` (spec §3, §4.6, §6) | thread state Ready/Running/Dead, priority | ordering by priority, `is_dead`, drop decrements `thread_count` |
| Memory-map filter | `boot/mod.rs`, `boot/multiboot2.rs`, `arch/x86_64/memory/mod.rs` | the boot loader's map, the kernel and initramfs areas, the iterator | `initramfs()`, `MemoryMapIterator::new`, `next` |
| Stack manager | `multitasking/stack.rs` | `top_address`, `bottom_address`, `max_size`, the pages mapped in the address space | `new`, `grow`, `shrink`, `resize`, `Drop`, `push_in` |
| Interrupts (modelled: `Interrupts.tla`) | `src/src/arch/x86_64/interrupts/mod.rs`, `arch/x86_64/mod.rs` | IF flag, LAPIC task priority, pending vectors | IRQ envelope, `schedule_interrupt`, `schedule()` self-IPI, periodic timer (150) |
| Boot path (modelled: `Boot.tla`, `MultibootHeader.tla`) | `src/src/veos.rs`, `boot/mod.rs`, `boot/multiboot2.rs` | `BOOT_METHOD`, `BOOT_INFO`, the header constants | `main`, `boot::init`, `set_boot_method`, `get_bootloader_name`, `get_memory_map`, the `initramfs` tag lookup, `MultibootHeader::new` |
| Arch init, layout constants, `std/process.rs` | | hardware setup, constant data, user wrappers | |

How the parts interact:
- The LAPIC timer or a `schedule()` self-IPI raises the schedule interrupt, whose handler calls `schedule_next_thread` on that CPU.
- A switch parks the previous thread in `OLD_THREAD`. The successor then runs `after_context_switch`, which pushes the previous thread back to `READY_LIST`. If the previous thread is dead, it drops the TCB instead.
- Dropping a TCB decrements its PCB's `thread_count` and removes a dead PCB with no threads. It also drops the thread's stacks. A stack's `Drop` unmaps its pages in the *currently active* address space.
- At boot, the loader finds the multiboot header in the image and enters `main` with its magic number and information structure. `boot::init` picks the protocol from the magic and loads the structure. The memory-map filter hands out every usable area of the loader's map, minus the kernel image and the initramfs module that the tag lookup finds.

## Modules

### `Scheduler.tla` (scheduler, PCB, TCB)
- **State.** `ready[c]` is a set of TCBs; peek takes one of the maximal priority, and ties are resolved nondeterministically, as a heap may. `current[c]` and `old[c]` are the current and parked threads, with `NONE` for `None`. `tcbs` maps each live TCB to its state. `pcbs` is `PROCESS_LIST`. A thread is a pair `<<pid, id>>`, and the idle thread of CPU `c` is `IdleThread(c)`.
- **Actions.**
  - `Schedule(c)` is the whole of `schedule_next_thread`: either `SwitchTo` (pop, swap, set ready, set running) or `NoSwitch` (put the peeked thread back). It is guarded by `old[c] = NONE`, because the schedule interrupt is masked from the switch until `after_context_switch` has run.
  - `AfterContextSwitch(c)` pushes the old thread back, or drops it through `DropTcb` if it is dead.
  - `Kill(p)` is `PCB::kill`.
  - `Exec` and `Exit` are the system calls (spec-modelled).
- **Fairness.** Weak fairness on `Schedule(c)` and `AfterContextSwitch(c)`. The LAPIC timer is periodic (`set_periodic_timer(150)`), so the schedule interrupt keeps arriving. `after_context_switch` is the first thing the successor thread runs.

### `SchedulerAbstract.tla` and `SchedulerRefinement.tla` (what the scheduler promises)
- **Abstract spec.** `SchedulerAbstract` has no `OLD_THREAD` and no `thread_count`. `Dispatch(c)` hands CPU `c` to a highest-priority waiting thread in one step, if that thread is at least as urgent as the running one or the running one is dead. The thread switched away from waits again, or becomes a zombie of `c` if it is dead. `Reap(c)` removes a zombie, and a dead process goes with its last thread. Fairness is weak fairness on `Dispatch(c)` and `Reap(c)`.
- **Mapping.** A thread parked in `old[c]` counts as waiting if it is alive and as a zombie if it is dead. The ready set and the parked thread together make up the abstract waiting set. A process is registered while its PCB is in `PROCESS_LIST`, and its `thread_count` is hidden. Under this mapping, `SwitchTo` is `Dispatch` and `NoSwitch` is a stutter. A push back in `after_context_switch` is also a stutter, and a drop of a dead TCB is `Reap`.
- **Property.** `ImplementsAbstractScheduler` is `A!ASpec`, fairness included. The `scheduler` run checks it under the scheduler's own spec and bounds.

### `ThreadTeardown.tla` (scheduler with user stacks and address spaces)
- **Composition.** It extends `Scheduler` with `userMapped`, the user pages each process's address space maps.
  - `TExec` maps the main thread's user stack in the new process's address space, as `Stack::new(..., Some(address_space))` does.
  - `TAfterContextSwitch` is `after_context_switch`. When the parked thread is dead, its drop unmaps the thread's stack with `resize(0, None)`, that is, in `ActiveSpace(c)`, the address space of the thread now running on `c`.
  - All processes' main stacks use the same slot (`USER_STACK_AREA_BASE`), so `UserStack` gives each the same page.
- **Property.** `LiveStacksMapped`: no live thread's stack is ever unmapped.

### `Interrupts.tla` (interrupt dispatch on one CPU)
- **State.** Local APIC state (requested vectors `irr`, in-service vectors `isr`, task priority `tpr`), the CPU's interrupt flag `enabled`, the running thread, and each thread's stack of handler frames. A frame holds the handler, its position, the envelope's `old_priority` local, and the IF to restore on return.
- **Delivery.** A vector is delivered when IF is set and its class (`vector div 16`) is above the class of the task priority and of every vector in service. The timer (0x20) and IRQ1 (0x21) gates clear IF. The schedule gate (0x22) is set with `disable_interrupts(false)`, a trap gate, and keeps IF.
- **Actions.** `EnvelopeEnter`, `EnvelopeBody` and `EnvelopeExit` are the `irq_interrupt!` macro (lines 49-53, the body, 57-61). `SchedulePrio`, `ScheduleEoi`, `ScheduleNext` and `ScheduleExit` are `schedule_interrupt` (lines 94, 95, 97, 98-100). `ScheduleNext` abstracts `schedule_next_thread` to keeping the thread or switching to one that was switched out at the same point. `Schedule` is `schedule()`, and `TimerTick` is the periodic timer.
- **Fairness.** Weak fairness on delivery (the APIC delivers an unmasked request) and on each handler step. Requests get none.
- **Scope.** One CPU is enough: interrupt state is per CPU, and the self-IPI targets its own CPU.

### `PreemptiveScheduling.tla` (scheduler driven by interrupts, one CPU)
- **Composition.** It extends `Scheduler` and instantiates `Interrupts` for the interrupt state of that CPU. `running` is `CURRENT_THREAD`: it changes only at a switch. The handler steps (`TimerTick`, `Deliver`, the envelope, `SchedulePrio`, `ScheduleEoi`, `ScheduleExit`) are those of `Interrupts`. The keep-or-switch abstraction is replaced by the code:
  - `CScheduleSwitch` runs `schedule_next_thread` up to `switch_context`, with preemption (IF) disabled. The previous thread's schedule frame is suspended at `"after"`, and the CPU continues on the thread switched to.
  - `CScheduleKeep` is the no-switch path.
  - `CAfterContextSwitch` is `after_context_switch` followed by `restore_preemption_state`, on the thread switched to.
- **READY_LIST lock.** `schedule_next_thread` takes the lock at line 36 and drops it before `switch_context` (line 53) or at line 75. `after_context_switch` takes it at line 91 only for the push itself. No step leaves it held, so it is not a variable: each of these accesses lies inside one atomic step.
- **idle().** `enter_first_thread` returns into `idle()` on the idle thread's stack, and `idle()` begins by enabling preemption, so the model starts with IF clear. `IdleEnable` is `enable_preemption`, and `IdleSchedule` is the `schedule()` that follows it (`idlePc` tracks where `idle()` is). After that the idle thread only halts. Until `IdleEnable` no interrupt is delivered, so every later switch depends on that one call. Without it (the mutant `IdleEnableMissing`) `TopPriorityNotStarved` fails.
- **Threads.** The idle thread starts at thread level (`enter_first_thread`). A thread created by exec has never run. Following spec §4.6 step 7, its first dispatch resumes at `after_context_switch`, like any switched-out thread. `CExit` is the exit system call: it marks the thread dead and requests a schedule, and the dead thread then does nothing more. `CKill` comes from another CPU at any time.
- **Fairness.** Weak fairness on the periodic timer, on delivery, on every handler step and on the two steps of `idle()`, which the idle thread runs straight through. Unlike the `scheduler` run, nothing is assumed of `schedule_next_thread` itself: every schedule has to come through the interrupt chain.
- **Not here.** IRQ1 outranks the timer (0x21 > 0x20). An endless run of key presses would keep the timer pending forever, which no keyboard can do, so IRQ1 is left to the `interrupts` run.

### `MemoryMap.tla` (boot memory-map filter)
- **Addresses.** Addresses are in half-page granules (`PAGE = 2`), so a module can start inside a page.
- **Init.** Init enumerates every raw map of up to `MaxEntries` disjoint entries, each Usable or Reserved, and every kernel area and initramfs module that satisfy the assumptions stated in `next()` (lines 76-80).
- **Actions.** `CallNext` is one call of `next()`. Its loop (skip empty parts, split around an exclusion, pull the next usable entry) is the recursive operator `NextArea`.

### `Boot.tla` and `MultibootHeader.tla` (the boot path)
- **Inputs.** Init picks the magic number (protocol 2, protocol 1, or any other value) and the information structure. The structure is a record: the memory map tag (or none), up to `MaxModules` module tags named `"initramfs"` or `"other"`, the boot loader name tag (or none), and the area the structure itself occupies. The loader is assumed to place the kernel and every module in usable memory, page-aligned and without overlap, and to keep the structure off them.
- **Actions.** They follow `main` (`veos.rs` 34-44):
  - `BootInit` is `boot::init`: `set_boot_method`, then the `BOOT_INFO` load, or `unimplemented!()` for an unknown magic.
  - `PrintBootloaderName` is `get_bootloader_name`, which falls back to the default name when there is no tag.
  - `GetMemoryMap` builds the protocol's iterator; `expect` panics if there is no memory map tag. `MemoryMapIterator::new` then takes the kernel area and `initramfs()`, whose lookup goes through the `get_initramfs_area` dispatch on the boot method (`GetInitramfsArea`) to `FindInitramfs`, and panics when no module is named `initramfs`.
  - `PrintEntry` is one turn of the `for` loop, using `MemoryMap`'s `NextArea` over the loader's map.
  - A panic ends in `panic_fmt`'s loop, and a completed boot ends in `main`'s loop. Both are final states, so deadlock is not checked.
- **Sources not under `src/`.** `veos.rs` was written against a boot module that is not under `src/`. The kernel's boot module has the same interface and is the one modelled. The protocol-1 parser (`boot/multiboot.rs`) is not under `src/`, so it is taken to read the same fields.
- **Header.** `MultibootHeader.tla` evaluates `MultibootHeader::new` as the compiler does:
  - u32 values are kept as two 16-bit halves, because TLC's integers stop at 2^31;
  - the checksums use checked const arithmetic, where leaving u32 is a compile error;
  - sizes and offsets follow the packed layout.
  - `Mb1Accepted` and `Mb2Accepted` are the checks a loader of each protocol makes before it passes its magic to `main`.
- **Fairness.** Weak fairness on `Next`. `main` runs alone on the boot CPU.

### `Stack.tla` (stack manager)
- **State.** Three stack slots share one address space. `mapped` is the set of mapped page numbers. `fault` records a panic of `map_page` or `unmap_page`.
- **Actions.** `New`, `Grow`, `Shrink`, `Resize` and `Drop` take any amount from a small set that includes amounts that are not page multiples.
- **Fairness.** None: callers are arbitrary.

## Runs

| Run | Cfg | Expect | Shows |
|-----|-----|--------|-------|
| `scheduler` | `MC_Scheduler.cfg` | pass | 2 CPUs and 3 processes, two of them sharing the top priority. Checked: TCB ownership across the swap window (`TcbPlacement`); no `pop().unwrap()` on an empty heap (`NoSchedulerPanic`); `thread_count` matches live TCBs (`ThreadCountMatches`); a dead thread never runs again (`DeadStaysDead`); an exited process is eventually removed (`ExitedProcessReclaimed`); equal top priorities rotate (`TopPriorityNotStarved`); the scheduler implements `SchedulerAbstract`, its fairness included (`ImplementsAbstractScheduler`, `MC_Scheduler` extends `SchedulerRefinement`). |
| `scheduler_kill` | `MC_Scheduler_kill.cfg` | violation | A killed process's ready thread is still dispatched. |
| `interrupts` | `MC_Interrupts.cfg` | pass | 3 threads on one CPU. No handler ever nests. Every thread reaches thread level with IF set, priority 0 and nothing in service, even after being switched out inside `schedule_interrupt`. Every schedule request is delivered. |
| `interrupts_schedule_gate` | `MC_Interrupts_masked.cfg` | violation | The schedule handler runs with IF set from its entry until `schedule_next_thread` disables preemption. |
| `thread_teardown` | `MC_ThreadTeardown.cfg` | violation | Dropping a dead thread in `after_context_switch` unmaps the user stack of the live thread switched to. |
| `preemptive_scheduling` | `MC_PreemptiveScheduling.cfg` | pass | 1 CPU and 3 processes (two of equal top priority). Assumed fair: only the timer, the interrupt hardware and the two steps of `idle()`. Checked: OLD_THREAD is empty whenever any thread enters `schedule_next_thread` (`OldEmptyOnScheduleEntry`, the `debug_assert` at line 34); once `idle()` has enabled preemption, every dispatched thread, new ones included, reaches thread level preemptible (`DispatchedThreadPreemptible`); equal top priorities rotate (`TopPriorityNotStarved`); an exited process is reclaimed (`ExitedProcessReclaimed`). |
| `memmap_unaligned_initramfs` | `MC_MemoryMap_unaligned.cfg` | violation | An unaligned initramfs loses its last page to the allocator. |
| `memmap_unsorted` | `MC_MemoryMap_unsorted.cfg` | violation | An unsorted map defeats the exclusions. |
| `boot` | `MC_Boot.cfg` | pass | Every magic and every information structure of up to two module tags over two and a half pages of memory. This run also checks the memory-map filter for sorted maps and page-aligned modules. Checked: loaders of both protocols accept the image's header (`MultibootHeaderValid`); everything `main` prints as free is usable memory outside the kernel and the loaded initramfs, even when another module precedes it (`PrintedAreasFree`); the areas come non-empty and in ascending order (`PrintedOrdered`); `main` panics only for an unknown loader or a structure without memory map or initramfs, and otherwise reaches its final loop having printed all free memory (`BootCompletes`). |
| `boot_info_lifetime` | `MC_Boot_Info.cfg` | violation | The filter hands out the frames that hold the boot information structure. |
| `stack` | `MC_Stack.cfg` | pass | Mapped pages always equal the live stacks' extents, with no double map or stray unmap, and no stack exceeds `max_size`. |
| `stack_alignment` | `MC_Stack_aligned.cfg` | violation | A non-page-multiple amount leaves the bottom unaligned, contrary to spec §8. |

### Findings
1. **Kill does not stop scheduling** (`scheduler.rs:45`). The comment on `PCB::kill` and spec §5 promise that a killed process's threads are not scheduled. The scheduler never reads the PCB state.
2. **Initramfs rounding** (`boot/mod.rs:29`). The start is aligned down, but the length is rounded from the unaligned length. The last page of an unaligned module is handed out as free memory. Nothing asks the loader to align modules: the header's `MB_FLAGS` leaves bit 0 clear, and the protocol-2 header has no module-alignment tag.
3. **Unsorted memory map** (`boot/mod.rs:90`). The iterator consumes exclusions in address order and silently requires sorted entries, which its stated assumptions omit.
4. **Stack alignment** (`stack.rs:126`). Amounts are not rounded, so the spec's alignment property does not hold. Mapping stays correct.

5. **Schedule gate keeps IF** (`interrupts/mod.rs:25`).
   - The code: `disable_interrupts(false)` makes the schedule vector a trap gate. IF stays set from the handler's entry through `set_priority` and the EOI until `schedule_next_thread` disables preemption (`scheduler.rs:31-32`).
   - The spec: it says the entry clears IF.
   - The consequence is masked: the task priority 0x20 and the in-service vector keep all vectors, which are all class 2, out (`HandlersNeverNest`). For the same reason the envelope's re-enable never lets anything nest, so the "nested scheduling" of spec §5 never happens. A schedule request raised by the timer is delivered after the envelope returns.

6. **Teardown in the wrong address space** (`stack.rs:59`).
   - The code: `Drop for Stack` unmaps through the active page table (`resize(0, None)`), and its NOTE assumes that the stack is dropped in its own address space. Spec §4.8 and §9 put the drop of a dead thread in `after_context_switch`, which runs on the successor thread, in the successor's address space.
   - The trace (8 states): exec p1 and p2, switch to p1, p1 exits, switch to p2. `after_context_switch` drops p1's TCB and unmaps page 0 in p2's address space, so p2's live stack is gone. With the idle thread as successor, the unmap hits the idle address space, and the dead thread's stack stays mapped.
   - The TCB destructor is not under `src/`. The model takes from the spec that it drops the thread's stacks.

7. **Boot information handed out** (`boot/mod.rs:54`). The filter excludes exactly the kernel and the initramfs, as spec §4.2 says. Spec §6 says the information structure lives as long as the kernel, and every later getter reads it through `BOOT_INFO`. When the loader puts the structure in usable memory, its frames are printed as free by `main` (5 states), and the frame allocator would receive them.

### Bounds
- **Scheduler.** Two CPUs are the least that exercises cross-CPU kill and migration of threads through `after_context_switch`. Two equal-priority processes exercise the `>=` rotation, and a third, lower-priority one exercises preemption. Each process is exec'd at most once. Each mutant of the scheduler breaks its property within these bounds.
- **MemoryMap.** The violation runs use Top = 6 granules (3 pages) and two entries. This allows a usable entry on each side of a reserved one, and an unaligned module that crosses a page boundary.
- **Interrupts.** Three threads: the running one and two switched out inside `schedule_interrupt`, so a switch from a thread that was itself switched back to is reached. All request sources can be raised at every point.
- **Preemptive scheduling.** One CPU, because interrupt state and READY_LIST are per CPU. Three processes give the rotation of two top-priority threads, preemption of a lower one, an exit while another thread is parked, and processes created before `idle()` has enabled preemption. 7068 distinct states.
- **Teardown.** The same constants as `scheduler`. The teardown violation needs two processes and one switch between them.
- **Boot.** Top = 5 granules (2½ pages), up to two map entries and two module tags. This gives a non-initramfs module before the initramfs, two modules both named `initramfs`, an empty module, each missing tag, and each magic. It also gives an exclusion at the start, middle and end of an entry, and both orders of kernel and initramfs. 710,692 distinct states, under a minute. Top = 6 takes four minutes, so the 3-page bound is kept for the two `MemoryMap` violation runs.
- **Stack.** Max size is 2 pages. Amounts 0..6 include half pages, whole pages and amounts beyond `max_size`.

## Not modelled (yet)
- Paging, the frame allocator, address spaces, the context switch and `sync::Mutex` are not under `src/`. Only their contracts are used.
- `push_in` writes memory and changes no stack field.
- Arch init (`early_init`, `init`) is CPUID checks and register writes done once. `get_vga_info` is a read-only lookup that `main` does not call.
- `std/process.rs` only wraps the system calls that the scheduler models take as actions.
- The thread entry code is not under `src/`. A thread's first dispatch returns into it, not to `scheduler.rs:72`. The models assume that it runs `after_context_switch` and the tail of `schedule_interrupt` (hazard at `scheduler.rs:72`).
- The layout constants (`memory/mod.rs` 10-61) are compile-time constants that no code under `src/` combines. The heap ends exactly where the kernel stack area begins, and the stack slots are 4 MiB apart with a 2 MiB maximum size. One of them disagrees with spec §3: `INITRAMFS_MAP_AREA_START` is `0xffff_8000_0000_0000 + 512 * 512 * 512`, i.e. 128 MiB into the higher half. The spec puts the window at `+ 512³·4 KiB`, i.e. 512 GiB, which is how `HEAP_MAX_SIZE` is written. Whether this matters depends on what `paging::init` maps there, and that code is not under `src/`.
- `memory::init` (lines 104-116) sets the initramfs window after `paging::init`. Its caller, and so its place in the boot order, is not under `src/`.

## Plan for later sittings
1. **`PROCESS_LIST` and `CURRENT_THREAD` locks.** Add the locks to `PreemptiveScheduling`. `get_current_process` holds them at thread level. The TCB destructor in `after_context_switch` takes `PROCESS_LIST`, and `schedule_next_thread` takes `CURRENT_THREAD` at lines 43, 45, 56 and 66. These are the deadlock hazards at `pcb.rs:96` and `scheduler.rs:43`. First settle whether `sync::Mutex` disables preemption while held. Its source is not under `src/`. Until it is, either answer would be a guess, and the hazards stay without a property.
