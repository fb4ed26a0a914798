----------------------------- MODULE MemoryMap -----------------------------
(***************************************************************************)
(* The memory-map filter of the boot module: the iterator that turns the   *)
(* boot loader's memory map into the free physical areas handed to the     *)
(* frame allocator, with the kernel image and the initramfs cut out.       *)
(*                                                                         *)
(*   kernel/src/boot/mod.rs        initramfs(), MemoryMapIterator::new,    *)
(*                                 MemoryMapIterator::next                 *)
(*   kernel/src/boot/multiboot2.rs MemoryMapIterator::next (usable only)   *)
(*                                                                         *)
(* Addresses are counted in granules of half a page (PAGE granules make   *)
(* one page) so that unaligned addresses can occur.  A memory area is a   *)
(* record [start, length]; its end is start + length (exclusive).  Each   *)
(* call of next() is one step and appends what it returns to emitted.    *)
(***************************************************************************)
EXTENDS Integers, Sequences, FiniteSets

CONSTANTS
  Top,           \* addresses are 0 .. Top-1
  PAGE,          \* granules per page
  MaxEntries,    \* most entries in the boot loader's memory map
  SortedMap,     \* TRUE: only maps whose entries ascend by address
  AlignedModule, \* TRUE: only initramfs modules that start on a page
  NONE

ASSUME Top \in Nat /\ PAGE \in Nat \ {0} /\ MaxEntries \in Nat
ASSUME SortedMap \in BOOLEAN /\ AlignedModule \in BOOLEAN

Area(s, l) == [start |-> s, length |-> l]
End(a) == a.start + a.length
Areas == {Area(s, l) : s \in 0 .. Top, l \in 0 .. Top}
Cells(a) == a.start .. End(a) - 1

(* MemoryArea::is_contained_in: containment of half-open intervals.      *)
IsContainedIn(a, b) == a.start >= b.start /\ End(a) <= End(b)

(* PAGE_SIZE rounding of the initramfs() helper.                          *)
PageAlignDown(x) == (x \div PAGE) * PAGE
PageAlignUp(x) == ((x + PAGE - 1) \div PAGE) * PAGE

-----------------------------------------------------------------------------
(* The inputs: a raw memory map of typed entries, the kernel image area   *)
(* (TEXT_START .. KERNEL_END, TEXT_START page aligned by the linker) and  *)
(* the initramfs module area as the boot loader reports it.               *)
EntryTypes == {"Usable", "Reserved"}
Entries == {[area |-> a, type |-> ty] : a \in {x \in Areas : x.length > 0 /\ End(x) <= Top},
                                         ty \in EntryTypes}
Disjoint(a, b) == End(a) <= b.start \/ End(b) <= a.start

RawMaps ==
  {m \in UNION {[1 .. n -> Entries] : n \in 1 .. MaxEntries} :
     /\ \A i, j \in DOMAIN m : i # j => Disjoint(m[i].area, m[j].area)
     /\ SortedMap => \A i \in 1 .. Len(m) - 1 : m[i].area.start < m[i + 1].area.start}

KernelAreas == {a \in Areas : a.start % PAGE = 0 /\ a.length > 0 /\ End(a) <= Top}
ModuleAreas == {a \in Areas : End(a) <= Top /\ (AlignedModule => a.start % PAGE = 0)}

VARIABLES
  rawmap,    \* the boot loader's memory map (constant during iteration)
  kernel,    \* get_kernel_area()
  module,    \* the initramfs module as reported by the boot loader
  it,        \* the MemoryMapIterator: [cur, idx, pos, excl]
  emitted,   \* the areas next() has returned so far
  done       \* next() has returned None

vars == <<rawmap, kernel, module, it, emitted, done>>

-----------------------------------------------------------------------------
(* Bug variant: the length is rounded up by a whole page too many.       *)
InitramfsOverRounded(m) ==
  Area(PageAlignDown(m.start), (m.length \div PAGE) * PAGE + PAGE)

(* initramfs(): start aligned down to a page, length rounded up to whole *)
(* pages.                                                                 *)
Initramfs(m) ==
  Area(PageAlignDown(m.start),
       IF m.length > 0 THEN ((m.length - 1) \div PAGE) * PAGE + PAGE ELSE 0)

(* multiboot2 MemoryMapIterator::next: the first Usable entry at or after *)
(* position pos of the raw map, and the position after it.                *)
RECURSIVE NextUsable(_, _)
NextUsable(m, pos) ==
  IF pos > Len(m) THEN [area |-> NONE, pos |-> pos]
  ELSE IF m[pos].type = "Usable" THEN [area |-> m[pos].area, pos |-> pos + 1]
  ELSE NextUsable(m, pos + 1)

(* Bug variant: the exclusion index starts one before the first slot.    *)
NewIteratorIdxZero(m, k, i) ==
  LET first == NextUsable(m, 1) IN
  [excl |-> IF k.start <= i.start THEN <<k, i>> ELSE <<i, k>>,
   cur  |-> first.area, pos |-> first.pos, idx |-> 0]

(* MemoryMapIterator::new: the two areas to exclude ordered by start, the *)
(* first usable entry pulled as the current entry.                        *)
NewIterator(m, k, i) ==
  LET first == NextUsable(m, 1) IN
  [excl |-> IF k.start <= i.start THEN <<k, i>> ELSE <<i, k>>,
   cur  |-> first.area, pos |-> first.pos, idx |-> 1]

(* The iterator with its current entry replaced by the next usable one.   *)
Pull(st) ==
  LET n == NextUsable(rawmap, st.pos) IN [st EXCEPT !.cur = n.area, !.pos = n.pos]

(* Bug variants of next(): the exclusion index is not advanced after a   *)
(* split; an empty part before the exclusion is returned, not skipped.    *)
RECURSIVE NextAreaNoAdvance(_)
NextAreaNoAdvance(st) ==
  IF st.cur = NONE THEN [out |-> NONE, st |-> st]
  ELSE IF st.idx > Len(st.excl) THEN [out |-> st.cur, st |-> Pull(st)]
  ELSE IF IsContainedIn(st.excl[st.idx], st.cur)
    THEN LET x      == st.excl[st.idx]
             before == Area(st.cur.start, x.start - st.cur.start)
             after  == Area(End(x), End(st.cur) - End(x))
             st1    == IF after.length = 0 THEN Pull(st) ELSE [st EXCEPT !.cur = after]
         IN IF before.length = 0 THEN NextAreaNoAdvance(st1) ELSE [out |-> before, st |-> st1]
  ELSE [out |-> st.cur, st |-> Pull(st)]

NextAreaNoSkip(st) ==
  IF st.cur = NONE THEN [out |-> NONE, st |-> st]
  ELSE IF st.idx > Len(st.excl) THEN [out |-> st.cur, st |-> Pull(st)]
  ELSE IF IsContainedIn(st.excl[st.idx], st.cur)
    THEN LET x      == st.excl[st.idx]
             after  == Area(End(x), End(st.cur) - End(x))
         IN [out |-> Area(st.cur.start, x.start - st.cur.start),
             st  |-> IF after.length = 0
                       THEN Pull([st EXCEPT !.idx = @ + 1])
                       ELSE [st EXCEPT !.idx = @ + 1, !.cur = after]]
  ELSE [out |-> st.cur, st |-> Pull(st)]

(* MemoryMapIterator::next: the loop of one call, returning the area it  *)
(* yields (NONE for None) and the iterator after the call.                *)
RECURSIVE NextArea(_)
NextArea(st) ==
  IF st.cur = NONE THEN [out |-> NONE, st |-> st]
  ELSE IF st.idx > Len(st.excl) THEN [out |-> st.cur, st |-> Pull(st)]
  ELSE IF IsContainedIn(st.excl[st.idx], st.cur)
    THEN LET x      == st.excl[st.idx]
             before == Area(st.cur.start, x.start - st.cur.start)
             after  == Area(End(x), End(st.cur) - End(x))
             st1    == IF after.length = 0
                         THEN Pull([st EXCEPT !.idx = @ + 1])
                         ELSE [st EXCEPT !.idx = @ + 1, !.cur = after]
         IN IF before.length = 0 THEN NextArea(st1) ELSE [out |-> before, st |-> st1]
  ELSE [out |-> st.cur, st |-> Pull(st)]

-----------------------------------------------------------------------------
(* The assumptions the comment in MemoryMapIterator::next lists: the     *)
(* areas to exclude do not overlap and each lies completely within one   *)
(* usable memory area (the map entries are disjoint by RawMaps).          *)
UsableAreas(m) == {m[i].area : i \in {i \in DOMAIN m : m[i].type = "Usable"}}
NextAssumptions(m, k, i) ==
  /\ Disjoint(k, i)
  /\ \A x \in {k, i} : \E a \in UsableAreas(m) : IsContainedIn(x, a)

Init ==
  /\ rawmap \in RawMaps
  /\ kernel \in KernelAreas
  /\ module \in ModuleAreas
  /\ NextAssumptions(rawmap, kernel, Initramfs(module))
  /\ it = NewIterator(rawmap, kernel, Initramfs(module))
  /\ emitted = <<>>
  /\ done = FALSE

(* One call of next() by the frame allocator's initialisation.            *)
CallNext ==
  LET r == NextArea(it) IN
  /\ ~done
  /\ it' = r.st
  /\ IF r.out = NONE
       THEN done' = TRUE /\ UNCHANGED emitted
       ELSE emitted' = Append(emitted, r.out) /\ UNCHANGED done
  /\ UNCHANGED <<rawmap, kernel, module>>

Next == CallNext

Spec == Init /\ [][Next]_vars /\ WF_vars(Next)

-----------------------------------------------------------------------------
TypeOK ==
  /\ it.cur \in Areas \cup {NONE}
  /\ it.idx \in 1 .. 3
  /\ it.pos \in 1 .. MaxEntries + 1
  /\ emitted \in Seq(Areas)
  /\ done \in BOOLEAN

CellsOfSeq(s) == UNION {Cells(s[i]) : i \in DOMAIN s}

(* No area handed to the frame allocator contains a byte of the kernel   *)
(* image or of the initramfs the boot loader loaded.                      *)
NoReservedHandedOut ==
  CellsOfSeq(emitted) \cap (Cells(kernel) \cup Cells(module)) = {}

(* The areas returned are non-empty, disjoint and ascend by address.      *)
EmittedOrdered ==
  /\ \A i \in DOMAIN emitted : emitted[i].length > 0
  /\ \A i \in 1 .. Len(emitted) - 1 : End(emitted[i]) <= emitted[i + 1].start

(* Reference: once next() returns None, the areas returned are exactly   *)
(* the usable memory minus the kernel image and the pages the initramfs  *)
(* touches: nothing reserved is handed out and nothing free is lost.      *)
ModulePages == PageAlignDown(module.start) .. PageAlignUp(End(module)) - 1
FilterComplete ==
  done => CellsOfSeq(emitted) =
            UNION {Cells(a) : a \in UsableAreas(rawmap)} \ (Cells(kernel) \cup ModulePages)

=============================================================================
