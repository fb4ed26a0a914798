------------------------------- MODULE Stack -------------------------------
(***************************************************************************)
(* The full-descending stacks of the stack manager in one address space  *)
(* and the pages they map there (kernel/src/multitasking/stack.rs).       *)
(*                                                                         *)
(* Addresses are counted in units of half a page (PAGE units make a       *)
(* page), so that grow and shrink amounts need not be page multiples.     *)
(* Each stack has its own slot (start_address), as the thread stacks at  *)
(* USER_STACK_AREA_BASE + n * USER_STACK_OFFSET do.  mapped is the set of *)
(* page numbers mapped in the address space; fault records a panic of the *)
(* paging engine (mapping a page that is already mapped, unmapping one    *)
(* that is not).  A stack is created once (Stack::new), may grow, shrink  *)
(* and resize, and is dropped once.                                       *)
(***************************************************************************)
EXTENDS Integers

CONSTANTS
  PAGE,      \* units per page
  Stacks,    \* the stacks (their slots)
  StartOf,   \* start_address of each stack's segment (page aligned)
  MaxSize,   \* max_size (a page multiple, as the layout constants are)
  Amounts    \* the sizes and amounts callers pass

ASSUME PAGE \in Nat \ {0} /\ MaxSize \in Nat /\ MaxSize % PAGE = 0
ASSUME StartOf \in [Stacks -> Nat] /\ \A s \in Stacks : StartOf[s] % PAGE = 0
ASSUME Amounts \subseteq Nat /\ \A a \in Amounts, s \in Stacks : a <= StartOf[s]

(* The top address: a stack descends from start_address + max_size.     *)
Top(s) == StartOf[s] + MaxSize

NoFault == "none"
Faults == {NoFault, "map_mapped", "unmap_unmapped"}

VARIABLES
  bottom,    \* bottom_address of each stack
  mapped,    \* page numbers mapped in the address space
  alive,     \* the stacks whose Stack value exists
  created,   \* the stacks Stack::new has run for
  fault      \* a panic of the paging engine

vars == <<bottom, mapped, alive, created, fault>>

PageNum(addr) == addr \div PAGE
MaxOf(a, b) == IF a >= b THEN a ELSE b
MinOf(a, b) == IF a <= b THEN a ELSE b

(* map_page / unmap_page over a set of pages, panicking on a page that is *)
(* already mapped or not mapped.                                          *)
MapPages(pages) ==
  /\ mapped' = mapped \cup pages
  /\ fault' = IF pages \cap mapped # {} THEN "map_mapped" ELSE fault

UnmapPages(pages) ==
  /\ mapped' = mapped \ pages
  /\ fault' = IF pages \subseteq mapped THEN fault ELSE "unmap_unmapped"

-----------------------------------------------------------------------------
(* Bug variants: no clamp to top - max_size; the page at the old bottom   *)
(* mapped too.                                                            *)
GrowByUnclamped(s, amount) ==
  /\ MapPages(PageNum(bottom[s] - amount) .. PageNum(bottom[s]) - 1)
  /\ bottom' = [bottom EXCEPT ![s] = @ - amount]

GrowByInclusive(s, amount) ==
  LET newBottom == MaxOf(Top(s) - MaxSize, bottom[s] - amount) IN
  /\ MapPages(PageNum(newBottom) .. PageNum(bottom[s]))
  /\ bottom' = [bottom EXCEPT ![s] = newBottom]

(* Stack::grow: lower the bottom by amount, not below top - max_size, and *)
(* map the pages from the new bottom's page up to, excluding, the old     *)
(* bottom's page.                                                          *)
GrowBy(s, amount) ==
  LET newBottom == MaxOf(Top(s) - MaxSize, bottom[s] - amount) IN
  /\ MapPages(PageNum(newBottom) .. PageNum(bottom[s]) - 1)
  /\ bottom' = [bottom EXCEPT ![s] = newBottom]

(* Bug variants: no clamp to the top; one page too few unmapped.          *)
ShrinkByUnclamped(s, amount) ==
  /\ UnmapPages(PageNum(bottom[s]) .. PageNum(bottom[s] + amount) - 1)
  /\ bottom' = [bottom EXCEPT ![s] = @ + amount]

ShrinkByShort(s, amount) ==
  LET newBottom == MinOf(Top(s), bottom[s] + amount) IN
  /\ UnmapPages(PageNum(bottom[s]) .. PageNum(newBottom) - 2)
  /\ bottom' = [bottom EXCEPT ![s] = newBottom]

(* Stack::shrink: raise the bottom by amount, not above the top, and      *)
(* unmap the pages from the old bottom's page up to, excluding, the new   *)
(* bottom's page.                                                          *)
ShrinkBy(s, amount) ==
  LET newBottom == MinOf(Top(s), bottom[s] + amount) IN
  /\ UnmapPages(PageNum(bottom[s]) .. PageNum(newBottom) - 1)
  /\ bottom' = [bottom EXCEPT ![s] = newBottom]

(* Stack::resize: grow or shrink by the signed difference of the sizes.   *)
ResizeTo(s, size) ==
  LET difference == size - (Top(s) - bottom[s]) IN
  IF difference > 0 THEN GrowBy(s, difference) ELSE ShrinkBy(s, -difference)

-----------------------------------------------------------------------------
(* Before Stack::new: top and bottom both at start_address + max_size.    *)
Init ==
  /\ bottom = [s \in Stacks |-> Top(s)]
  /\ mapped = {}
  /\ alive = {}
  /\ created = {}
  /\ fault = NoFault

(* Stack::new: register the stack's segment (the assertion holds: each   *)
(* stack has its own slot) and resize to the initial size.                *)
New(s, initial) ==
  /\ s \notin created
  /\ ResizeTo(s, initial)
  /\ alive' = alive \cup {s}
  /\ created' = created \cup {s}

Grow(s, amount) ==
  /\ s \in alive
  /\ GrowBy(s, amount)
  /\ UNCHANGED <<alive, created>>

Shrink(s, amount) ==
  /\ s \in alive
  /\ ShrinkBy(s, amount)
  /\ UNCHANGED <<alive, created>>

Resize(s, size) ==
  /\ s \in alive
  /\ ResizeTo(s, size)
  /\ UNCHANGED <<alive, created>>

(* Drop for Stack: resize to zero, here in the stack's own address space. *)
Drop(s) ==
  /\ s \in alive
  /\ ResizeTo(s, 0)
  /\ alive' = alive \ {s}
  /\ UNCHANGED created

Next ==
  \/ \E s \in Stacks, a \in Amounts : New(s, a) \/ Grow(s, a) \/ Shrink(s, a) \/ Resize(s, a)
  \/ \E s \in Stacks : Drop(s)

Spec == Init /\ [][Next]_vars

-----------------------------------------------------------------------------
(* The pages stack s covers: from the page of its bottom (partly used    *)
(* when the bottom is unaligned) up to its top.                           *)
Extent(s) == PageNum(bottom[s]) .. PageNum(Top(s)) - 1

TypeOK ==
  /\ \A s \in Stacks : bottom[s] \in 0 .. Top(s)
  /\ mapped \subseteq Nat
  /\ alive \subseteq created /\ created \subseteq Stacks
  /\ fault \in Faults

(* Stack invariant of the spec: top - bottom never exceeds max_size.     *)
StackWithinBounds == \A s \in Stacks : Top(s) - bottom[s] <= MaxSize

(* The pages mapped are exactly those the live stacks cover, the stacks  *)
(* cover disjoint pages, and a dropped stack leaves nothing mapped.      *)
MappedMatchesExtent ==
  /\ mapped = UNION {Extent(s) : s \in alive}
  /\ \A s, t \in alive : s # t => Extent(s) \cap Extent(t) = {}

(* No sequence of grow, shrink and resize calls makes the paging engine  *)
(* map a page twice or unmap a page that is not mapped.                   *)
NoPagingFault == fault = NoFault

(* Spec property 3: the bottom address stays page aligned after any      *)
(* sequence of grow, shrink and resize calls.                             *)
BottomPageAligned == \A s \in Stacks : bottom[s] % PAGE = 0

=============================================================================
