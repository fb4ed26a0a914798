-------------------------------- MODULE Boot --------------------------------
(***************************************************************************)
(* The boot path: main (src/veos.rs) identifies the boot loader, loads    *)
(* its information structure, prints the loader's name and walks the      *)
(* memory map through the filter of the boot module.                      *)
(*                                                                         *)
(*   src/veos.rs                    main, panic_fmt                        *)
(*   kernel/src/boot/mod.rs         init, set_boot_method, the getters     *)
(*                                  dispatching on BOOT_METHOD, initramfs  *)
(*   kernel/src/boot/multiboot2.rs  init (BOOT_INFO), the tag lookups      *)
(*                                                                         *)
(* The boot module veos.rs was written against is not under src/; the     *)
(* kernel's has the same interface (init(magic, address),                  *)
(* get_bootloader_name, get_memory_map) and is the one modelled.  The      *)
(* information structure is a record of the tags the code reads; the      *)
(* protocol-1 parser (boot/multiboot.rs) is not under src/ and is taken   *)
(* to read the equivalent fields (spec 6).  The memory-map iterator is    *)
(* MemoryMap's, instantiated over the map the loader passed.               *)
(***************************************************************************)
EXTENDS Integers, Sequences, FiniteSets, MultibootHeader

CONSTANTS
  Top, PAGE, MaxEntries, NONE,
  MaxModules,    \* most module tags in the information structure
  LoaderName     \* the name a boot loader name tag carries

VARIABLES
  magic,       \* the boot loader's magic number, main's first argument
  info,        \* the information structure at main's second argument
  kernel,      \* get_kernel_area(): TEXT_START .. KERNEL_END
  bootMethod,  \* BOOT_METHOD
  bootInfo,    \* multiboot2 BOOT_INFO: NONE until call_once
  pc,          \* where main is
  name,        \* what get_bootloader_name returned
  it,          \* the MemoryMapIterator main's for loop drives
  printed      \* the areas the for loop has printed

vars == <<magic, info, kernel, bootMethod, bootInfo, pc, name, it, printed>>

M == INSTANCE MemoryMap WITH
       SortedMap <- TRUE, AlignedModule <- TRUE,
       rawmap <- info.mmap, module <- NONE, done <- FALSE, emitted <- printed

MULTIBOOT2_MAGIC == 920085129   \* 0x36d7_6289
MULTIBOOT_MAGIC == 732803074    \* 0x2bad_b002
Magics == {MULTIBOOT2_MAGIC, MULTIBOOT_MAGIC, 0}   \* 0: any other loader

ModuleNames == {"initramfs", "other"}
LoaderNames == {LoaderName, "a multiboot compliant bootloader", "no boot loader"}

(* The information structure: the memory map tag (NONE if absent), the    *)
(* module tags in order, the boot loader name tag (NONE if absent), and   *)
(* the area the structure itself occupies.                                *)
Modules == UNION {[1 .. n -> [name : ModuleNames, area : M!ModuleAreas]] : n \in 0 .. MaxModules}
InfoAreas == {a \in M!Areas : a.length = 1 /\ M!End(a) <= Top}

-----------------------------------------------------------------------------
(* set_boot_method: the magic number names the protocol.                 *)
SetBootMethodNoMultiboot(m) ==
  IF m = MULTIBOOT2_MAGIC THEN "Multiboot2" ELSE "Unknown"

SetBootMethod(m) ==
  CASE m = MULTIBOOT2_MAGIC -> "Multiboot2"
    [] m = MULTIBOOT_MAGIC  -> "Multiboot"
    [] OTHER                -> "Unknown"

(* get_bootloader_name with multiboot2's (and multiboot's) tag lookup.    *)
GetBootloaderNameNoDefault(m, i) ==
  IF m = "Unknown" THEN "no boot loader" ELSE i.loaderName

GetBootloaderName(m, i) ==
  IF m = "Unknown" THEN "no boot loader"
  ELSE IF i.loaderName # NONE THEN i.loaderName
  ELSE "a multiboot compliant bootloader"

(* get_initramfs_module_entry: the index of the first module tag named    *)
(* "initramfs", 0 if there is none (the panic "No initramfs found.").    *)
FirstModuleIgnoringName(mods) == IF Len(mods) > 0 THEN 1 ELSE 0

RECURSIVE FindInitramfs(_, _)
FindInitramfs(mods, k) ==
  IF k > Len(mods) THEN 0
  ELSE IF mods[k].name = "initramfs" THEN k
  ELSE FindInitramfs(mods, k + 1)

GetInitramfsModuleEntry(mods) == FindInitramfs(mods, 1)

(* boot::get_initramfs_area: dispatch on BOOT_METHOD to the protocol's    *)
(* lookup, which builds the area from the module tag's start and end;     *)
(* NONE stands for its panic (and for unimplemented!() with no loader).   *)
GetInitramfsArea(m, i) ==
  LET k == GetInitramfsModuleEntry(i.modules) IN
  IF m = "Unknown" \/ k = 0 THEN NONE ELSE i.modules[k].area

-----------------------------------------------------------------------------
(* What a boot loader passes: the kernel and every module (in the whole  *)
(* pages initramfs() rounds it to) lie within usable entries of the map,  *)
(* and the kernel, the modules and the structure do not overlap.  Modules *)
(* start on a page (AlignedModule): the header (boot/mod.rs 245, 266-274) *)
(* does not ask for it, and the unaligned case is the memmap_unaligned    *)
(* finding of MemoryMap.                                                   *)
InUsable(mm, x) == mm # NONE => \E a \in M!UsableAreas(mm) : M!IsContainedIn(x, a)

ModulesPlaced(mm, mods) ==
  LET pages == [j \in DOMAIN mods |-> M!Initramfs(mods[j].area)] IN
  /\ \A j \in DOMAIN mods : InUsable(mm, pages[j]) /\ M!Disjoint(pages[j], kernel)
  /\ \A j, l \in DOMAIN mods : j # l => M!Disjoint(pages[j], pages[l])

Init ==
  /\ magic \in Magics
  /\ kernel \in M!KernelAreas
  /\ \E mm \in M!RawMaps \cup {NONE} :
       /\ InUsable(mm, kernel)
       /\ \E mods \in Modules :
            /\ ModulesPlaced(mm, mods)
            /\ \E at \in InfoAreas, ln \in {LoaderName, NONE} :
                 /\ M!Disjoint(at, kernel)
                 /\ \A j \in DOMAIN mods : M!Disjoint(at, mods[j].area)
                 /\ info = [mmap |-> mm, modules |-> mods, loaderName |-> ln, at |-> at]
  /\ bootMethod = "Unknown"
  /\ bootInfo = NONE
  /\ pc = "init"
  /\ name = NONE
  /\ it = NONE
  /\ printed = <<>>

(* boot::init: set_boot_method, then multiboot2::init (BOOT_INFO.call_once *)
(* loads the structure) or multiboot::init; unimplemented!() otherwise.   *)
BootInit ==
  /\ pc = "init"
  /\ bootMethod' = SetBootMethod(magic)
  /\ IF bootMethod' = "Unknown"
       THEN pc' = "panic" /\ UNCHANGED bootInfo
       ELSE pc' = "name" /\ bootInfo' = info
  /\ UNCHANGED <<magic, info, kernel, name, it, printed>>

(* io::init and the println of the boot loader's name.                    *)
PrintBootloaderName ==
  /\ pc = "name"
  /\ name' = GetBootloaderName(bootMethod, bootInfo)
  /\ pc' = "map"
  /\ UNCHANGED <<magic, info, kernel, bootMethod, bootInfo, it, printed>>

(* boot::get_memory_map: the protocol's iterator is built first           *)
(* (memory_map_tag().expect(...)), then MemoryMapIterator::new takes the  *)
(* kernel area and initramfs(), which looks the module up and panics if   *)
(* there is none.                                                          *)
GetMemoryMap ==
  LET area == GetInitramfsArea(bootMethod, bootInfo) IN
  /\ pc = "map"
  /\ IF bootInfo.mmap = NONE \/ area = NONE
       THEN pc' = "panic" /\ UNCHANGED it
       ELSE /\ it' = M!NewIterator(bootInfo.mmap, kernel, M!Initramfs(area))
            /\ pc' = "print"
  /\ UNCHANGED <<magic, info, kernel, bootMethod, bootInfo, name, printed>>

(* One iteration of main's for loop: next(), and the println of the area; *)
(* on None main enters its final loop.                                     *)
PrintEntry ==
  LET r == M!NextArea(it) IN
  /\ pc = "print"
  /\ it' = r.st
  /\ IF r.out = NONE
       THEN pc' = "halt" /\ UNCHANGED printed
       ELSE printed' = Append(printed, r.out) /\ UNCHANGED pc
  /\ UNCHANGED <<magic, info, kernel, bootMethod, bootInfo, name>>

Next == BootInit \/ PrintBootloaderName \/ GetMemoryMap \/ PrintEntry

(* main runs alone on the boot CPU; nothing else is scheduled.  It stops  *)
(* in its final loop {} or in panic_fmt's.                                 *)
Spec == Init /\ [][Next]_vars /\ WF_vars(Next)

-----------------------------------------------------------------------------
BootTypeOK ==
  /\ bootMethod \in {"Unknown", "Multiboot", "Multiboot2"}
  /\ bootInfo \in {NONE, info}
  /\ pc \in {"init", "name", "map", "print", "halt", "panic"}
  /\ name \in LoaderNames \cup {NONE}
  /\ pc \in {"map", "print", "halt"} => name \in LoaderNames
  /\ printed \in Seq(M!Areas)

(* Reference: the initramfs the loader passed is the first module tag     *)
(* named "initramfs" (spec 6); its memory is the whole pages its bytes    *)
(* touch (none for an empty module).                                       *)
InitramfsTags == {j \in DOMAIN info.modules : info.modules[j].name = "initramfs"}
LoadedInitramfs ==
  info.modules[CHOOSE j \in InitramfsTags : \A l \in InitramfsTags : j <= l]
InitramfsPages ==
  IF InitramfsTags = {} THEN {} ELSE UNION {M!PageAlignDown(b) .. M!PageAlignDown(b) + PAGE - 1 : b \in M!Cells(LoadedInitramfs.area)}
FreeCells ==
  UNION {M!Cells(a) : a \in M!UsableAreas(info.mmap)} \ (M!Cells(kernel) \cup InitramfsPages)

(* Every area main prints as free memory is usable memory outside the    *)
(* kernel image and outside the initramfs module the boot loader loaded, *)
(* whatever other modules precede it: the filter is fed the module the    *)
(* tag lookup of multiboot2.rs finds.                                      *)
PrintedAreasFree ==
  \A i \in DOMAIN printed : M!Cells(printed[i]) \subseteq FreeCells

(* main prints non-empty areas in ascending address order, none          *)
(* overlapping another.                                                    *)
PrintedOrdered ==
  /\ \A i \in DOMAIN printed : printed[i].length > 0
  /\ \A i \in 1 .. Len(printed) - 1 : M!End(printed[i]) <= printed[i + 1].start

(* main panics only when the boot loader is unknown or its information   *)
(* lacks the memory map or the initramfs; otherwise it reaches its final  *)
(* loop having printed all the free memory.                                *)
BootUsable ==
  magic \in {MULTIBOOT2_MAGIC, MULTIBOOT_MAGIC} /\ info.mmap # NONE /\ InitramfsTags # {}
BootCompletes ==
  /\ [](pc = "panic" => ~BootUsable)
  /\ BootUsable ~> (pc = "halt" /\ M!CellsOfSeq(printed) = FreeCells)

(* A loader passes its magic number to main only after accepting the     *)
(* image's header for its protocol: whichever protocol main is entered   *)
(* with, the header MultibootHeader::new builds passes that protocol's    *)
(* checks (checksums computed in u32 at compile time, layout, tags).      *)
MultibootHeaderValid ==
  /\ magic = MULTIBOOT_MAGIC => Mb1Accepted(MultibootHeaderNew)
  /\ magic = MULTIBOOT2_MAGIC => Mb2Accepted(MultibootHeaderNew)

(* Spec 6: the information structure's "lifetime is the kernel's".  No   *)
(* area the filter hands out as free may hold a byte of it.               *)
BootInfoNotHandedOut ==
  \A i \in DOMAIN printed : M!Cells(printed[i]) \cap M!Cells(info.at) = {}

=============================================================================
