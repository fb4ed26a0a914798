--------------------------- MODULE MultibootHeader ---------------------------
(***************************************************************************)
(* The multiboot header the kernel image carries (kernel/src/boot/mod.rs  *)
(* 210-277): a protocol-1 header followed by a protocol-2 header, both    *)
(* built by the const fn MultibootHeader::new.  Values are the u32 fields *)
(* the compiler lays out; offsets and sizes follow repr(C, packed) and     *)
(* repr(C, align(8)).  A boot loader uses a header only if it passes the  *)
(* checks its protocol prescribes, and only then passes its magic number  *)
(* to main.                                                                *)
(***************************************************************************)
EXTENDS Integers, Bitwise

(* A u32 is held as its two 16-bit halves, since TLC's integers stop at  *)
(* 2^31.  CE marks a compile error: a const expression leaving u32.       *)
W == 65536
U32(h, l) == [hi |-> h, lo |-> l]
U32_MAX == U32(W - 1, W - 1)
CE == U32(-1, -1)

(* Checked u32 arithmetic of const evaluation.                            *)
ConstAdd(a, b) ==
  LET hi == a.hi + b.hi + (a.lo + b.lo) \div W IN
  IF a = CE \/ hi >= W THEN CE ELSE U32(hi, (a.lo + b.lo) % W)
ConstSub(a, b) ==
  LET borrow == IF a.lo < b.lo THEN 1 ELSE 0
      hi == a.hi - b.hi - borrow IN
  IF a = CE \/ hi < 0 THEN CE ELSE U32(hi, a.lo - b.lo + borrow * W)

(* Wrapping u32 addition, as a loader sums the header fields.             *)
WrapAdd(a, b) ==
  U32((a.hi + b.hi + (a.lo + b.lo) \div W) % W, (a.lo + b.lo) % W)

(* Multiboot1 and Multiboot2 are repr(C, packed): their sizes are the sum *)
(* of their fields, twelve u32 and four u32, two u16 and a u32.            *)
Multiboot1Size == 12 * 4
Multiboot2Size == 4 * 4 + 2 + 2 + 4

MB_MAGIC == U32(7085, 45058)      \* 0x1BAD_B002
MB_FLAGS == U32(0, 0)
MB2_MAGIC == U32(59474, 20694)    \* 0xE852_50D6
MB2_SIZE == U32(0, Multiboot2Size)

(* u32::max_value() - MAGIC - FLAGS/SIZE + 1, evaluated left to right.    *)
Mb1Checksum == ConstAdd(ConstSub(ConstSub(U32_MAX, MB_MAGIC), MB_FLAGS), U32(0, 1))

Mb2ChecksumNoIncrement == ConstSub(ConstSub(U32_MAX, MB2_MAGIC), MB2_SIZE)

Mb2Checksum == ConstAdd(ConstSub(ConstSub(U32_MAX, MB2_MAGIC), MB2_SIZE), U32(0, 1))

(* MultibootHeader::new.  mb1 is at offset 0, mb2 right after it (packed  *)
(* structs have alignment 1), and the whole header is aligned to 8.       *)
MultibootHeaderNew ==
  [mb1 |-> [magic |-> MB_MAGIC, flags |-> MB_FLAGS, checksum |-> Mb1Checksum,
            header_addr |-> 0, load_addr |-> 0, load_end_addr |-> 0,
            bss_end_addr |-> 0, entry_addr |-> 0,
            mode_type |-> 0, width |-> 0, height |-> 0, depth |-> 0],
   mb2 |-> [magic |-> MB2_MAGIC, arch |-> U32(0, 0), header_length |-> MB2_SIZE,
            checksum |-> Mb2Checksum,
            end_tag_type |-> 0, end_tag_flags |-> 0, end_tag_size |-> 8],
   offset1 |-> 0, offset2 |-> Multiboot1Size, align |-> 8]

(* What a protocol-1 loader checks: the magic, magic + flags + checksum   *)
(* = 0 in u32, a 4-aligned header, and no required flag (bits 0-15)      *)
(* beyond the three a loader knows (module alignment, memory information, *)
(* video mode).                                                            *)
Mb1Accepted(h) ==
  /\ h.mb1.magic = MB_MAGIC
  /\ h.mb1.checksum # CE
  /\ WrapAdd(WrapAdd(h.mb1.magic, h.mb1.flags), h.mb1.checksum) = U32(0, 0)
  /\ (h.offset1 % 4 = 0 /\ h.align % 4 = 0)
  /\ h.mb1.flags.hi = 0 /\ h.mb1.flags.lo & 65528 = 0

(* What a protocol-2 loader checks: the magic, the architecture (0:       *)
(* i386), magic + arch + header_length + checksum = 0 in u32, an          *)
(* 8-aligned header, and a tag list inside header_length ending in the    *)
(* end tag (type 0, size 8).                                               *)
Mb2Accepted(h) ==
  /\ h.mb2.magic = MB2_MAGIC
  /\ h.mb2.arch = U32(0, 0)
  /\ h.mb2.checksum # CE
  /\ WrapAdd(WrapAdd(WrapAdd(h.mb2.magic, h.mb2.arch), h.mb2.header_length),
             h.mb2.checksum) = U32(0, 0)
  /\ (h.offset2 % 8 = 0 /\ h.align % 8 = 0)
  /\ h.mb2.header_length = U32(0, 16 + h.mb2.end_tag_size)
  /\ h.mb2.end_tag_type = 0 /\ h.mb2.end_tag_size = 8

=============================================================================
