------------------------------ MODULE Regions ------------------------------
(***************************************************************************)
(* Physical memory as the tool keeps it: DisjointMemoryRegion of lib.rs, a *)
(* sorted vector of regions that do not overlap, with first-fit            *)
(* allocation, and the cutting of a region into naturally aligned powers   *)
(* of two, which is how the kernel makes untyped objects of it.            *)
(*                                                                         *)
(* A region is a record of its first address and of the first address      *)
(* behind it.  Kernel virtual addresses are words: they wrap around.       *)
(***************************************************************************)
EXTENDS Words, SequencesExt

CONSTANT VirtualBase   \* kernel virtual address of physical address 0

KernelWords == 2^WordSize

ASSUME RegionsAssumption == VirtualBase \in 0 .. KernelWords - 1

Region(base, end) == [base |-> base, end |-> end]
Size(r) == r.end - r.base
Addresses(r) == r.base .. r.end - 1
Covered(rs) == UNION {Addresses(rs[i]) : i \in DOMAIN rs}

RoundDown(n, x) == n - (n % x)
RoundUp(n, x) == IF n % x = 0 THEN n ELSE n + x - (n % x)
RangesOverlap(a, b) == ~(a.end <= b.base \/ b.end <= a.base)

\* Op(v), with v evaluated once: deciding whether an action is enabled, TLC
\* evaluates an argument again at every use.
Once(v, Op(_)) == CHOOSE y \in {Op(x) : x \in {v}} : TRUE

\* What check() asserts after every change.
Disjoint(rs) == \A i \in 1 .. Len(rs) - 1 : rs[i].end <= rs[i + 1].base

(***************************************************************************)
(* insert_region.  A new region is merged with the one that starts where   *)
(* it ends, and with the last one when it lies behind all of them; in      *)
(* between it is compared with the end of the region AFTER the place of    *)
(* insertion, which no region before it can have.                          *)
(***************************************************************************)
InsertInto(rs, base, end) ==
  LET i == CHOOSE k \in 1 .. Len(rs) + 1 :
             /\ k <= Len(rs) => end <= rs[k].base
             /\ \A j \in 1 .. k - 1 : end > rs[j].base
  IN  CASE i <= Len(rs) /\ rs[i].base = end -> [rs EXCEPT ![i].base = base]
        [] i = Len(rs) + 1 /\ rs # <<>> /\ rs[Len(rs)].end = base
                                         -> [rs EXCEPT ![Len(rs)].end = end]
        [] i <= Len(rs) /\ rs[i].end = base -> [rs EXCEPT ![i].end = end]
        [] OTHER -> InsertAt(rs, i, Region(base, end))
InsertRegion(memory, base, end) == Once(memory, LAMBDA rs : InsertInto(rs, base, end))

\* Indices of the regions that cover [base, end): remove_region takes the
\* first one and panics when there is none.
Holding(rs, base, end) ==
  {i \in DOMAIN rs : base >= rs[i].base /\ end <= rs[i].end}

RemoveFrom(rs, base, end) ==
  LET i == CHOOSE k \in Holding(rs, base, end) :
             \A j \in Holding(rs, base, end) : k <= j
      before == SubSeq(rs, 1, i - 1)
      after  == SubSeq(rs, i + 1, Len(rs))
      low    == IF rs[i].base = base THEN <<>> ELSE <<Region(rs[i].base, base)>>
      high   == IF rs[i].end = end THEN <<>> ELSE <<Region(end, rs[i].end)>>
  IN  before \o low \o high \o after
RemoveRegion(memory, base, end) == Once(memory, LAMBDA rs : RemoveFrom(rs, base, end))

\* Regions that can take size addresses from a multiple of align on, and
\* the lowest such place of the first of them (allocate).
FitsAligned(rs, size, align) ==
  {i \in DOMAIN rs : /\ size <= Size(rs[i])
                     /\ RoundUp(rs[i].base, align) + size <= rs[i].end}
Allocate(rs, size, align) ==
  RoundUp(rs[CHOOSE i \in FitsAligned(rs, size, align) :
               \A j \in FitsAligned(rs, size, align) : i <= j].base, align)

\* The same for a whole region at or above a lower bound (allocate_from).
FitsAbove(rs, size, lower) ==
  {i \in DOMAIN rs : size <= Size(rs[i]) /\ rs[i].base >= lower}
AllocateFrom(rs, size, lower) ==
  rs[CHOOSE i \in FitsAbove(rs, size, lower) :
       \A j \in FitsAbove(rs, size, lower) : i <= j].base

-----------------------------------------------------------------------------
\* Highest set bit of n > 0; number of zero bits below the lowest set one.
Msb(n) == CHOOSE b \in Bits : 2^b <= n /\ n < 2^(b + 1)
Lsb(n) == CHOOSE b \in Bits : n % 2^b = 0 /\ n % 2^(b + 1) # 0

Lower(a, b) == IF a <= b THEN a ELSE b

(***************************************************************************)
(* aligned_power_of_two_regions: from the bottom up, the largest block     *)
(* that the rest, the alignment of its KERNEL VIRTUAL address and maxBits  *)
(* allow.  cut[n] cuts the last n addresses of the region; a kernel        *)
(* address of 0, reached when the window wraps around, is aligned to       *)
(* everything.                                                             *)
(***************************************************************************)
PaddrToKernelVaddr(paddr) == (paddr + VirtualBase) % KernelWords
KernelVaddrToPaddr(vaddr) == (vaddr - VirtualBase) % KernelWords

BlockSize(base, n, maxBits) ==
  LET fit == IF base = 0 THEN Msb(n) ELSE Lower(Msb(n), Lsb(base))
  IN  2^Lower(fit, maxBits)

AlignedPowerOfTwoRegions(r, maxBits) ==
  LET end == PaddrToKernelVaddr(r.end)
      size == (end - PaddrToKernelVaddr(r.base)) % KernelWords
      cut[n \in 0 .. size] ==
        IF n = 0 THEN <<>>
        ELSE LET base == (end - n) % KernelWords
                 sz   == BlockSize(base, n, maxBits)
             IN  <<Region(KernelVaddrToPaddr(base),
                          KernelVaddrToPaddr((base + sz) % KernelWords))>>
                 \o cut[n - sz]
  IN  cut[size]

BlocksOf(rs, maxBits) ==
  FlattenSeq([i \in DOMAIN rs |-> AlignedPowerOfTwoRegions(rs[i], maxBits)])
AllAlignedPowerOfTwoRegions(memory, maxBits) ==
  Once(memory, LAMBDA rs : BlocksOf(rs, maxBits))
=============================================================================
