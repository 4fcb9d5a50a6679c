----------------------------- MODULE KernelBoot -----------------------------
(***************************************************************************)
(* emulate_kernel_boot of sel4.rs: what seL4 leaves of the physical memory *)
(* when it starts the initial task, computed by the tool in advance.  The  *)
(* kernel image and the initial task are taken out of normal memory, the   *)
(* kernel objects of the initial task are cut off the top of the highest   *)
(* region that holds them, the rest becomes untyped objects, and so does   *)
(* the part of the kernel that only runs at boot.                          *)
(*                                                                         *)
(* One unit of memory stands for the smallest kernel object; the object    *)
(* sizes are constants, in bits over that unit.                            *)
(***************************************************************************)
EXTENDS Regions, FiniteSetsExt

CONSTANTS
  PageBits,           \* ObjectType::SmallPage
  PageTableBits,      \* ObjectType::PageTable
  VSpaceBits,         \* ObjectType::VSpace
  RootCNodeBits,      \* init_cnode_bits + slot_bits
  FixedRootserver,    \* TCB, ASID pool and scheduling context of the initial task
  PagingIndexBits,    \* per paging level above the pages, the bits below its index
  MaxUntypedBits      \* 47 on AArch64, 38 on RISC-V

ASSUME BootAssumption ==
  /\ {PageBits, PageTableBits, VSpaceBits, RootCNodeBits, MaxUntypedBits} \subseteq Bits
  /\ FixedRootserver \in Nat
  /\ PagingIndexBits \in Seq(Bits)

PageSize == 2^PageBits

(***************************************************************************)
(* Objects of the initial task: its CNode, TCB, ASID pool, scheduling      *)
(* context, IPC buffer and boot information frames, VSpace and as many     *)
(* page tables as its virtual region spans.                                *)
(***************************************************************************)
NPaging(region, bits) ==
  (RoundUp(region.end, 2^bits) - RoundDown(region.base, 2^bits)) \div 2^bits
ArchNPaging(region) ==
  LET sum[i \in 0 .. Len(PagingIndexBits)] ==
        IF i = 0 THEN 0 ELSE sum[i - 1] + NPaging(region, PagingIndexBits[i])
  IN  sum[Len(PagingIndexBits)]

RootserverSize(region) ==
  2^RootCNodeBits + FixedRootserver + 2 * PageSize + 2^VSpaceBits
    + ArchNPaging(region) * 2^PageTableBits
RootserverAlignment == 2^(IF RootCNodeBits > VSpaceBits THEN RootCNodeBits ELSE VSpaceBits)

\* Memory once the kernel image is taken out (kernel_partial_boot).
InsertAll(rs) ==
  LET into[i \in 0 .. Len(rs)] ==
        IF i = 0 THEN <<>> ELSE InsertRegion(into[i - 1], rs[i].base, rs[i].end)
  IN  into[Len(rs)]
PartialBoot(normal, kernelImage) ==
  RemoveRegion(InsertAll(normal), kernelImage.base, kernelImage.end)

\* The place for the rootserver's objects in a region: at the top, rounded down.
RootserverStart(region, size) == RoundDown(region.end - size, RootserverAlignment)
RootserverFits(memory, size) ==
  {i \in DOMAIN memory : /\ memory[i].end >= size
                         /\ RootserverStart(memory[i], size) >= memory[i].base}

\* The IPC buffer and the boot information lie behind the image.
TaskVirtRegion(image) == Region(image.base, image.end + 2 * PageSize)
MemoryWithoutTask(normal, kernelImage, task) ==
  RemoveRegion(PartialBoot(normal, kernelImage), task.base, task.end)

\* The emulation panics when no region holds the rootserver's objects.
BootPossible(normal, kernelImage, task, image) ==
  Once(MemoryWithoutTask(normal, kernelImage, task), LAMBDA rs :
         RootserverFits(rs, RootserverSize(TaskVirtRegion(image)))) # {}

Untyped(r, device) == [base |-> r.base, bits |-> Lsb(Size(r)), device |-> device]
UntypedsIn(rs, device) == [i \in DOMAIN rs |-> Untyped(rs[i], device)]
UntypedsOf(memory, device) == Once(memory, LAMBDA rs : UntypedsIn(rs, device))

\* The rootserver's objects take the highest region that holds them.
TakeRootserver(rs, size) ==
  LET start == RootserverStart(rs[Max(RootserverFits(rs, size))], size)
  IN  RemoveRegion(rs, start, start + size)
WithoutRootserver(memory, size) == Once(memory, LAMBDA rs : TakeRootserver(rs, size))

(***************************************************************************)
(* The untyped objects in the order of their capabilities: devices, then   *)
(* the boot part of the kernel, then the rest of normal memory.            *)
(***************************************************************************)
EmulateKernelBoot(devices, normal, kernelImage, bootRegion, task, image) ==
  LET rest == WithoutRootserver(MemoryWithoutTask(normal, kernelImage, task),
                                RootserverSize(TaskVirtRegion(image)))
  IN  UntypedsOf(AllAlignedPowerOfTwoRegions(InsertAll(devices), MaxUntypedBits), TRUE)
      \o UntypedsOf(AlignedPowerOfTwoRegions(bootRegion, MaxUntypedBits)
                    \o AllAlignedPowerOfTwoRegions(rest, MaxUntypedBits), FALSE)
=============================================================================
