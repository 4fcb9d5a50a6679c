----------------------------- MODULE ImageBuild -----------------------------
(***************************************************************************)
(* The loop of main.rs that builds the image on ARM and RISC-V.  The       *)
(* physical address of a memory region that a program asks for (setvar     *)
(* region_paddr) has to be patched into the program, the program becomes   *)
(* part of the capDL specification, the specification part of the initial  *)
(* task, and only the size of the initial task tells which physical memory *)
(* is left.  So the tool packs the specification, emulates the boot of the *)
(* kernel, simulates the allocation, picks addresses for the regions that  *)
(* have none, and starts over until nothing had to be picked.              *)
(***************************************************************************)
EXTENDS KernelBoot, ObjectAllocation, TLC

CONSTANTS
  Systems,            \* systems to build: memory map, regions and kernel objects
  SpecSizes,          \* sizes a packed specification can have
  ElfSize,            \* the initialiser without the specification
  FrameDataSize,      \* embedded frame data
  HeadersPerUnit,     \* program headers that fit in one unit of memory
  MaxBuildIteration

\* Memory as the platform describes it: regions in any order, apart.
Memory(rs) ==
  /\ rs \in Seq([base : Nat, end : Nat])
  /\ \A i \in DOMAIN rs : rs[i].base < rs[i].end /\ rs[i].end < KernelWords
  /\ \A i, j \in DOMAIN rs : i # j => ~RangesOverlap(rs[i], rs[j])

MRKind == {"Specified", "ToolAllocated", "Unspecified"}
MRType == [kind : MRKind, pages : Nat \ {0}, bits : Bits, paddr : Nat \cup {NoPaddr}]

\* The kernel lies in normal memory and its boot part in the kernel; of the
\* memory regions those with an address in the description are apart, which
\* sdf.rs checks, and regions without pages are left out.
SystemAccepted(s) ==
  /\ Memory(s.devices \o s.normal)
  /\ s.devices \in Seq([base : Nat, end : Nat]) /\ s.normal \in Seq([base : Nat, end : Nat])
  /\ s.kernel \in [base : Nat, end : Nat] /\ s.boot \in [base : Nat, end : Nat]
  /\ Holding(InsertAll(s.normal), s.kernel.base, s.kernel.end) # {}
  /\ s.kernel.base <= s.boot.base /\ s.boot.base < s.boot.end /\ s.boot.end <= s.kernel.end
  /\ s.mrs \in Seq(MRType)
  /\ \A m \in DOMAIN s.mrs : s.mrs[m].paddr # NoPaddr <=> s.mrs[m].kind = "Specified"
  /\ \A m, n \in DOMAIN s.mrs :
       m # n /\ NoPaddr \notin {s.mrs[m].paddr, s.mrs[n].paddr} =>
         \/ s.mrs[m].paddr + s.mrs[m].pages * 2^s.mrs[m].bits <= s.mrs[n].paddr
         \/ s.mrs[n].paddr + s.mrs[n].pages * 2^s.mrs[n].bits <= s.mrs[m].paddr
  /\ s.others \in Seq([bits : Bits, paddr : {NoPaddr}])

ASSUME BuildAssumption ==
  /\ \A s \in Systems : SystemAccepted(s)
  /\ SpecSizes \subseteq Nat /\ ElfSize \in Nat /\ FrameDataSize \in Nat
  /\ HeadersPerUnit \in Nat \ {0}

VARIABLES
  sys,        \* the system being built
  stage,      \* "build", "place", "simulate", "pick", or how the tool ended
  iteration,
  mrAddr,     \* phys_addr of each memory region; NoPaddr is None
  packed,     \* mrAddr when the specification was last packed
  segments,   \* of the capDL initialiser's ELF
  headers,    \* its program_headers: [type, segment]
  task        \* physical region of the initial task

buildVars == <<sys, stage, iteration, mrAddr, packed, segments, headers, task>>
vars == <<sys, stage, iteration, mrAddr, packed, segments, headers, task,
          uts, objs, strict, apc, done, ut, cur, next, win, alloc>>

MRs == DOMAIN sys.mrs
MRSize(m) == sys.mrs[m].pages * 2^sys.mrs[m].bits
ToolAllocated(m) == sys.mrs[m].kind = "ToolAllocated"

-----------------------------------------------------------------------------
(***************************************************************************)
(* The initialiser's ELF.                                                  *)
(***************************************************************************)
SegmentEnd(s) == s.vaddr + s.size
HighestVaddr(ss) == Max({SegmentEnd(ss[i]) : i \in DOMAIN ss})
LowestVaddr(ss) == Min({ss[i].vaddr : i \in DOMAIN ss})
\* A page further on even when the last segment ends at a page.
NextVaddr(ss) == RoundDown(HighestVaddr(ss) + PageSize, PageSize)
ImageBound(ss) == Region(LowestVaddr(ss), RoundUp(HighestVaddr(ss), PageSize))

AddSegment(ss, size) == Append(ss, [vaddr |-> NextVaddr(ss), size |-> size])
AddHeaders(hs, segment, type) ==
  hs \o <<[type |-> "LOAD", segment |-> segment], [type |-> type, segment |-> segment]>>

\* add_spec: the last two segments of an earlier specification go, then the
\* specification, the frame data and the table of all program headers are
\* added, the table being as long as it will be when its own two are in.
KeptSegments == IF iteration = 0 THEN segments ELSE SubSeq(segments, 1, Len(segments) - 2)
AddSpec(specSize) ==
  LET s1 == AddSegment(KeptSegments, specSize)
      s2 == AddSegment(s1, FrameDataSize)
      h2 == AddHeaders(AddHeaders(headers, Len(s1), "SPEC"), Len(s2), "FRAME")
      s3 == AddSegment(s2, RoundUp(Len(h2) + 2, HeadersPerUnit) \div HeadersPerUnit)
  IN  /\ segments' = s3
      /\ headers' = AddHeaders(h2, Len(s3), "PHDR")

-----------------------------------------------------------------------------
(***************************************************************************)
(* The root objects of the specification in the order of build_capdl_spec: *)
(* a frame per page of every memory region, and everything else; those     *)
(* with an address first and by address, the others largest first.         *)
(***************************************************************************)
Frames(m) ==
  [i \in 1 .. sys.mrs[m].pages |->
     [bits  |-> sys.mrs[m].bits,
      paddr |-> IF mrAddr[m] = NoPaddr THEN NoPaddr
                ELSE mrAddr[m] + (i - 1) * 2^sys.mrs[m].bits]]
\* Mutant: objects with an address are ordered by size as well.
ObjectBeforeBySize(a, b) ==
  \/ a.paddr # NoPaddr /\ b.paddr = NoPaddr
  \/ (a.paddr = NoPaddr) = (b.paddr = NoPaddr) /\ a.bits > b.bits

ObjectBefore(a, b) ==
  IF a.paddr = NoPaddr \/ b.paddr = NoPaddr
  THEN \/ a.paddr # NoPaddr /\ b.paddr = NoPaddr
       \/ a.paddr = b.paddr /\ a.bits > b.bits
  ELSE a.paddr < b.paddr \/ (a.paddr = b.paddr /\ a.bits > b.bits)

Objects == FlattenSeq([m \in MRs |-> Frames(m)]) \o sys.others

\* The place of an object in the sorted list: behind those that come before
\* it, and behind those that are equal and stood before it already.
ComesBefore(os, i, j) ==
  ObjectBefore(os[i], os[j]) \/ (i < j /\ ~ObjectBefore(os[j], os[i]))
SortedPlaces(os) ==
  [j \in DOMAIN os |-> 1 + Cardinality({i \in DOMAIN os : ComesBefore(os, i, j)})]
InPlaces(os, place) ==
  [k \in DOMAIN os |-> os[CHOOSE i \in DOMAIN os : place[i] = k]]
Sorted(os) == Once(SortedPlaces(os), LAMBDA place : InPlaces(os, place))
RootObjects == Once(Objects, LAMBDA os : Sorted(os))

\* patch_symbols, build_capdl_spec and pack_spec_into_initial_task.
BuildSpec ==
  /\ stage = "build" /\ iteration < MaxBuildIteration
  /\ \E size \in SpecSizes : AddSpec(size)
  /\ packed' = mrAddr
  /\ stage' = "place"
  /\ UNCHANGED <<sys, iteration, mrAddr, task, allocVars>>

\* Every iteration wanted another one.
GiveUp ==
  /\ stage = "build" /\ iteration = MaxBuildIteration
  /\ stage' = "panic"
  /\ UNCHANGED <<sys, iteration, mrAddr, packed, segments, headers, task, allocVars>>

\* The initial task is put above the kernel, the boot is emulated and the
\* simulation of the allocation begins.
Image == ImageBound(segments)
FreeAtBoot == PartialBoot(sys.normal, sys.kernel)
TaskFits == FitsAbove(FreeAtBoot, Size(Image), sys.boot.end) # {}
TaskRegion ==
  Once(FreeAtBoot, LAMBDA free :
         LET base == AllocateFrom(free, Size(Image), sys.boot.end)
         IN  Region(base, base + Size(Image)))
PlaceInitialTask ==
  /\ stage = "place" /\ TaskFits
  /\ \E region \in {TaskRegion}, image \in {Image} :
       /\ task' = region
       /\ IF BootPossible(sys.normal, sys.kernel, region, image)
          THEN /\ \E us \in {EmulateKernelBoot(sys.devices, sys.normal, sys.kernel,
                                              sys.boot, region, image)},
                     os \in {RootObjects} :
                    Begin(us, os, iteration = 0)
               /\ stage' = "simulate"
          ELSE stage' = "panic" /\ UNCHANGED allocVars
  /\ UNCHANGED <<sys, iteration, mrAddr, packed, segments, headers>>

NoRoomForTask ==
  /\ stage = "place" /\ ~TaskFits
  /\ stage' = "exit"
  /\ UNCHANGED <<sys, iteration, mrAddr, packed, segments, headers, task, allocVars>>

Simulate ==
  /\ stage = "simulate" /\ AllocStep
  /\ UNCHANGED buildVars

\* A failure ends the tool in the first iteration; later it takes back the
\* addresses it picked.
Judge ==
  /\ stage = "simulate" /\ apc \in {"true", "false", "panic"}
  /\ stage' = IF apc = "panic" THEN "panic"
              ELSE IF apc = "false" /\ iteration = 0 THEN "exit"
              ELSE "pick"
  /\ mrAddr' = IF apc = "false" /\ iteration > 0
               THEN [m \in MRs |-> IF ToolAllocated(m) THEN NoPaddr ELSE mrAddr[m]]
               ELSE mrAddr
  /\ UNCHANGED <<sys, iteration, packed, segments, headers, task, allocVars>>

-----------------------------------------------------------------------------
(***************************************************************************)
(* Picking addresses.  The untyped objects of normal memory that hold a    *)
(* page, less the regions with an address in the system description.       *)
(***************************************************************************)
HoldsPage(u) == ~u.device /\ RoundDown(End(u), PageSize) > RoundUp(u.base, PageSize)
UntypedMemory ==
  LET into[i \in 0 .. Len(uts)] ==
        IF i = 0 THEN <<>>
        ELSE IF HoldsPage(uts[i]) THEN InsertRegion(into[i - 1], uts[i].base, End(uts[i]))
        ELSE into[i - 1]
  IN  into[Len(uts)]
TakeSpecified(memory, m) ==
  IF sys.mrs[m].kind = "Specified"
     /\ \E i \in DOMAIN memory : /\ memory[i].base <= mrAddr[m]
                                 /\ mrAddr[m] < memory[i].end
                                 /\ mrAddr[m] + MRSize(m) <= memory[i].end
  THEN RemoveRegion(memory, mrAddr[m], mrAddr[m] + MRSize(m))
  ELSE memory
AvailableUserMemory ==
  LET left[m \in 0 .. Len(sys.mrs)] ==
        IF m = 0 THEN UntypedMemory
        ELSE Once(left[m - 1], LAMBDA memory : TakeSpecified(memory, m))
  IN  left[Len(sys.mrs)]

\* One region after the other takes the first place that fits; with every
\* one there is the memory left and the addresses given, or a failure.
PickOne(acc, m) ==
  IF acc.failed \/ ~ToolAllocated(m) \/ mrAddr[m] # NoPaddr THEN acc
  ELSE IF FitsAligned(acc.memory, MRSize(m), 2^sys.mrs[m].bits) = {}
  THEN [acc EXCEPT !.failed = TRUE]
  ELSE LET base == Allocate(acc.memory, MRSize(m), 2^sys.mrs[m].bits)
       IN  [acc EXCEPT !.memory = RemoveRegion(@, base, base + MRSize(m)),
                       !.addr[m] = base]
Picked ==
  LET upTo[m \in 0 .. Len(sys.mrs)] ==
        IF m = 0 THEN [memory |-> AvailableUserMemory, addr |-> mrAddr, failed |-> FALSE]
        ELSE Once(upTo[m - 1], LAMBDA acc : PickOne(acc, m))
  IN  upTo[Len(sys.mrs)]

NeedRefinement == \E m \in MRs : ToolAllocated(m) /\ mrAddr[m] = NoPaddr

\* Mutant: the addresses are picked but the specification is not packed again.
PickAddressesAtEnd ==
  /\ stage = "pick" /\ NeedRefinement
  /\ ~Picked.failed
  /\ mrAddr' = Picked.addr
  /\ iteration' = iteration + 1
  /\ UNCHANGED <<sys, stage, packed, segments, headers, task, allocVars>>

PickAddresses ==
  /\ stage = "pick" /\ NeedRefinement
  /\ IF Picked.failed
     THEN stage' = "exit" /\ UNCHANGED <<mrAddr, iteration>>
     ELSE /\ mrAddr' = Picked.addr
          /\ iteration' = iteration + 1
          /\ stage' = "build"
  /\ UNCHANGED <<sys, packed, segments, headers, task, allocVars>>

WriteImage ==
  /\ stage = "pick" /\ ~NeedRefinement
  /\ stage' = "written"
  /\ UNCHANGED <<sys, iteration, mrAddr, packed, segments, headers, task, allocVars>>

-----------------------------------------------------------------------------
Init ==
  /\ sys \in Systems
  /\ stage = "build" /\ iteration = 0
  /\ mrAddr = [m \in DOMAIN sys.mrs |-> sys.mrs[m].paddr]
  /\ packed = <<>>
  /\ segments = <<[vaddr |-> 0, size |-> ElfSize]>>
  /\ headers = <<[type |-> "LOAD", segment |-> 1]>>
  /\ task = Region(0, 0)
  /\ uts = <<>> /\ objs = <<>> /\ strict = TRUE
  /\ apc = "idle" /\ done = {} /\ ut = 0 /\ cur = 0 /\ next = 1
  /\ win = [b \in Bits |-> [start |-> 0, end |-> 0]]
  /\ alloc = <<>>

Next ==
  \/ BuildSpec \/ GiveUp
  \/ PlaceInitialTask \/ NoRoomForTask
  \/ Simulate \/ Judge
  \/ PickAddresses \/ WriteImage

Spec == Init /\ [][Next]_vars /\ WF_vars(Next)

-----------------------------------------------------------------------------
(***************************************************************************)
(* Correctness.                                                            *)
(***************************************************************************)

\* What the simulation relies on (allocation.rs: "Assumes that the spec
\* objects are sorted by paddr, then by size") and the tool has to
\* arrange: the emulated untyped objects and the objects with an address
\* do not overlap, whatever was picked, and the objects are in order.
QuestionSound == stage = "simulate" => WellFormed(uts, objs)

\* The simulation keeps what Placement promises, in every iteration.
Promise == INSTANCE Placement WITH
  memory <- uts, wanted <- objs,
  placed <- [o \in DOMAIN alloc |-> alloc[o].paddr],
  answer <- IF apc \in {"true", "false", "panic"} THEN apc ELSE "none"
PlacementKept == Promise!PlacementSpec

\* The tool gives up in the middle only when it went on with an address
\* that is not free any more, or has refined too often, or finds no place
\* for the kernel objects of the initial task.
PanicExplained ==
  stage = "panic" =>
    \/ iteration > 0 /\ apc = "panic" /\ ~PhysAddrsOk(uts, objs)
    \/ iteration = MaxBuildIteration
    \/ ~BootPossible(sys.normal, sys.kernel, task, Image)

MRRegion(m) == Region(mrAddr[m], mrAddr[m] + MRSize(m))

\* main.rs: "Then take away any memory ranges occupied by Memory Regions with
\* a paddr specified in SDF."  A region that insert_region() left in several
\* pieces is taken from none of them.
SpecifiedTakenAway ==
  stage = "pick" =>
    \E memory \in {AvailableUserMemory} :
      \A m \in MRs : sys.mrs[m].kind = "Specified" =>
        \A i \in DOMAIN memory : ~RangesOverlap(memory[i], MRRegion(m))

\* An image that is written keeps what was patched into the programs: the
\* addresses of the regions are the ones packed into its specification, those
\* the tool picked are aligned to their pages, and no two regions share memory.
PickedAligned ==
  \A m \in MRs : ToolAllocated(m) => mrAddr[m] % 2^sys.mrs[m].bits = 0
RegionsApart ==
  \A m, n \in MRs : m # n /\ NoPaddr \notin {mrAddr[m], mrAddr[n]} =>
                    ~RangesOverlap(MRRegion(m), MRRegion(n))
AddressesKept ==
  stage = "written" => packed = mrAddr /\ PickedAligned /\ RegionsApart

\* main.rs:424-426: "This allow us to sanity check that: [...] 2. All frames
\* with a physical attached reside in legal memory", and main.rs:501-502: "if
\* the simulation fail, we need to pick another address".  So when an address
\* cannot be had the answer of the simulation is "no"; it is neither "yes" nor
\* the end of the tool.
FramesChecked ==
  stage \in {"simulate", "written"} /\ apc \in {"true", "panic"} => PhysAddrsOk(uts, objs)

\* The tool always comes to an end, one way or the other.
BuildEnds == <>(stage \in {"written", "exit", "panic"})
=============================================================================
