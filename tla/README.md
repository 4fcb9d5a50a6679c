# TLA+ models of seL4 Microkit

Microkit turns a system description (an XML file) into an image that boots seL4
and a fixed set of *protection domains* (PDs): programs that react to
notifications, protected procedure calls and faults. The parts written here are
small, but each relies on what another one did earlier, on another CPU or at
build time. These modules model those parts, TLC checks them on small systems,
and TLAPS proves the invariants that matter most for systems of every size.

Paths are relative to `src/`. PDs are counted from 1 here and from 0 in the
tool; `tool/` stands for `tool/microkit/src/`.

## 1. The system

```
  system.xml --sdf.rs--> SystemDescription --builder.rs--> capDL spec <--+ again, until
                              |                                |         | every address
                              +--symbols.rs--> words in each PD's ELF    | is known
                                                               v         |
             emulated boot (sel4.rs), simulated allocation, addresses (main.rs)
                                                               |
                                                  loader.rs: the image
                                                               v
   loader (image, all CPUs) --> seL4 --> initialiser --> PDs (libmicrokit) + monitor
```

| Component | State it keeps | Operations | What is hard | What makes it correct |
|---|---|---|---|---|
| libmicrokit, event loop (`libmicrokit/src/main.c`, `microkit.h`) | `have_reply`, `microkit_have_signal`, `microkit_signal_cap`, the badge being walked; in the kernel: notification word, reply object, thread state | `init`, `notified`, `protected`, `fault`, the calls of `microkit.h`, one combined system call per turn | every system call combines three things (send, reply, receive) chosen by two flags; interrupts masked at start; PDs restarted at any instruction | every caller answered exactly once, no interrupt masked for ever, deferred calls done once and never replaced |
| libmicrokit, x86 vCPU (`CONFIG_VTX`) | `microkit_x86_vcpu_state`: on or off, three registers of the guest | resume the guest instead of receiving | while the guest runs only a notification gets through; two ways back from one call | nobody is forgotten while the guest runs, the guest goes on where it was |
| monitor (`monitor/src/main.c`) | one reply object; badge and label in hand | take a fault, make a PD passive | requests are non-blocking sends, the monitor is busy while it prints | no request or fault lost, no faulting PD resumed |
| loader (`loader/src`) | `print_lock`, stack tops, spin-table data, `cpu_mpidrs` | move itself, copy regions, start CPUs, switch hart, enable MMU, jump | shared stacks and ids, three start methods, refusal; moving over itself | CPUs apart, all in the kernel or an error; everything at its address |
| tool: `sdf.rs` | tree and list of PDs, ids seen | parse, flatten, validate | checks spread over elements, PDs and channels; others rely on them without looking | accepts only systems the builder and the runtime can handle |
| tool: `capdl/builder.rs`, `irq.rs`, `util.rs` | the capDL objects, shadow CSpaces, the monitor's vCPU count | steps 1-6 of `build_capdl_spec` | slots and badges agreed with C code by convention; objects renumbered by name after sorting | each event reaches the right entry point with the right number; references survive the sorting |
| tool: `capdl/memory.rs` | page-table tree among the objects | map pages of two sizes | shared and overlapping tables | an address space is a flat map in which nothing is mapped twice |
| tool: `symbols.rs` | - | write masks, names and addresses into ELF files | the same channels looked at a second time; addresses that change later | masks agree with capabilities, addresses with the specification |
| tool: `sel4.rs`, `lib.rs` | regions of free memory | emulate the kernel's boot | alignment of kernel virtual addresses, cutting from the top | the untyped objects do not overlap |
| tool: `capdl/allocation.rs` | untyped objects, a watermark, windows of objects by size | simulate the initialiser's allocation | objects with and without an address mixed, gaps filled | an answer "yes" is a placement of all objects |
| tool: `main.rs`, `initialiser.rs` | addresses picked, segments of the initialiser | build, pack, emulate, simulate, pick, try again | a fixpoint: picked addresses change the image that decides which memory is free | comes to an end; what is written is consistent |
| tool: `loader.rs` | regions, boot page tables | lay the image out | overlap, tables in units of 2 MiB | the image unpacks and the tables lead to it |
| tool: `elf.rs`, `uimage.rs`, `report.rs`, `viper.rs`, ... | - | encode formats | - | sequential encoding, left out except for the layout of segments |

Interactions: `sdf.rs` hands its list to `builder.rs` and `symbols.rs`; these two
agree with libmicrokit and the monitor through slot numbers, badge bits and
symbols; PDs and the monitor talk through seL4 endpoints, notifications and reply
objects; the CPUs of the loader share words of memory; `main.rs` passes the
specification, the image and the memory map round in its loop; `loader.rs` and
the loader share the layout of the image.

`PROJECT.json` lists for every place where this can go wrong the properties that
would show it (`hazards`).

## 2. The modules

| Module | Models | Extended by |
|---|---|---|
| `PdRuntime` | the event loop, the libmicrokit calls and the kernel objects they act on | `MCPipeline`, `MCDuo`, `MCFamily`, `PdRuntime_proofs` |
| `VcpuLoop` | the event loop of a PD with a vCPU on x86-64 | `MCVcpu`, `VcpuLoop_proofs` |
| `PassiveHandshake` | PDs becoming passive, the monitor, faults of PDs without a parent, scheduling contexts | `MCPassive`, `PassiveHandshake_proofs` |
| `LoaderBoot` | the CPUs in the loader | `LoaderRun` |
| `LoaderImage` | the image, its way through memory, the boot page tables | `LoaderRun`, `LoaderImage_proofs` |
| `LoaderRun` | the loader as a whole | `MCLoaderRun`, `LoaderBoot_proofs` |
| `SystemDescription` | which systems `sdf.rs` accepts (pure operators) | `CapLayout` |
| `CapLayout` | what `builder.rs` and `symbols.rs` make of an accepted system, and how the run-time programs read it | `MCSystem`, `CapLayout_proofs` |
| `PageMap` | page tables as objects that refer to each other (pure operators) | `MemoryDescription` |
| `MemoryDescription` | regions, maps and stacks that `sdf.rs` accepts (pure operators) | `MemoryBuild` |
| `MemoryBuild` | frames, address spaces, sorting and renumbering of `builder.rs` | `MCMemory` |
| `AddressSpace` | abstract: address spaces as partial functions | implemented by `MemoryBuild` |
| `Words` | the machine word and its powers of two (constants and their assumptions) | `Regions`, `ObjectAllocation` |
| `Regions` | `DisjointMemoryRegion`, cutting memory into powers of two (pure operators) | `KernelBoot` |
| `KernelBoot` | the emulated boot of the kernel (pure operators) | `ImageBuild` |
| `ObjectAllocation` | the simulated allocation, step by step | `ImageBuild` |
| `ImageBuild` | the loop of `main.rs` around the two | `MCImage`, `MCSpanning`, `MCGrowing`, `ImageBuild_proofs` |
| `Placement` | abstract: what the simulation promises | implemented by `ImageBuild` |
| `Lemmas` | quotients, sums and concatenations of sequences, sorting by places, induction on the natural numbers (proved) | `LoaderImage_proofs`, `ImageBuild_proofs` |

Compositions:

* `SystemDescription` and `CapLayout`: the builder starts from any accepted
  description. `PdRuntime` takes the outcome as its assumptions:
  `EndsAssumption` and `IrqsAssumption` are what `ChannelsAccepted` enforces, and
  that a channel end reaches "the other end with its number" is `ChannelsWork`.
* `MemoryDescription`, `PageMap` and `MemoryBuild`, likewise. `MapsFlat` shows that
  `MemoryBuild` implements `AddressSpace`.
* `ImageBuild` runs `KernelBoot` and `ObjectAllocation` in turn, each on what the
  other left. `PlacementKept` shows that it implements `Placement`, iteration by
  iteration.
* `LoaderRun` puts `LoaderImage` and `LoaderBoot` together: CPU 0 moves and unpacks the
  image, starts the others, and enables its MMU. It implements both (proved), so that
  each can be proved about alone.
* `VcpuLoop` composes the loop with the rule of `sdf.rs` that keeps children and
  callers from a PD with a VM.

### PdRuntime

Per PD: `loc` is the place in the code (an entry point, `"ack"` in the loop over
`irqs_to_ack`, `"top"` before the system call, `"recv"` in it), `cur` and `todo`
the channel handled and the badge bits left, `haveReply`, `haveSignal` and
`signalCap` the variables of the same names in `main.c`. The kernel's side is
`thread`, `dest`, `replyTo` (the thread linked to the PD's one reply object),
`ntfn`, `armed` and `line`. Two history variables, `owes` and `unsent`, remember
which interrupts are to be acknowledged and which deferred calls to be made.

| Code | Actions |
|---|---|
| `main()`, acknowledgement of all interrupts | `InitReturn`, `AckIrq` |
| `seL4_ReplyRecv`, `seL4_NBSendRecv`, `seL4_Recv` of `handler_loop()` | `ReplyRecv` (with `DeferredFlush`), `NBSendRecv`, `Recv` |
| what the kernel delivers | `ReceiveNotification`, `ReceiveCall`, `ReceiveFault` |
| returns from the entry points | `NotifiedReturn`, `ProtectedReturn`, `FaultReturn` |
| `microkit_notify`, `_irq_ack`, `_ppcall`, `_deferred_*`, `_pd_restart`, `_pd_stop` | `Notify`, `IrqAck`, `PPCall`, `DeferredNotify`, `DeferredIrqAck`, `PdRestart`, `PdStop` |
| a fault of user code, a device | `Fault`, `IrqAssert`, `IrqFire` |

User code is an environment: in an entry point it may make any call its
capabilities allow, in any order. `DeferUnit` limits deferred calls: one per
wakeup (what the code supports) or one per entry point (what the manual says).
The kernel is not part of the repository; its objects are modelled from how the
code uses them, and marked external in the map. seL4's delivery to a blocked
receiver is a step of its own here, which adds behaviours and removes none.

### VcpuLoop

The same loop compiled with `CONFIG_VTX`: `VMEnter` (with the deferred flush),
`ReplyRecv` and `Recv` are the system calls of a round, `GuestInterrupted` and
`GuestExit` the two ways back from the guest, `VcpuOn`, `VcpuOff`, `WriteVmcs` and
`Defer` what user code does to the variables of the loop. One instruction pointer
stands for the three registers that `x86_vcpu_resume()` carries. `due` is a history
variable: where the guest is to go on.

### PassiveHandshake

The end of `main()` sets the request to the monitor (`InitReturn`), the first
`seL4_NBSendRecv` sends it (`Ask`) if the monitor is in `seL4_Recv`, the monitor
binds the scheduling context to the notification (`MonitorBind`), and the PD then
runs only on contexts notifications and callers lend it (`Wake`, `ReturnSC`).
`Core` says who can run while the monitor does: it has the highest priority of
its core. Faults of PDs without a parent go to the same endpoint (`Fault`,
`MonitorFault`).

### LoaderBoot

One program counter per CPU. `Main` is CPU 0 in `main()`: it starts the others by
spin table (`StartBySpinTable`, `Release`) or by PSCI and SBI (`StartByFirmware`,
`StartRefused`), or finds the method unknown (`StartUnknown`). `Step` is any CPU
in its entry code, MMU setup and jump. `SwitchHart` and `StopHart` are a RISC-V
boot hart other than `FIRST_HART_ID`. `build` ranges over the start methods, with
and without `CONFIG_PRINTING`. Shared memory is sequentially consistent: the code
uses acquire, release and barriers for the words that are modelled.

### LoaderImage

Memory is a function from pages to what they hold: a page of the loader, the
header, a page of data, or nothing of interest. `WriteImage` is `Loader::new()` with
its checks, `Load` the board's own bootloader, `Relocate` the `memmove` of `crt0.S`
to the link address (all of the image, the payload behind the loader too),
`CopyRegion` one turn of `copy_data()`, `EnableMmu` and `JumpToKernel` the end. The
boot page tables are functions from indices to entries, computed as the tool
computes them, one written over another where the tool writes twice (`Over`);
`Translate` walks them as the processor does. A step of the loader
is possible only while its own pages are intact; otherwise it goes wild. The assertions
about the loader's own ELF file, as that its entry point is its first byte
(`loader.rs:457`), are left out.

### LoaderRun

A step is one of `LoaderImage`, one of `LoaderBoot`, or both at once. CPU 0 moves and
unpacks (`MoveAndCopy`) while its program counter in `LoaderBoot` is at `"main"`; `Magic`
is the check that decides whether it goes on or fails; `BeginLoop` needs that everything is
unpacked, and the steps of the loop (`LoopStep`) an intact loader; `EnableFirst` and
`JumpFirst` are steps of both. The other CPUs (`OtherCpu`) run the code CPU 0 has
moved, and read the header. The boot hart of RISC-V (`BootHartStep`) stops where the image
was put. `BuildsOf` says which builds of the loader there are for a board: those for
SBI on RISC-V, and those for a spin table where the tool maps one.

### SystemDescription and CapLayout

A system is a record of PDs and channels. `Accepted` is the conjunction of the
checks of `sdf.rs`, in its terms: the ids of one channel are compared with
those recorded before it, not with each other. `BuildPd`, `BuildChannel` and
`MapCaps` are steps 3, 4 and 5 of `build_capdl_spec`, one PD or channel each;
CNodes are sequences of entries, as in capDL, so that a slot filled twice shows.
`monitorVcpuIdx` is the builder's counter of the same name. `symbols.rs` runs before
the builder and panics when there are more vCPUs than its table of names holds;
`NamesFit` has this in `Init`. `WellTyped` is what any list has that `sdf.rs` hands on: names
are resolved and parents come before their children.
A badge is the set of its bits. `Dispatch` decodes it the way `handler_loop()`
does, `MonitorKnows` the way `monitor()` does.

### MemoryDescription, PageMap, MemoryBuild and AddressSpace

`Program` is the list of what `build_capdl_spec` does about memory for one
description, in its order: the monitor, the frames of all regions, then for each
PD its image, maps, IPC buffer, stack and VM. A step does the next thing:
`AddPage`, `MapFrame`, `CheckMap` and so on, and `SortObjects` is step 6 with its two
maps from names to ids. `MapPage` walks and extends the tables exactly as
`map_page()` does. A name is the sequence of the words that the program joins with
underscores, so two names can be equal although nobody gave the same one twice.
Each object has a `tag` that the code does not have: it tells what an object
was before it was renumbered. `AddressSpace` has only the meaning of the tables.

### Regions, KernelBoot, ObjectAllocation, ImageBuild and Placement

`BuildSpec` packs a specification of some size into the initialiser's ELF,
`PlaceInitialTask` puts the result above the kernel, emulates the boot (an operator)
and asks the simulation, whose steps (`NextUntyped`, `Create`, `Skip`,
`CreatePinned`, `CloseUntyped`, ...) are the turns of its loops. `Judge` looks at the
answer, `PickAddresses` gives addresses to the regions that need one and starts over,
`WriteImage` ends. Sorting the root objects gives each the place behind those that come
before it (`SortedPlaces`), as a stable sort does. `SystemAccepted` is what the code takes for granted of
a platform and a description: regions of memory do not overlap, the kernel lies in one of them, regions with an
address in the description are apart (`sdf.rs:2282`). The size of a packed specification is chosen anew in every
iteration, since it depends on how well it happens to serialise. Kernel virtual
addresses wrap modulo `KernelWords`, as 64-bit numbers do in the code. `Placement` knows
no order, no watermark and no windows.

## 3. What TLC checks

| Run | Instance | Question and answer |
|---|---|---|
| `pipeline` | a client, a server with an interrupt, a driver that signals it; ids 0, 1 and 61; one deferred call per wakeup | No cycle of calls; deferred calls are made exactly once and never replaced; signals and interrupts reach `notified()`, received calls return, under fairness. Holds (55 476 states). |
| `family` | a parent and its child, which faults, calls its parent, has an interrupt and is restarted and stopped at any time | Reply objects stay consistent, interrupts survive the restart, every fault is delivered. Holds (181 496). |
| `passive` | two passive PDs on the monitor's core, the parent of one on another; faults and restarts | No request lost, faults final and all taken, every passive PD becomes passive. Holds (1 374). |
| `loader` | boards of both architectures, kernels at every place of a block, images put in their place, next to it and elsewhere; four CPUs, four start methods, with and without printing, boot hart 1, every refusal and every MMU failure | The loader never writes over itself, all data arrive, the tables lead to them; output, stacks and ids of the CPUs are apart; the kernel is not entered with a CPU missing; without failures all CPUs arrive. Holds (29 136). |
| `system` | every tree of three PDs with and without VMs on ARM and x86-64, and every form of a channel in a system of two | Slots unique, channels, faults, monitor, masks and user capabilities right, no two events alike, no panic. Holds (4 718). |
| `memory` | one region in all forms and several images; two PDs and VMs that share two regions; names that collide | Page tables are flat maps, also while they are sorted; every space has its pages with the right contents; a panic has one of six reasons. Holds (12 064). |
| `build` | two regions, each with or without an address, in ample memory on either side of the kernel; memory of eight sizes in which things just fit or do not | The loop ends; its questions to the simulation are proper; the simulation keeps what `Placement` promises; what is written has the addresses that were patched. Holds (13 382). |
| `vcpu` | a PD with a VM, or with children and callers; three channels | Nobody forgotten while the guest runs, the guest goes on where it was, signals get through. Holds (12 064). |
| `spanning` | memory with a part below the kernel, a region with an address in it, another that asks for one | What the description gives an address is out of the memory addresses are picked from. **Violated**, see 6. |
| `growing` | a region that asks for an address, in memories of 21 sizes, with a specification that may grow | When an address cannot be had, the simulation says "no". **Violated**, see 6. |
| `duo_defer_entry` | two PDs, one deferred call per entry point | A deferred call is lost. **Violated**, see 6. |
| `managed_child` | the systems of `system` | The child's TCB is where libmicrokit looks. **Violated**, see 6. |

`MCSystem` and the other MC modules hold the instances. The type invariants are not
among the runs where they are theorems (section 4).

Bounds, and why they are enough:

* *PDs.* The code treats every PD alike and relates at most three: a caller, a
  server that is itself a caller, and a third party that signals, restarts or
  faults. `pipeline` has exactly these, and a server whose notification word can hold two bits; the tree depths 0, 1 and 2 are all in
  `system`. The theorems cover any number.
* *Ids* are 0, 1, 3, 7 and 61: the ends of the range, one that clashes and those
  with several bits set in the badge of a protected call.
* *User calls* are not bounded; every variable is finite. A device asserts an
  interrupt again at any time.
* *CPUs.* Four: CPU 0, the one being started, one started before and one after.
* *Restarts and faults* are not bounded in number; `MayFault`, `MayManage` and
  `MayRestart` choose to which PDs they happen.
* `MCSystem` leaves out one kind of channel (`Folded`) and child ids above 61,
  for which properties fail; see 6.
* *Address spaces* (`MCMemory`) have three levels, 16 pages of 16 bytes and two page
  sizes, with a first level larger than the others, as an AArch64 hypervisor with
  40-bit addresses has. Images begin inside pages, share them, are empty, and reach
  the stack; regions have every combination of size, page size, address and file.
* *Physical memory* (`MCImage`) has 96 to 160 units; a page is 4, a large page 8, no
  more than the alignment of the rootserver's objects, as with the SDK's kernels. A
  packed specification has 5, 7 or 11 units: from iteration to iteration it
  grows, shrinks, and crosses a page. `MaxBuildIteration` is 3, as in the code, and
  reached.
* *Boards* (`MCLoaderRun`) have tables of 4 entries, blocks of 4 pages and gigabytes
  of 16. Kernels are linked at the same place in a block as they are loaded and
  within one gigabyte, which the tables need and the tool does not check. The
  UART is outside the gigabyte of the loader, as on the boards the SDK supports.
  `Mappable` states all of this, and a proof needs no more. Kernels without segments
  or in parts loaded further apart than linked are there too, for the tool to refuse.
  `Far` leaves out the images for which moving fails, see 6; `EnoughMemory` holds for all others. All boards
  boot with the builds that print; one board of each kind, and one whose image is moved, also with
  those in which the CPUs start in parallel.
* The guest of `MCVcpu` has two instructions: enough to be at the wrong one.

Deadlock is not checked: idle systems wait for ever, and the loader and the
tool end.

Fairness, and why it is justified:

* `PdRuntime`: a PD that can go on in the loop does (`WF` of `Loop`), since seL4
  schedules every runnable PD of a system that is not overloaded; entry points
  that can return again and again return (`SF` of `Return`), since in between
  they are blocked or restarted, not looping; an unmasked interrupt is taken
  (`WF` of `IrqFire`). There is none for user calls, devices, faults, restarts or
  stops. A server signalled so often that it never looks at its endpoint is
  excluded explicitly (`Starved`), because seL4 prefers the notification.
* `VcpuLoop`: the same two. There is none for the guest, which may run for ever.
* `PassiveHandshake`: the monitor runs (it has the highest priority); a PD
  preempted by it goes on afterwards (`SF` of `PdStep`).
* `LoaderRun`: each CPU that was started executes (`WF` of CPU 0, from `crt0.S` on, and of
  each other one). There is none for the tool and the board's bootloader.
* `ImageBuild` is one sequential process: it goes on while it can (`WF` of `Next`).

Every property has a mutant in `PROJECT.json`: a definition of the model changed
the way the code could be wrong, under which TLC finds that property violated.

## 4. What is proved

All for every value of the constants that the named assumptions allow.

| Theorem | States |
|---|---|
| `PdRuntime_proofs!TypeCorrect` | the type invariant |
| `PdRuntime_proofs!NoDeadlockedCalls` | no set of PDs waits on itself in protected calls |
| `PdRuntime_proofs!CallersHeld` | between receiving a call or a fault and the reply, the loop never comes back to `Recv`, where the caller would be lost |
| `PdRuntime_proofs!InterruptsAccounted` | no masked interrupt is forgotten, if PDs defer once per wakeup |
| `PdRuntime_proofs!DeferredCallsOnce`, `DeferredCallsKept` | the flag of libmicrokit tells in every state whether a deferred call is still to be made; none is replaced. If PDs defer once per wakeup and are not restarted |
| `VcpuLoop_proofs!NothingForgotten`, `GuestKeepsPlace` | nobody waits unnoticed while the guest runs; it goes on where it was |
| `PassiveHandshake_proofs!TypeCorrect`, `NoRequestLost` | types; no request to become passive is lost if the passive PDs are on the monitor's core |
| `PassiveHandshake_proofs!FaultsEndPDs` | no PD that faulted runs again, if it has no parent that restarts it |
| `LoaderBoot_proofs!TypeCorrect`, `StacksAreOwn`, `LockWorks` | types; stacks and ids never shared; output never mixed, with any failures |
| `LoaderBoot_proofs!AllAreStarted` | CPU 0 enters the kernel with all CPUs started, unless an SBI refused |
| `LoaderBoot_proofs!RunImplementsBoot`, `RunImplementsImage` | the loader as a whole implements `LoaderBoot` and `LoaderImage`: what is proved of each holds while the other runs |
| `ImageBuild_proofs!SimulationSound` | the simulated allocation overlaps nothing, puts each object where it says, never fails its assertion, and answers "yes" only if every object has a place |
| `ImageBuild_proofs!QuestionsAreSound` | `QuestionSound`: in every iteration the emulated untyped objects do not overlap, and the root objects with an address come first, in order and apart. If `SpecifiedTakenAway` |
| `ImageBuild_proofs!FirstQuestionSound` | the same for the first iteration, and for descriptions that give no region an address. No condition |
| `ImageBuild_proofs!WrittenAddressesKept` | `AddressesKept`: an image is written only with the addresses packed into it, the picked ones aligned, no two regions over each other. If `SpecifiedTakenAway` |
| `ImageBuild_proofs!UnrefinedBuildSound` | a build that picks no address asks a proper question, panics only if the kernel would not boot, keeps `FramesChecked`, and writes only what `AddressesKept` allows and the kernel can hand out. No condition. With picked addresses `FramesChecked` is false (`growing`) |
| `ImageBuild_proofs!PanicsAreExplained` | the tool panics in the middle of a build for three reasons only. If `SpecifiedTakenAway` |
| `ImageBuild_proofs!BuildImplementsPlacement` | the refinement `PlacementKept`: every step of the loop of `main.rs` is one of `Placement` or changes nothing of it. If `SpecifiedTakenAway` |
| `CapLayout_proofs!LayoutInvariant` | what is in every CNode, which endpoints and fault endpoints there are, after each step of the builder |
| `CapLayout_proofs!NothingPanics` | `NoPanic`: no assert of the builder fails but the one on x86-64. If child ids are below 310 |
| `CapLayout_proofs!SlotsAreUnique` | no slot of any CNode is filled twice. If no channel has both ends at one id of one PD |
| `CapLayout_proofs!ChannelsArrive` | signals and calls arrive at the other PD with the number it gave the channel. Under the same condition |
| `CapLayout_proofs!FaultsArrive` | faults of children and vCPUs arrive at the parent, with their number. If child ids are below 256 |
| `CapLayout_proofs!OneSourceEach` | no two events arrive at a PD as the same entry point and number. If child ids are below 256 |
| `CapLayout_proofs!MonitorFindsAll`, `MasksAreRight`, `UserCapsAreThere` | the monitor gets from a badge to the sender's objects; the masks of `symbols.rs` agree with the capabilities; user capabilities are where libmicrokit looks |
| `LoaderImage_proofs!LoaderInvariant` | what is in memory at each stage of the loader |
| `LoaderImage_proofs!LoaderStaysIntact` | `NotOverItself`: neither moving nor unpacking writes over the loader. If the image was not put so close above its place that its payload falls on the running loader (`Far`), and there is memory for the image and the regions (`EnoughMemory`) |
| `LoaderImage_proofs!EverythingUnpacked` | `Unpacked`: the kernel is entered with itself and the initial task in place, wherever the image was put. If there is memory for them |
| `LoaderImage_proofs!TablesAreRight` | `Translated`: with the MMU on, loader, header, spin table, UART and kernel are where they should be, for tables of any size. If the kernel lies in one gigabyte, linked and loaded at the same place in a block, and the loader, the UART and the kernel do not share the entries written for them (`Mappable`) |

Arguments:

* `TypeOK` of `PdRuntime` is not inductive. `AckBusy` (in the loop over
  `irqs_to_ack` a bit is left, and is an interrupt of the PD) and `CallsOwnEnd`
  (a calling thread calls through one of its own ends) make it so.
* `NoCallCycle` needs no induction of its own beyond `CallsOwnEnd`: a set of PDs
  has one of highest priority, and the PD it calls has a higher one, so that is
  not in the set. It rests on `EndsAssumption`, the priority rule of `sdf.rs`.
* `CallerHeld` follows from `HeldInv`. `ReplyLinked` (a thread waits for a reply
  exactly while one reply object is linked to it) is inductive together with the
  types: linking happens only in `ReceiveCall` and `ReceiveFault`, to an empty
  reply object and of a thread that was queued; `Recv` and a restart cut the link
  and end the waiting together. `Held` adds where the owner of the reply object is
  in its loop. A PD in `MayManage`, which its parent may restart in the middle of
  an entry point, is exempt as an owner.
* `IrqAccounted` needs that a pending acknowledgement is not replaced, which is
  why `DeferUnit = "wakeup"` is assumed: `mayDefer` is `FALSE` while
  `haveSignal` holds.
* `DeferredOnce` and `DeferredNeverLost` follow from `DeferInv`: its part `DeferReady`
  says that a PD that may still defer has nothing pending. For restarted PDs the
  flag outlives the call (see 6), hence `MayManage = {}`.
* `RequestServed`: a PD on the monitor's core runs only while the monitor is in
  `"recv"`, so its send is taken; `OnlyPassiveAsk` and `Pending` keep who has
  asked and who was bound together.
* `FaultIsFinal`: `OnlyFaultsStop` says that whoever does not run has faulted, and
  that the monitor's reply object is only ever linked to such a PD; the monitor
  replies to nobody.
* The loader: `OrderInv` says that CPUs are started in order and which may still
  be on the way, `StackInv` who owns the spin-table word, `LockInv` that a
  secondary CPU prints only while CPU 0 waits for it. `StartedInv` adds that CPU 0
  is past a CPU only when that was started, and leaves its loop behind the last.
* `VcpuLoop`: `Alone` derives from the rule of `sdf.rs` that the endpoint and the
  reply object of a PD with a VM are never used; `Kept` says where the
  guest's registers are: in the VMCS while it runs, in libmicrokit otherwise.
* `SimulationSound` rests on the assumptions about words and regions, and has the
  well-formed question as its antecedent (`WellFormed`, `PhysAddrsOk`). `AllocInv` has an
  order on memory (visited, current, ahead), the watermark between what is
  allocated and what is not (`Watermark`), the objects with an address split by
  `next` at the watermark (`Ahead`), and the windows as exactly the objects of
  their size that wait (`Windows`). The steps that are not obvious: an object that fits
  cannot reach the next one with an address (`TargetFacts`), and the untyped object
  holding the next one is among those still to visit.
* `QuestionsAreSound`: `BuildInv` is inductive. `AddressInv` says that regions with an address
  share no memory, that those of the description keep theirs, and that what was picked is aligned;
  `PackedInv`, stage by stage, when the packed addresses are the current ones (not between picking and packing,
  nor after addresses were taken back, and then another iteration is due); `SegmentInv` that the image has segments;
  `QuestionInv` that the question being answered is well formed. The steps are long because the operators are:
    * memory is a sorted list of disjoint regions (`Good`), and each of `insert_region()`,
      `remove_region()` and both `allocate` is shown to keep it so and to add, remove or return exactly the addresses it should
      (`InsertGood`, `RemoveGood`, `AllocateFacts`). That `insert_region()` does not always merge does not matter for this;
    * cutting a region into aligned powers of two gives blocks that cover it and do not overlap
      (`Blocks`), also when kernel virtual addresses wrap around: induction over what is left to cut;
    * the rootserver's objects, the initial task and the kernel are removed from what is left, the boot part of
      the kernel was in the kernel, so the untyped objects of all three lists are apart (`BootSound`);
    * sorting by places puts a permutation in order (`Ranks`, `SortedSound`), and of two pages with an address in an order
      by address the first ends where the second begins or before, since regions are apart and so are pages of one region;
    * addresses are picked from memory that is removed at once, region after region (`PickSound`).
* Its hypothesis `[]SpecifiedTakenAway` is false for some systems (section 6, `spanning`), and there the next
  question is not well formed: it is the exact gap of the loop. Nothing of it is needed in the first
  iteration, nor when the description gives no region an address (`NothingToTake`), which gives
  `FirstQuestionSound` and `UnrefinedBuildSound`.
* `BuildImplementsPlacement` and `PanicsAreExplained` are first proved from `[]QuestionSound`. For a proper
  question `Placement` promises nothing that `AllocInv` does not give (`ProperIsSound`:
  memory that covers an address is memory that can be had there). For one that is not
  proper only the shape of the steps is promised, and `Queues` has what that needs:
  the windows hold existing objects. A panic in the first iteration would need an
  address that cannot be had, and then the simulation does not begin
  (`FirstAsked`).
* `CapLayout`: the properties are about sequences that grow in three steps, and about
  what is in them. `LayoutInv` therefore says for every CNode which entries it has, as a
  set computed from the description and the three counters (`CnodeInv`, `RootInv`,
  `MonInv`, `VcpusInv`), likewise the endpoints and fault endpoints (`FaultsInv`), and,
  separately, that the slots of a sequence differ (`CnodeUnique`). The system run checked it
  before it was proved. A step appends entries whose slots lie in another range than those
  that are there, or in the same range with another id, and it is `Accepted` that keeps the ids
  apart. For the monitor's vCPUs the ids do not help, since it counts them in the order
  they come: `VcpusInv` bounds the counter by the vCPUs so far, and `NamesFit` keeps it
  below the next range.
* The conditions of the theorems are the exact gaps of `sdf.rs` (section 6):
  `ChildIdsBelow(310)` and `ChildIdsBelow(256)` because the id of a child has no limit, `NoneFolded`
  because the ends of a channel are not compared with each other. Without them the
  properties are false; `MCSystem` has the same restrictions.

* `LoaderImage`: `LoaderInv` is the contents of memory by stage. Up to `"main"` the whole image is at
  `at`, or, while the old loader is still running after the move, at the link address; from `"copy"` on
  the loader is intact because `NonOverlapping` compared it with every region, and the payload and the
  regions unpacked so far are in place under `PayloadClear`, the antecedent of `Unpacked`. Where the
  data of a region are in the image (`ImageFacts`) is about the sums in the metadata and about
  a concatenation of any number of sequences, both recursive functions. The library's induction
  theorems cannot be instantiated, since they take operators as parameters, but well-founded
  relations are sets there: `Least` (a set of natural numbers has a least one) follows from
  `WFMin`, and `Induction`, about sets of natural numbers, from that. `FlattenFacts` then says
  what `FlattenSeq` returns for every input.
* `Translated` needs no more of the invariant than what the tool checked (`Progress`); the rest is
  arithmetic on quotients. Two addresses of one gigabyte are as many entries of the last table
  apart as blocks (`SameTable`), so the leaf for the one is as far from the leaf for the other as
  the addresses are (`LeafOf`); this serves the blocks, and, with 1 for the size of a block, the
  small pages of RISC-V. When a kernel on RISC-V begins inside a block (`RiscvKernel`), the rest of
  that block has small pages, and from the next block on `RoundUp` of the first two addresses
  takes their place.
* `BoardsAssumption` gives types, and that RISC-V has no spin table and no UART of its own
  (`loader.rs` maps them for ARM only). `Far`, `Mappable` and `EnoughMemory` are
  conditions of the theorems because neither the tool nor `crt0.S` looks at them (section 6). `EverythingUnpacked` does not need `Far`: a
  loader that was written over does not get to the kernel in the model.

Only model-checked:

* liveness, which is out of the prover's reach: `SignalNotified`, `CallReturns`,
  `FaultDelivered`, `BecomesPassive`, `EveryFaultTaken`, `AllInKernel`, `BuildEnds`;
* those of `MemoryBuild`, whose walk over levels is a fold over data;
* the refinement `MapsFlat`.

## 5. Not modelled

* seL4 itself. Its objects appear as far as the code relies on them; scheduling
  only where a property needs it (`PassiveHandshake`).
* The contents of messages, names in programs, printed text, XML, ELF and other
  formats, the report.
* SMC, I/O port, message-register and the remaining vCPU calls of `microkit.h`,
  which forward one system call each.
* Exception levels and exceptions of the loader, its UART drivers, and the attributes
  of page tables, which are register programming; access rights of mappings.
* The x86-64 path of `main.rs`, which has no loop and no emulation, and the search for
  free space for maps there.
* Scheduling parameters, IOMMU, SMC and benchmark capabilities in the builder, which
  are copied.
* The build scripts, the examples and the tests.

## 6. What the models show about the code

Violations, each found by a run (`findings` in `PROJECT.json` quotes the lines):

1. `duo_defer_entry`: all `notified()` of one wakeup share one slot for a deferred
   call, sent after the last of them; the manual allows one per entry point.
2. `spanning`: the memory from which addresses are picked is put together from the untyped objects.
   `insert_region()` merges a new region with the one above it, and with the last one, but not with one below it in the middle
   (`lib.rs:215-244`). The untyped objects begin with the boot part of the kernel, so those of memory below the kernel
   stay apart, and a region of the description that lies across two of them is in none and is not taken away
   (`main.rs:549`). An address may then be picked inside it; the next question has two objects at one
   place, and the tool fails the assertion of `allocation.rs:227` on a valid description.
3. `growing`: from the second iteration on the simulation does not answer "no" when a picked address cannot be
   had: `allocation.rs:109` gives up only when it also reports the error, and the later calls suppress
   that. In the trace the image with the address in it is larger, covers the address, and the assertion of `allocation.rs:227`
   fails, so the tool panics; `main.rs:501` says that it then picks again, and `main.rs:424-426` that frames with an
   address are checked. `PanicExplained` names the case; in the first iteration the answer is right
   (`UnrefinedBuildSound`).
4. `managed_child`: the builder puts the TCB of a child into the root CNode of the
   parent, not into the CNode libmicrokit addresses.

Observations, for which there is no run. In the run-time programs:

* The request to become passive overwrites a deferred call that `init()` made
  (`main.c:215`). The runs assume there is none (`InitMayDefer`).
* A parent that makes protected calls to its child waits for it while the child's
  fault waits for the parent. The priority rule (`sdf.rs:2157`) does not
  exclude it: faults go the other way.
* On another core than the monitor's, the request to become passive, a
  non-blocking send, is dropped while the monitor prints (`main.c:163`).
  `CHANGES.md` knows of a race on SMP.
* `microkit_have_signal` is cleared after the system call returns, so a PD that is
  restarted while it waits keeps the flag and makes the call again.
* With `CONFIG_VTX` the result of `fault()` never leads to a reply
  (`main.c:179-182`), so a child of a PD without a VM is not resumed by it either,
  although the manual says so (`manual.md:646`). A VM exit is given to `fault()`
  as child 0 whatever the vCPU's id; the manual (`manual.md:200`) says the id tells
  which vCPU it was.
* A start the SBI refuses is reported as a success (`riscv/cpus.c:127`); with
  `CONFIG_PRINTING` CPU 0 then waits for ever, without it the kernel starts with a
  CPU missing. `NoCpuMissing` makes this exception.
* The RISC-V boot hart starts CPU 0 before it stops itself
  (`riscv/crt0.S:92`); if CPU 0 were fast enough to start it again before that,
  the refusal would be dropped in the same way.
* A CPU whose MMU setup fails leaves CPU 0 waiting for `print_lock`.
* `crt0.S` checks that the loader does not move onto itself, but moves the payload
  along: put above its link address by less than its whole length, the image's
  payload may land on the loader that is moving it. RISC-V jumps into the moved code
  without a `fence.i`.
* A passive PD restarted while it waits has no scheduling context of its own.
  `PassiveHandshake` models this; what the kernel does then is not documented
  here, so it is no finding.

In the checks of `sdf.rs`:

* A channel whose two ends are the same id of the same PD is accepted
  (`sdf.rs:2134-2190` records both ids after checking both); for a notification
  both ends, slot and badge, then coincide.
* The id of a child has no upper limit (`sdf.rs:524`). From 256 on `fault()` gets
  another number (`main.c:175` masks eight bits), from 310 on the builder's
  assert on the slot fails.
* Nothing limits the number of vCPUs. With more than 64 in a system the tool panics
  when it writes their names for the monitor (`util.rs:197`). That panic is also what keeps
  the TCBs of vCPUs in the monitor's CNode apart from the scheduling contexts behind
  them (`builder.rs:999`).
* Only the start of a map is compared with the highest address allowed
  (`sdf.rs:410`), not its end: a map can reach the stack, and the tool panics when
  it maps that.
* The priority of a virtual machine is cut to eight bits; the check that the comment
  next to it mentions (`sdf.rs:1351`) does not exist.
* Names of regions, PDs and VMs are unique among their kind, but the builder joins
  them with underscores to names of objects that must all differ; a VM named like a PD
  runs into `unreachable!` (`builder.rs:1269`).
* On x86-64 a VM with two vCPUs is accepted and stopped by an assert of the
  builder (`builder.rs:856`). `NoPanic` excludes it, since the assert says so.
* User capabilities are accepted in slots up to 127 (`sdf.rs:1384`) while the root
  CNode has 64 and `microkit_cspace_root_slot_to_cptr` returns null from 64 on.
* `setvar_id` of a `vcpu` element is looked up on the enclosing
  `virtual_machine` element (`sdf.rs:1299`).
* The manual says "less than 63" of channel ids in five places; the code accepts
  at most 61.

In the rest of the tool:

* A map of an empty region panics (`builder.rs:616`); so does a file that ends before the
  last page of its region begins (`builder.rs:518`, a subtraction that wraps).
* The overlap of a map with a segment is looked for up to `virt_addr` plus the rounded
  size (`builder.rs:624`), which for a segment that begins inside a page is not the
  end of its last page.
* `add_spec()` takes back the segments of the last iteration but not all that it
  added (`initialiser.rs:61`): with every iteration one more specification stays in
  the image and in the program headers in front of the current one.
* Behind the gap of `growing` is a second one: an object with an address is not compared with the end of its untyped
  object when it is created (`allocation.rs:216-231`), so that the answer could even be "yes", and the image be
  written, for a large page whose second half the rootserver's objects have come to occupy. TLC finds such a build
  when the alignment of those objects is below the large page. With `KernelRootCNodeSizeBits` 17
  (`build_sdk.py:48`) it is 4 MiB, twice the page, and no such build was found; no run claims
  anything about it, and it is proved only for the first iteration that there is none.
* For the same reason as in `spanning` a region that asks for an address and
  needs two neighbouring untyped objects is not placed.
* The size of the next object is bounded by the logarithm of the offset in the
  untyped object (`allocation.rs:149`), where its alignment is meant: behind an object with
  an address (offset 6, say) an object of size 4 may be expected at a place that is not
  a multiple of 4, where the kernel would not create it. `SimulationSound` says nothing
  about alignment.
* Regions are compared with the loader's image (`loader.rs:483`) but not with the
  packed data behind it: a region loaded there overwrites what is still to be
  unpacked. `PayloadClear` excludes it.
* Nothing checks that the kernel ends in the gigabyte it begins in, or is linked and loaded at
  the same place in a block of 2 MiB; `kernel_last_vaddr`
  (`loader.rs:373`) is computed and not used. The block of the UART and the table of the loader can fall on one entry
  of the first level (`loader.rs:827-843`), where the later wins.

## 7. Plan

Done: `PdRuntime`, `VcpuLoop`, `PassiveHandshake`, `LoaderBoot` with their proofs, and `LoaderRun`;
`SystemDescription` and `CapLayout` with their proofs; `MemoryDescription`, `PageMap`, `MemoryBuild`
against `AddressSpace`; `Regions`, `KernelBoot`, `ObjectAllocation`, `ImageBuild` with
the proofs that the loop asks proper questions, answers them soundly and implements `Placement`; `LoaderImage` with the proofs of what it does to memory and of its page tables.

Left, most important first:

1. An abstract specification of a PD ("every event is handled once, every call
   answered once"), shown to be implemented by `PdRuntime`; likewise "passive after
   init" for `PassiveHandshake` and "all CPUs enter together" for `LoaderBoot`.
2. The vCPU calls of ARM in `PdRuntime`; scheduling parameters in
   `SystemDescription`.
