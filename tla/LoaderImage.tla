---------------------------- MODULE LoaderImage ----------------------------
(***************************************************************************)
(* The image for ARM and RISC-V from the tool to the kernel: Loader::new() *)
(* of tool/microkit/src/loader.rs lays it out and fills the boot page      *)
(* tables of the loader, the bootloader of the board puts it somewhere,    *)
(* crt0.S of the loader moves it to its link address, copy_data() of       *)
(* loader.c unpacks it, and the kernel is entered through the page tables. *)
(*                                                                         *)
(* Addresses count pages of 4 KiB, a block is 2 MiB, a gigabyte 1 GiB; a   *)
(* page table has E entries.  The header of the image, with the metadata   *)
(* of the regions, fills a page, and so does every other part a whole      *)
(* number of them.                                                         *)
(***************************************************************************)
EXTENDS Integers, Sequences, SequencesExt, FiniteSetsExt

CONSTANTS
  E,        \* entries of a page table
  Boards,   \* boards with the programs to be loaded
  Pages     \* pages of physical memory

Block    == E
Gigabyte == E * E
Top      == E * E * E    \* what an entry of level 0 covers

ASSUME BoardsAssumption ==
  /\ E \in Nat \ {0} /\ Pages \in Nat
  /\ \A b \in Boards :
       /\ b.link \in Nat /\ b.loader \in Nat /\ b.base \in Nat /\ b.at \in Nat
       /\ b.kernel \in Seq([vaddr : Nat, paddr : Nat, size : Nat])
       /\ b.task \in Seq([vaddr : Nat, size : Nat])
       /\ b.arch \in {"aarch64", "riscv64"} /\ b.uart \in Nat \cup {-1} /\ b.spin \in BOOLEAN
       /\ b.arch = "riscv64" => b.uart = -1 /\ ~b.spin

VARIABLES
  board,    \* the board that boots
  stage,    \* how far it is
  mem,      \* contents of the pages of physical memory
  at,       \* where the loader runs
  copied    \* regions unpacked

vars == <<board, stage, mem, at, copied>>

RoundDown(a, n) == a - (a % n)
RoundUp(a, n)   == RoundDown(a + n - 1, n)

-----------------------------------------------------------------------------
(* Loader::new(): what is loaded where.                                    *)

LoaderEnd(b) == b.link + b.loader
KernelVaddr(b) == Min({b.kernel[i].vaddr : i \in DOMAIN b.kernel})
KernelPaddr(b) == Min({b.kernel[i].paddr : i \in DOMAIN b.kernel})

\* The panics on the way: a kernel without segments, or linked and loaded at
\* different distances.
KernelConsistent(b) ==
  /\ b.kernel # <<>>
  /\ \A i, j \in DOMAIN b.kernel :
       b.kernel[i].vaddr - b.kernel[i].paddr = b.kernel[j].vaddr - b.kernel[j].paddr

TaskVaddr(b) == Min({b.task[i].vaddr : i \in DOMAIN b.task})
TaskEnd(b) == Max({b.task[i].vaddr + b.task[i].size : i \in DOMAIN b.task})

\* The segments of the initial task that take memory.
TaskSegments(b) ==
  FlattenSeq([i \in DOMAIN b.task |-> IF b.task[i].size > 0 THEN <<b.task[i]>> ELSE <<>>])

Regions(b) ==
  LET TaskRegion(s) == [load |-> b.base + (s.vaddr - TaskVaddr(b)), size |-> s.size]
  IN  [i \in DOMAIN b.kernel |-> [load |-> b.kernel[i].paddr, size |-> b.kernel[i].size]]
      \o [i \in DOMAIN TaskSegments(b) |-> TaskRegion(TaskSegments(b)[i])]

PvOffset(b) == b.base - TaskVaddr(b)

Apart(r, s) == r.load + r.size <= s.load \/ r.load >= s.load + s.size

\* Mutant: the loader itself is not among the regions compared.
NonOverlappingRegions(b) ==
  LET all == Regions(b)
  IN \A i, j \in DOMAIN all : i < j => Apart(all[j], all[i])

\* check_non_overlapping(): the loader's own image, but not what is packed
\* behind it.
NonOverlapping(b) ==
  LET all == Append(Regions(b), [load |-> b.link, size |-> b.loader])
  IN \A i, j \in DOMAIN all : i < j => Apart(all[j], all[i])

\* The metadata: where the data of region i begins behind the header.
Offset(b, i) ==
  LET before[k \in 0 .. Len(Regions(b))] ==
        IF k = 0 THEN 0 ELSE before[k - 1] + Regions(b)[k].size
  IN before[i - 1]

\* Mutant: the size of the header itself is left out.
PayloadSizeNoHeader(b) == Offset(b, Len(Regions(b)) + 1)

PayloadSize(b) == 1 + Offset(b, Len(Regions(b)) + 1)

\* The pages as a sequence: to_bytes().
Free == <<"free", 0, 0>>
Header == <<"header", 0, 0>>
LoaderPage(i) == <<"loader", 0, i>>
DataPage(r, i) == <<"data", r, i>>
Image(b) ==
  [i \in 1 .. b.loader |-> LoaderPage(i)] \o <<Header>>
  \o FlattenSeq([r \in DOMAIN Regions(b) |-> [i \in 1 .. Regions(b)[r].size |-> DataPage(r, i)]])

-----------------------------------------------------------------------------
(* The boot page tables.  A table is a function from its indices in use to *)
(* entries.                                                                *)

Table(name) == [kind |-> "table", to |-> name]
Leaf(addr, size) == [kind |-> "leaf", addr |-> RoundDown(addr, size), size |-> size]
Empty == <<>>
Only(index, entry) == [i \in {index} |-> entry]
Index(addr, size) == (addr \div size) % E

\* A table in which what the first of them has was written last.
Over(last, first) ==
  [i \in DOMAIN last \cup DOMAIN first |-> IF i \in DOMAIN last THEN last[i] ELSE first[i]]

\* aarch64_setup_pagetables().  The table of the loader is written after the
\* block of the UART.
Lvl2Lower(b) ==
  LET first == Index(b.link, Block)
      loader == [i \in first .. Index(LoaderEnd(b), Block) |->
                   Leaf(b.link + (i - first) * Block, Block)]
  IN Over(IF b.spin THEN Only(0, Leaf(0, Block)) ELSE Empty, loader)

Lvl1Lower(b) ==
  Over(Only(Index(b.link, Gigabyte), Table("lvl2_lower")),
       IF b.uart = -1 THEN Empty ELSE Only(Index(b.uart, Gigabyte), Leaf(b.uart, Gigabyte)))

Lvl2Upper(b) ==
  LET first == Index(KernelVaddr(b), Block)
  IN [i \in first .. E - 1 |-> Leaf(KernelPaddr(b) + (i - first) * Block, Block)]

AArch64Tables(b) ==
  LET upper == Only(Index(KernelVaddr(b), Top), Table("lvl1_upper"))
  IN [lvl0_lower |-> Over(upper, Only(0, Table("lvl1_lower"))),
      lvl0_upper |-> upper,
      lvl1_lower |-> Lvl1Lower(b),
      lvl2_lower |-> Lvl2Lower(b),
      lvl1_upper |-> Only(Index(KernelVaddr(b), Gigabyte), Table("lvl2_upper")),
      lvl2_upper |-> Lvl2Upper(b)]

\* The panic and the assertions on the way.
AArch64Possible(b) ==
  /\ Index(b.link, Gigabyte) = Index(LoaderEnd(b), Gigabyte)
  /\ b.spin => Index(b.link, Block) # 0 /\ Index(b.link, Gigabyte) = 0

\* Mutant: the block that the last table covers in part is written over.
RiscvLvl2NoStep(b) ==
  LET first == Index(KernelVaddr(b), Block)
  IN [i \in first .. E - 1 |-> Leaf(RoundUp(KernelPaddr(b), Block) + (i - first) * Block, Block)]

\* riscv64_setup_pagetables(): a kernel that begins inside a block has small
\* pages up to the next one.
RiscvLvl2(b) ==
  LET partial == KernelVaddr(b) % Block # 0
      index == Index(KernelVaddr(b), Block)
      first == IF partial THEN index + 1 ELSE index
  IN Over(IF partial THEN Only(index, Table("lvl3")) ELSE Empty,
          [i \in first .. E - 1 |-> Leaf(RoundUp(KernelPaddr(b), Block) + (i - first) * Block, Block)])

RiscvLvl3(b) ==
  IF KernelVaddr(b) % Block = 0 THEN Empty
  ELSE LET first == Index(KernelVaddr(b), 1)
       IN [i \in first .. E - 1 |-> Leaf(KernelPaddr(b) + (i - first), 1)]

RiscvTables(b) ==
  LET text == Index(b.link, Block)
  IN [lvl1 |-> Over(Only(Index(KernelVaddr(b), Gigabyte), Table("lvl2")),
                    Only(Index(b.link, Gigabyte), Table("lvl2_loader"))),
      lvl2_loader |-> [i \in text .. E - 1 |-> Leaf(b.link + (i - text) * Block, Block)],
      lvl2 |-> RiscvLvl2(b),
      lvl3 |-> RiscvLvl3(b)]

RiscvPossible(b) == b.link % Block = 0

\* What the MMU makes of a virtual address; -1 is a fault.  EL1 has a table
\* of its own for the upper half of the addresses, which the kernel uses.
Below(tables, entry, index) ==
  IF entry.kind # "table" THEN entry
  ELSE IF index \in DOMAIN tables[entry.to] THEN tables[entry.to][index]
  ELSE [kind |-> "none"]

Walk(tables, root, sizes, vaddr) ==
  LET entry1 == Below(tables, Table(root), Index(vaddr, sizes[1]))
      entry2 == Below(tables, entry1, Index(vaddr, sizes[2]))
      entry3 == Below(tables, entry2, Index(vaddr, sizes[3]))
  IN IF entry3.kind = "leaf" THEN entry3.addr + (vaddr % entry3.size) ELSE -1

Translate(b, upper, vaddr) ==
  CASE b.arch = "riscv64" ->
         Walk(RiscvTables(b), "lvl1", <<Gigabyte, Block, 1>>, vaddr)
    [] b.arch = "aarch64" ->
         Walk(AArch64Tables(b), IF upper /\ b.el = 1 THEN "lvl0_upper" ELSE "lvl0_lower",
              <<Top, Gigabyte, Block>>, vaddr)

-----------------------------------------------------------------------------
(* The tool writes the image or panics.                                    *)

WriteImage ==
  /\ stage = "tool"
  /\ stage' = IF /\ KernelConsistent(board)
                 /\ NonOverlapping(board)
                 /\ (board.arch = "aarch64" => AArch64Possible(board))
                 /\ (board.arch = "riscv64" => RiscvPossible(board))
                 /\ TaskEnd(board) > TaskVaddr(board)
              THEN "image" ELSE "panic"
  /\ UNCHANGED <<board, mem, at, copied>>

\* U-Boot, the firmware or a hypervisor.
Load ==
  /\ stage = "image"
  /\ at' = board.at
  /\ mem' = [p \in DOMAIN mem |->
               IF p \in at' .. at' + Len(Image(board)) - 1
               THEN Image(board)[p - at' + 1] ELSE mem[p]]
  /\ stage' = "start"
  /\ UNCHANGED <<board, copied>>

-----------------------------------------------------------------------------
(* The loader.  In a loader that was written over anything may happen:     *)
(* that is where the model stops.                                          *)

LoaderIntact == \A i \in 1 .. board.loader : mem[at + i - 1] = LoaderPage(i)
HeaderPage == at + board.loader
HeaderIntact == mem[HeaderPage] = Header

Running(s) == stage = s /\ LoaderIntact

GoWild ==
  /\ stage \in {"start", "moved", "main", "copy", "mmu"}
  /\ \/ ~LoaderIntact
     \/ stage \in {"copy", "mmu"} /\ ~HeaderIntact
  /\ stage' = "wild"
  /\ UNCHANGED <<board, mem, at, copied>>

\* crt0.S: relocate.
AtLinkAddress ==
  /\ Running("start") /\ at = board.link
  /\ stage' = "main"
  /\ UNCHANGED <<board, mem, at, copied>>

\* Neither end of the loader at its link address is inside the one that runs.
MayRelocate ==
  LET dst_start == board.link
      dst_end == board.link + board.loader
      src_end == at + board.loader
  IN /\ ~(dst_end >= at /\ dst_end < src_end)
     /\ ~(dst_start >= at /\ dst_start < src_end)

RelocationFailed ==
  /\ Running("start") /\ at # board.link /\ ~MayRelocate
  /\ stage' = "refused"
  /\ UNCHANGED <<board, mem, at, copied>>

\* memmove(), which copies from the end where it has to.
Relocate ==
  /\ Running("start") /\ at # board.link /\ MayRelocate
  /\ LET size == board.loader + PayloadSize(board)
     IN mem' = [p \in DOMAIN mem |->
                  IF p \in board.link .. board.link + size - 1
                  THEN mem[at + (p - board.link)] ELSE mem[p]]
  /\ stage' = "moved"
  /\ UNCHANGED <<board, at, copied>>

Restart ==
  /\ Running("moved")
  /\ at' = board.link
  /\ stage' = "start"
  /\ UNCHANGED <<board, mem, copied>>

\* main() looks for the magic number behind its own image.
CheckMagic ==
  /\ Running("main")
  /\ stage' = IF HeaderIntact THEN "copy" ELSE "refused"
  /\ UNCHANGED <<board, mem, at, copied>>

\* One round of copy_data(); memcpy() goes upwards.
CopyRegion ==
  /\ Running("copy") /\ HeaderIntact /\ copied < Len(Regions(board))
  /\ LET r == Regions(board)[copied + 1]
         from == HeaderPage + 1 + Offset(board, copied + 1)
         Source(k) == IF from < r.load /\ r.load < from + r.size
                      THEN from + (k % (r.load - from)) ELSE from + k
     IN mem' = [p \in DOMAIN mem |->
                  IF p \in r.load .. r.load + r.size - 1
                  THEN mem[Source(p - r.load)] ELSE mem[p]]
  /\ copied' = copied + 1
  /\ UNCHANGED <<board, stage, at>>

\* The CPUs are started (LoaderRun) and the MMU is enabled.
EnableMmu ==
  /\ Running("copy") /\ HeaderIntact /\ copied = Len(Regions(board))
  /\ stage' = "mmu"
  /\ UNCHANGED <<board, mem, at, copied>>

\* arch_jump_to_kernel() reads the header once more.
JumpToKernel ==
  /\ Running("mmu") /\ HeaderIntact
  /\ stage' = IF Translate(board, FALSE, HeaderPage) = HeaderPage THEN "kernel" ELSE "fault"
  /\ UNCHANGED <<board, mem, at, copied>>

-----------------------------------------------------------------------------
Init ==
  /\ board \in Boards
  /\ stage = "tool"
  /\ mem = [p \in 0 .. Pages - 1 |-> Free]
  /\ at = 0
  /\ copied = 0

Next ==
  \/ WriteImage \/ Load
  \/ AtLinkAddress \/ Relocate \/ RelocationFailed \/ Restart
  \/ CheckMagic \/ CopyRegion \/ EnableMmu \/ JumpToKernel
  \/ GoWild

Spec == Init /\ [][Next]_vars

-----------------------------------------------------------------------------
(* What the tool does not look at.                                         *)

\* There is memory where the image is put, where it is moved to, and where the
\* regions are loaded.
EnoughMemory(b) ==
  /\ b.at + Len(Image(b)) <= Pages /\ b.link + Len(Image(b)) <= Pages
  /\ \A r \in ToSet(Regions(b)) : r.load + r.size <= Pages

\* crt0.S compares the loader with itself, not with what is moved along behind
\* it: when the image was put above its place by less than its length, that may
\* fall on the loader that moves it.
Far(b) == b.at <= b.link \/ b.at < LoaderEnd(b) \/ b.at >= LoaderEnd(b) + PayloadSize(b)

\* The tables are for a kernel linked at the same place in a block as it is
\* loaded, and for the part of it that lies in the gigabyte where it begins.
\* On ARM the loader is below the first entry of level 0, where no kernel is
\* linked, and the UART not in the gigabyte of the loader; on RISC-V the loader
\* ends in the gigabyte where it begins, which is not that of the kernel.
Mappable(b) ==
  /\ KernelVaddr(b) % Block = KernelPaddr(b) % Block
  /\ \A i \in DOMAIN b.kernel :
       b.kernel[i].vaddr + b.kernel[i].size <= (KernelVaddr(b) \div Gigabyte + 1) * Gigabyte
  /\ b.arch = "aarch64" =>
       /\ LoaderEnd(b) < Top /\ Index(KernelVaddr(b), Top) # 0
       /\ b.uart # -1 => b.uart < Top /\ Index(b.uart, Gigabyte) # Index(b.link, Gigabyte)
  /\ b.arch = "riscv64" =>
       /\ b.link \div Gigabyte = LoaderEnd(b) \div Gigabyte
       /\ Index(KernelVaddr(b), Gigabyte) # Index(b.link, Gigabyte)

-----------------------------------------------------------------------------
(***************************************************************************)
(* Correctness.                                                            *)
(***************************************************************************)

\* The loader does not write over itself: check_non_overlapping() is for this
\* when it unpacks the regions, and the check in crt0.S ("We don't want to
\* overwrite ourselves!") when it moves.
NotOverItself ==
  stage \in {"start", "moved", "main", "copy", "mmu", "kernel"} => LoaderIntact

\* No region is loaded on the data that are still to be unpacked.  The tool
\* does not look at this.
PayloadClear ==
  \A i \in DOMAIN Regions(board) :
    Apart(Regions(board)[i], [load |-> LoaderEnd(board), size |-> PayloadSize(board)])

\* Wherever the image was put and whatever was moved, the kernel is entered
\* with every page of itself at its physical address and every page of the
\* initial task where pv_offset makes the kernel look for it.
Unpacked ==
  stage = "kernel" /\ PayloadClear =>
    /\ \A r \in DOMAIN board.kernel : \A i \in 1 .. board.kernel[r].size :
         mem[board.kernel[r].paddr + i - 1] = DataPage(r, i)
    /\ \A s \in DOMAIN TaskSegments(board) :
         LET segment == TaskSegments(board)[s]
         IN \A i \in 1 .. segment.size :
              mem[segment.vaddr + PvOffset(board) + i - 1] = DataPage(Len(board.kernel) + s, i)

\* With the MMU on, the loader still finds itself and the header behind it,
\* the release address of the spin table and the UART, and the kernel is
\* where it was linked.
Translated ==
  stage = "mmu" =>
    /\ \A i \in 0 .. board.loader : Translate(board, FALSE, at + i) = at + i
    /\ board.spin => Translate(board, FALSE, 0) = 0
    /\ board.uart # -1 => Translate(board, FALSE, board.uart) = board.uart
    /\ \A r \in DOMAIN board.kernel : \A i \in 0 .. board.kernel[r].size - 1 :
         Translate(board, TRUE, board.kernel[r].vaddr + i) = board.kernel[r].paddr + i

=============================================================================
