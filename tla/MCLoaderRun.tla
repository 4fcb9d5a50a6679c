---------------------------- MODULE MCLoaderRun ----------------------------
(***************************************************************************)
(* Tables of 4 entries: blocks of 4 pages, gigabytes of 16.  The kernels   *)
(* are linked at the same place in a block as they are loaded, and fit in  *)
(* a gigabyte.  Every board boots with the build that prints, and some of   *)
(* each kind with every build there is for it.                              *)
(***************************************************************************)
EXTENDS LoaderRun

Segment(vaddr, size) == [vaddr |-> vaddr, size |-> size]
Kernel(vaddr, paddr, sizes) ==
  [i \in DOMAIN sizes |->
     LET before == FoldLeft(LAMBDA a, n : a + n, 0, SubSeq(sizes, 1, i - 1))
     IN [vaddr |-> vaddr + before, paddr |-> paddr + before, size |-> sizes[i]]]

Tasks == {<<Segment(3, 3)>>, <<Segment(5, 1), Segment(3, 1), Segment(4, 0)>>}

\* A kernel at the start of memory, the initial task behind it, at the loader,
\* or behind that; the image put in its place or elsewhere.
Board(arch, el, kernel, task, base, link, loader, put, uart, spin) ==
  [arch |-> arch, el |-> el, kernel |-> kernel, task |-> task, base |-> base,
   link |-> link, loader |-> loader, at |-> put, uart |-> uart, spin |-> spin]

\* All tables, with the image where it belongs.
Aarch64 ==
  {Board("aarch64", el, Kernel(IF el = 1 THEN 208 + o ELSE 80 + o, 16 + o, <<2, 1>>), <<Segment(3, 2)>>,
         23, link, loader, link, uart, FALSE) :
     el \in {1, 2}, o \in {0, 3, 4}, link \in {32, 33, 44}, loader \in {2, 3, 4}, uart \in {-1, 5, 60}}

\* The kernel behind the page of the spin table and the loader in the same
\* gigabyte.
SpinTable ==
  {Board("aarch64", 2, Kernel(65, 1, <<2, 1>>), <<Segment(3, 2)>>, base, link, loader, link, uart, TRUE) :
     base \in {4, 6, 20}, link \in {0, 4, 8}, loader \in {2, 4, 5}, uart \in {-1, 58}}

\* A kernel inside one block or over two.
Riscv64 ==
  {Board("riscv64", 0, Kernel(48 + o, 32 + o, <<2, n>>), <<Segment(3, 2)>>, base, link, loader, link, -1, FALSE) :
     o \in {0, 1, 3, 4}, n \in {1, 4}, base \in {42, 48}, link \in {40, 41}, loader \in {2, 4}}

\* The image put anywhere, the initial task anywhere above the kernel.
Moved ==
  {Board("aarch64", 2, Kernel(80, 16, <<2, 1>>), task, base, 32, loader, put, 5, FALSE) :
     task \in Tasks, base \in {19, 30, 33, 35, 38, 48}, loader \in {2, 4},
     put \in {0, 20, 26, 28, 29, 30, 31, 32, 33, 34, 36, 37, 39, 44, 60}}

\* Kernels that the tool does not take: none at all, or in two parts loaded
\* further apart than they are linked.
Inconsistent ==
  {Board("aarch64", 2, kernel, <<Segment(3, 2)>>, 23, 32, 2, 32, -1, FALSE) :
     kernel \in {<<>>, Kernel(80, 16, <<2>>) \o Kernel(82, 20, <<1>>), Kernel(81, 20, <<1>>) \o Kernel(80, 16, <<1>>)}}

AllBoards == Aarch64 \cup SpinTable \cup Riscv64 \cup Moved \cup Inconsistent

\* No board has an image whose own data fall on the loader that moves them.
FarBoards == {b \in AllBoards : Far(b) /\ EnoughMemory(b)}

AllBuilds == [start : {"spin", "psci", "sbi", "none"}, printing : BOOLEAN]

Starts(b) ==
  CASE b.arch = "riscv64" -> {"sbi"}
    [] b.arch = "aarch64" /\ b.spin -> {"spin"}
    [] b.arch = "aarch64" /\ ~b.spin -> {"psci", "none"}

\* One board of each kind, and one that is moved, have the builds in which the
\* CPUs start in parallel.
Parallel ==
  {Board("aarch64", 2, Kernel(83, 19, <<2, 1>>), <<Segment(3, 2)>>, 23, 32, 2, 32, 5, FALSE),
   Board("aarch64", 2, Kernel(65, 1, <<2, 1>>), <<Segment(3, 2)>>, 20, 8, 2, 8, 58, TRUE),
   Board("riscv64", 0, Kernel(51, 35, <<2, 1>>), <<Segment(3, 2)>>, 48, 40, 2, 40, -1, FALSE),
   Board("aarch64", 2, Kernel(80, 16, <<2, 1>>), <<Segment(3, 3)>>, 48, 32, 2, 60, 5, FALSE)}

MCBuildsOf ==
  [b \in FarBoards |->
     [start : Starts(b), printing : IF b \in Parallel THEN BOOLEAN ELSE {TRUE}]]
=============================================================================
