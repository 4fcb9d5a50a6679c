------------------------- MODULE MemoryDescription --------------------------
(***************************************************************************)
(* What parse() of tool/microkit/src/sdf.rs accepts and decides about      *)
(* memory.  A description is a record [mrs, pds]:                          *)
(*   mrs  memory regions [name, size, page, paddr, prefill]; what the XML  *)
(*        leaves out is None; prefill is the length of the file;           *)
(*   pds  [name, stack, elf, maps, vm]: elf is the loadable segments       *)
(*        [vaddr, size] of the program image, maps a sequence of           *)
(*        [mr, vaddr], vm <<>> or <<[name, maps]>>.                        *)
(* Names are sequences of words (see LevelName).                           *)
(***************************************************************************)
EXTENDS PageMap

CONSTANTS
  UserTop,           \* seL4_UserVSpaceTop, inclusive
  PdMaxStackSize

None == -1

PdMinStackSize == SmallPage
MonitorName    == <<"monitor">>

\* sel4.rs: IPC buffer in the highest page, a guard page, the stack.
PdIpcBuffer          == RoundDown(UserTop, SmallPage)
PdStackTop           == PdIpcBuffer - SmallPage
PdStackBottom(stack) == PdStackTop - stack
PdMapMaxVaddr(stack) == PdStackBottom(stack)
VmMapMaxVaddr        == UserTop + 1

PageOf(mr) == IF mr.page = None THEN SmallPage ELSE mr.page
SizeOf(mr) == IF mr.size = None THEN RoundUp(mr.prefill, PageOf(mr)) ELSE mr.size

RegionAccepted(mr) ==
  /\ PageOf(mr) \in {SmallPage, LargePage}
  /\ mr.prefill # 0
  /\ mr.size # None => mr.size % PageOf(mr) = 0 /\ mr.prefill <= mr.size
  /\ mr.size = None => mr.prefill # None
  /\ mr.paddr # None => mr.paddr % PageOf(mr) = 0

\* Mutant: a range that starts inside another one passes.
StartsApart(a, m, b, n) == a > b \/ m <= b

RangesApart(a, m, b, n) == a >= n \/ m <= b

RegionOf(s, name) == CHOOSE mr \in ToSet(s.mrs) : mr.name = name

\* SysMap::from_xml() looks at the start of a map only, check_maps() at its
\* region, its alignment and the maps before it.
MapsAccepted(s, maps, max) ==
  \A k \in DOMAIN maps :
    LET mr == RegionOf(s, maps[k].mr)
    IN /\ maps[k].vaddr < max
       /\ maps[k].mr \in {r.name : r \in ToSet(s.mrs)}
       /\ maps[k].vaddr % PageOf(mr) = 0
       /\ \A l \in 1 .. k - 1 :
            RangesApart(maps[k].vaddr, maps[k].vaddr + SizeOf(mr),
                        maps[l].vaddr, maps[l].vaddr + SizeOf(RegionOf(s, maps[l].mr)))

StackAccepted(stack) ==
  stack \in PdMinStackSize .. PdMaxStackSize /\ stack % SmallPage = 0

PaddrsAccepted(mrs) ==
  \A k, l \in DOMAIN mrs :
    l < k /\ None \notin {mrs[k].paddr, mrs[l].paddr} =>
      RangesApart(mrs[k].paddr, mrs[k].paddr + SizeOf(mrs[k]),
                  mrs[l].paddr, mrs[l].paddr + SizeOf(mrs[l]))

VmsOf(s) == {p \in DOMAIN s.pds : s.pds[p].vm # <<>>}

\* PDs among themselves, regions among themselves, VMs among themselves.
NamesAccepted(s) ==
  /\ \A k, l \in DOMAIN s.pds : s.pds[k].name = s.pds[l].name => k = l
  /\ \A p \in DOMAIN s.pds : s.pds[p].name # MonitorName
  /\ \A k, l \in DOMAIN s.mrs : s.mrs[k].name = s.mrs[l].name => k = l
  /\ \A k, l \in VmsOf(s) : s.pds[k].vm[1].name = s.pds[l].vm[1].name => k = l

MemoryAccepted(s) ==
  /\ \A mr \in ToSet(s.mrs) : RegionAccepted(mr)
  /\ NamesAccepted(s)
  /\ \A p \in DOMAIN s.pds :
       /\ StackAccepted(s.pds[p].stack)
       /\ MapsAccepted(s, s.pds[p].maps, PdMapMaxVaddr(s.pds[p].stack))
       /\ p \in VmsOf(s) => MapsAccepted(s, s.pds[p].vm[1].maps, VmMapMaxVaddr)
  /\ PaddrsAccepted(s.mrs)

-----------------------------------------------------------------------------
AllMaps(s) ==
  UNION ({ToSet(s.pds[p].maps) : p \in DOMAIN s.pds}
         \cup {ToSet(s.pds[p].vm[1].maps) : p \in VmsOf(s)})

\* A region without a page size gets the larger one if its size, its physical
\* address and all addresses it is mapped to allow it.
OptimisedPage(s, mr) ==
  LET addrs == {m.vaddr : m \in {n \in AllMaps(s) : n.mr = mr.name}}
                 \cup ({mr.paddr} \ {None})
  IN IF mr.page = None /\ SizeOf(mr) % LargePage = 0 /\ \A a \in addrs : a % LargePage = 0
     THEN LargePage ELSE PageOf(mr)

\* The regions as the builder sees them.
Regions(s) ==
  [k \in DOMAIN s.mrs |->
     LET mr == s.mrs[k]
     IN [name |-> mr.name, page |-> OptimisedPage(s, mr), paddr |-> mr.paddr,
         prefill |-> mr.prefill, count |-> SizeOf(mr) \div OptimisedPage(s, mr)]]
=============================================================================
