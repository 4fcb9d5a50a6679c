---------------------------- MODULE MemoryBuild -----------------------------
(***************************************************************************)
(* The part of build_capdl_spec() (tool/microkit/src/capdl/builder.rs)     *)
(* that makes frames and address spaces, and step 6, which sorts all       *)
(* objects and renumbers the references between them.  The function is     *)
(* sequential: Program is the list of what it does for a description, a    *)
(* step does the next thing on it.  Address spaces have an owner: 0 is the *)
(* monitor, p is PD p, -p is its VM.                                       *)
(***************************************************************************)
EXTENDS MemoryDescription

CONSTANTS
  Descriptions,
  MonitorElf,
  MonitorStackSize

VARIABLES
  sys,       \* the description
  stage,     \* "parse", "build", "built", "rejected", "overlap", or a panic
  todo,      \* what is left of the program
  objects,   \* the root objects of the capDL specification
  frames,    \* mr_name_to_frames, by the region's position
  made       \* owner -> [space, tcb, ipc]: tags of these objects

vars == <<sys, stage, todo, objects, frames, made>>

Name(o) == CASE o = 0 -> MonitorName
             [] o > 0 -> sys.pds[o].name
             [] o < 0 -> sys.pds[-o].vm[1].name

Seq1(n, Op(_)) == [k \in 1 .. n |-> Op(k)]

-----------------------------------------------------------------------------
(* The objects.  A fill copies `len' bytes of `data' from `from' on to      *)
(* offset `at' of the frame.                                               *)

Frame(name, size, paddr, fill) ==
  [kind |-> "frame", tag |-> Len(objects) + 1, name |-> <<"frame">> \o name, root |-> FALSE,
   bits |-> IF size = SmallPage THEN PageBits ELSE PageBits + EntryBits,
   paddr |-> paddr, slots |-> <<>>, fill |-> fill]

Tcb(o) ==
  [kind |-> "tcb", tag |-> Len(objects) + 1, name |-> <<"tcb">> \o Name(o), root |-> FALSE,
   bits |-> PageBits - 1, paddr |-> None, slots |-> ("space" :> made[o].space)]

NoFill == [data |-> <<>>, at |-> 0, len |-> 0, from |-> 0]

Least(a, b) == IF a < b THEN a ELSE b

\* Mutant: the data of a page is put at its start.
ElfFillAtStart(o, seg, k, vaddr) ==
  LET from == IF vaddr < seg.vaddr THEN 0 ELSE vaddr - seg.vaddr
  IN IF from < seg.size
     THEN [data |-> <<o, k>>, at |-> 0, len |-> Least(SmallPage, seg.size - from), from |-> from]
     ELSE NoFill

\* The bytes of a segment that go into the page at vaddr.
ElfFill(o, seg, k, vaddr) ==
  LET at   == IF vaddr < seg.vaddr THEN seg.vaddr - vaddr ELSE 0
      from == vaddr + at - seg.vaddr
  IN IF from < seg.size
     THEN [data |-> <<o, k>>, at |-> at, len |-> Least(SmallPage - at, seg.size - from), from |-> from]
     ELSE NoFill

-----------------------------------------------------------------------------
(* The program.                                                            *)

Page(op, o, name, vaddr, fill) ==
  [op |-> op, owner |-> o, name |-> name, vaddr |-> vaddr, fill |-> fill]

\* The loop of add_elf_to_spec() over the pages of segment k.
SegmentPages(o, seg, k) ==
  LET first == RoundDown(seg.vaddr, SmallPage)
      count == (RoundUp(seg.vaddr + seg.size, SmallPage) - first) \div SmallPage
      VaddrOf(n) == first + (n - 1) * SmallPage
  IN IF seg.size = 0 THEN <<>>
     ELSE Seq1(count, LAMBDA n : [vaddr |-> VaddrOf(n), fill |-> ElfFill(o, seg, k, VaddrOf(n))])

ElfProgram(o, name, elf) ==
  LET pages == FlattenSeq(Seq1(Len(elf), LAMBDA k : SegmentPages(o, elf[k], k)))
  IN <<[op |-> "space", owner |-> o]>>
     \o Seq1(Len(pages), LAMBDA n :
          Page("page", o, <<"elf">> \o name \o <<ToString(n - 1)>>, pages[n].vaddr, pages[n].fill))
     \o <<[op |-> "tcb", owner |-> o]>>

IpcProgram(o, name) == <<Page("ipc", o, <<"ipcbuf">> \o name, PdIpcBuffer, NoFill)>>

StackProgram(o, name, size) ==
  Seq1(size \div SmallPage, LAMBDA n :
    Page("page", o, name \o <<"stack", ToString(n - 1)>>,
         PdStackBottom(size) + (n - 1) * SmallPage, NoFill))

MonitorProgram ==
  ElfProgram(0, MonitorName, MonitorElf)
  \o StackProgram(0, MonitorName, MonitorStackSize) \o IpcProgram(0, MonitorName)
  \o <<[op |-> "bind", owner |-> 0]>>

\* A map of a region: its checks, then its frames one by one.
MapProgram(s, o, elf, map) ==
  LET m == CHOOSE k \in DOMAIN s.mrs : s.mrs[k].name = map.mr
      region == Regions(s)[m]
  IN <<[op |-> "check", owner |-> o, elf |-> elf, mr |-> m, vaddr |-> map.vaddr,
        end |-> map.vaddr + region.page * region.count]>>
     \o Seq1(region.count, LAMBDA n :
          [op |-> "map", owner |-> o, mr |-> m, seq |-> n, size |-> region.page,
           vaddr |-> map.vaddr + (n - 1) * region.page])

MapsProgram(s, o, elf, maps) ==
  FlattenSeq(Seq1(Len(maps), LAMBDA k : MapProgram(s, o, elf, maps[k])))

RegionsProgram(s) ==
  FlattenSeq(Seq1(Len(s.mrs), LAMBDA m :
    Seq1(Regions(s)[m].count, LAMBDA n : [op |-> "frame", mr |-> m, seq |-> n])))

\* Step 3 for one PD; a VM has no image, IPC buffer or stack.
PdProgram(s, p) ==
  LET pd == s.pds[p]
  IN ElfProgram(p, pd.name, pd.elf) \o MapsProgram(s, p, pd.elf, pd.maps)
     \o IpcProgram(p, pd.name) \o StackProgram(p, pd.name, pd.stack)
     \o (IF pd.vm = <<>> THEN <<>>
         ELSE <<[op |-> "space", owner |-> -p]>> \o MapsProgram(s, -p, <<>>, pd.vm[1].maps))
     \o <<[op |-> "bind", owner |-> p]>>

Program(s) ==
  MonitorProgram \o RegionsProgram(s)
  \o FlattenSeq(Seq1(Len(s.pds), LAMBDA p : PdProgram(s, p)))

-----------------------------------------------------------------------------
Init ==
  /\ sys \in Descriptions
  /\ stage = "parse"
  /\ todo = <<>> /\ objects = <<>> /\ made = <<>>
  /\ frames = [m \in DOMAIN sys.mrs |-> <<>>]

Parse ==
  /\ stage = "parse"
  /\ IF MemoryAccepted(sys)
     THEN stage' = "build" /\ todo' = Program(sys)
     ELSE stage' = "rejected" /\ todo' = todo
  /\ UNCHANGED <<sys, objects, frames, made>>

Doing(op) == stage = "build" /\ todo # <<>> /\ Head(todo).op = op

Done == todo' = Tail(todo) /\ UNCHANGED <<sys, stage>>

Stop(outcome) == stage' = outcome /\ UNCHANGED <<sys, todo, objects, frames, made>>

\* create_vspace() and create_vspace_ept()
CreateSpace ==
  /\ Doing("space")
  /\ LET o == Head(todo).owner
         name == <<LevelName(TopLevel)>> \o Name(o)
     IN /\ objects' = Append(objects, Table(Len(objects) + 1, TopLevel, name))
        /\ made' = (o :> [space |-> Len(objects) + 1, tcb |-> 0, ipc |-> 0]) @@ made
  /\ UNCHANGED frames /\ Done

\* A frame of its own for a page of the image, of the stack, or for the IPC
\* buffer: a refusal is an Err that the caller unwraps.
AddPage ==
  /\ Doing("page") \/ Doing("ipc")
  /\ LET job   == Head(todo)
         id    == Len(objects) + 1
         added == Append(objects, Frame(job.name, SmallPage, None, job.fill))
         new   == MapPage(added, made[job.owner].space, Name(job.owner), id, SmallPage, job.vaddr)
     IN IF ~new.ok THEN Stop("unmappable")
        ELSE /\ objects' = new.objects
             /\ made' = IF job.op = "ipc" THEN [made EXCEPT ![job.owner].ipc = id] ELSE made
             /\ UNCHANGED frames /\ Done

CreateTcb ==
  /\ Doing("tcb")
  /\ LET o == Head(todo).owner
     IN /\ objects' = Append(objects, Tcb(o))
        /\ made' = [made EXCEPT ![o].tcb = Len(objects) + 1]
  /\ UNCHANGED frames /\ Done

\* Step 2.  Bytes are left for a page unless its start is behind the end of the
\* file: then the subtraction wraps and the slice panics.
AddFrame ==
  /\ Doing("frame")
  /\ LET job    == Head(todo)
         region == Regions(sys)[job.mr]
         offset == (job.seq - 1) * region.page
         paddr  == IF region.paddr = None THEN None ELSE region.paddr + offset
         fill   == [data |-> region.name, at |-> 0,
                    len |-> Least(region.page, region.prefill - offset), from |-> offset]
         name   == <<"mr">> \o region.name \o <<ToString(job.seq - 1)>>
     IN IF region.prefill # None /\ region.prefill < offset THEN Stop("shortfill")
        ELSE /\ objects' = Append(objects, Frame(name, region.page, paddr,
                             IF region.prefill = None THEN NoFill ELSE fill))
             /\ frames' = [frames EXCEPT ![job.mr] = Append(@, Len(objects) + 1)]
             /\ UNCHANGED made /\ Done

\* Before a region is mapped its page size is looked up in its first frame, and
\* in a PD its range is compared with the segments of the image.
CheckMap ==
  /\ Doing("check")
  /\ LET job == Head(todo)
         Overlaps(seg) == ~RangesApart(job.vaddr, job.end,
                             seg.vaddr, seg.vaddr + RoundUp(seg.size, SmallPage))
     IN IF frames[job.mr] = <<>> THEN Stop("noframe")
        ELSE IF \E seg \in ToSet(job.elf) : Overlaps(seg) THEN Stop("overlap")
        ELSE UNCHANGED <<objects, frames, made>> /\ Done

\* map_memory_region(), one frame
MapFrame ==
  /\ Doing("map")
  /\ LET job == Head(todo)
         new == MapPage(objects, made[job.owner].space, Name(job.owner),
                        frames[job.mr][job.seq], job.size, job.vaddr)
     IN IF ~new.ok THEN Stop("unmappable")
        ELSE objects' = new.objects /\ UNCHANGED <<frames, made>> /\ Done

\* Step 3-14: the TCB gets the capability to its IPC buffer.
BindTcb ==
  /\ Doing("bind")
  /\ LET o == made[Head(todo).owner]
     IN objects' = [objects EXCEPT ![o.tcb].slots = @ @@ ("ipc" :> o.ipc)]
  /\ UNCHANGED <<frames, made>> /\ Done

-----------------------------------------------------------------------------
(* Step 6.                                                                 *)

\* Names break ties in the code; here it is the order of creation.
SortsBefore(a, b) ==
  IF (a.paddr = None) # (b.paddr = None) THEN b.paddr = None
  ELSE IF a.paddr # b.paddr THEN a.paddr < b.paddr
  ELSE IF a.bits # b.bits THEN a.bits > b.bits ELSE a.tag < b.tag

Undecided ==
  \E i, j \in DOMAIN objects :
    /\ i < j
    /\ objects[i].name = objects[j].name
    /\ objects[i].paddr = objects[j].paddr /\ objects[i].bits = objects[j].bits

\* obj_name_to_old_id and obj_old_id_to_new_id: objects are found again by
\* their names, and the last one of a name wins.
OldIdOf(name) == Max({i \in DOMAIN objects : objects[i].name = name})

\* Mutant: the references get the old ids of the new places.
NewIdsInverted(order) == order

NewIds(order) ==
  LET found == [n \in DOMAIN order |-> OldIdOf(objects[order[n]].name)]
  IN [i \in ToSet(found) |-> Max({n \in DOMAIN order : found[n] = i})]

SortObjects ==
  /\ stage = "build" /\ todo = <<>>
  /\ LET order == SortSeq([i \in DOMAIN objects |-> i],
                          LAMBDA i, j : SortsBefore(objects[i], objects[j]))
         new   == NewIds(order)
         refs  == UNION {ToSet(objects[i].slots) : i \in DOMAIN objects}
     IN IF Undecided \/ ~(refs \subseteq DOMAIN new) THEN Stop("samename")
        ELSE /\ objects' = [n \in DOMAIN order |->
                  LET object == objects[order[n]]
                  IN [object EXCEPT !.slots = [s \in DOMAIN @ |-> new[@[s]]]]]
             /\ stage' = "built"
             /\ UNCHANGED <<sys, todo, frames, made>>

Next ==
  \/ Parse
  \/ CreateSpace \/ AddPage \/ CreateTcb \/ AddFrame \/ CheckMap \/ MapFrame \/ BindTcb
  \/ SortObjects

Spec == Init /\ [][Next]_vars

-----------------------------------------------------------------------------
(* Correctness.                                                            *)

\* The frame that could not be mapped, as pages.
RefusedRange ==
  IF stage # "unmappable" THEN <<>>
  ELSE LET job  == Head(todo)
           size == IF job.op = "map" THEN job.size ELSE SmallPage
       IN <<made[job.owner].space, (job.vaddr \div SmallPage) % NumPages, size \div SmallPage>>

\* The tables behave like flat maps, also while and after they are sorted: no
\* page is mapped over another, none moves, and a frame is refused only if one
\* of its pages is in use.
Flattened == INSTANCE AddressSpace WITH
  NumPages <- NumPages,
  Sizes    <- {1, LargePage \div SmallPage},
  spaces   <- FlatSpaces(objects),
  refused  <- RefusedRange

MapsFlat == Flattened!AddressSpaceSpec

\* What a description or an image must have for the tool to panic.
RunsOver(maps, max) ==
  \E m \in ToSet(maps) : m.vaddr + SizeOf(RegionOf(sys, m.mr)) > max

PagesOf(vaddr, size) ==
  {q % NumPages : q \in vaddr \div SmallPage .. (vaddr + size + SmallPage - 1) \div SmallPage - 1}

SegmentPagesOf(seg) == IF seg.size = 0 THEN {} ELSE PagesOf(seg.vaddr, seg.size)

StackOf(o)  == IF o = 0 THEN MonitorStackSize ELSE sys.pds[o].stack
ElfOf(o)    == CASE o = 0 -> MonitorElf [] o > 0 -> sys.pds[o].elf [] o < 0 -> <<>>
MapsOf(o)   == CASE o = 0 -> <<>> [] o > 0 -> sys.pds[o].maps [] o < 0 -> sys.pds[-o].vm[1].maps

\* The pages below the top of every PD: IPC buffer and stack, not the guard.
TopPages(o) ==
  IF o < 0 THEN {}
  ELSE PagesOf(PdIpcBuffer, SmallPage) \cup PagesOf(PdStackBottom(StackOf(o)), StackOf(o))

Owners == 0 .. Len(sys.pds) \cup {-p : p \in VmsOf(sys)}

ImageClashes(o) ==
  \/ \E seg \in ToSet(ElfOf(o)) : SegmentPagesOf(seg) \cap TopPages(o) # {}
  \/ \E k, l \in DOMAIN ElfOf(o) :
       k < l /\ SegmentPagesOf(ElfOf(o)[k]) \cap SegmentPagesOf(ElfOf(o)[l]) # {}

MaxOf(o) == IF o < 0 THEN VmMapMaxVaddr ELSE PdMapMaxVaddr(StackOf(o))

\* A frame of a PD with such a name can have the name of a frame of another kind.
LooksLikeAnother(name) == Len(name) > 1 /\ name[1] \in {"mr", "elf", "ipcbuf"}

\* The tool panics on an accepted description only for one of these reasons: an
\* image whose segments share a page or reach the stack, a map that runs past the
\* address it must stay below, a map of an empty region, a file that ends
\* before the last page of its region, a VM named like a PD or the monitor, or a
\* PD named like the frames of something else.
PanicExplained ==
  /\ stage = "unmappable" =>
       \E o \in Owners : RunsOver(MapsOf(o), MaxOf(o)) \/ ImageClashes(o)
  /\ stage = "noframe" =>
       \E m \in AllMaps(sys) : SizeOf(RegionOf(sys, m.mr)) = 0
  /\ stage = "shortfill" =>
       \E mr \in ToSet(sys.mrs) : mr.prefill # None /\ mr.prefill + SmallPage < mr.size
  /\ stage = "samename" =>
       \/ \E p, q \in Owners : p # q /\ Name(p) = Name(q)
       \/ \E p \in DOMAIN sys.pds : LooksLikeAnother(sys.pds[p].name)

\* In the finished specification an address space has the pages of its image,
\* its maps, its stack and its IPC buffer and no other; two maps of a region
\* lead to the same memory, page by page, and all other memory is mapped once;
\* the TCB has this address space and this IPC buffer.
SpacesRight ==
  stage = "built" =>
    LET flat == FlatSpaces(objects)
        Object(tag) == CHOOSE i \in DOMAIN objects : objects[i].tag = tag
        Spaces(o) == flat[made[o].space]
        PageAt(vaddr) == (vaddr \div SmallPage) % NumPages
        Region(m) == CHOOSE k \in DOMAIN sys.mrs : sys.mrs[k].name = m.mr
        InFrame(m) == Regions(sys)[Region(m)].page \div SmallPage
    IN /\ DOMAIN made = Owners
       /\ \A o \in Owners :
            /\ DOMAIN Spaces(o) =
                 TopPages(o)
                 \cup UNION {SegmentPagesOf(seg) : seg \in ToSet(ElfOf(o))}
                 \cup UNION {PagesOf(m.vaddr, SizeOf(RegionOf(sys, m.mr))) : m \in ToSet(MapsOf(o))}
            /\ \A m \in ToSet(MapsOf(o)) :
                 \A j \in 0 .. SizeOf(RegionOf(sys, m.mr)) \div SmallPage - 1 :
                   Spaces(o)[(PageAt(m.vaddr) + j) % NumPages]
                     = <<frames[Region(m)][1 + j \div InFrame(m)], j % InFrame(m)>>
            /\ o >= 0 =>
                 LET slots == objects[Object(made[o].tcb)].slots
                 IN /\ slots["space"] = Object(made[o].space)
                    /\ slots["ipc"] = Object(made[o].ipc)
                    /\ Spaces(o)[PageAt(PdIpcBuffer)][1] = made[o].ipc
       /\ \A o, q \in Owners : \A i \in DOMAIN Spaces(o), j \in DOMAIN Spaces(q) :
            Spaces(o)[i] = Spaces(q)[j] =>
              <<o, i>> = <<q, j>> \/ \E m \in DOMAIN frames : Spaces(o)[i][1] \in ToSet(frames[m])

\* Every byte of an image is found at its address, every byte of a file at its
\* offset in the region, and a frame with a physical address is at the place in
\* memory its region gives it.
ContentsRight ==
  stage = "built" =>
    LET flat == FlatSpaces(objects)
        Object(tag) == objects[CHOOSE i \in DOMAIN objects : objects[i].tag = tag]
        Holds(fill, data, offset, from) ==
          /\ fill.data = data /\ offset \in fill.at .. fill.at + fill.len - 1
          /\ fill.from + offset - fill.at = from
    IN /\ \A o \in Owners : \A k \in DOMAIN ElfOf(o) : \A b \in 0 .. ElfOf(o)[k].size - 1 :
            LET vaddr == ElfOf(o)[k].vaddr + b
                page  == flat[made[o].space][vaddr \div SmallPage]
            IN Holds(Object(page[1]).fill, <<o, k>>, vaddr % SmallPage, b)
       /\ \A m \in DOMAIN frames : \A n \in DOMAIN frames[m] :
            LET region == Regions(sys)[m]
                frame  == Object(frames[m][n])
                first  == (n - 1) * region.page
            IN /\ frame.paddr = IF region.paddr = None THEN None ELSE region.paddr + first
               /\ frame.paddr # None => frame.paddr % 2^frame.bits = 0
               /\ \A b \in first .. Least(first + region.page, region.prefill) - 1 :
                    Holds(frame.fill, region.name, b - first, b)
=============================================================================
