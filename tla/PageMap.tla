------------------------------ MODULE PageMap -------------------------------
(***************************************************************************)
(* The page tables of tool/microkit/src/capdl/memory.rs: objects of the    *)
(* capDL specification, which refer to each other by their position in the *)
(* sequence of all objects.  An address is a number of bytes; a table has  *)
(* 2^EntryBits entries of 8 bytes and fills a page, so small tables make   *)
(* small pages.  The first level of an AArch64 hypervisor with addresses   *)
(* of 40 bits is level 1 and has a table of its own size (TopBits).        *)
(***************************************************************************)
EXTENDS Integers, Sequences, SequencesExt, FiniteSetsExt

CONSTANTS
  Levels,      \* num_page_table_levels()
  TopLevel,    \* top_pt_level_number()
  TopBits,     \* index bits of that level
  EntryBits    \* index bits of the others

PageBits  == EntryBits + 3
SmallPage == 2^PageBits
LargePage == 2^(PageBits + EntryBits)

RoundDown(a, n) == a - (a % n)
RoundUp(a, n)   == RoundDown(a + n - 1, n)

IndexBits(level) == IF level = TopLevel THEN TopBits ELSE EntryBits

\* get_pt_level_index(): no level below another one is the first.
Shift(level) == PageBits + (Levels - 1 - level) * EntryBits

LevelIndex(level, vaddr) == (vaddr \div 2^Shift(level)) % 2^IndexBits(level)

\* get_pt_level_coverage().start, which only goes into names.
CoverageStart(level, vaddr) == RoundDown(vaddr, 2^(PageBits + (Levels - level) * EntryBits))

LevelToInsert(size) == IF size = SmallPage THEN Levels - 1 ELSE Levels - 2

\* get_pt_level_name() of AArch64; a name is the sequence of the words that the
\* program joins with underscores.
LevelName(level) == <<"pgd", "pud", "pd", "pt">>[level + 1]

TableName(level, owner, vaddr) ==
  <<LevelName(level)>> \o owner \o <<"vaddr", ToString(CoverageStart(level, vaddr))>>

\* The objects.  `tag' tells objects apart whatever their names are and
\* wherever they are moved; the code has no such field.
Table(tag, level, name) ==
  [kind |-> "table", tag |-> tag, name |-> name, root |-> level = TopLevel, level |-> level,
   bits |-> IndexBits(level) + 3, paddr |-> -1, slots |-> <<>>]

IsTable(object) == object.kind = "table"

\* Mutant: the slot is not looked at.
InsertAlways(objects, table, slot) == IsTable(objects[table])

\* insert_cap_into_page_table_level(): the object is a table, the slot free.
CanInsert(objects, table, slot) ==
  IsTable(objects[table]) /\ slot \notin DOMAIN objects[table].slots

Insert(objects, table, slot, object) ==
  [objects EXCEPT ![table].slots =
     [s \in DOMAIN @ \cup {slot} |-> IF s = slot THEN object ELSE @[s]]]

\* map_intermediary_level_helper(): one level down, through a table that is
\* made if there is none yet.  A frame already in the slot is taken for the
\* next table; only the next level finds out.
Descend(walk, level, vaddr, owner) ==
  LET slot == LevelIndex(level, vaddr)
      id   == Len(walk.objects) + 1
      next == Table(id, level + 1, TableName(level + 1, owner, vaddr))
  IN CASE ~walk.ok \/ ~IsTable(walk.objects[walk.at]) ->
            [walk EXCEPT !.ok = FALSE]
       [] slot \in DOMAIN walk.objects[walk.at].slots ->
            [walk EXCEPT !.at = walk.objects[walk.at].slots[slot]]
       [] OTHER ->
            [walk EXCEPT !.objects = Insert(Append(@, next), walk.at, slot, id), !.at = id]

\* map_page(): [objects, ok].  A refusal leaves the tables made on the way.
MapPage(objects, space, owner, frame, size, vaddr) ==
  LET target == LevelToInsert(size)
      Down(walk, level) == Descend(walk, level, vaddr, owner)
      walk == FoldLeft(Down, [objects |-> objects, at |-> space, ok |-> TRUE],
                       [i \in 1 .. target - TopLevel |-> TopLevel + i - 1])
      slot == LevelIndex(target, vaddr)
      ok   == walk.ok /\ CanInsert(walk.objects, walk.at, slot)
  IN [ok      |-> ok,
      objects |-> IF ok THEN Insert(walk.objects, walk.at, slot, frame) ELSE walk.objects]

-----------------------------------------------------------------------------
(* What the tables mean to the processor.                                  *)

NumPages == 2^(Shift(TopLevel) + TopBits - PageBits)

\* One level down from object `at'; a frame or nothing (0) stays what it is.
Below(objects, at, level, vaddr) ==
  IF at = 0 \/ ~IsTable(objects[at]) THEN at
  ELSE LET slot == LevelIndex(level, vaddr)
       IN IF slot \in DOMAIN objects[at].slots THEN objects[at].slots[slot] ELSE 0

\* The object an address leads to; 0 if there is none.
Resolve(objects, space, vaddr) ==
  LET at[level \in TopLevel .. Levels] ==
        IF level = TopLevel THEN space ELSE Below(objects, at[level - 1], level - 1, vaddr)
  IN at[Levels]

\* The partial function AddressSpace keeps for the same address space.
Flat(objects, space) ==
  LET At(p) == Resolve(objects, space, p * SmallPage)
      Memory(object, p) == <<object.tag, p % 2^(object.bits - PageBits)>>
  IN [p \in {q \in 0 .. NumPages - 1 : At(q) # 0} |-> Memory(objects[At(p)], p)]

\* By the tag of the root table.
FlatSpaces(objects) ==
  LET Roots == {i \in DOMAIN objects : IsTable(objects[i]) /\ objects[i].root}
  IN [t \in {objects[i].tag : i \in Roots} |->
        Flat(objects, CHOOSE i \in Roots : objects[i].tag = t)]
=============================================================================
