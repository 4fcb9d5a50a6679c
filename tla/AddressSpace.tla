---------------------------- MODULE AddressSpace ----------------------------
(***************************************************************************)
(* What the page tables of a system mean: a set of address spaces, each a  *)
(* partial function from page numbers to memory <<frame, page of it>>.  A  *)
(* frame is mapped where nothing is mapped yet, or not at all; what is     *)
(* mapped stays.  Page numbers wrap at the size of the address space.      *)
(***************************************************************************)
EXTENDS Naturals

CONSTANTS
  NumPages,   \* of an address space
  Sizes       \* of a frame, in pages

VARIABLES
  spaces,     \* address space -> page -> <<frame, page of it>>
  refused     \* the <<space, page, size>> that could not be mapped, or <<>>

addressSpaceVars == <<spaces, refused>>

Page == 0 .. NumPages - 1

PagesFrom(p, n) == {(p + i) % NumPages : i \in 0 .. n - 1}

AddressSpaceInit == spaces = <<>> /\ refused = <<>>

\* The steps, as relations between the spaces before and after.
Create(before, after, v) ==
  after = [w \in DOMAIN before \cup {v} |-> IF w = v THEN <<>> ELSE before[w]]

\* The frame is the one found afterwards at the first page of the range.
Map(before, after, v, p, n) ==
  /\ PagesFrom(p, n) \cap DOMAIN before[v] = {}
  /\ after = [before EXCEPT ![v] =
       [q \in DOMAIN before[v] \cup PagesFrom(p, n) |->
          IF q \in DOMAIN before[v] THEN before[v][q]
          ELSE <<after[v][p][1], (q + NumPages - p) % NumPages>>]]

\* A page of the range in use is the only reason to refuse a frame; nothing
\* happens any more after that.
Refuse(before, after, v, p, n) ==
  /\ refused' = <<v, p, n>>
  /\ PagesFrom(p, n) \cap DOMAIN before[v] # {}
  /\ after = before

AddressSpaceNext ==
  /\ refused = <<>>
  /\ \E before \in {spaces}, after \in {spaces'} :
       \/ /\ UNCHANGED refused
          /\ \/ \E v \in DOMAIN after \ DOMAIN before : Create(before, after, v)
             \/ \E v \in DOMAIN before :
                  \E p \in DOMAIN after[v] \ DOMAIN before[v], n \in Sizes :
                    Map(before, after, v, p, n)
       \/ \E v \in DOMAIN before, p \in Page, n \in Sizes : Refuse(before, after, v, p, n)

AddressSpaceSpec == AddressSpaceInit /\ [][AddressSpaceNext]_addressSpaceVars
=============================================================================
