----------------------------- MODULE MCSpanning ------------------------------
(***************************************************************************)
(* Memory with a part below the kernel, of which the kernel makes untyped  *)
(* objects of several sizes, and a region with an address across two.      *)
(***************************************************************************)
EXTENDS ImageBuild

MR(kind, pages, bits, paddr) == [kind |-> kind, pages |-> pages, bits |-> bits, paddr |-> paddr]
MCSystems ==
  {[devices |-> <<>>, normal |-> <<Region(base, 160)>>,
    kernel |-> Region(64, 76), boot |-> Region(64, 68),
    mrs |-> <<MR("ToolAllocated", n, 2, NoPaddr), MR("Specified", 2, 2, paddr)>>,
    others |-> <<[bits |-> 3, paddr |-> NoPaddr], [bits |-> 1, paddr |-> NoPaddr]>>] :
     base \in {24, 32}, n \in 1 .. 3, paddr \in {24, 28, 32, 40, 96, 100, 104}}
MCPagingIndexBits == <<4, 6>>
=============================================================================
