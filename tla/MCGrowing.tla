----------------------------- MODULE MCGrowing ------------------------------
(***************************************************************************)
(* A region of two pages that the tool has to place, in memories of every  *)
(* size around the one the image needs, with a root CNode larger than a    *)
(* large page.  The specification may grow by a page when the address is   *)
(* known.                                                                  *)
(***************************************************************************)
EXTENDS ImageBuild

Placed == [kind |-> "ToolAllocated", pages |-> 2, bits |-> 2, paddr |-> NoPaddr]

MCSystems ==
  {[devices |-> <<>>, normal |-> <<Region(64, end)>>,
    kernel |-> Region(64, 76), boot |-> Region(64, 68),
    mrs |-> <<Placed>>,
    others |-> <<[bits |-> 3, paddr |-> NoPaddr], [bits |-> 1, paddr |-> NoPaddr]>>] :
     end \in {e \in 112 .. 192 : e % 4 = 0}}

MCPagingIndexBits == <<4, 6>>
=============================================================================
