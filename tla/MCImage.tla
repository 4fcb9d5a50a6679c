------------------------------ MODULE MCImage -------------------------------
(***************************************************************************)
(* Memory of 128 units of which 4 are a page and 8 a large page: above the *)
(* kernel, or with half of it below; a device behind it.                   *)
(***************************************************************************)
EXTENDS ImageBuild

Kernel == Region(64, 76)
Boot   == Region(64, 68)
AboveKernel == <<Region(64, 192)>>
AroundKernel == <<Region(0, 160)>>
Devices == <<Region(192, 208)>>

Tool(pages, bits) == [kind |-> "ToolAllocated", pages |-> pages, bits |-> bits, paddr |-> NoPaddr]
Free(pages, bits) == [kind |-> "Unspecified", pages |-> pages, bits |-> bits, paddr |-> NoPaddr]
At(paddr, pages, bits) == [kind |-> "Specified", pages |-> pages, bits |-> bits, paddr |-> paddr]

Small == <<[bits |-> 3, paddr |-> NoPaddr], [bits |-> 1, paddr |-> NoPaddr],
           [bits |-> 1, paddr |-> NoPaddr], [bits |-> 0, paddr |-> NoPaddr]>>

Many(n) == Small \o [i \in 1 .. n |-> [bits |-> 3, paddr |-> NoPaddr]]

\* Regions with and without an address, in ample memory.
Ample ==
  {[devices |-> Devices, normal |-> n, kernel |-> Kernel, boot |-> Boot,
    mrs |-> <<a, b>>, others |-> Small] :
     n \in {AboveKernel, AroundKernel},
     a \in {Tool(2, 2), Tool(1, 3), Free(2, 2)},
     b \in {Tool(3, 2), Free(1, 3), At(96, 2, 2), At(120, 2, 3), At(192, 2, 2), At(16, 3, 2),
            At(44, 2, 2), At(188, 2, 2), At(60, 2, 2), Free(20, 2)}}

\* Memory that ends where the image, the rootserver's objects or the last
\* objects just fit, or do not; with some of it below the kernel, where the
\* addresses are picked and the image does not grow.
Tight ==
  {[devices |-> d, normal |-> <<Region(base, end)>>, kernel |-> Kernel, boot |-> Boot,
    mrs |-> <<Tool(2, 2)>>, others |-> Many(k)] :
     d \in {<<>>, Devices}, base \in {32, 64}, end \in {96, 112, 128, 136, 144, 152, 160, 168}, k \in {0, 2, 4, 6}}

MCSystems == Ample \cup Tight
MCPagingIndexBits == <<4, 6>>
=============================================================================
