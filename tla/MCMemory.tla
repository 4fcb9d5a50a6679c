------------------------------ MODULE MCMemory ------------------------------
(***************************************************************************)
(* Address spaces of 16 pages of 16 bytes: a first level of 4 entries, two *)
(* more of 2.  The IPC buffer is page 15, the guard page 14, the stack     *)
(* ends below it.                                                          *)
(***************************************************************************)
EXTENDS MemoryBuild

Mr(name, size, page, paddr, prefill) ==
  [name |-> name, size |-> size, page |-> page, paddr |-> paddr, prefill |-> prefill]
Seg(vaddr, size) == [vaddr |-> vaddr, size |-> size]
MapTo(mr, vaddr) == [mr |-> mr, vaddr |-> vaddr]
Vm(name, maps) == <<[name |-> name, maps |-> maps]>>

A == <<"a">>
B == <<"b">>

Monitor == <<Seg(16, 16)>>

Images == {<<Seg(20, 20)>>, <<Seg(24, 4), Seg(0, 0), Seg(32, 20)>>, <<Seg(16, 20), Seg(40, 4)>>,
           <<Seg(180, 20)>>}

\* One region in all forms, mapped somewhere and into a VM.
OneRegion ==
  {[mrs |-> <<mr>>,
    pds |-> <<[name |-> <<"x">>, stack |-> 32, elf |-> elf, maps |-> <<MapTo(A, v)>>, vm |-> vm]>>] :
     mr  \in {Mr(A, size, None, None, None) : size \in {0, 16, 32, 64}}
             \cup {Mr(A, 32, 16, 48, None), Mr(A, 32, None, 48, 20), Mr(A, 64, None, 64, 33),
                   Mr(A, None, 32, None, 40), Mr(A, None, None, None, 16), Mr(A, 48, None, None, 16),
                   Mr(A, 48, None, None, 15), Mr(A, 40, None, None, None)},
     elf \in Images,
     v   \in {0, 32, 48, 160, 176, 192},
     vm  \in {<<>>, Vm(<<"v">>, <<MapTo(A, 64)>>), Vm(<<"v">>, <<MapTo(A, 240)>>)}}

\* Two PDs that share regions of both page sizes; names of several words.
Shared ==
  {[mrs |-> <<Mr(A, 64, None, pa, None), Mr(b, 16, None, 32, 7)>>,
    pds |-> <<[name |-> n, stack |-> 16, elf |-> <<Seg(200, 4)>>,
               maps |-> <<MapTo(A, 64), MapTo(b, w)>>, vm |-> <<>>],
              [name |-> <<"y">>, stack |-> 32, elf |-> <<Seg(2, 30)>>,
               maps |-> <<MapTo(b, 48), MapTo(A, 96)>>, vm |-> Vm(vn, <<MapTo(A, 0), MapTo(b, 240)>>)]>>] :
     pa \in {None, 32, 64, 128}, b \in {B, <<"x", "stack">>}, n \in {<<"x">>, <<"mr", "x">>},
     w \in {112, 128, 144}, vn \in {<<"v">>, <<"y">>}}

\* A region with large pages that nobody maps has the name of a stack.
Unused ==
  {[mrs |-> <<Mr(<<"x", "stack">>, 32, None, None, None)>>,
    pds |-> <<[name |-> <<"mr", "x">>, stack |-> s, elf |-> <<Seg(0, 4)>>, maps |-> m, vm |-> <<>>]>>] :
     s \in {16, 32, 80}, m \in {<<>>, <<MapTo(<<"x", "stack">>, 64)>>}}

MCDescriptions == OneRegion \cup Shared \cup Unused
=============================================================================
