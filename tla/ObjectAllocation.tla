-------------------------- MODULE ObjectAllocation --------------------------
(***************************************************************************)
(* simulate_capdl_object_alloc_algorithm of allocation.rs: the tool        *)
(* replays, on the untyped objects it expects, the way the capDL           *)
(* initialiser will allocate the objects of the specification.             *)
(*                                                                         *)
(* Untyped objects are visited by address.  Objects with a physical        *)
(* address come first in the list of objects, by address; when an untyped  *)
(* holds the next of them the watermark is moved up to it, and the space   *)
(* on the way is used for the other objects, largest first.  These are     *)
(* kept as one window of the list for every size.                          *)
(*                                                                         *)
(* Sizes are in bits over the unit of KernelBoot; 0 bits are no memory.    *)
(***************************************************************************)
EXTENDS Words, FiniteSets, Sequences, Functions

CONSTANT NoPaddr   \* paddr of an object that may lie anywhere

ASSUME AllocationAssumption == NoPaddr \notin Nat

VARIABLES
  uts,      \* untyped objects, in the order of the boot information
  objs,     \* root objects of the specification, in their order
  strict,   \* error_reporting_level is PrintStderr
  apc,      \* "idle", "next", "fill", or the result: "true", "false", "panic"
  done,     \* untyped objects already visited
  ut,       \* the one being visited
  cur,      \* cur_paddr, its watermark
  next,     \* next_obj_id_with_paddr
  win,      \* object_windows_by_size, per size the objects still to allocate
  alloc     \* expected_allocations

allocVars == <<uts, objs, strict, apc, done, ut, cur, next, win, alloc>>

End(u) == u.base + 2^u.bits
ObjSize(o) == 2^objs[o].bits

Pinned(os) == {i \in DOMAIN os : os[i].paddr # NoPaddr}
Loose(os, b) == {i \in DOMAIN os \ Pinned(os) : os[i].bits = b}

\* Step 2: from the first object of each size on, as many as there are.
FirstOf(S) == CHOOSE i \in S : \A j \in S : i <= j
Window(os, b) ==
  IF b = 0 \/ Loose(os, b) = {} THEN [start |-> 0, end |-> 0]
  ELSE [start |-> FirstOf(Loose(os, b)),
        end   |-> FirstOf(Loose(os, b)) + Cardinality(Loose(os, b))]

\* Step 3: the last untyped object that starts at or below it holds it.
Allocatable(us, o) ==
  \E u \in Range(us) :
    /\ u.base <= o.paddr
    /\ \A v \in Range(us) : v.base <= o.paddr => v.base <= u.base
    /\ o.paddr + 2^o.bits <= End(u)
PhysAddrsOk(us, os) == \A i \in Pinned(os) : Allocatable(us, os[i])

\* Mutant: addresses that cannot be had are reported, nothing more.
BeginReports(us, os, level) ==
  /\ uts' = us /\ objs' = os /\ strict' = level
  /\ apc' = "next"
  /\ done' = {}
  /\ ut' = 0 /\ cur' = 0
  /\ next' = 1
  /\ win' = [b \in Bits |-> Window(os, b)]
  /\ alloc' = <<>>

Begin(us, os, level) ==
  /\ uts' = us /\ objs' = os /\ strict' = level
  /\ apc' = IF level /\ ~PhysAddrsOk(us, os) THEN "false" ELSE "next"
  /\ done' = {}
  /\ ut' = 0 /\ cur' = 0
  /\ next' = 1
  /\ win' = [b \in Bits |-> Window(os, b)]
  /\ alloc' = <<>>

\* The next untyped object by address; after the last one, the result.
NextUntyped ==
  /\ apc = "next"
  /\ \E u \in DOMAIN uts \ done :
       /\ \A v \in DOMAIN uts \ done : uts[u].base <= uts[v].base
       /\ ut' = u
       /\ cur' = uts[u].base
  /\ apc' = "fill"
  /\ UNCHANGED <<uts, objs, strict, done, next, win, alloc>>

Finish ==
  /\ apc = "next"
  /\ done = DOMAIN uts
  /\ apc' = IF \A b \in Bits : win[b].start = win[b].end THEN "true" ELSE "false"
  /\ UNCHANGED <<uts, objs, strict, done, ut, cur, next, win, alloc>>

\* How far this untyped object can be filled before a pinned object.
PinnedAhead == next <= Cardinality(Pinned(objs)) /\ objs[next].paddr < End(uts[ut])
Target == IF PinnedAhead THEN objs[next].paddr ELSE End(uts[ut])

\* size_bits <= max_size_bits: of the distance to the target, and of the
\* offset of the watermark in the untyped object, the largest power of two.
\* Mutant: only the offset of the watermark bounds the size.
FitsAnyDistance(b) == cur # uts[ut].base => 2^b <= cur - uts[ut].base

Fits(b) ==
  /\ 2^b <= Target - cur
  /\ cur # uts[ut].base => 2^b <= cur - uts[ut].base

Waiting(b) == win[b].start < win[b].end
Creatable(b) == ~uts[ut].device /\ Fits(b) /\ Waiting(b)

\* Mutant: every object is recorded where its untyped object begins.
RecordBase(o) == alloc' = [i \in DOMAIN alloc \cup {o} |->
                             IF i = o THEN [ut |-> ut, paddr |-> uts[ut].base] ELSE alloc[i]]

Record(o) == alloc' = [i \in DOMAIN alloc \cup {o} |->
                         IF i = o THEN [ut |-> ut, paddr |-> cur] ELSE alloc[i]]

\* The largest object that still waits and fits.
Create ==
  /\ apc = "fill" /\ cur < Target
  /\ \E b \in Bits :
       LET o == win[b].start
       IN  /\ Creatable(b)
           /\ \A c \in Bits : Creatable(c) => c <= b
           /\ o \notin DOMAIN alloc
           /\ Record(o)
           /\ cur' = cur + ObjSize(o)
           /\ win' = [win EXCEPT ![b].start = @ + 1]
  /\ UNCHANGED <<uts, objs, strict, apc, done, ut, next>>

\* Nothing to create here: the watermark is moved towards a pinned object
\* by the largest step, or the rest of the untyped object is left unused.
\* Mutant: the watermark moves only on the way to a pinned object.
SkipPinnedAhead ==
  /\ apc = "fill" /\ cur < Target
  /\ \A b \in Bits : ~Creatable(b)
  /\ PinnedAhead
  /\ cur' = Target
  /\ UNCHANGED <<uts, objs, strict, apc, done, ut, next, win, alloc>>

Skip ==
  /\ apc = "fill" /\ cur < Target
  /\ \A b \in Bits : ~Creatable(b)
  /\ IF PinnedAhead
     THEN \E m \in Bits : /\ Fits(m)
                          /\ \A c \in Bits : Fits(c) => c <= m
                          /\ cur' = cur + 2^m
     ELSE cur' = Target
  /\ UNCHANGED <<uts, objs, strict, apc, done, ut, next, win, alloc>>

\* The pinned object itself.
CreatePinned ==
  /\ apc = "fill" /\ cur >= Target
  /\ PinnedAhead
  /\ objs[next].paddr = cur
  /\ next \notin DOMAIN alloc
  /\ Record(next)
  /\ cur' = cur + ObjSize(next)
  /\ next' = next + 1
  /\ UNCHANGED <<uts, objs, strict, apc, done, ut, win>>

\* assert_eq! fails: the watermark is already behind the pinned object.
MissPinned ==
  /\ apc = "fill" /\ cur >= Target
  /\ PinnedAhead
  /\ objs[next].paddr # cur
  /\ apc' = "panic"
  /\ UNCHANGED <<uts, objs, strict, done, ut, cur, next, win, alloc>>

CloseUntyped ==
  /\ apc = "fill" /\ cur >= Target
  /\ ~PinnedAhead
  /\ done' = done \cup {ut}
  /\ apc' = "next"
  /\ UNCHANGED <<uts, objs, strict, ut, cur, next, win, alloc>>

AllocStep ==
  \/ NextUntyped
  \/ Finish
  \/ Create
  \/ Skip
  \/ CreatePinned
  \/ MissPinned
  \/ CloseUntyped

-----------------------------------------------------------------------------
(***************************************************************************)
(* What the simulation assumes of its question, and what it achieves.      *)
(***************************************************************************)
ObjEnd(o, p) == p + ObjSize(o)

UntypedsSound(us) ==
  /\ \A i \in DOMAIN us : us[i].base \in Nat /\ us[i].bits \in Bits
  /\ \A i, j \in DOMAIN us : i # j => End(us[i]) <= us[j].base \/ End(us[j]) <= us[i].base

\* The objects with an address come first, by address and apart; of the
\* others, those of a size are the window of that size.
ObjectsSound(os) ==
  /\ IsFiniteSet(DOMAIN os)
  /\ \A i \in DOMAIN os : os[i].bits \in Bits /\ os[i].paddr \in Nat \cup {NoPaddr}
  /\ Pinned(os) = 1 .. Cardinality(Pinned(os))
  /\ \A i, j \in Pinned(os) : i < j => os[i].paddr + 2^os[i].bits <= os[j].paddr
  /\ \A b \in Bits \ {0} :
       LET w == Window(os, b)
       IN  w.start \in Nat /\ w.end \in Nat /\ Loose(os, b) = w.start .. w.end - 1

WellFormed(us, os) == UntypedsSound(us) /\ ObjectsSound(os)

\* An object lies in the untyped object it is recorded for, at its address
\* if it has one.
InPlace(o) ==
  /\ uts[alloc[o].ut].base <= alloc[o].paddr
  /\ ObjEnd(o, alloc[o].paddr) <= End(uts[alloc[o].ut])
  /\ objs[o].paddr \in {NoPaddr, alloc[o].paddr}

\* In a sound question whose addresses can be had: no two objects share
\* memory, each lies where it is recorded, no assertion fails, and the
\* answer "true" leaves out no object that takes memory.
AllocationSound ==
  WellFormed(uts, objs) /\ PhysAddrsOk(uts, objs) =>
    /\ \A o \in DOMAIN alloc : InPlace(o)
    /\ \A o, p \in DOMAIN alloc : o # p =>
         \/ ObjEnd(o, alloc[o].paddr) <= alloc[p].paddr
         \/ ObjEnd(p, alloc[p].paddr) <= alloc[o].paddr
    /\ apc # "panic"
    /\ apc = "true" => \A o \in DOMAIN objs : objs[o].bits > 0 => o \in DOMAIN alloc
=============================================================================
