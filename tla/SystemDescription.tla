------------------------- MODULE SystemDescription --------------------------
(***************************************************************************)
(* Which systems parse() of tool/microkit/src/sdf.rs accepts, as far as    *)
(* identifiers, priorities, channels and the tree of PDs go.  A system is  *)
(* a record [arch, pds, channels]:                                         *)
(*   pds       what pd_flatten() returns, parents before their children;   *)
(*             PD p is a record [parent, id, priority, passive, irqs,      *)
(*             ioports, vcpus, maps], where id is the number p has for its *)
(*             parent, irqs, ioports and vcpus are sequences of ids, and   *)
(*             maps is a sequence of [slot, pd, type];                     *)
(*   channels  records [a, b] of two ends [pd, id, notify, pp].            *)
(* PDs are numbered from 1, the program counts from 0.                     *)
(***************************************************************************)
EXTENDS Integers, SequencesExt, FiniteSets

PD_MAX_ID        == 61
VCPU_MAX_ID      == PD_MAX_ID
CAP_MAP_MAX_SLOT == 128
MAX_PDS          == 63
MAX_VMS          == 63

NoParent == 0

Pds(s)         == DOMAIN s.pds
Children(s, p) == {c \in Pds(s) : s.pds[c].parent = p}
HasVm(s, p)    == s.pds[p].vcpus # <<>>

\* What any system has when it is checked: names are resolved, and a PD comes
\* after its parent.
WellTyped(s) ==
  LET Pd == [parent : Nat, id : Nat, priority : Nat, passive : BOOLEAN, irqs : Seq(Nat),
             ioports : Seq(Nat), vcpus : Seq(Nat),
             maps : Seq([slot : Nat, pd : Pds(s), type : STRING])]
      End == [pd : Pds(s), id : Nat, notify : BOOLEAN, pp : BOOLEAN]
  IN /\ s.pds \in Seq(Pd)
     /\ s.channels \in Seq([a : End, b : End])
     /\ \A p \in Pds(s) : s.pds[p].parent \in 0 .. p - 1

IdsUpTo(max, ids) == ToSet(ids) \subseteq 0 .. max

\* What the elements check on their own.  The id of a child has no limit.
ElementsAccepted(s) ==
  /\ \A p \in Pds(s) :
       LET pd == s.pds[p]
       IN /\ IdsUpTo(PD_MAX_ID, pd.irqs) /\ IdsUpTo(PD_MAX_ID, pd.ioports)
          /\ IdsUpTo(VCPU_MAX_ID, pd.vcpus) /\ IsInjective(pd.vcpus)
          /\ \A m \in ToSet(pd.maps) : m.slot \in 1 .. CAP_MAP_MAX_SLOT - 1
  /\ \A c \in ToSet(s.channels) :
       /\ c.a.id \in 0 .. PD_MAX_ID /\ c.b.id \in 0 .. PD_MAX_ID
       /\ ~(c.a.pp /\ c.b.pp)

\* pd_tree_to_list(): the children and vCPUs of a PD have different ids.
TreeAccepted(s) ==
  \A p \in Pds(s) : \A c, d \in Children(s, p) :
    /\ s.pds[c].id \notin ToSet(s.pds[p].vcpus)
    /\ s.pds[c].id = s.pds[d].id => c = d

PdsAccepted(s) ==
  /\ Len(s.pds) \in 1 .. MAX_PDS
  /\ s.arch = "x86" => \A p \in Pds(s) : HasVm(s, p) => Children(s, p) = {}

\* The ids PD p uses when channel n is looked at.
EarlierEnds(s, n) ==
  UNION {{s.channels[k].a, s.channels[k].b} : k \in 1 .. n - 1}

\* Mutant: the ids of a channel are not recorded for the next one.
UsedIdsNotRecorded(s, n, p) == ToSet(s.pds[p].irqs)

\* Mutant: interrupts and channels are only looked at separately.
UsedIdsWithoutIrqs(s, n, p) == {e.id : e \in {f \in EarlierEnds(s, n) : f.pd = p}}

UsedIds(s, n, p) ==
  ToSet(s.pds[p].irqs) \cup {e.id : e \in {f \in EarlierEnds(s, n) : f.pd = p}}

\* A protected procedure call goes to a PD of higher priority, and on x86-64
\* not to one that runs a vCPU.
CallAccepted(s, from, to) ==
  /\ s.pds[from.pd].priority < s.pds[to.pd].priority
  /\ s.arch = "x86" => ~HasVm(s, to.pd)

\* The two ends of a channel are compared with what comes before them, not
\* with each other.
ChannelsAccepted(s) ==
  /\ \A p \in Pds(s) : IsInjective(s.pds[p].irqs)
  /\ \A n \in DOMAIN s.channels :
       LET a == s.channels[n].a
           b == s.channels[n].b
       IN /\ a.id \notin UsedIds(s, n, a.pd)
          /\ b.id \notin UsedIds(s, n, b.pd)
          /\ a.pp => CallAccepted(s, a, b)
          /\ b.pp => CallAccepted(s, b, a)

IoPortsAccepted(s) == \A p \in Pds(s) : IsInjective(s.pds[p].ioports)

\* Mutant: overlapping user caps are accepted.
CapMapsUnchecked(s) == TRUE

\* No two user capabilities of a PD in one slot.
CapMapsAccepted(s) ==
  \A p \in Pds(s) :
    \A k, l \in DOMAIN s.pds[p].maps :
      s.pds[p].maps[k].slot = s.pds[p].maps[l].slot => k = l

Accepted(s) ==
  /\ ElementsAccepted(s)
  /\ TreeAccepted(s)
  /\ PdsAccepted(s)
  /\ ChannelsAccepted(s)
  /\ IoPortsAccepted(s)
  /\ CapMapsAccepted(s)
=============================================================================
