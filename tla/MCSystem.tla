----------------------------- MODULE MCSystem -------------------------------
(* Systems of three PDs: every tree of them, children, vCPUs, interrupts     *)
(* and channels with the smallest and the largest id, calls either way,      *)
(* passive PDs and user capabilities.  Which of them sdf.rs accepts is for   *)
(* SystemDescription to say.                                                 *)
EXTENDS CapLayout

\* PD p of a system: the first may have vCPUs, the third an interrupt and user
\* capabilities of the first.
Pd(p, parent, id, vcpus, irqs, maps) ==
  [parent |-> parent, id |-> IF parent = NoParent THEN 0 ELSE id, priority |-> p,
   passive |-> p # 1, irqs |-> IF p = 3 THEN irqs ELSE <<>>,
   ioports |-> IF p = 2 THEN <<0, 61>> ELSE <<>>,
   vcpus |-> IF p = 1 THEN vcpus ELSE <<>>,
   maps |-> IF p = 3 THEN maps ELSE <<>>]

System(arch, parents, ids, vcpus, irqs, maps, channels) ==
  [arch |-> arch,
   pds |-> [p \in 1 .. 3 |-> Pd(p, parents[p], ids[p], vcpus, irqs, maps)],
   channels |-> channels]

Slots(k, l) == << [slot |-> k, pd |-> 1, type |-> "tcb"],
                  [slot |-> l, pd |-> 2, type |-> "vspace"] >>

Trees == {<<0, 0, 0>>, <<0, 1, 1>>, <<0, 1, 2>>}
ChIds == {<<0, 0, 61>>, <<0, 61, 61>>}
Vms   == {<<>>, <<0>>, <<7, 61>>}

EndAt(pd, id, notify, pp) == [pd |-> pd, id |-> id, notify |-> notify, pp |-> pp]

\* The first channel takes every form, the second goes on from PD 3.
TwoChannels(ways, ids) ==
  { << [a |-> EndAt(w[1], i, n[1], c = "a"), b |-> EndAt(w[2], j, n[2], c = "b")],
       [a |-> EndAt(3, 7, TRUE, FALSE), b |-> EndAt(1, 61, FALSE, TRUE)] >> :
    w \in ways, i \in ids, j \in ids,
    n \in {<<TRUE, TRUE>>, <<TRUE, FALSE>>, <<FALSE, TRUE>>}, c \in {"none", "a", "b"} }

\* Both ends of a channel at one id of one PD: parse() does not notice.
Folded(channels) ==
  \E c \in ToSet(channels) : c.a.pd = c.b.pd /\ c.a.id = c.b.id

\* Every tree with and without a VM, and every form of a channel.
MCSystems ==
  { System(arch, t, ids, vms, irqs, slots, ch) :
      arch \in {"arm", "x86"}, t \in Trees, ids \in ChIds, vms \in Vms,
      irqs \in {<<>>, <<61, 0>>}, slots \in {Slots(1, 63), Slots(1, 1)},
      ch \in {<<>>, << [a |-> EndAt(2, 61, TRUE, TRUE), b |-> EndAt(3, 7, TRUE, FALSE)] >>} }
  \cup
  { System("arm", t, <<0, 0, 61>>, <<>>, irqs, Slots(1, 63), ch) :
      t \in {<<0, 0, 0>>, <<0, 1, 1>>}, irqs \in {<<>>, <<61>>},
      ch \in {c \in TwoChannels({<<1, 2>>, <<2, 1>>, <<2, 3>>, <<3, 1>>, <<3, 3>>},
                                {0, 7, 61}) : ~Folded(c)} }
=============================================================================
