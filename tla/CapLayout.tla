----------------------------- MODULE CapLayout ------------------------------
(***************************************************************************)
(* How build_capdl_spec() of tool/microkit/src/capdl/builder.rs hands out  *)
(* capabilities, together with the two programs that rely on where they    *)
(* are: libmicrokit finds a capability at a fixed slot and decodes badges  *)
(* in handler_loop(), the monitor computes slots from badges.              *)
(*                                                                         *)
(* A badge is the set of its bits, a CNode the sequence of entries pushed  *)
(* into it.  Objects are named <<p>> for those of PD p, <<p, v>> for those *)
(* of its vCPU v and <<>> for the monitor's.  Page tables, frames, stacks  *)
(* and scheduling parameters are left out.                                 *)
(***************************************************************************)
EXTENDS SystemDescription

CONSTANT Systems  \* the descriptions to build

PD_INPUT_CAP      == 1
PD_FAULT_EP_CAP   == 2
PD_VSPACE_CAP     == 3
PD_REPLY_CAP      == 4
PD_MONITOR_EP_CAP == 5

PD_BASE_OUTPUT_NOTIFICATION_CAP == 10
PD_BASE_OUTPUT_ENDPOINT_CAP     == PD_BASE_OUTPUT_NOTIFICATION_CAP + 64
PD_BASE_IRQ_CAP                 == PD_BASE_OUTPUT_ENDPOINT_CAP + 64
PD_BASE_PD_TCB_CAP              == PD_BASE_IRQ_CAP + 64
PD_BASE_VM_TCB_CAP              == PD_BASE_PD_TCB_CAP + 64
PD_BASE_VCPU_CAP                == PD_BASE_VM_TCB_CAP + 64
PD_BASE_IOPORT_CAP              == PD_BASE_VCPU_CAP + 64

MON_BASE_PD_TCB_CAP        == 10
MON_BASE_VM_TCB_CAP        == MON_BASE_PD_TCB_CAP + 64
MON_BASE_SCHED_CONTEXT_CAP == MON_BASE_VM_TCB_CAP + 64
MON_BASE_NOTIFICATION_CAP  == MON_BASE_SCHED_CONTEXT_CAP + 64

PD_CAP_SIZE      == 512
PD_ROOT_CAP_SIZE == 64

FAULT_BIT == 62
PPC_BIT   == 63

ASSUME SystemsAssumption == \A s \in Systems : WellTyped(s)

VARIABLES
  system,         \* the description
  pdsBuilt,       \* how many PDs step 3 has built
  channelsBuilt,  \* how many channels step 4 has built
  mapsBuilt,      \* of how many PDs step 5 has handled the cap maps
  cnode,          \* the CNode of each PD that libmicrokit uses
  root,           \* the root CNode of each PD
  mon,            \* the CNode of the monitor
  monitorVcpuIdx, \* how many TCBs of vCPUs the monitor has
  endpoint,       \* the PDs that have an endpoint
  faultEp,        \* the fault endpoint of each thread
  panicked        \* an assert or expect of the builder has failed

vars == <<system, pdsBuilt, channelsBuilt, mapsBuilt, cnode, root, mon,
          monitorVcpuIdx, endpoint, faultEp, panicked>>

\* The bits of a number below 2^10, and back.
Bits(n)      == {i \in 0 .. 9 : (n \div 2 ^ i) % 2 = 1}
Number(bits) ==
  LET Value(i) == IF i \in bits THEN 2 ^ i ELSE 0
  IN Value(0) + Value(1) + Value(2) + Value(3) + Value(4)
     + Value(5) + Value(6) + Value(7) + Value(8) + Value(9)

Cap(type, obj, badge) == [type |-> type, obj |-> obj, badge |-> badge]
Entry(slot, cap)      == [slot |-> slot, cap |-> cap]
When(b, entries)      == IF b THEN entries ELSE <<>>
ForEach(ids, E(_))    == [k \in DOMAIN ids |-> E(ids[k])]

\* symbols.rs has written the names of the vCPUs for the monitor before, into a
\* table of MAX_VMS + 1, and panics when they are more.
AllVcpus(s) == {w \in Pds(s) \X (0 .. VCPU_MAX_ID) : w[2] \in ToSet(s.pds[w[1]].vcpus)}
NamesFit(s) == Cardinality(AllVcpus(s)) <= MAX_VMS + 1

Init ==
  /\ system \in {s \in Systems : Accepted(s) /\ NamesFit(s)}
  /\ pdsBuilt = 0 /\ channelsBuilt = 0 /\ mapsBuilt = 0
  /\ cnode = <<>> /\ root = <<>>
  /\ mon = << Entry(1, Cap("ep", <<>>, {})), Entry(2, Cap("reply", <<>>, {})) >>
  /\ monitorVcpuIdx = 0
  /\ endpoint = {} /\ faultEp = {}
  /\ panicked = FALSE

-----------------------------------------------------------------------------
(* Step 3: the PDs.                                                        *)

\* Mutant: only the PD at the second end of a channel is considered.
NeedsEpSecondEnd(p) ==
  \/ Children(system, p) # {}
  \/ HasVm(system, p)
  \/ \E c \in ToSet(system.channels) : c.a.pp /\ c.b.pd = p

NeedsEp(p) ==
  \/ Children(system, p) # {}
  \/ HasVm(system, p)
  \/ \E c \in ToSet(system.channels) :
       \/ c.a.pp /\ c.b.pd = p
       \/ c.b.pp /\ c.a.pd = p

\* Mutant: the badge says who the child is but not that it is a fault.
FaultCapNoFaultBit(p) ==
  LET pd == system.pds[p]
  IN IF pd.parent # NoParent
       THEN Cap("ep", <<pd.parent>>, Bits(pd.id))
       ELSE Cap("ep", <<>>, Bits(p))

\* The fault endpoint: the parent's, or that of the monitor, which takes badge
\* 0 for no badge and therefore counts from 1.
FaultCap(p) ==
  LET pd == system.pds[p]
  IN IF pd.parent # NoParent
       THEN Cap("ep", <<pd.parent>>, {FAULT_BIT} \cup Bits(pd.id))
       ELSE Cap("ep", <<>>, Bits(p))

\* The capabilities that a PD has at a fixed slot, and those for its interrupts,
\* I/O ports and vCPUs.
FixedEntries(p) ==
  << Entry(PD_VSPACE_CAP, Cap("vspace", <<p>>, {})),
     Entry(PD_FAULT_EP_CAP, FaultCap(p)),
     Entry(PD_INPUT_CAP, Cap(IF NeedsEp(p) THEN "ep" ELSE "ntfn", <<p>>, {})),
     Entry(PD_REPLY_CAP, Cap("reply", <<p>>, {})) >>
  \o When(system.pds[p].passive, << Entry(PD_MONITOR_EP_CAP, Cap("ep", <<>>, Bits(p))) >>)
IrqEntries(p) ==
  LET Irq(i) == Entry(PD_BASE_IRQ_CAP + i, Cap("irq", <<p>>, {i}))
  IN ForEach(system.pds[p].irqs, Irq)
IoPortEntries(p) ==
  LET IoPort(i) == Entry(PD_BASE_IOPORT_CAP + i, Cap("ioport", <<p, i>>, {}))
  IN ForEach(system.pds[p].ioports, IoPort)
VcpuEntries(p) ==
  LET Vcpu(v) == Entry(PD_BASE_VCPU_CAP + v, Cap("vcpu", <<p, v>>, {}))
  IN ForEach(system.pds[p].vcpus, Vcpu)
VmTcbEntries(p) ==
  LET VmTcb(v) == Entry(PD_BASE_VM_TCB_CAP + v, Cap("tcb", <<p, v>>, {}))
  IN When(system.arch # "x86", ForEach(system.pds[p].vcpus, VmTcb))

PdEntries(p) ==
  FixedEntries(p) \o IrqEntries(p) \o IoPortEntries(p) \o VcpuEntries(p) \o VmTcbEntries(p)

\* On x86-64 a vCPU is bound to the thread of its PD.
VcpuFaultEps(p) ==
  IF system.arch = "x86" THEN {}
  ELSE { [thread |-> <<p, v>>, cap |-> Cap("ep", <<p>>, {FAULT_BIT} \cup Bits(v))] :
         v \in ToSet(system.pds[p].vcpus) }

\* Mutant: the slots of the monitor count from 1.
MonEntriesFromOne(p) ==
  << Entry(MON_BASE_PD_TCB_CAP + p, Cap("tcb", <<p>>, {})) >>
  \o When(system.pds[p].passive,
          << Entry(MON_BASE_SCHED_CONTEXT_CAP + p, Cap("sc", <<p>>, {})),
             Entry(MON_BASE_NOTIFICATION_CAP + p, Cap("ntfn", <<p>>, {})) >>)

\* What the monitor gets: the TCBs of vCPUs in the order they come, those of
\* PDs at their index, and the means to make a PD passive.
MonVcpuEntries(p) ==
  LET vcpus == system.pds[p].vcpus
  IN When(system.arch # "x86",
          [k \in DOMAIN vcpus |->
             Entry(MON_BASE_VM_TCB_CAP + monitorVcpuIdx + k - 1, Cap("tcb", <<p, vcpus[k]>>, {}))])
MonEntries(p) ==
  << Entry(MON_BASE_PD_TCB_CAP + p - 1, Cap("tcb", <<p>>, {})) >>
  \o When(system.pds[p].passive,
          << Entry(MON_BASE_SCHED_CONTEXT_CAP + p - 1, Cap("sc", <<p>>, {})),
             Entry(MON_BASE_NOTIFICATION_CAP + p - 1, Cap("ntfn", <<p>>, {})) >>)

\* A parent's root CNode gets the TCB of its child, at a slot of the other CNode.
BuildPd ==
  LET p        == pdsBuilt + 1
      parent   == system.pds[p].parent
      childTcb == PD_BASE_PD_TCB_CAP + system.pds[p].id
  IN /\ pdsBuilt < Len(system.pds) /\ ~panicked
     /\ pdsBuilt' = p
     /\ cnode' = Append(cnode, PdEntries(p))
     /\ root' =
          Append([q \in DOMAIN root |->
                    root[q] \o When(q = parent,
                                    << Entry(childTcb, Cap("tcb", <<p>>, {})) >>)],
                 << Entry(0, Cap("cnode", <<p>>, {})) >>)
     /\ mon' = mon \o MonVcpuEntries(p) \o MonEntries(p)
     /\ monitorVcpuIdx' = monitorVcpuIdx + Len(MonVcpuEntries(p))
     /\ endpoint' = endpoint \cup {q \in {p} : NeedsEp(q)}
     /\ faultEp' = faultEp \cup {[thread |-> <<p>>, cap |-> FaultCap(p)]}
                           \cup VcpuFaultEps(p)
     /\ panicked' =
          \/ parent # NoParent /\ (parent \notin endpoint \/ childTcb >= PD_CAP_SIZE)
          \/ system.arch = "x86" /\ Len(system.pds[p].vcpus) > 1
          \/ \E e \in ToSet(MonVcpuEntries(p) \o MonEntries(p)) : e.slot >= PD_CAP_SIZE
     /\ UNCHANGED <<system, channelsBuilt, mapsBuilt>>

-----------------------------------------------------------------------------
(* Steps 4 and 5: the channels and the user capabilities.                  *)

\* Mutant: the badge carries the number of the wrong end.
EndEntriesOwnId(e, f) ==
  When(e.notify, << Entry(PD_BASE_OUTPUT_NOTIFICATION_CAP + e.id,
                          Cap("ntfn", <<f.pd>>, {e.id})) >>)
  \o When(e.pp, << Entry(PD_BASE_OUTPUT_ENDPOINT_CAP + e.id,
                         Cap("ep", <<f.pd>>, {PPC_BIT} \cup Bits(e.id))) >>)

\* What the PD at end e of a channel gets to reach the PD at end f.
EndEntries(e, f) ==
  When(e.notify, << Entry(PD_BASE_OUTPUT_NOTIFICATION_CAP + e.id,
                          Cap("ntfn", <<f.pd>>, {f.id})) >>)
  \o When(e.pp, << Entry(PD_BASE_OUTPUT_ENDPOINT_CAP + e.id,
                         Cap("ep", <<f.pd>>, {PPC_BIT} \cup Bits(f.id))) >>)

BuildChannel ==
  /\ pdsBuilt = Len(system.pds) /\ channelsBuilt < Len(system.channels) /\ ~panicked
  /\ channelsBuilt' = channelsBuilt + 1
  /\ LET a == system.channels[channelsBuilt + 1].a
         b == system.channels[channelsBuilt + 1].b
     IN /\ cnode' = [p \in DOMAIN cnode |->
                       cnode[p] \o When(a.pd = p, EndEntries(a, b))
                                \o When(b.pd = p, EndEntries(b, a))]
        /\ panicked' = \/ a.pp /\ b.pd \notin endpoint
                       \/ b.pp /\ a.pd \notin endpoint
  /\ UNCHANGED <<system, pdsBuilt, mapsBuilt, root, mon, monitorVcpuIdx, endpoint,
                 faultEp>>

MapCaps ==
  LET p      == mapsBuilt + 1
      Map(m) == Entry(m.slot, Cap(m.type, <<m.pd>>, {}))
  IN /\ pdsBuilt = Len(system.pds) /\ channelsBuilt = Len(system.channels)
     /\ mapsBuilt < Len(system.pds) /\ ~panicked
     /\ mapsBuilt' = p
     /\ root' = [root EXCEPT ![p] = @ \o ForEach(system.pds[p].maps, Map)]
     /\ UNCHANGED <<system, pdsBuilt, channelsBuilt, cnode, mon, monitorVcpuIdx, endpoint,
                 faultEp, panicked>>

-----------------------------------------------------------------------------
(* symbols.rs: what a PD is told about itself.                             *)

PdEnds(p) == {e \in EarlierEnds(system, Len(system.channels) + 1) : e.pd = p}

\* Mutant: only the first end of a channel is looked at.
NotificationBitsFirstEnd(p) ==
  {c.a.id : c \in {d \in ToSet(system.channels) : d.a.pd = p /\ d.a.notify}}

NotificationBits(p) == {e.id : e \in {f \in PdEnds(p) : f.notify}}
PpBits(p)           == {e.id : e \in {f \in PdEnds(p) : f.pp}}
IrqBits(p)          == ToSet(system.pds[p].irqs)
IoPortBits(p)       == ToSet(system.pds[p].ioports)

-----------------------------------------------------------------------------
(* libmicrokit and the monitor at run time.                                *)

\* The capabilities a PD finds at an address below PD_CAP_SIZE: those at that
\* slot of the CNode at slot 0 of its root.
AtSlot(entries, slot) == {e.cap : e \in {f \in ToSet(entries) : f.slot = slot}}

\* How handler_loop() reads a badge.
Dispatch(badge) ==
  IF FAULT_BIT \in badge
    THEN {<<"fault", Number(badge \cap (0 .. 7))>>}
  ELSE IF PPC_BIT \in badge
    THEN {<<"protected", Number(badge \cap (0 .. 5))>>}
  ELSE {<<"notified", i>> : i \in badge}

\* seL4_ReplyRecv and the like on INPUT_CAP receive calls and faults only if it
\* is the PD's endpoint.
Listens(p) == AtSlot(cnode[p], PD_INPUT_CAP) = {Cap("ep", <<p>>, {})}

\* The one capability at a slot leads to that entry point of PD q.
Reaches(p, slot, type, q, event) ==
  \E cap \in AtSlot(cnode[p], slot) :
    /\ AtSlot(cnode[p], slot) = {cap}
    /\ cap.type = type /\ cap.obj = <<q>>
    /\ Dispatch(cap.badge) = {event}
    /\ type = "ep" => Listens(q)

\* microkit_cspace_root_slot_to_cptr() is not seL4_CapNull.
HasCptr(slot) == slot # 0 /\ slot < PD_ROOT_CAP_SIZE

-----------------------------------------------------------------------------
Next == BuildPd \/ BuildChannel \/ MapCaps

Spec == Init /\ [][Next]_vars

Done ==
  /\ pdsBuilt = Len(system.pds) /\ channelsBuilt = Len(system.channels)
  /\ mapsBuilt = Len(system.pds) /\ ~panicked

-----------------------------------------------------------------------------
(* Properties.                                                             *)

\* No assert and no expect of the builder fails on a description sdf.rs accepts,
\* but the one that x86-64 has a single vCPU.
NoPanic ==
  panicked => system.arch = "x86" /\ \E p \in Pds(system) : Len(system.pds[p].vcpus) > 1

\* Nothing is put into a slot twice (builder.rs:1118 trusts sdf.rs in this).
SlotsUnique ==
  \A entries \in {mon} \cup ToSet(cnode) \cup ToSet(root) :
    \A k, l \in DOMAIN entries : entries[k].slot = entries[l].slot => k = l

\* A notification or a protected call through a channel arrives at the other
\* PD's entry point, with the number that PD gave the channel.
ChannelsWork ==
  Done => \A c \in ToSet(system.channels) :
            \A w \in {<<c.a, c.b>>, <<c.b, c.a>>} :
              LET e == w[1]
                  f == w[2]
              IN /\ e.notify =>
                      Reaches(e.pd, PD_BASE_OUTPUT_NOTIFICATION_CAP + e.id, "ntfn",
                              f.pd, <<"notified", f.id>>)
                 /\ e.pp =>
                      Reaches(e.pd, PD_BASE_OUTPUT_ENDPOINT_CAP + e.id, "ep",
                              f.pd, <<"protected", f.id>>)

\* Everything that makes seL4 run an entry point of a PD: its capabilities in
\* other PDs, its interrupts, and the threads whose faults it handles.
Arrivals ==
  (UNION {{[from |-> <<p, e.slot>>, to |-> e.cap.obj, as |-> Dispatch(e.cap.badge)] :
             e \in {f \in ToSet(cnode[p]) :
                      /\ f.slot >= PD_BASE_OUTPUT_NOTIFICATION_CAP
                      /\ f.cap.type \in {"ntfn", "ep", "irq"}}} :
          p \in DOMAIN cnode})
  \cup {[from |-> f.thread, to |-> f.cap.obj, as |-> Dispatch(f.cap.badge)] :
        f \in {g \in faultEp : g.cap.obj # <<>>}}

\* The entry point and its argument tell a PD which channel, interrupt, child or
\* vCPU it is about: no two of them arrive as the same.
OneSource ==
  \A s, t \in Arrivals : s.to = t.to /\ s.as \cap t.as # {} => s = t

\* A fault of a child or a vCPU calls fault() of the parent, with its number.
ChildFaultsArrive ==
  Done => \A f \in faultEp :
    LET p      == f.thread[1]
        parent == IF Len(f.thread) = 2 THEN p ELSE system.pds[p].parent
        id     == IF Len(f.thread) = 2 THEN f.thread[2] ELSE system.pds[p].id
    IN parent # NoParent =>
         /\ f.cap.obj = <<parent>> /\ f.cap.type = "ep" /\ Listens(parent)
         /\ Dispatch(f.cap.badge) = {<<"fault", id>>}

\* From the badge of a fault or of a request to become passive the monitor gets
\* to the objects of the PD that sent it: to no other's, and to one each.
MonitorKnows ==
  Done => \A p \in DOMAIN cnode :
    LET MonitorFinds(badge) ==
          LET pdId == Number(badge) - 1
          IN /\ AtSlot(mon, MON_BASE_PD_TCB_CAP + pdId) = {Cap("tcb", <<p>>, {})}
             /\ system.pds[p].passive =>
                  /\ AtSlot(mon, MON_BASE_SCHED_CONTEXT_CAP + pdId)
                       = {Cap("sc", <<p>>, {})}
                  /\ AtSlot(mon, MON_BASE_NOTIFICATION_CAP + pdId)
                       = {Cap("ntfn", <<p>>, {})}
    IN /\ system.pds[p].passive =>
            \E cap \in AtSlot(cnode[p], PD_MONITOR_EP_CAP) :
              cap.obj = <<>> /\ MonitorFinds(cap.badge)
       /\ \A f \in faultEp :
            f.thread = <<p>> /\ f.cap.obj = <<>> => MonitorFinds(f.cap.badge)

\* libmicrokit lets a channel through exactly when there is a capability behind
\* it: what symbols.rs writes agrees with what builder.rs does.
MasksAgree ==
  Done => \A p \in DOMAIN cnode : \A i \in 0 .. PD_MAX_ID :
    LET Filled(base) == AtSlot(cnode[p], base + i) # {}
    IN /\ i \in NotificationBits(p) <=> Filled(PD_BASE_OUTPUT_NOTIFICATION_CAP)
       /\ i \in PpBits(p)           <=> Filled(PD_BASE_OUTPUT_ENDPOINT_CAP)
       /\ i \in IrqBits(p)          <=> Filled(PD_BASE_IRQ_CAP)
       /\ i \in IoPortBits(p)       <=> Filled(PD_BASE_IOPORT_CAP)

\* A user capability is where microkit_cspace_root_slot_to_cptr() says.
UserCapsArrive ==
  Done => \A p \in DOMAIN root : \A m \in ToSet(system.pds[p].maps) :
    HasCptr(m.slot) => AtSlot(root[p], m.slot) = {Cap(m.type, <<m.pd>>, {})}

\* microkit_pd_restart() and microkit_pd_stop() find the TCB of a child
\* (builder.rs:726, "Allow the parent PD to access the child's TCB").
ChildManageable ==
  Done => \A p \in DOMAIN cnode : \A c \in Children(system, p) :
    AtSlot(cnode[p], PD_BASE_PD_TCB_CAP + system.pds[c].id) = {Cap("tcb", <<c>>, {})}
=============================================================================
