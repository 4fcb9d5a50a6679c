-------------------------- MODULE CapLayout_proofs --------------------------
(***************************************************************************)
(* The capabilities of every system that sdf.rs accepts, with any number   *)
(* of PDs, channels, interrupts, I/O ports, vCPUs and user capabilities.   *)
(*                                                                         *)
(* LayoutInv says what is in every CNode after each step of the builder:   *)
(* as a set of entries, which the steps only add to, and, where the checks *)
(* of sdf.rs keep the slots apart, without two entries for one slot.  The  *)
(* properties of CapLayout follow from it.  Two of the things they need    *)
(* are checked nowhere in sdf.rs and stand before them as conditions:      *)
(*   ChildIdsBelow(n)  the number of a child has no limit, but 310 is the  *)
(*                     first without a slot for its TCB, and 256 the first *)
(*                     that the badge of a fault does not hold;            *)
(*   NoneFolded        no channel has both ends at one id of one PD.       *)
(* All other properties need neither.                                      *)
(***************************************************************************)
EXTENDS CapLayout, FiniteSetTheorems, SequenceTheorems, TLAPS

-----------------------------------------------------------------------------
(***************************************************************************)
(* Sequences of entries: a sequence over its own elements, without two     *)
(* entries for one slot.                                                   *)
(***************************************************************************)
IsSeq(s) == s \in Seq(ToSet(s))
SlotsOf(s) == {s[k].slot : k \in DOMAIN s}
Unique(s) == \A k, l \in DOMAIN s : s[k].slot = s[l].slot => k = l

\* The slots of a sequence are those of its elements.
LEMMA SlotsFacts ==
  ASSUME NEW s
  PROVE  SlotsOf(s) = {e.slot : e \in ToSet(s)}
  BY DEF SlotsOf, ToSet

\* Putting two sequences together.
LEMMA ConcatFacts ==
  ASSUME NEW s, NEW t, IsSeq(s), IsSeq(t)
  PROVE  /\ IsSeq(s \o t)
         /\ ToSet(s \o t) = ToSet(s) \cup ToSet(t)
         /\ SlotsOf(s \o t) = SlotsOf(s) \cup SlotsOf(t)
         /\ Unique(s) /\ Unique(t) /\ SlotsOf(s) \cap SlotsOf(t) = {} => Unique(s \o t)
<1> DEFINE S == ToSet(s) \cup ToSet(t)
<1>1. s \in Seq(S) /\ t \in Seq(S)
  BY SeqMonotonic DEF IsSeq
<1>2. /\ s \o t \in Seq(S) /\ Len(s \o t) = Len(s) + Len(t)
      /\ \A i \in 1 .. Len(s) + Len(t) :
           (s \o t)[i] = IF i <= Len(s) THEN s[i] ELSE t[i - Len(s)]
      /\ DOMAIN (s \o t) = 1 .. Len(s) + Len(t)
      /\ DOMAIN s = 1 .. Len(s) /\ DOMAIN t = 1 .. Len(t)
      /\ Len(s) \in Nat /\ Len(t) \in Nat
  <2> HIDE DEF S
  <2> QED
    BY <1>1, ConcatProperties, LenProperties
<1>3. ToSet(s \o t) = ToSet(s) \cup ToSet(t)
  <2>1. \A i \in 1 .. Len(s) : i \in 1 .. Len(s) + Len(t) /\ (s \o t)[i] = s[i]
    BY <1>2
  <2>2. \A i \in 1 .. Len(t) : /\ i + Len(s) \in 1 .. Len(s) + Len(t)
                               /\ (s \o t)[i + Len(s)] = t[i]
    BY <1>2
  <2>3. \A i \in 1 .. Len(s) + Len(t) : (s \o t)[i] \in ToSet(s) \cup ToSet(t)
    BY <1>2 DEF ToSet
  <2>4. ToSet(s \o t) \subseteq ToSet(s) \cup ToSet(t)
    BY <1>2, <2>3 DEF ToSet
  <2>5. ASSUME NEW i \in 1 .. Len(s)
        PROVE  s[i] \in ToSet(s \o t)
    BY <1>2, <2>1 DEF ToSet
  <2>6. ASSUME NEW i \in 1 .. Len(t)
        PROVE  t[i] \in ToSet(s \o t)
    BY <1>2, <2>2 DEF ToSet
  <2>7. ToSet(s) \subseteq ToSet(s \o t)
    <3>1. ASSUME NEW x \in ToSet(s)
          PROVE  x \in ToSet(s \o t)
      <4>1. PICK i \in 1 .. Len(s) : x = s[i]
        BY <1>2, <3>1 DEF ToSet
      <4> QED
        BY <2>5, <4>1
    <3> QED
      BY <3>1
  <2>8. ToSet(t) \subseteq ToSet(s \o t)
    <3>1. ASSUME NEW x \in ToSet(t)
          PROVE  x \in ToSet(s \o t)
      <4>1. PICK i \in 1 .. Len(t) : x = t[i]
        BY <1>2, <3>1 DEF ToSet
      <4> QED
        BY <2>6, <4>1
    <3> QED
      BY <3>1
  <2> QED
    BY <2>4, <2>7, <2>8
<1>4. IsSeq(s \o t)
  BY <1>2, <1>3 DEF IsSeq
<1>5. ASSUME Unique(s), Unique(t), SlotsOf(s) \cap SlotsOf(t) = {}
      PROVE  Unique(s \o t)
  <2> SUFFICES ASSUME NEW k \in 1 .. Len(s) + Len(t), NEW l \in 1 .. Len(s) + Len(t),
                      (s \o t)[k].slot = (s \o t)[l].slot
               PROVE  k = l
    BY <1>2 DEF Unique
  <2>1. CASE k <= Len(s) /\ l <= Len(s)
    BY <1>2, <1>5, <2>1 DEF Unique
  <2>2. CASE k > Len(s) /\ l > Len(s)
    <3>1. k - Len(s) \in DOMAIN t /\ l - Len(s) \in DOMAIN t
      BY <1>2, <2>2
    <3>2. (s \o t)[k] = t[k - Len(s)] /\ (s \o t)[l] = t[l - Len(s)]
      BY <1>2, <2>2
    <3>3. k - Len(s) = l - Len(s)
      BY <1>5, <3>1, <3>2 DEF Unique
    <3> QED
      BY <1>2, <3>3
  <2>3. ASSUME NEW i \in 1 .. Len(s) + Len(t), NEW j \in 1 .. Len(s) + Len(t),
               i <= Len(s), j > Len(s)
        PROVE  (s \o t)[i].slot # (s \o t)[j].slot
    <3>1. i \in DOMAIN s /\ j - Len(s) \in DOMAIN t
      BY <1>2, <2>3
    <3>2. (s \o t)[i] = s[i] /\ (s \o t)[j] = t[j - Len(s)]
      BY <1>2, <2>3
    <3> QED
      BY <1>5, <3>1, <3>2 DEF SlotsOf
  <2> QED
    BY <1>2, <2>1, <2>2, <2>3
<1>6. SlotsOf(s \o t) = SlotsOf(s) \cup SlotsOf(t)
  BY <1>3, SlotsFacts
<1> QED
  BY <1>3, <1>4, <1>5, <1>6

\* No entry, and one.
LEMMA EmptyFacts == IsSeq(<<>>) /\ ToSet(<<>>) = {} /\ SlotsOf(<<>>) = {} /\ Unique(<<>>)
  BY DEF IsSeq, ToSet, SlotsOf, Unique

\* A single entry.
LEMMA OneFacts ==
  ASSUME NEW e
  PROVE  IsSeq(<<e>>) /\ ToSet(<<e>>) = {e} /\ SlotsOf(<<e>>) = {e.slot} /\ Unique(<<e>>)
  BY DEF IsSeq, ToSet, SlotsOf, Unique

\* Entries that are there only sometimes.
LEMMA WhenFacts ==
  ASSUME NEW b, NEW s, IsSeq(s), Unique(s)
  PROVE  /\ IsSeq(When(b, s)) /\ Unique(When(b, s))
         /\ ToSet(When(b, s)) = IF b THEN ToSet(s) ELSE {}
         /\ SlotsOf(When(b, s)) \subseteq SlotsOf(s)
  BY EmptyFacts DEF When

\* The slots for 62 ids.
LEMMA InRange == \A base \in Nat : \A i \in 0 .. 61 : base + i \in base .. base + 61
  OBVIOUS

\* Entries made from a sequence of distinct ids.
LEMMA MadeFacts ==
  ASSUME NEW ids \in Seq(Nat), NEW f, f \in [DOMAIN ids -> ToSet(f)],
         NEW base \in Nat, IsInjective(ids), ToSet(ids) \subseteq 0 .. 61,
         \A k \in DOMAIN ids : f[k].slot = base + ids[k]
  PROVE  IsSeq(f) /\ Unique(f) /\ SlotsOf(f) \subseteq base .. base + 61
<1>1. DOMAIN ids = 1 .. Len(ids) /\ Len(ids) \in Nat /\ \A k \in DOMAIN ids : ids[k] \in Nat
  BY LenProperties
<1>2. f \in [1 .. Len(ids) -> ToSet(f)] /\ DOMAIN f = DOMAIN ids
  BY <1>1
<1>3. IsSeq(f)
  BY <1>1, <1>2, SeqDef, SMTT(40) DEF IsSeq
<1>4. Unique(f)
  BY <1>1, <1>2 DEF Unique, IsInjective
<1>5. SlotsOf(f) \subseteq base .. base + 61
  <2>1. \A k \in DOMAIN ids : ids[k] \in 0 .. 61
    BY DEF ToSet
  <2>2. \A i \in 0 .. 61 : base + i \in base .. base + 61
    BY InRange
  <2>3. \A k \in DOMAIN ids : f[k].slot \in base .. base + 61
    BY <2>1, <2>2, Zenon
  <2> QED
    BY <1>2, <2>3 DEF SlotsOf
<1> QED
  BY <1>3, <1>4, <1>5

-----------------------------------------------------------------------------
(***************************************************************************)
(* The bits of a number.                                                   *)
(***************************************************************************)
\* The powers of two that a badge needs.
LEMMA Powers == /\ 2 ^ 0 = 1 /\ 2 ^ 1 = 2 /\ 2 ^ 2 = 4 /\ 2 ^ 3 = 8 /\ 2 ^ 4 = 16
                /\ 2 ^ 5 = 32 /\ 2 ^ 6 = 64 /\ 2 ^ 7 = 128 /\ 2 ^ 8 = 256 /\ 2 ^ 9 = 512
  OBVIOUS

Digit(n, d) == (n \div d) % 2

\* A digit is 0 or 1.
LEMMA DigitIs ==
  ASSUME NEW n \in Nat
  PROVE  \A d \in {1, 2, 4, 8, 16, 32, 64, 128, 256, 512} : Digit(n, d) \in {0, 1}
<1>1. /\ Digit(n, 1) \in {0, 1} /\ Digit(n, 2) \in {0, 1} /\ Digit(n, 4) \in {0, 1}
      /\ Digit(n, 8) \in {0, 1} /\ Digit(n, 16) \in {0, 1} /\ Digit(n, 32) \in {0, 1}
  BY DEF Digit
<1>2. /\ Digit(n, 64) \in {0, 1} /\ Digit(n, 128) \in {0, 1}
      /\ Digit(n, 256) \in {0, 1} /\ Digit(n, 512) \in {0, 1}
  BY DEF Digit
<1> QED
  BY <1>1, <1>2

\* A number below 2^10 is the sum of its digits.
LEMMA Digits ==
  ASSUME NEW n \in Nat, n < 1024
  PROVE  n = Digit(n, 1) + 2 * Digit(n, 2) + 4 * Digit(n, 4) + 8 * Digit(n, 8)
             + 16 * Digit(n, 16) + 32 * Digit(n, 32) + 64 * Digit(n, 64)
             + 128 * Digit(n, 128) + 256 * Digit(n, 256) + 512 * Digit(n, 512)
  BY SMTT(40) DEF Digit

\* A small number has no high digits.
LEMMA HighDigits ==
  ASSUME NEW n \in Nat
  PROVE  /\ n < 64 => /\ Digit(n, 64) = 0 /\ Digit(n, 128) = 0
                      /\ Digit(n, 256) = 0 /\ Digit(n, 512) = 0
         /\ n < 256 => Digit(n, 256) = 0 /\ Digit(n, 512) = 0
  BY DEF Digit

\* The lowest bits of a number that has no others are the number.
LEMMA BitsNumber ==
  ASSUME NEW n \in Nat, n < 1024, NEW m \in 0 .. 9,
         \A i \in 0 .. 9 : i > m => Digit(n, 2 ^ i) = 0
  PROVE  Number(Bits(n) \cap (0 .. m)) = n
<1> DEFINE B    == Bits(n) \cap (0 .. m)
           V(i) == IF i \in B THEN 2 ^ i ELSE 0
<1>1. \A i \in 0 .. 9 : i \in B <=> Digit(n, 2 ^ i) = 1
  <2>1. \A i \in 0 .. 9 : i \in Bits(n) <=> Digit(n, 2 ^ i) = 1
    BY ZenonT(60) DEF Bits, Digit
  <2>2. \A i \in 0 .. 9 : i \in B <=> i \in Bits(n) /\ i <= m
    BY DEF B
  <2>3. \A i \in 0 .. 9 : i <= m \/ (i > m /\ ~(i <= m))
    OBVIOUS
  <2>4. 0 # 1
    OBVIOUS
  <2> QED
    BY <2>1, <2>2, <2>3, <2>4, Zenon
<1>2. /\ V(0) = Digit(n, 1) /\ V(1) = 2 * Digit(n, 2) /\ V(2) = 4 * Digit(n, 4)
      /\ V(3) = 8 * Digit(n, 8) /\ V(4) = 16 * Digit(n, 16)
  BY <1>1, Powers, DigitIs
<1>3. /\ V(5) = 32 * Digit(n, 32) /\ V(6) = 64 * Digit(n, 64) /\ V(7) = 128 * Digit(n, 128)
      /\ V(8) = 256 * Digit(n, 256) /\ V(9) = 512 * Digit(n, 512)
  BY <1>1, Powers, DigitIs
<1>4. Number(B) = V(0) + V(1) + V(2) + V(3) + V(4) + V(5) + V(6) + V(7) + V(8) + V(9)
  BY DEF Number
<1> HIDE DEF B, V
<1> QED
  BY <1>2, <1>3, <1>4, Digits, DigitIs DEF B

NtfnBadge(n)  == {n}
CallBadge(n)  == {PPC_BIT} \cup Bits(n)
FaultBadge(n) == {FAULT_BIT} \cup Bits(n)

\* What libmicrokit reads from the badge of a fault and of a protected call, and
\* the monitor from that of a fault.
LEMMA BadgeFacts ==
  ASSUME NEW n \in Nat
  PROVE  /\ n < 64 => Dispatch(CallBadge(n)) = {<<"protected", n>>}
         /\ n < 256 => Dispatch(FaultBadge(n)) = {<<"fault", n>>}
         /\ n < FAULT_BIT => Dispatch(NtfnBadge(n)) = {<<"notified", n>>}
         /\ n < 1024 => Number(Bits(n)) = n
<1>1. \A i \in Bits(n) : i \in 0 .. 9
  BY DEF Bits
<1>2. ASSUME n < 64
      PROVE  Dispatch(CallBadge(n)) = {<<"protected", n>>}
  <2>1. \A i \in 0 .. 9 : i > 5 => Digit(n, 2 ^ i) = 0
    <3>1. \A i \in 0 .. 9 : i > 5 => i = 6 \/ i = 7 \/ i = 8 \/ i = 9
      OBVIOUS
    <3>2. Digit(n, 64) = 0 /\ Digit(n, 128) = 0 /\ Digit(n, 256) = 0 /\ Digit(n, 512) = 0
      BY <1>2, HighDigits
    <3>3. 2 ^ 6 = 64 /\ 2 ^ 7 = 128 /\ 2 ^ 8 = 256 /\ 2 ^ 9 = 512
      OBVIOUS
    <3>4. Digit(n, 2 ^ 6) = 0 /\ Digit(n, 2 ^ 7) = 0 /\ Digit(n, 2 ^ 8) = 0 /\ Digit(n, 2 ^ 9) = 0
      BY <3>2, <3>3, Zenon
    <3> QED
      BY <3>1, <3>4, Zenon
  <2>2. Number(Bits(n) \cap (0 .. 5)) = n
    <3>1. n < 1024 /\ 5 \in 0 .. 9
      BY <1>2
    <3> QED
      BY <2>1, <3>1, BitsNumber, Zenon
  <2>3. ({PPC_BIT} \cup Bits(n)) \cap (0 .. 5) = Bits(n) \cap (0 .. 5)
    BY DEF PPC_BIT
  <2>4. FAULT_BIT \notin {PPC_BIT} \cup Bits(n)
    BY <1>1 DEF PPC_BIT, FAULT_BIT
  <2> QED
    BY <2>2, <2>3, <2>4 DEF Dispatch, CallBadge
<1>3. ASSUME n < 256
      PROVE  Dispatch(FaultBadge(n)) = {<<"fault", n>>}
  <2>1. \A i \in 0 .. 9 : i > 7 => Digit(n, 2 ^ i) = 0
    <3>1. \A i \in 0 .. 9 : i > 7 => i = 8 \/ i = 9
      OBVIOUS
    <3>2. Digit(n, 256) = 0 /\ Digit(n, 512) = 0
      BY <1>3, HighDigits
    <3>3. 2 ^ 8 = 256 /\ 2 ^ 9 = 512
      OBVIOUS
    <3>4. Digit(n, 2 ^ 8) = 0 /\ Digit(n, 2 ^ 9) = 0
      BY <3>2, <3>3, Zenon
    <3> QED
      BY <3>1, <3>4, Zenon
  <2>2. Number(Bits(n) \cap (0 .. 7)) = n
    <3>1. n < 1024 /\ 7 \in 0 .. 9
      BY <1>3
    <3> QED
      BY <2>1, <3>1, BitsNumber, Zenon
  <2>3. ({FAULT_BIT} \cup Bits(n)) \cap (0 .. 7) = Bits(n) \cap (0 .. 7)
    BY DEF FAULT_BIT
  <2> QED
    BY <2>2, <2>3 DEF Dispatch, FaultBadge
<1>4. ASSUME n < FAULT_BIT
      PROVE  Dispatch(NtfnBadge(n)) = {<<"notified", n>>}
  BY <1>4 DEF NtfnBadge, Dispatch, FAULT_BIT, PPC_BIT
<1>5. ASSUME n < 1024
      PROVE  Number(Bits(n)) = n
  <2>1. \A i \in 0 .. 9 : i > 9 => Digit(n, 2 ^ i) = 0
    OBVIOUS
  <2>2. Bits(n) \cap (0 .. 9) = Bits(n)
    BY <1>1
  <2>3. 9 \in 0 .. 9
    OBVIOUS
  <2>4. Number(Bits(n) \cap (0 .. 9)) = n
    BY <1>5, <2>1, <2>3, BitsNumber, Zenon
  <2> QED
    BY <2>2, <2>4
<1> QED
  BY <1>2, <1>3, <1>4, <1>5

-----------------------------------------------------------------------------
(***************************************************************************)
(* The inductive invariant: what is in every CNode after so many PDs, so   *)
(* many channels and so many lists of user capabilities.                   *)
(***************************************************************************)
SystemInv == system \in Systems /\ Accepted(system) /\ NamesFit(system)

StepsInv ==
  /\ pdsBuilt \in 0 .. Len(system.pds) /\ mapsBuilt \in 0 .. Len(system.pds)
  /\ channelsBuilt \in 0 .. Len(system.channels)
  /\ channelsBuilt > 0 => pdsBuilt = Len(system.pds)
  /\ mapsBuilt > 0 => pdsBuilt = Len(system.pds) /\ channelsBuilt = Len(system.channels)

\* The entries that the k-th channel gives PD p, one end after the other.
EndSet(p, e, f) == ToSet(When(e.pd = p, EndEntries(e, f)))
ChannelSet(p, k) ==
  LET c == system.channels[k]
  IN EndSet(p, c.a, c.b) \cup EndSet(p, c.b, c.a)

CnodeInv ==
  /\ IsSeq(cnode) /\ Len(cnode) = pdsBuilt
  /\ \A p \in 1 .. pdsBuilt :
       /\ IsSeq(cnode[p])
       /\ ToSet(cnode[p]) =
            ToSet(PdEntries(p)) \cup UNION {ChannelSet(p, k) : k \in 1 .. channelsBuilt}

\* The entries of the root CNode of PD q after so many PDs and so many lists of
\* user capabilities.
ChildTcb(c) == Entry(PD_BASE_PD_TCB_CAP + system.pds[c].id, Cap("tcb", <<c>>, {}))
MapSet(p)   == {Entry(m.slot, Cap(m.type, <<m.pd>>, {})) : m \in ToSet(system.pds[p].maps)}
RootSet(q, built, mapped) ==
  {Entry(0, Cap("cnode", <<q>>, {}))}
  \cup {ChildTcb(c) : c \in {d \in 1 .. built : system.pds[d].parent = q}}
  \cup (IF q <= mapped THEN MapSet(q) ELSE {})

RootInv ==
  /\ IsSeq(root) /\ Len(root) = pdsBuilt
  /\ \A q \in 1 .. pdsBuilt :
       /\ IsSeq(root[q]) /\ Unique(root[q])
       /\ ToSet(root[q]) = RootSet(q, pdsBuilt, mapsBuilt)

\* The monitor: its own two, the TCBs of vCPUs, and what belongs to each PD.
MonFixed == {Entry(1, Cap("ep", <<>>, {})), Entry(2, Cap("reply", <<>>, {}))}

MonInv ==
  /\ IsSeq(mon) /\ Unique(mon)
  /\ \A e \in ToSet(mon) :
       \/ e \in MonFixed
       \/ e.slot \in MON_BASE_VM_TCB_CAP .. MON_BASE_VM_TCB_CAP + monitorVcpuIdx - 1
       \/ \E q \in 1 .. pdsBuilt : e \in ToSet(MonEntries(q))
  /\ \A q \in 1 .. pdsBuilt : ToSet(MonEntries(q)) \subseteq ToSet(mon)

\* The vCPUs of the PDs that are built.
VcpusUpTo(n) == {w \in AllVcpus(system) : w[1] <= n}

VcpusInv == monitorVcpuIdx \in Nat /\ monitorVcpuIdx <= Cardinality(VcpusUpTo(pdsBuilt))

FaultsInv ==
  /\ endpoint = {q \in 1 .. pdsBuilt : NeedsEp(q)}
  /\ faultEp =
       UNION {{[thread |-> <<p>>, cap |-> FaultCap(p)]} \cup VcpuFaultEps(p) : p \in 1 .. pdsBuilt}

\* What sdf.rs does not look at: the size of a child's id, and the two ends of
\* one channel together.
ChildIdsBelow(n) ==
  \A p \in Pds(system) : system.pds[p].parent # NoParent => system.pds[p].id < n

NoneFolded ==
  \A c \in ToSet(system.channels) : ~(c.a.pd = c.b.pd /\ c.a.id = c.b.id)

CnodeUnique == NoneFolded => \A p \in 1 .. pdsBuilt : Unique(cnode[p])

PanicInv == ChildIdsBelow(PD_CAP_SIZE - PD_BASE_PD_TCB_CAP) => NoPanic

LayoutInv ==
  /\ SystemInv /\ StepsInv /\ CnodeInv /\ RootInv /\ MonInv /\ VcpusInv /\ FaultsInv
  /\ CnodeUnique /\ PanicInv

-----------------------------------------------------------------------------
(***************************************************************************)
(* What an accepted system is like.                                        *)
(***************************************************************************)
\* Its PDs.
LEMMA PdFacts ==
  ASSUME SystemInv
  PROVE  /\ Pds(system) = 1 .. Len(system.pds) /\ Len(system.pds) \in 1 .. MAX_PDS
         /\ \A p \in Pds(system) :
              LET pd == system.pds[p]
              IN /\ pd.parent \in 0 .. p - 1 /\ pd.id \in Nat /\ pd.passive \in BOOLEAN
                 /\ pd.irqs \in Seq(Nat) /\ pd.ioports \in Seq(Nat) /\ pd.vcpus \in Seq(Nat)
                 /\ pd.maps \in Seq([slot : Nat, pd : Pds(system), type : STRING])
<1>1. WellTyped(system) /\ PdsAccepted(system)
  BY SystemsAssumption DEF SystemInv, Accepted
<1> DEFINE Pd == [parent : Nat, id : Nat, priority : Nat, passive : BOOLEAN, irqs : Seq(Nat),
                  ioports : Seq(Nat), vcpus : Seq(Nat),
                  maps : Seq([slot : Nat, pd : Pds(system), type : STRING])]
<1>2. system.pds \in Seq(Pd) /\ \A p \in Pds(system) : system.pds[p].parent \in 0 .. p - 1
  BY <1>1 DEF WellTyped
<1>3. Pds(system) = 1 .. Len(system.pds) /\ Len(system.pds) \in 1 .. MAX_PDS
  BY <1>1, <1>2, LenProperties DEF Pds, PdsAccepted
<1>4. \A p \in Pds(system) : system.pds[p] \in Pd
  <2> HIDE DEF Pd
  <2> QED
    BY <1>2, <1>3, ElementOfSeq
<1> QED
  BY <1>2, <1>3, <1>4

\* The ids of a PD are small and different.
LEMMA IdFacts ==
  ASSUME SystemInv, NEW p \in Pds(system)
  PROVE  /\ ToSet(system.pds[p].irqs) \subseteq 0 .. PD_MAX_ID
         /\ ToSet(system.pds[p].ioports) \subseteq 0 .. PD_MAX_ID
         /\ ToSet(system.pds[p].vcpus) \subseteq 0 .. VCPU_MAX_ID
         /\ IsInjective(system.pds[p].irqs) /\ IsInjective(system.pds[p].ioports)
         /\ IsInjective(system.pds[p].vcpus)
  BY DEF SystemInv, Accepted, ElementsAccepted, ChannelsAccepted, IoPortsAccepted, IdsUpTo

\* The user capabilities of a PD have different slots.
LEMMA MapFacts ==
  ASSUME SystemInv, NEW p \in Pds(system)
  PROVE  /\ \A m \in ToSet(system.pds[p].maps) : m.slot \in 1 .. CAP_MAP_MAX_SLOT - 1
         /\ Unique(system.pds[p].maps)
  BY DEF SystemInv, Accepted, ElementsAccepted, CapMapsAccepted, Unique

\* Children and vCPUs of one PD have different numbers.
LEMMA ChildFacts ==
  ASSUME SystemInv, NEW c \in Pds(system), NEW p \in Pds(system), system.pds[c].parent = p
  PROVE  /\ system.pds[c].id \notin ToSet(system.pds[p].vcpus)
         /\ \A d \in Pds(system) :
              system.pds[d].parent = p /\ system.pds[d].id = system.pds[c].id => c = d
  BY DEF SystemInv, Accepted, TreeAccepted, Children

EndType == [pd : Pds(system), id : 0 .. PD_MAX_ID, notify : BOOLEAN, pp : BOOLEAN]

\* The channels are well formed, and one end at most makes calls.
LEMMA EndFacts ==
  ASSUME SystemInv
  PROVE  /\ Len(system.channels) \in Nat
         /\ DOMAIN system.channels = 1 .. Len(system.channels)
         /\ \A k \in DOMAIN system.channels :
              /\ system.channels[k] = [a |-> system.channels[k].a, b |-> system.channels[k].b]
              /\ system.channels[k].a \in EndType /\ system.channels[k].b \in EndType
              /\ ~(system.channels[k].a.pp /\ system.channels[k].b.pp)
<1>1. WellTyped(system) /\ ElementsAccepted(system)
  BY SystemsAssumption DEF SystemInv, Accepted
<1> DEFINE End == [pd : Pds(system), id : Nat, notify : BOOLEAN, pp : BOOLEAN]
<1>2. system.channels \in Seq([a : End, b : End])
  BY <1>1 DEF WellTyped
<1>3. /\ Len(system.channels) \in Nat
      /\ DOMAIN system.channels = 1 .. Len(system.channels)
      /\ \A k \in DOMAIN system.channels : system.channels[k] \in [a : End, b : End]
  <2> HIDE DEF End
  <2> QED
    BY <1>2, LenProperties, ElementOfSeq
<1>4. ASSUME NEW k \in DOMAIN system.channels
      PROVE  /\ system.channels[k] = [a |-> system.channels[k].a, b |-> system.channels[k].b]
             /\ system.channels[k].a \in EndType /\ system.channels[k].b \in EndType
             /\ ~(system.channels[k].a.pp /\ system.channels[k].b.pp)
  <2>1. system.channels[k] \in ToSet(system.channels)
    BY DEF ToSet
  <2>2. /\ system.channels[k].a.id \in 0 .. PD_MAX_ID
        /\ system.channels[k].b.id \in 0 .. PD_MAX_ID
        /\ ~(system.channels[k].a.pp /\ system.channels[k].b.pp)
    BY <1>1, <2>1 DEF ElementsAccepted
  <2> QED
    BY <1>3, <2>2 DEF EndType
<1> QED
  BY <1>3, <1>4

EndsOf(k) == {system.channels[k].a, system.channels[k].b}

\* A PD has no id twice, among its interrupts and the ends of different channels
\* (sdf.rs, check_id_used).
LEMMA UsedIdsFacts ==
  ASSUME SystemInv, NEW k \in DOMAIN system.channels, NEW e \in EndsOf(k)
  PROVE  /\ e.id \notin ToSet(system.pds[e.pd].irqs)
         /\ \A l \in DOMAIN system.channels : \A f \in EndsOf(l) :
              e.pd = f.pd /\ e.id = f.id => k = l
<1>1. ASSUME NEW n \in DOMAIN system.channels, NEW g \in EndsOf(n)
      PROVE  g.id \notin UsedIds(system, n, g.pd)
  BY <1>1 DEF SystemInv, Accepted, ChannelsAccepted, EndsOf
<1>2. ASSUME NEW n \in DOMAIN system.channels, NEW g \in EndsOf(n),
             NEW l \in DOMAIN system.channels, NEW f \in EndsOf(l),
             l < n, g.pd = f.pd
      PROVE  g.id # f.id
  <2>1. l \in 1 .. n - 1
    BY <1>2, EndFacts
  <2>2. f \in EarlierEnds(system, n)
    BY <2>1 DEF EarlierEnds, EndsOf
  <2>3. f.id \in UsedIds(system, n, g.pd)
    BY <1>2, <2>2 DEF UsedIds
  <2> QED
    BY <1>1, <2>3
<1>3. ASSUME NEW l \in DOMAIN system.channels, NEW f \in EndsOf(l), e.pd = f.pd, e.id = f.id
      PROVE  k = l
  <2>1. ~(l < k) /\ ~(k < l)
    BY <1>2, <1>3
  <2> QED
    BY <2>1, EndFacts
<1> QED
  BY <1>1, <1>3 DEF UsedIds

-----------------------------------------------------------------------------
(***************************************************************************)
(* The entries that a PD gets when it is built.                            *)
(***************************************************************************)
FixedSet(p) ==
  {Entry(PD_VSPACE_CAP, Cap("vspace", <<p>>, {})),
   Entry(PD_FAULT_EP_CAP, FaultCap(p)),
   Entry(PD_INPUT_CAP, Cap(IF NeedsEp(p) THEN "ep" ELSE "ntfn", <<p>>, {})),
   Entry(PD_REPLY_CAP, Cap("reply", <<p>>, {}))}
  \cup (IF system.pds[p].passive THEN {Entry(PD_MONITOR_EP_CAP, Cap("ep", <<>>, Bits(p)))}
        ELSE {})

IrqSet(p) ==
  {Entry(PD_BASE_IRQ_CAP + i, Cap("irq", <<p>>, {i})) : i \in ToSet(system.pds[p].irqs)}

IoPortSet(p) ==
  {Entry(PD_BASE_IOPORT_CAP + i, Cap("ioport", <<p, i>>, {})) :
     i \in ToSet(system.pds[p].ioports)}

VcpuSet(p) ==
  {Entry(PD_BASE_VCPU_CAP + v, Cap("vcpu", <<p, v>>, {})) : v \in ToSet(system.pds[p].vcpus)}

VmTcbSet(p) ==
  IF system.arch # "x86"
    THEN {Entry(PD_BASE_VM_TCB_CAP + v, Cap("tcb", <<p, v>>, {})) :
            v \in ToSet(system.pds[p].vcpus)}
    ELSE {}

\* The capabilities at fixed slots.
LEMMA FixedFacts ==
  ASSUME NEW p
  PROVE  /\ IsSeq(FixedEntries(p)) /\ Unique(FixedEntries(p))
         /\ ToSet(FixedEntries(p)) = FixedSet(p)
         /\ SlotsOf(FixedEntries(p)) \subseteq 1 .. 5
<1> DEFINE four == << Entry(PD_VSPACE_CAP, Cap("vspace", <<p>>, {})),
                      Entry(PD_FAULT_EP_CAP, FaultCap(p)),
                      Entry(PD_INPUT_CAP, Cap(IF NeedsEp(p) THEN "ep" ELSE "ntfn", <<p>>, {})),
                      Entry(PD_REPLY_CAP, Cap("reply", <<p>>, {})) >>
           fifth == << Entry(PD_MONITOR_EP_CAP, Cap("ep", <<>>, Bits(p))) >>
           may   == When(system.pds[p].passive, fifth)
<1>1. /\ IsSeq(four) /\ Unique(four) /\ SlotsOf(four) = {1, 2, 3, 4}
      /\ ToSet(four) = {four[1], four[2], four[3], four[4]}
  BY DEF IsSeq, Unique, SlotsOf, ToSet, Entry, PD_VSPACE_CAP, PD_FAULT_EP_CAP, PD_INPUT_CAP,
         PD_REPLY_CAP
<1>2. /\ IsSeq(fifth) /\ Unique(fifth) /\ SlotsOf(fifth) = {5}
      /\ ToSet(fifth) = {Entry(PD_MONITOR_EP_CAP, Cap("ep", <<>>, Bits(p)))}
  BY OneFacts DEF Entry, PD_MONITOR_EP_CAP
<1>3. /\ IsSeq(may) /\ Unique(may) /\ SlotsOf(may) \subseteq {5}
      /\ ToSet(may) = IF system.pds[p].passive THEN ToSet(fifth) ELSE {}
  <2> HIDE DEF fifth
  <2> QED
    BY <1>2, WhenFacts
<1>4. FixedEntries(p) = four \o may
  BY DEF FixedEntries
<1>5. /\ IsSeq(four \o may) /\ Unique(four \o may)
      /\ ToSet(four \o may) = ToSet(four) \cup ToSet(may)
  <2>1. SlotsOf(four) \cap SlotsOf(may) = {}
    BY <1>1, <1>3, SMTT(40)
  <2> HIDE DEF four, may
  <2> QED
    BY <1>1, <1>3, <2>1, ConcatFacts
<1>6. ToSet(four \o may) = FixedSet(p)
  <2>1. ToSet(four \o may) =
          {four[1], four[2], four[3], four[4]}
          \cup (IF system.pds[p].passive
                THEN {Entry(PD_MONITOR_EP_CAP, Cap("ep", <<>>, Bits(p)))} ELSE {})
    <3> HIDE DEF four, may, fifth
    <3> QED
      BY <1>1, <1>2, <1>3, <1>5
  <2> QED
    BY <2>1 DEF FixedSet
<1>7. SlotsOf(four \o may) \subseteq 1 .. 5
  <2>1. \A e \in FixedSet(p) : e.slot \in 1 .. 5
    BY DEF FixedSet, Entry, PD_VSPACE_CAP, PD_FAULT_EP_CAP, PD_INPUT_CAP, PD_REPLY_CAP,
           PD_MONITOR_EP_CAP
  <2> HIDE DEF four, may
  <2> QED
    BY <1>6, <2>1, SlotsFacts
<1> QED
  BY <1>4, <1>5, <1>6, <1>7

\* Where the slots start.
LEMMA Bases ==
  /\ PD_BASE_OUTPUT_NOTIFICATION_CAP = 10 /\ PD_BASE_OUTPUT_ENDPOINT_CAP = 74
  /\ PD_BASE_IRQ_CAP = 138 /\ PD_BASE_PD_TCB_CAP = 202 /\ PD_BASE_VM_TCB_CAP = 266
  /\ PD_BASE_VCPU_CAP = 330 /\ PD_BASE_IOPORT_CAP = 394
  /\ MON_BASE_PD_TCB_CAP = 10 /\ MON_BASE_VM_TCB_CAP = 74
  /\ MON_BASE_SCHED_CONTEXT_CAP = 138 /\ MON_BASE_NOTIFICATION_CAP = 202
  BY DEF PD_BASE_OUTPUT_NOTIFICATION_CAP, PD_BASE_OUTPUT_ENDPOINT_CAP, PD_BASE_IRQ_CAP,
         PD_BASE_PD_TCB_CAP, PD_BASE_VM_TCB_CAP, PD_BASE_VCPU_CAP, PD_BASE_IOPORT_CAP,
         MON_BASE_PD_TCB_CAP, MON_BASE_VM_TCB_CAP, MON_BASE_SCHED_CONTEXT_CAP,
         MON_BASE_NOTIFICATION_CAP

\* The capabilities for interrupts.
LEMMA IrqFacts ==
  ASSUME SystemInv, NEW p \in Pds(system)
  PROVE  /\ IsSeq(IrqEntries(p)) /\ Unique(IrqEntries(p))
         /\ ToSet(IrqEntries(p)) = IrqSet(p)
         /\ SlotsOf(IrqEntries(p)) \subseteq 138 .. 199
<1> DEFINE ids == system.pds[p].irqs
           f   == [k \in DOMAIN ids |->
                     Entry(PD_BASE_IRQ_CAP + ids[k], Cap("irq", <<p>>, {ids[k]}))]
<1>1. ids \in Seq(Nat) /\ IsInjective(ids) /\ ToSet(ids) \subseteq 0 .. 61
  BY PdFacts, IdFacts DEF PD_MAX_ID, VCPU_MAX_ID
<1>2. IrqEntries(p) = f
  BY DEF IrqEntries, ForEach
<1>3. \A k \in DOMAIN ids : f[k].slot = 138 + ids[k]
  BY Bases DEF Entry
<1>4. IsSeq(f) /\ Unique(f) /\ SlotsOf(f) \subseteq 138 .. 199
  <2>1. f \in [DOMAIN ids -> ToSet(f)] /\ 138 \in Nat
    <3>1. DOMAIN f = DOMAIN ids /\ f = [k \in DOMAIN f |-> f[k]]
      BY Zenon
    <3> HIDE DEF f, ids
    <3> QED
      BY <3>1 DEF ToSet
  <2>2. IsSeq(f) /\ Unique(f) /\ SlotsOf(f) \subseteq 138 .. 138 + 61
    <3> HIDE DEF f, ids
    <3> QED
      BY <1>1, <1>3, <2>1, MadeFacts, ZenonT(60)
  <2> QED
    BY <2>2
<1>5. ToSet(f) = IrqSet(p)
  BY DEF ToSet, IrqSet
<1> QED
  BY <1>2, <1>4, <1>5

\* Those for I/O ports.
LEMMA IoPortFacts ==
  ASSUME SystemInv, NEW p \in Pds(system)
  PROVE  /\ IsSeq(IoPortEntries(p)) /\ Unique(IoPortEntries(p))
         /\ ToSet(IoPortEntries(p)) = IoPortSet(p)
         /\ SlotsOf(IoPortEntries(p)) \subseteq 394 .. 455
<1> DEFINE ids == system.pds[p].ioports
           f   == [k \in DOMAIN ids |->
                     Entry(PD_BASE_IOPORT_CAP + ids[k], Cap("ioport", <<p, ids[k]>>, {}))]
<1>1. ids \in Seq(Nat) /\ IsInjective(ids) /\ ToSet(ids) \subseteq 0 .. 61
  BY PdFacts, IdFacts DEF PD_MAX_ID, VCPU_MAX_ID
<1>2. IoPortEntries(p) = f
  BY DEF IoPortEntries, ForEach
<1>3. \A k \in DOMAIN ids : f[k].slot = 394 + ids[k]
  BY Bases DEF Entry
<1>4. IsSeq(f) /\ Unique(f) /\ SlotsOf(f) \subseteq 394 .. 455
  <2>1. f \in [DOMAIN ids -> ToSet(f)] /\ 394 \in Nat
    <3>1. DOMAIN f = DOMAIN ids /\ f = [k \in DOMAIN f |-> f[k]]
      BY Zenon
    <3> HIDE DEF f, ids
    <3> QED
      BY <3>1 DEF ToSet
  <2>2. IsSeq(f) /\ Unique(f) /\ SlotsOf(f) \subseteq 394 .. 394 + 61
    <3> HIDE DEF f, ids
    <3> QED
      BY <1>1, <1>3, <2>1, MadeFacts, ZenonT(60)
  <2> QED
    BY <2>2
<1>5. ToSet(f) = IoPortSet(p)
  BY DEF ToSet, IoPortSet
<1> QED
  BY <1>2, <1>4, <1>5

\* Those for vCPUs.
LEMMA VcpuFacts ==
  ASSUME SystemInv, NEW p \in Pds(system)
  PROVE  /\ IsSeq(VcpuEntries(p)) /\ Unique(VcpuEntries(p))
         /\ ToSet(VcpuEntries(p)) = VcpuSet(p)
         /\ SlotsOf(VcpuEntries(p)) \subseteq 330 .. 391
<1> DEFINE ids == system.pds[p].vcpus
           f   == [k \in DOMAIN ids |->
                     Entry(PD_BASE_VCPU_CAP + ids[k], Cap("vcpu", <<p, ids[k]>>, {}))]
<1>1. ids \in Seq(Nat) /\ IsInjective(ids) /\ ToSet(ids) \subseteq 0 .. 61
  BY PdFacts, IdFacts DEF PD_MAX_ID, VCPU_MAX_ID
<1>2. VcpuEntries(p) = f
  BY DEF VcpuEntries, ForEach
<1>3. \A k \in DOMAIN ids : f[k].slot = 330 + ids[k]
  BY Bases DEF Entry
<1>4. IsSeq(f) /\ Unique(f) /\ SlotsOf(f) \subseteq 330 .. 391
  <2>1. f \in [DOMAIN ids -> ToSet(f)] /\ 330 \in Nat
    <3>1. DOMAIN f = DOMAIN ids /\ f = [k \in DOMAIN f |-> f[k]]
      BY Zenon
    <3> HIDE DEF f, ids
    <3> QED
      BY <3>1 DEF ToSet
  <2>2. IsSeq(f) /\ Unique(f) /\ SlotsOf(f) \subseteq 330 .. 330 + 61
    <3> HIDE DEF f, ids
    <3> QED
      BY <1>1, <1>3, <2>1, MadeFacts, ZenonT(60)
  <2> QED
    BY <2>2
<1>5. ToSet(f) = VcpuSet(p)
  BY DEF ToSet, VcpuSet
<1> QED
  BY <1>2, <1>4, <1>5

\* Those for the threads of vCPUs, which x86-64 does not have.
LEMMA VmTcbFacts ==
  ASSUME SystemInv, NEW p \in Pds(system)
  PROVE  /\ IsSeq(VmTcbEntries(p)) /\ Unique(VmTcbEntries(p))
         /\ ToSet(VmTcbEntries(p)) = VmTcbSet(p)
         /\ SlotsOf(VmTcbEntries(p)) \subseteq 266 .. 327
<1> DEFINE ids == system.pds[p].vcpus
           f   == [k \in DOMAIN ids |->
                     Entry(PD_BASE_VM_TCB_CAP + ids[k], Cap("tcb", <<p, ids[k]>>, {}))]
<1>1. ids \in Seq(Nat) /\ IsInjective(ids) /\ ToSet(ids) \subseteq 0 .. 61
  BY PdFacts, IdFacts DEF PD_MAX_ID, VCPU_MAX_ID
<1>2. VmTcbEntries(p) = When(system.arch # "x86", f)
  BY DEF VmTcbEntries, ForEach
<1>3. \A k \in DOMAIN ids : f[k].slot = 266 + ids[k]
  BY Bases DEF Entry
<1>4. IsSeq(f) /\ Unique(f) /\ SlotsOf(f) \subseteq 266 .. 327
  <2>1. f \in [DOMAIN ids -> ToSet(f)] /\ 266 \in Nat
    <3>1. DOMAIN f = DOMAIN ids /\ f = [k \in DOMAIN f |-> f[k]]
      BY Zenon
    <3> HIDE DEF f, ids
    <3> QED
      BY <3>1 DEF ToSet
  <2>2. IsSeq(f) /\ Unique(f) /\ SlotsOf(f) \subseteq 266 .. 266 + 61
    <3> HIDE DEF f, ids
    <3> QED
      BY <1>1, <1>3, <2>1, MadeFacts, ZenonT(60)
  <2> QED
    BY <2>2
<1>5. ToSet(f) = {Entry(PD_BASE_VM_TCB_CAP + v, Cap("tcb", <<p, v>>, {})) : v \in ToSet(ids)}
  BY DEF ToSet
<1>6. /\ IsSeq(When(system.arch # "x86", f)) /\ Unique(When(system.arch # "x86", f))
      /\ ToSet(When(system.arch # "x86", f)) = IF system.arch # "x86" THEN ToSet(f) ELSE {}
      /\ SlotsOf(When(system.arch # "x86", f)) \subseteq SlotsOf(f)
  <2> HIDE DEF f
  <2> QED
    BY <1>4, WhenFacts
<1>7. ToSet(VmTcbEntries(p)) = VmTcbSet(p)
  <2> HIDE DEF f
  <2> QED
    BY <1>2, <1>5, <1>6 DEF VmTcbSet
<1> HIDE DEF f
<1> QED
  BY <1>2, <1>4, <1>6, <1>7

PdSlots == (1 .. 5) \cup (138 .. 199) \cup (266 .. 455)

\* All entries of a new PD, which are in different slots.
LEMMA PdEntriesFacts ==
  ASSUME SystemInv, NEW p \in Pds(system)
  PROVE  /\ IsSeq(PdEntries(p)) /\ Unique(PdEntries(p))
         /\ ToSet(PdEntries(p)) =
              FixedSet(p) \cup IrqSet(p) \cup IoPortSet(p) \cup VcpuSet(p) \cup VmTcbSet(p)
         /\ SlotsOf(PdEntries(p)) \subseteq PdSlots
<1> DEFINE s1 == FixedEntries(p)
           s2 == s1 \o IrqEntries(p)
           s3 == s2 \o IoPortEntries(p)
           s4 == s3 \o VcpuEntries(p)
           s5 == s4 \o VmTcbEntries(p)
<1>1. /\ IsSeq(s2) /\ Unique(s2) /\ ToSet(s2) = FixedSet(p) \cup IrqSet(p)
      /\ SlotsOf(s2) \subseteq (1 .. 5) \cup (138 .. 199)
  <2>1. (1 .. 5) \cap (138 .. 199) = {}
    OBVIOUS
  <2>2. SlotsOf(s1) \cap SlotsOf(IrqEntries(p)) = {}
    BY <2>1, FixedFacts, IrqFacts
  <2> QED
    BY <2>2, FixedFacts, IrqFacts, ConcatFacts
<1>2. /\ IsSeq(s3) /\ Unique(s3) /\ ToSet(s3) = FixedSet(p) \cup IrqSet(p) \cup IoPortSet(p)
      /\ SlotsOf(s3) \subseteq (1 .. 5) \cup (138 .. 199) \cup (394 .. 455)
  <2> HIDE DEF s2
  <2>1. ((1 .. 5) \cup (138 .. 199)) \cap (394 .. 455) = {}
    OBVIOUS
  <2>2. SlotsOf(s2) \cap SlotsOf(IoPortEntries(p)) = {}
    BY <1>1, <2>1, IoPortFacts
  <2> QED
    BY <1>1, <2>2, IoPortFacts, ConcatFacts
<1>3. /\ IsSeq(s4) /\ Unique(s4)
      /\ ToSet(s4) = FixedSet(p) \cup IrqSet(p) \cup IoPortSet(p) \cup VcpuSet(p)
      /\ SlotsOf(s4) \subseteq (1 .. 5) \cup (138 .. 199) \cup (394 .. 455) \cup (330 .. 391)
  <2> HIDE DEF s3
  <2>1. ((1 .. 5) \cup (138 .. 199) \cup (394 .. 455)) \cap (330 .. 391) = {}
    OBVIOUS
  <2>2. SlotsOf(s3) \cap SlotsOf(VcpuEntries(p)) = {}
    BY <1>2, <2>1, VcpuFacts
  <2> QED
    BY <1>2, <2>2, VcpuFacts, ConcatFacts
<1>4. /\ IsSeq(s5) /\ Unique(s5)
      /\ ToSet(s5) = FixedSet(p) \cup IrqSet(p) \cup IoPortSet(p) \cup VcpuSet(p)
                       \cup VmTcbSet(p)
      /\ SlotsOf(s5) \subseteq (1 .. 5) \cup (138 .. 199) \cup (394 .. 455) \cup (330 .. 391)
                                \cup (266 .. 327)
  <2> HIDE DEF s4
  <2>1. ((1 .. 5) \cup (138 .. 199) \cup (394 .. 455) \cup (330 .. 391)) \cap (266 .. 327) = {}
    OBVIOUS
  <2>2. SlotsOf(s4) \cap SlotsOf(VmTcbEntries(p)) = {}
    BY <1>3, <2>1, VmTcbFacts
  <2> QED
    BY <1>3, <2>2, VmTcbFacts, ConcatFacts
<1>5. (1 .. 5) \cup (138 .. 199) \cup (394 .. 455) \cup (330 .. 391) \cup (266 .. 327)
        \subseteq PdSlots
  BY DEF PdSlots
<1>6. PdEntries(p) = s5
  BY DEF PdEntries
<1> HIDE DEF s5
<1> QED
  BY <1>4, <1>5, <1>6

-----------------------------------------------------------------------------
(***************************************************************************)
(* The entries of a channel.                                               *)
(***************************************************************************)
NtfnEntry(e, f) ==
  Entry(PD_BASE_OUTPUT_NOTIFICATION_CAP + e.id, Cap("ntfn", <<f.pd>>, {f.id}))

EpEntry(e, f) ==
  Entry(PD_BASE_OUTPUT_ENDPOINT_CAP + e.id, Cap("ep", <<f.pd>>, {PPC_BIT} \cup Bits(f.id)))

\* What one end of a channel gets: at most two entries, at the slots of its id.
LEMMA EndEntriesFacts ==
  ASSUME NEW e \in EndType, NEW f \in EndType
  PROVE  /\ IsSeq(EndEntries(e, f)) /\ Unique(EndEntries(e, f))
         /\ ToSet(EndEntries(e, f)) =
              (IF e.notify THEN {NtfnEntry(e, f)} ELSE {})
              \cup (IF e.pp THEN {EpEntry(e, f)} ELSE {})
         /\ SlotsOf(EndEntries(e, f)) \subseteq {10 + e.id, 74 + e.id}
         /\ e.id \in 0 .. 61
<1> DEFINE s == When(e.notify, <<NtfnEntry(e, f)>>)
           t == When(e.pp, <<EpEntry(e, f)>>)
<1>1. e.id \in 0 .. 61
  BY DEF EndType, PD_MAX_ID
<1>2. /\ IsSeq(s) /\ Unique(s) /\ ToSet(s) = (IF e.notify THEN {NtfnEntry(e, f)} ELSE {})
      /\ SlotsOf(s) \subseteq {10 + e.id}
  <2>1. NtfnEntry(e, f).slot = 10 + e.id
    BY Bases DEF NtfnEntry, Entry
  <2> QED
    BY <2>1, OneFacts, WhenFacts
<1>3. /\ IsSeq(t) /\ Unique(t) /\ ToSet(t) = (IF e.pp THEN {EpEntry(e, f)} ELSE {})
      /\ SlotsOf(t) \subseteq {74 + e.id}
  <2>1. EpEntry(e, f).slot = 74 + e.id
    BY Bases DEF EpEntry, Entry
  <2> QED
    BY <2>1, OneFacts, WhenFacts
<1>4. EndEntries(e, f) = s \o t
  BY DEF EndEntries, NtfnEntry, EpEntry
<1>5. SlotsOf(s) \cap SlotsOf(t) = {}
  <2>1. 10 + e.id # 74 + e.id
    BY <1>1
  <2> QED
    BY <1>2, <1>3, <2>1
<1> HIDE DEF s, t
<1> QED
  BY <1>1, <1>2, <1>3, <1>4, <1>5, ConcatFacts

\* A channel leads both ways.
Ways(k) == { <<system.channels[k].a, system.channels[k].b>>,
             <<system.channels[k].b, system.channels[k].a>> }

\* The PDs and ids at the ends of a way through a channel.
LEMMA WayFacts ==
  ASSUME SystemInv, NEW k \in DOMAIN system.channels, NEW w \in Ways(k)
  PROVE  /\ w[1] \in EndType /\ w[2] \in EndType /\ w[1] \in EndsOf(k) /\ w[2] \in EndsOf(k)
         /\ w[1].pd \in Pds(system) /\ w[1].id \in 0 .. 61 /\ w[2].id \in 0 .. 61
<1> DEFINE a == system.channels[k].a
           b == system.channels[k].b
<1>1. a \in EndType /\ b \in EndType /\ a \in EndsOf(k) /\ b \in EndsOf(k)
  BY EndFacts DEF EndsOf
<1>2. w = <<a, b>> \/ w = <<b, a>>
  BY DEF Ways
<1>3. <<a, b>>[1] = a /\ <<a, b>>[2] = b /\ <<b, a>>[1] = b /\ <<b, a>>[2] = a
  OBVIOUS
<1> HIDE DEF a, b
<1>4. w[1] \in EndType /\ w[2] \in EndType /\ w[1] \in EndsOf(k) /\ w[2] \in EndsOf(k)
  BY <1>1, <1>2, <1>3
<1> QED
  BY <1>4 DEF EndType, PD_MAX_ID

\* A channel gives a PD the entries of the ways that start there.
LEMMA ChannelSetFacts ==
  ASSUME SystemInv, NEW k \in DOMAIN system.channels, NEW p, NEW x
  PROVE  x \in ChannelSet(p, k) <=>
           \E w \in Ways(k) : /\ w[1].pd = p
                              /\ \/ w[1].notify /\ x = NtfnEntry(w[1], w[2])
                                 \/ w[1].pp /\ x = EpEntry(w[1], w[2])
<1> DEFINE a == system.channels[k].a
           b == system.channels[k].b
<1>1. a \in EndType /\ b \in EndType
  BY EndFacts
<1>2. ASSUME NEW e \in EndType, NEW f \in EndType
      PROVE  x \in EndSet(p, e, f) <=>
               /\ e.pd = p
               /\ \/ e.notify /\ x = NtfnEntry(e, f)
                  \/ e.pp /\ x = EpEntry(e, f)
  <2>1. EndSet(p, e, f) = IF e.pd = p THEN ToSet(EndEntries(e, f)) ELSE {}
    BY EmptyFacts DEF EndSet, When
  <2> QED
    BY <2>1, EndEntriesFacts
<1>3. x \in ChannelSet(p, k) <=> x \in EndSet(p, a, b) \/ x \in EndSet(p, b, a)
  BY DEF ChannelSet
<1>4. \A w : w \in Ways(k) <=> w = <<a, b>> \/ w = <<b, a>>
  BY DEF Ways
<1>5. <<a, b>>[1] = a /\ <<a, b>>[2] = b /\ <<b, a>>[1] = b /\ <<b, a>>[2] = a
  OBVIOUS
<1> DEFINE Gives(e, f) == /\ e.pd = p
                          /\ \/ e.notify /\ x = NtfnEntry(e, f)
                             \/ e.pp /\ x = EpEntry(e, f)
<1>6. x \in ChannelSet(p, k) <=> Gives(a, b) \/ Gives(b, a)
  BY <1>1, <1>2, <1>3
<1>7. (\E w \in Ways(k) : Gives(w[1], w[2])) <=> Gives(a, b) \/ Gives(b, a)
  <2> HIDE DEF a, b, Gives
  <2> QED
    BY <1>4, <1>5
<1> QED
  BY <1>6, <1>7

-----------------------------------------------------------------------------
(***************************************************************************)
(* One step.  Nothing changes the system.                                  *)
(***************************************************************************)
\* What depends on the system alone does not change.
LEMMA SameSystem ==
  ASSUME system' = system, NEW p
  PROVE  /\ PdEntries(p)' = PdEntries(p) /\ MonEntries(p)' = MonEntries(p)
         /\ NeedsEp(p)' = NeedsEp(p) /\ FaultCap(p)' = FaultCap(p)
         /\ VcpuFaultEps(p)' = VcpuFaultEps(p)
         /\ ChildTcb(p)' = ChildTcb(p) /\ MapSet(p)' = MapSet(p)
         /\ VcpusUpTo(p)' = VcpusUpTo(p)
         /\ \A k : ChannelSet(p, k)' = ChannelSet(p, k)
<1>1. NeedsEp(p)' = NeedsEp(p)
  BY DEF NeedsEp, HasVm, Children, Pds
<1>2. FaultCap(p)' = FaultCap(p)
  BY DEF FaultCap
<1>3. FixedEntries(p)' = FixedEntries(p)
  BY <1>1, <1>2 DEF FixedEntries
<1>4. /\ IrqEntries(p)' = IrqEntries(p) /\ IoPortEntries(p)' = IoPortEntries(p)
      /\ VcpuEntries(p)' = VcpuEntries(p) /\ VmTcbEntries(p)' = VmTcbEntries(p)
  BY DEF IrqEntries, IoPortEntries, VcpuEntries, VmTcbEntries, ForEach, When
<1>5. PdEntries(p)' = PdEntries(p)
  BY <1>3, <1>4 DEF PdEntries
<1>6. MonEntries(p)' = MonEntries(p) /\ VcpuFaultEps(p)' = VcpuFaultEps(p)
  BY DEF MonEntries, When, VcpuFaultEps
<1>7. ChildTcb(p)' = ChildTcb(p) /\ MapSet(p)' = MapSet(p)
  BY DEF ChildTcb, MapSet
<1>8. VcpusUpTo(p)' = VcpusUpTo(p)
  BY DEF VcpusUpTo, AllVcpus, Pds
<1>9. \A k : ChannelSet(p, k)' = ChannelSet(p, k)
  BY DEF ChannelSet
<1> QED
  BY <1>1, <1>2, <1>5, <1>6, <1>7, <1>8, <1>9

\* A step keeps the system and the order of the build.
LEMMA SystemStep ==
  ASSUME SystemInv, StepsInv, [Next]_vars
  PROVE  system' = system /\ SystemInv' /\ StepsInv'
<1>1. system' = system
  BY DEF Next, BuildPd, BuildChannel, MapCaps, vars
<1>2. SystemInv'
  BY <1>1 DEF SystemInv
<1> SUFFICES StepsInv'
  BY <1>1, <1>2
<1>3. Len(system.pds) \in Nat /\ Len(system.channels) \in Nat
  BY PdFacts, EndFacts
<1>4. CASE BuildPd
  BY <1>1, <1>3, <1>4, SMTT(90) DEF BuildPd, StepsInv
<1>5. CASE BuildChannel
  BY <1>1, <1>3, <1>5, SMTT(40) DEF BuildChannel, StepsInv
<1>6. CASE MapCaps
  BY <1>1, <1>3, <1>6 DEF MapCaps, StepsInv
<1>7. CASE UNCHANGED vars
  BY <1>7 DEF vars, StepsInv
<1> QED
  BY <1>4, <1>5, <1>6, <1>7 DEF Next

\* A sequence with one more element, and one made from another.
LEMMA AppendFacts ==
  ASSUME NEW s, IsSeq(s), NEW x
  PROVE  /\ IsSeq(Append(s, x)) /\ Len(s) \in Nat /\ Len(Append(s, x)) = Len(s) + 1
         /\ \A i \in 1 .. Len(s) : Append(s, x)[i] = s[i]
         /\ Append(s, x)[Len(s) + 1] = x
<1> DEFINE S == ToSet(s) \cup {x}
<1>1. s \in Seq(S)
  BY SeqMonotonic DEF IsSeq
<1>2. /\ Append(s, x) \in Seq(S) /\ Len(Append(s, x)) = Len(s) + 1
      /\ \A i \in 1 .. Len(s) : Append(s, x)[i] = s[i]
      /\ Append(s, x)[Len(s) + 1] = x
      /\ Len(s) \in Nat
  <2>1. x \in S
    OBVIOUS
  <2> HIDE DEF S
  <2> QED
    BY <1>1, <2>1, AppendProperties, LenProperties
<1>3. Append(s, x) \in Seq(ToSet(Append(s, x)))
  <2>1. DOMAIN Append(s, x) = 1 .. Len(s) + 1
    BY <1>2, LenProperties
  <2> DEFINE t == Append(s, x)
             n == Len(s) + 1
  <2>2. DOMAIN t = 1 .. n /\ n \in Nat /\ t = [i \in 1 .. n |-> t[i]]
    BY <1>2, <2>1, LenProperties
  <2> HIDE DEF t, n
  <2>3. t \in [1 .. n -> ToSet(t)]
    BY <2>2 DEF ToSet
  <2>4. t \in Seq(ToSet(t))
    BY <2>2, <2>3, SeqDef
  <2> QED
    BY <2>4 DEF t
<1> QED
  BY <1>2, <1>3 DEF IsSeq

\* A sequence made from another, element by element.
LEMMA MapFcn ==
  ASSUME NEW s, IsSeq(s), NEW f, DOMAIN f = DOMAIN s, f \in [DOMAIN s -> ToSet(f)]
  PROVE  IsSeq(f) /\ Len(f) = Len(s) /\ DOMAIN s = 1 .. Len(s) /\ Len(s) \in Nat
<1>1. DOMAIN s = 1 .. Len(s) /\ Len(s) \in Nat
  BY LenProperties DEF IsSeq
<1>2. f \in Seq(ToSet(f))
  BY <1>1, SeqDef
<1>3. DOMAIN f = 1 .. Len(f) /\ Len(f) \in Nat
  BY <1>2, LenProperties
<1> QED
  BY <1>1, <1>2, <1>3 DEF IsSeq

\* The CNodes that libmicrokit uses.
LEMMA CnodeStep ==
  ASSUME SystemInv, StepsInv, CnodeInv, [Next]_vars
  PROVE  CnodeInv'
<1>1. system' = system /\ StepsInv' /\ \A p : /\ PdEntries(p)' = PdEntries(p)
                                 /\ \A k : ChannelSet(p, k)' = ChannelSet(p, k)
  BY SystemStep, SameSystem
<1>2. SUFFICES /\ IsSeq(cnode') /\ Len(cnode') = pdsBuilt'
               /\ \A p \in 1 .. pdsBuilt' :
                    /\ IsSeq(cnode'[p])
                    /\ ToSet(cnode'[p]) =
                         ToSet(PdEntries(p))
                         \cup UNION {ChannelSet(p, k) : k \in 1 .. channelsBuilt'}
  BY <1>1 DEF CnodeInv
<1>3. /\ pdsBuilt \in Nat /\ channelsBuilt \in Nat
      /\ Len(system.pds) \in Nat /\ Len(system.channels) \in Nat
      /\ Pds(system) = 1 .. Len(system.pds)
      /\ DOMAIN system.channels = 1 .. Len(system.channels)
  BY PdFacts, EndFacts DEF StepsInv
<1>4. CASE BuildPd
  <2> DEFINE n == pdsBuilt + 1
  <2>1. /\ cnode' = Append(cnode, PdEntries(n)) /\ pdsBuilt' = n /\ n \in Pds(system)
        /\ channelsBuilt' = channelsBuilt /\ channelsBuilt = 0
    BY <1>3, <1>4, SMTT(90) DEF BuildPd, StepsInv
  <2>2. /\ IsSeq(cnode') /\ Len(cnode') = n /\ cnode'[n] = PdEntries(n)
        /\ \A i \in 1 .. pdsBuilt : cnode'[i] = cnode[i]
    BY <2>1, AppendFacts DEF CnodeInv
  <2>3. \A p : UNION {ChannelSet(p, k) : k \in 1 .. channelsBuilt} = {}
    BY <2>1
  <2>4. \A p \in 1 .. n : p \in 1 .. pdsBuilt \/ p = n
    BY <1>3
  <2>5. IsSeq(PdEntries(n))
    BY <2>1, PdEntriesFacts
  <2> QED
    BY <2>1, <2>2, <2>3, <2>4, <2>5 DEF CnodeInv
<1>5. CASE BuildChannel
  <2> DEFINE n == channelsBuilt + 1
             a == system.channels[n].a
             b == system.channels[n].b
             Ab(p) == When(a.pd = p, EndEntries(a, b))
             Ba(p) == When(b.pd = p, EndEntries(b, a))
  <2>1. /\ channelsBuilt' = n /\ n \in DOMAIN system.channels /\ pdsBuilt' = pdsBuilt
        /\ cnode' = [p \in DOMAIN cnode |-> cnode[p] \o Ab(p) \o Ba(p)]
    BY <1>3, <1>5 DEF BuildChannel
  <2>2. IsSeq(cnode') /\ Len(cnode') = pdsBuilt /\ DOMAIN cnode = 1 .. pdsBuilt
    <3>1. DOMAIN cnode' = DOMAIN cnode /\ cnode' = [p \in DOMAIN cnode |-> cnode'[p]]
      BY <2>1
    <3>2. cnode' \in [DOMAIN cnode -> ToSet(cnode')]
      BY <3>1 DEF ToSet
    <3> QED
      BY <3>1, <3>2, MapFcn DEF CnodeInv
  <2>3. a \in EndType /\ b \in EndType
    BY <2>1, EndFacts
  <2>4. \A p : IsSeq(Ab(p)) /\ IsSeq(Ba(p))
    BY <2>3, EndEntriesFacts, WhenFacts
  <2>5. ASSUME NEW p \in 1 .. pdsBuilt
        PROVE  /\ IsSeq(cnode'[p])
               /\ ToSet(cnode'[p]) =
                    ToSet(PdEntries(p)) \cup UNION {ChannelSet(p, k) : k \in 1 .. n}
    <3>1. cnode'[p] = cnode[p] \o Ab(p) \o Ba(p)
      BY <2>1, <2>2
    <3>2. /\ IsSeq(cnode[p])
          /\ ToSet(cnode[p]) =
               ToSet(PdEntries(p)) \cup UNION {ChannelSet(p, k) : k \in 1 .. channelsBuilt}
      BY DEF CnodeInv
    <3>3. ToSet(Ab(p)) \cup ToSet(Ba(p)) = ChannelSet(p, n)
      BY DEF ChannelSet, EndSet
    <3>4. \A k \in 1 .. n : k \in 1 .. channelsBuilt \/ k = n
      BY <1>3
    <3>5. UNION {ChannelSet(p, k) : k \in 1 .. n} =
            (UNION {ChannelSet(p, k) : k \in 1 .. channelsBuilt}) \cup ChannelSet(p, n)
      BY <1>3, <3>4
    <3>6. IsSeq(cnode[p] \o Ab(p)) /\ ToSet(cnode[p] \o Ab(p)) = ToSet(cnode[p]) \cup ToSet(Ab(p))
      <4> HIDE DEF Ab
      <4> QED
        BY <2>4, <3>2, ConcatFacts
    <3>7. /\ IsSeq(cnode[p] \o Ab(p) \o Ba(p))
          /\ ToSet(cnode[p] \o Ab(p) \o Ba(p)) = ToSet(cnode[p] \o Ab(p)) \cup ToSet(Ba(p))
      <4> HIDE DEF Ab, Ba
      <4> QED
        BY <2>4, <3>6, ConcatFacts
    <3> HIDE DEF Ab, Ba
    <3> QED
      BY <3>1, <3>2, <3>3, <3>5, <3>6, <3>7
  <2> QED
    BY <2>1, <2>2, <2>5
<1>6. CASE MapCaps
  BY <1>6 DEF MapCaps, CnodeInv
<1>7. CASE UNCHANGED vars
  BY <1>7 DEF vars, CnodeInv
<1> QED
  BY <1>4, <1>5, <1>6, <1>7 DEF Next

\* What is in the CNode of a PD.
LEMMA CnodeHas ==
  ASSUME SystemInv, StepsInv, CnodeInv, NEW p \in 1 .. pdsBuilt
  PROVE  /\ p \in Pds(system) /\ IsSeq(cnode[p])
         /\ \A x : x \in ToSet(cnode[p]) <=>
              \/ x \in FixedSet(p) \cup IrqSet(p) \cup IoPortSet(p) \cup VcpuSet(p)
                         \cup VmTcbSet(p)
              \/ \E k \in 1 .. channelsBuilt : \E w \in Ways(k) :
                   /\ w[1].pd = p
                   /\ \/ w[1].notify /\ x = NtfnEntry(w[1], w[2])
                      \/ w[1].pp /\ x = EpEntry(w[1], w[2])
<1>1. p \in Pds(system) /\ 1 .. channelsBuilt \subseteq DOMAIN system.channels
  BY PdFacts, EndFacts DEF StepsInv
<1>2. /\ IsSeq(cnode[p])
      /\ ToSet(cnode[p]) =
           ToSet(PdEntries(p)) \cup UNION {ChannelSet(p, k) : k \in 1 .. channelsBuilt}
  BY DEF CnodeInv
<1>3. ASSUME NEW x
      PROVE  x \in ToSet(cnode[p]) <=>
               \/ x \in ToSet(PdEntries(p))
               \/ \E k \in 1 .. channelsBuilt : x \in ChannelSet(p, k)
  BY <1>2
<1> QED
  BY <1>1, <1>2, <1>3, PdEntriesFacts, ChannelSetFacts

\* The slots of channels among themselves and beside the others.
LEMMA FewSlots ==
  /\ \A i \in 0 .. 61 : 10 + i \notin PdSlots /\ 74 + i \notin PdSlots
  /\ \A i, j \in 0 .. 61 : /\ i # j => 10 + i # 10 + j /\ 74 + i # 74 + j
                           /\ 10 + i # 74 + j /\ 74 + i # 10 + j
  BY DEF PdSlots

\* A channel brings slots that are free: its ids are new to its PDs.
LEMMA FreshSlots ==
  ASSUME SystemInv, StepsInv, CnodeInv, NEW p \in 1 .. pdsBuilt,
         NEW n \in DOMAIN system.channels, n > channelsBuilt, NEW e \in EndsOf(n), e.pd = p
  PROVE  SlotsOf(cnode[p]) \cap {10 + e.id, 74 + e.id} = {}
<1>1. e.id \in 0 .. 61
  BY EndFacts DEF EndsOf, EndType, PD_MAX_ID
<1>2. SUFFICES ASSUME NEW x \in ToSet(cnode[p])
               PROVE  x.slot # 10 + e.id /\ x.slot # 74 + e.id
  BY SlotsFacts
<1>3. ASSUME x \in FixedSet(p) \cup IrqSet(p) \cup IoPortSet(p) \cup VcpuSet(p) \cup VmTcbSet(p)
      PROVE  x.slot # 10 + e.id /\ x.slot # 74 + e.id
  <2>1. x \in ToSet(PdEntries(p))
    BY <1>3, CnodeHas, PdEntriesFacts
  <2>2. x.slot \in SlotsOf(PdEntries(p))
    BY <2>1, SlotsFacts
  <2>3. x.slot \in PdSlots
    BY <2>2, CnodeHas, PdEntriesFacts
  <2>4. 10 + e.id \notin PdSlots /\ 74 + e.id \notin PdSlots
    BY <1>1, FewSlots, Zenon
  <2> QED
    BY <2>3, <2>4, Zenon
<1>4. ASSUME NEW k \in 1 .. channelsBuilt, NEW w \in Ways(k), w[1].pd = p,
             x = NtfnEntry(w[1], w[2]) \/ x = EpEntry(w[1], w[2])
      PROVE  x.slot # 10 + e.id /\ x.slot # 74 + e.id
  <2>1. k \in DOMAIN system.channels /\ k # n
    BY EndFacts DEF StepsInv
  <2>2. w[1] \in EndsOf(k) /\ w[1].id \in 0 .. 61
    BY <2>1, WayFacts
  <2>3. w[1].id # e.id
    BY <1>4, <2>1, <2>2, UsedIdsFacts
  <2>4. x.slot = 10 + w[1].id \/ x.slot = 74 + w[1].id
    BY <1>4, Bases DEF NtfnEntry, EpEntry, Entry
  <2> QED
    BY <1>1, <2>2, <2>3, <2>4, FewSlots, Zenon
<1> QED
  BY <1>3, <1>4, CnodeHas

\* A step never fills a slot of a PD's CNode twice.
LEMMA CnodeUniqueStep ==
  ASSUME SystemInv, StepsInv, CnodeInv, CnodeUnique, [Next]_vars
  PROVE  CnodeUnique'
<1>1. system' = system /\ NoneFolded' = NoneFolded
  BY SystemStep DEF NoneFolded
<1>2. SUFFICES ASSUME NoneFolded, NEW p \in 1 .. pdsBuilt'
               PROVE  Unique(cnode'[p])
  BY <1>1 DEF CnodeUnique
<1>3. /\ pdsBuilt \in Nat /\ channelsBuilt \in Nat
      /\ Len(system.pds) \in Nat /\ Len(system.channels) \in Nat
      /\ Pds(system) = 1 .. Len(system.pds)
      /\ DOMAIN system.channels = 1 .. Len(system.channels)
      /\ DOMAIN cnode = 1 .. pdsBuilt
  BY PdFacts, EndFacts, LenProperties DEF StepsInv, CnodeInv, IsSeq
<1>4. CASE BuildPd
  <2> DEFINE n == pdsBuilt + 1
  <2>1. /\ cnode' = Append(cnode, PdEntries(n)) /\ pdsBuilt' = n /\ n \in Pds(system)
    BY <1>3, <1>4, SMTT(40) DEF BuildPd, StepsInv
  <2>2. cnode'[n] = PdEntries(n) /\ \A i \in 1 .. pdsBuilt : cnode'[i] = cnode[i]
    BY <2>1, AppendFacts DEF CnodeInv
  <2>3. p \in 1 .. pdsBuilt \/ p = n
    BY <1>3, <2>1
  <2> QED
    BY <1>2, <2>1, <2>2, <2>3, PdEntriesFacts DEF CnodeUnique
<1>5. CASE BuildChannel
  <2> DEFINE n == channelsBuilt + 1
             a == system.channels[n].a
             b == system.channels[n].b
             s == When(a.pd = p, EndEntries(a, b))
             t == When(b.pd = p, EndEntries(b, a))
  <2>1. n \in DOMAIN system.channels /\ n > channelsBuilt /\ p \in 1 .. pdsBuilt
    BY <1>3, <1>5, SMTT(90) DEF BuildChannel
  <2>2. cnode'[p] = cnode[p] \o s \o t
    BY <1>3, <1>5, <2>1 DEF BuildChannel
  <2>3. /\ a \in EndType /\ b \in EndType /\ a \in EndsOf(n) /\ b \in EndsOf(n)
        /\ a.id \in 0 .. 61 /\ b.id \in 0 .. 61
    BY <2>1, EndFacts DEF EndsOf, EndType, PD_MAX_ID
  <2>4. IsSeq(cnode[p]) /\ Unique(cnode[p])
    BY <1>2, <2>1 DEF CnodeInv, CnodeUnique
  <2>5. /\ IsSeq(s) /\ Unique(s) /\ SlotsOf(s) \subseteq {10 + a.id, 74 + a.id}
        /\ a.pd # p => SlotsOf(s) = {}
    <3> HIDE DEF a, b
    <3> QED
      BY <2>3, EndEntriesFacts, WhenFacts, EmptyFacts DEF When
  <2>6. /\ IsSeq(t) /\ Unique(t) /\ SlotsOf(t) \subseteq {10 + b.id, 74 + b.id}
        /\ b.pd # p => SlotsOf(t) = {}
    <3> HIDE DEF a, b
    <3> QED
      BY <2>3, EndEntriesFacts, WhenFacts, EmptyFacts DEF When
  <2>7. a.pd = p => SlotsOf(cnode[p]) \cap {10 + a.id, 74 + a.id} = {}
    BY <2>1, <2>3, FreshSlots
  <2>8. b.pd = p => SlotsOf(cnode[p]) \cap {10 + b.id, 74 + b.id} = {}
    BY <2>1, <2>3, FreshSlots
  <2>9. a.pd = p /\ b.pd = p => {10 + a.id, 74 + a.id} \cap {10 + b.id, 74 + b.id} = {}
    <3>1. ~(a.pd = b.pd /\ a.id = b.id)
      BY <1>2, <2>1 DEF NoneFolded, ToSet
    <3> QED
      BY <2>3, <3>1
  <2> HIDE DEF a, b, s, t
  <2>10. IsSeq(cnode[p] \o s) /\ Unique(cnode[p] \o s)
         /\ SlotsOf(cnode[p] \o s) = SlotsOf(cnode[p]) \cup SlotsOf(s)
    <3>1. SlotsOf(cnode[p]) \cap SlotsOf(s) = {}
      BY <2>5, <2>7
    <3> QED
      BY <2>4, <2>5, <3>1, ConcatFacts
  <2>11. SlotsOf(cnode[p] \o s) \cap SlotsOf(t) = {}
    BY <2>5, <2>6, <2>8, <2>9, <2>10
  <2>12. Unique(cnode[p] \o s \o t)
    BY <2>6, <2>10, <2>11, ConcatFacts
  <2> QED
    BY <2>2, <2>12
<1>6. CASE MapCaps
  BY <1>2, <1>6 DEF MapCaps, CnodeUnique
<1>7. CASE UNCHANGED vars
  BY <1>2, <1>7 DEF vars, CnodeUnique
<1> QED
  BY <1>4, <1>5, <1>6, <1>7 DEF Next

MapEntries(p) ==
  [k \in DOMAIN system.pds[p].maps |->
     Entry(system.pds[p].maps[k].slot,
           Cap(system.pds[p].maps[k].type, <<system.pds[p].maps[k].pd>>, {}))]

\* The entries for the user capabilities of a PD are in different slots.
LEMMA MapEntriesFacts ==
  ASSUME SystemInv, NEW p \in Pds(system)
  PROVE  /\ IsSeq(MapEntries(p)) /\ Unique(MapEntries(p)) /\ ToSet(MapEntries(p)) = MapSet(p)
         /\ SlotsOf(MapEntries(p)) \subseteq 1 .. 127
<1> DEFINE maps == system.pds[p].maps
           f    == [k \in DOMAIN maps |->
                      Entry(maps[k].slot, Cap(maps[k].type, <<maps[k].pd>>, {}))]
<1>1. IsSeq(maps)
  <2>1. DOMAIN maps = 1 .. Len(maps) /\ Len(maps) \in Nat
    BY PdFacts, LenProperties
  <2>2. maps = [k \in 1 .. Len(maps) |-> maps[k]]
    BY PdFacts, LenProperties
  <2> HIDE DEF maps
  <2>3. maps \in [1 .. Len(maps) -> ToSet(maps)]
    BY <2>1, <2>2 DEF ToSet
  <2> QED
    BY <2>1, <2>3, SeqDef DEF IsSeq
<1>2. DOMAIN f = DOMAIN maps /\ f \in [DOMAIN maps -> ToSet(f)]
  <2>1. DOMAIN f = DOMAIN maps /\ f = [k \in DOMAIN f |-> f[k]]
    BY Zenon
  <2> HIDE DEF f, maps
  <2> QED
    BY <2>1 DEF ToSet
<1>3. IsSeq(f)
  <2> HIDE DEF f, maps
  <2> QED
    BY <1>1, <1>2, MapFcn
<1>4. \A k \in DOMAIN maps : f[k].slot = maps[k].slot /\ maps[k] \in ToSet(maps)
  BY DEF Entry, ToSet
<1>5. Unique(f)
  <2>1. \A k, l \in DOMAIN maps : maps[k].slot = maps[l].slot => k = l
    BY MapFacts DEF Unique
  <2> HIDE DEF f, maps
  <2> QED
    BY <1>2, <1>4, <2>1 DEF Unique
<1>6. SlotsOf(f) \subseteq 1 .. 127
  <2>1. \A m \in ToSet(maps) : m.slot \in 1 .. 127
    BY MapFacts DEF CAP_MAP_MAX_SLOT
  <2> HIDE DEF f, maps
  <2> QED
    BY <1>2, <1>4, <2>1 DEF SlotsOf
<1>7. ToSet(f) = MapSet(p)
  BY DEF ToSet, MapSet
<1>8. MapEntries(p) = f
  BY DEF MapEntries
<1> QED
  BY <1>3, <1>5, <1>6, <1>7, <1>8

\* The slots of a root CNode.
LEMMA RootSlots ==
  ASSUME NEW c, system.pds[c].id \in Nat
  PROVE  /\ ChildTcb(c).slot = 202 + system.pds[c].id
         /\ \A q : Entry(0, Cap("cnode", <<q>>, {})).slot = 0
  BY Bases DEF ChildTcb, Entry

\* The root CNodes after one more PD.
LEMMA RootBuildPd ==
  ASSUME SystemInv, StepsInv, RootInv, BuildPd
  PROVE  /\ IsSeq(root') /\ Len(root') = pdsBuilt + 1
         /\ \A q \in 1 .. pdsBuilt + 1 :
              /\ IsSeq(root'[q]) /\ Unique(root'[q])
              /\ ToSet(root'[q]) = RootSet(q, pdsBuilt + 1, mapsBuilt)
<1> DEFINE n      == pdsBuilt + 1
           parent == system.pds[n].parent
           slot   == PD_BASE_PD_TCB_CAP + system.pds[n].id
           New(q) == When(q = parent, << Entry(slot, Cap("tcb", <<n>>, {})) >>)
           old    == [q \in DOMAIN root |-> root[q] \o New(q)]
           one    == << Entry(0, Cap("cnode", <<n>>, {})) >>
<1>1. /\ pdsBuilt \in Nat /\ n \in Pds(system) /\ mapsBuilt = 0 /\ pdsBuilt < Len(system.pds)
      /\ root' = Append(old, one)
      /\ Pds(system) = 1 .. Len(system.pds) /\ Len(system.pds) \in Nat
  BY PdFacts, SMTT(90) DEF BuildPd, StepsInv
<1>2. IsSeq(old) /\ Len(old) = pdsBuilt /\ DOMAIN root = 1 .. pdsBuilt
  <2>1. DOMAIN old = DOMAIN root /\ old = [q \in DOMAIN root |-> old[q]]
    BY Zenon
  <2> HIDE DEF old
  <2>2. old \in [DOMAIN root -> ToSet(old)]
    BY <2>1 DEF ToSet
  <2> QED
    BY <2>1, <2>2, MapFcn DEF RootInv
<1>3. /\ IsSeq(root') /\ Len(root') = n /\ root'[n] = one
      /\ \A q \in 1 .. pdsBuilt : root'[q] = root[q] \o New(q)
  <2>1. \A q \in 1 .. pdsBuilt : old[q] = root[q] \o New(q)
    BY <1>2
  <2> HIDE DEF old, one, New
  <2> QED
    BY <1>1, <1>2, <2>1, AppendFacts
<1>4. ChildTcb(n) = Entry(slot, Cap("tcb", <<n>>, {}))
  BY DEF ChildTcb
<1>5. \A d \in 1 .. n : /\ d \in Pds(system) /\ system.pds[d].parent \in 0 .. d - 1
                        /\ system.pds[d].id \in Nat
  <2>1. \A d \in 1 .. n : d \in Pds(system)
    BY <1>1
  <2> QED
    BY <2>1, PdFacts
<1>6. ASSUME NEW q \in 1 .. pdsBuilt
      PROVE  /\ IsSeq(root'[q]) /\ Unique(root'[q])
             /\ ToSet(root'[q]) = RootSet(q, n, mapsBuilt)
  <2>1. /\ IsSeq(root[q]) /\ Unique(root[q])
        /\ ToSet(root[q]) = RootSet(q, pdsBuilt, mapsBuilt)
    BY DEF RootInv
  <2>2. RootSet(q, n, mapsBuilt) =
          RootSet(q, pdsBuilt, mapsBuilt) \cup (IF q = parent THEN {ChildTcb(n)} ELSE {})
    <3>1. \A d : d \in 1 .. n <=> d \in 1 .. pdsBuilt \/ d = n
      BY <1>1
    <3> QED
      BY <3>1 DEF RootSet
  <2>3. /\ IsSeq(New(q)) /\ Unique(New(q))
        /\ ToSet(New(q)) = IF q = parent THEN {ChildTcb(n)} ELSE {}
    BY <1>4, OneFacts, WhenFacts
  <2>4. SlotsOf(root[q]) \cap SlotsOf(New(q)) = {}
    <3>1. SUFFICES ASSUME q = parent, NEW x \in ToSet(root[q])
                   PROVE  x.slot # ChildTcb(n).slot
      BY <2>3, SlotsFacts
    <3>2. x = Entry(0, Cap("cnode", <<q>>, {}))
          \/ \E d \in 1 .. pdsBuilt : system.pds[d].parent = q /\ x = ChildTcb(d)
      BY <1>1, <2>1, SMTT(40) DEF RootSet
    <3>3. CASE x = Entry(0, Cap("cnode", <<q>>, {}))
      BY <1>1, <1>5, <3>3, RootSlots, SMTT(40)
    <3>4. ASSUME NEW d \in 1 .. pdsBuilt, system.pds[d].parent = q, x = ChildTcb(d)
          PROVE  x.slot # ChildTcb(n).slot
      <4>1. d \in 1 .. n /\ d # n /\ n \in 1 .. n /\ q \in 1 .. n
        BY <1>1
      <4>2. system.pds[d].id # system.pds[n].id
        BY <1>5, <3>1, <3>4, <4>1, ChildFacts
      <4> QED
        BY <1>5, <3>4, <4>1, <4>2, RootSlots, SMTT(40)
    <3> QED
      BY <3>2, <3>3, <3>4
  <2> DEFINE r == root[q]
             t == New(q)
  <2>5. root'[q] = r \o t
    BY <1>3
  <2> HIDE DEF New, r, t
  <2>6. IsSeq(r \o t) /\ Unique(r \o t) /\ ToSet(r \o t) = ToSet(r) \cup ToSet(t)
    BY <2>1, <2>3, <2>4, ConcatFacts DEF r, t
  <2> QED
    BY <2>1, <2>2, <2>3, <2>5, <2>6 DEF r, t
<1>7. /\ IsSeq(root'[n]) /\ Unique(root'[n])
      /\ ToSet(root'[n]) = RootSet(n, n, mapsBuilt)
  <2>1. {d \in 1 .. n : system.pds[d].parent = n} = {}
    BY <1>1, <1>5
  <2>2. ~(n <= mapsBuilt)
    BY <1>1
  <2>3. RootSet(n, n, mapsBuilt) = {Entry(0, Cap("cnode", <<n>>, {}))}
    BY <2>1, <2>2 DEF RootSet
  <2> QED
    BY <1>3, <2>3, OneFacts
<1>8. \A q \in 1 .. n : q \in 1 .. pdsBuilt \/ q = n
  BY <1>1
<1> QED
  BY <1>3, <1>6, <1>7, <1>8

\* Step 5 for one PD.
LEMMA RootMapCaps ==
  ASSUME SystemInv, StepsInv, RootInv, MapCaps
  PROVE  /\ IsSeq(root') /\ Len(root') = pdsBuilt
         /\ \A q \in 1 .. pdsBuilt :
              /\ IsSeq(root'[q]) /\ Unique(root'[q])
              /\ ToSet(root'[q]) = RootSet(q, pdsBuilt, mapsBuilt + 1)
<1> DEFINE p == mapsBuilt + 1
           s == root[p]
           t == MapEntries(p)
<1>1. /\ pdsBuilt = Len(system.pds) /\ p \in 1 .. pdsBuilt /\ p \in Pds(system)
      /\ mapsBuilt \in Nat /\ pdsBuilt \in Nat
      /\ Pds(system) = 1 .. Len(system.pds)
  BY PdFacts DEF MapCaps, StepsInv
<1>2. root' = [root EXCEPT ![p] = root[p] \o MapEntries(p)]
  BY DEF MapCaps, MapEntries, ForEach
<1>3. DOMAIN root = 1 .. pdsBuilt
  BY LenProperties DEF RootInv, IsSeq
<1>4. /\ DOMAIN root' = DOMAIN root
      /\ root'[p] = root[p] \o MapEntries(p)
      /\ \A q \in 1 .. pdsBuilt : q # p => root'[q] = root[q]
  BY <1>1, <1>2, <1>3
<1>5. IsSeq(root') /\ Len(root') = pdsBuilt
  <2>1. root' = [q \in DOMAIN root |-> root'[q]]
    BY <1>2
  <2>2. root' \in [DOMAIN root -> ToSet(root')]
    BY <1>4, <2>1 DEF ToSet
  <2> QED
    BY <1>4, <2>2, MapFcn DEF RootInv
<1>6. ASSUME NEW q \in 1 .. pdsBuilt, q # p
      PROVE  /\ IsSeq(root'[q]) /\ Unique(root'[q])
             /\ ToSet(root'[q]) = RootSet(q, pdsBuilt, p)
  <2>1. RootSet(q, pdsBuilt, p) = RootSet(q, pdsBuilt, mapsBuilt)
    <3>1. q <= p <=> q <= mapsBuilt
      BY <1>1, <1>6
    <3> QED
      BY <3>1 DEF RootSet
  <2> QED
    BY <1>4, <1>6, <2>1 DEF RootInv
<1>7. /\ IsSeq(root'[p]) /\ Unique(root'[p])
      /\ ToSet(root'[p]) = RootSet(p, pdsBuilt, p)
  <2>1. /\ IsSeq(s) /\ Unique(s)
        /\ ToSet(s) = RootSet(p, pdsBuilt, mapsBuilt)
    BY <1>1 DEF RootInv
  <2>2. /\ IsSeq(t) /\ Unique(t) /\ ToSet(t) = MapSet(p) /\ SlotsOf(t) \subseteq 1 .. 127
    BY <1>1, MapEntriesFacts
  <2>3. RootSet(p, pdsBuilt, p) = RootSet(p, pdsBuilt, mapsBuilt) \cup MapSet(p)
    <3>1. p <= p /\ ~(p <= mapsBuilt)
      BY <1>1
    <3> QED
      BY <3>1 DEF RootSet
  <2>4. SlotsOf(s) \cap SlotsOf(t) = {}
    <3>1. SUFFICES ASSUME NEW x \in ToSet(s)
                   PROVE  x.slot \notin 1 .. 127
      BY <2>2, SlotsFacts
    <3>2. x = Entry(0, Cap("cnode", <<p>>, {})) \/ \E d \in 1 .. pdsBuilt : x = ChildTcb(d)
      BY <1>1, <2>1 DEF RootSet
    <3>3. CASE x = Entry(0, Cap("cnode", <<p>>, {}))
      BY <3>3 DEF Entry
    <3>4. ASSUME NEW d \in 1 .. pdsBuilt, x = ChildTcb(d)
          PROVE  x.slot \notin 1 .. 127
      <4>1. system.pds[d].id \in Nat
        BY <1>1, PdFacts
      <4>2. x.slot = 202 + system.pds[d].id
        BY <3>4, <4>1, RootSlots
      <4> QED
        BY <4>1, <4>2
    <3> QED
      BY <3>2, <3>3, <3>4
  <2>5. root'[p] = s \o t
    BY <1>4
  <2> HIDE DEF s, t
  <2>6. IsSeq(s \o t) /\ Unique(s \o t) /\ ToSet(s \o t) = ToSet(s) \cup ToSet(t)
    BY <2>1, <2>2, <2>4, ConcatFacts
  <2> QED
    BY <2>1, <2>2, <2>3, <2>5, <2>6
<1> QED
  BY <1>5, <1>6, <1>7

\* Any step.
LEMMA RootStep ==
  ASSUME SystemInv, StepsInv, RootInv, [Next]_vars
  PROVE  RootInv'
<1>1. system' = system
  BY SystemStep
<1>2. \A q, m, n : RootSet(q, m, n)' = RootSet(q, m, n)
  BY <1>1, SameSystem DEF RootSet
<1>3. SUFFICES /\ IsSeq(root') /\ Len(root') = pdsBuilt'
               /\ \A q \in 1 .. pdsBuilt' :
                    /\ IsSeq(root'[q]) /\ Unique(root'[q])
                    /\ ToSet(root'[q]) = RootSet(q, pdsBuilt', mapsBuilt')
  <2>1. \A q : RootSet(q, pdsBuilt, mapsBuilt)' = RootSet(q, pdsBuilt', mapsBuilt')
    BY <1>1, SameSystem DEF RootSet
  <2> QED
    BY <2>1 DEF RootInv
<1>4. CASE BuildPd
  <2>1. pdsBuilt' = pdsBuilt + 1 /\ mapsBuilt' = mapsBuilt
    BY <1>4 DEF BuildPd
  <2> QED
    BY <1>4, <2>1, RootBuildPd
<1>5. CASE BuildChannel
  BY <1>5 DEF BuildChannel, RootInv
<1>6. CASE MapCaps
  <2>1. pdsBuilt' = pdsBuilt /\ mapsBuilt' = mapsBuilt + 1
    BY <1>6 DEF MapCaps
  <2> QED
    BY <1>6, <2>1, RootMapCaps
<1>7. CASE UNCHANGED vars
  BY <1>7 DEF vars, RootInv
<1> QED
  BY <1>4, <1>5, <1>6, <1>7 DEF Next

\* How many vCPUs there are: no more than the monitor has names for.
LEMMA VcpuCount ==
  ASSUME SystemInv, NEW n \in Nat, n + 1 \in Pds(system)
  PROVE  /\ Len(system.pds[n + 1].vcpus) \in Nat
         /\ Cardinality(VcpusUpTo(n)) \in Nat
         /\ Cardinality(VcpusUpTo(n + 1)) =
              Cardinality(VcpusUpTo(n)) + Len(system.pds[n + 1].vcpus)
         /\ Cardinality(VcpusUpTo(n + 1)) <= 64
<1> DEFINE vcpus == system.pds[n + 1].vcpus
           New   == {w \in AllVcpus(system) : w[1] = n + 1}
           f     == [k \in 1 .. Len(vcpus) |-> <<n + 1, vcpus[k]>>]
<1>1. /\ Len(vcpus) \in Nat /\ DOMAIN vcpus = 1 .. Len(vcpus)
      /\ \A k \in DOMAIN vcpus : vcpus[k] \in 0 .. VCPU_MAX_ID
      /\ \A k, l \in DOMAIN vcpus : vcpus[k] = vcpus[l] => k = l
  BY PdFacts, IdFacts, LenProperties DEF ToSet, IsInjective
<1>2. IsFiniteSet(AllVcpus(system))
  <2>1. IsFiniteSet(Pds(system)) /\ IsFiniteSet(0 .. VCPU_MAX_ID)
    <3>1. Len(system.pds) \in Int /\ VCPU_MAX_ID \in Int /\ 0 \in Int /\ 1 \in Int
      BY PdFacts DEF VCPU_MAX_ID, PD_MAX_ID
    <3> QED
      BY <3>1, PdFacts, FS_Interval, Zenon
  <2>2. IsFiniteSet(Pds(system) \X (0 .. VCPU_MAX_ID))
    BY <2>1, FS_Product
  <2>3. AllVcpus(system) \in SUBSET (Pds(system) \X (0 .. VCPU_MAX_ID))
    BY DEF AllVcpus
  <2> QED
    BY <2>2, <2>3, FS_Subset
<1>3. /\ VcpusUpTo(n) \in SUBSET AllVcpus(system) /\ New \in SUBSET AllVcpus(system)
      /\ VcpusUpTo(n + 1) \in SUBSET AllVcpus(system)
  BY DEF VcpusUpTo
<1>4. /\ IsFiniteSet(VcpusUpTo(n)) /\ IsFiniteSet(New)
      /\ Cardinality(VcpusUpTo(n + 1)) <= Cardinality(AllVcpus(system))
  <2> HIDE DEF New
  <2> QED
    BY <1>2, <1>3, FS_Subset
<1>5. VcpusUpTo(n + 1) = VcpusUpTo(n) \cup New /\ VcpusUpTo(n) \cap New = {}
  <2>1. \A w \in AllVcpus(system) : w[1] \in Nat
    BY PdFacts DEF AllVcpus
  <2>2. \A w \in AllVcpus(system) : /\ w[1] <= n + 1 <=> w[1] <= n \/ w[1] = n + 1
                                    /\ ~(w[1] <= n /\ w[1] = n + 1)
    BY <2>1
  <2> QED
    BY <2>2 DEF VcpusUpTo
<1>6. Cardinality(New) = Len(vcpus)
  <2>1. f \in Bijection(1 .. Len(vcpus), New)
    <3>1. \A k \in 1 .. Len(vcpus) : f[k] \in New
      <4>1. \A k \in 1 .. Len(vcpus) : vcpus[k] \in ToSet(vcpus)
        BY <1>1 DEF ToSet
      <4> QED
        BY <1>1, <4>1 DEF AllVcpus
    <3>2. \A k, l \in 1 .. Len(vcpus) : f[k] = f[l] => k = l
      BY <1>1
    <3>3. \A w \in New : \E k \in 1 .. Len(vcpus) : f[k] = w
      <4>1. ASSUME NEW w \in New
            PROVE  w = <<n + 1, w[2]>> /\ w[2] \in ToSet(vcpus)
        BY DEF AllVcpus
      <4>2. \A v \in ToSet(vcpus) : \E k \in 1 .. Len(vcpus) : vcpus[k] = v
        BY <1>1 DEF ToSet
      <4>3. \A k \in 1 .. Len(vcpus) : f[k] = <<n + 1, vcpus[k]>>
        OBVIOUS
      <4> HIDE DEF New, f, vcpus
      <4> QED
        BY <4>1, <4>2, <4>3
    <3>4. f \in [1 .. Len(vcpus) -> New]
      BY <3>1
    <3> HIDE DEF f, New, vcpus
    <3> QED
      BY <3>2, <3>3, <3>4 DEF Bijection, Injection, Surjection, IsInjective
  <2>2. ExistsBijection(1 .. Len(vcpus), New)
    BY <2>1 DEF ExistsBijection
  <2>3. IsFiniteSet(1 .. Len(vcpus)) /\ Cardinality(1 .. Len(vcpus)) = Len(vcpus)
    <3> DEFINE m == Len(vcpus)
    <3>1. m \in Int /\ 1 \in Int /\ (IF 1 > m THEN 0 ELSE m - 1 + 1) = m
      BY <1>1
    <3> HIDE DEF m
    <3>2. IsFiniteSet(1 .. m) /\ Cardinality(1 .. m) = m
      BY <3>1, FS_Interval
    <3> QED
      BY <3>2 DEF m
  <2> HIDE DEF New, vcpus
  <2> QED
    BY <2>2, <2>3, FS_Bijection
<1>7. Cardinality(VcpusUpTo(n)) \in Nat /\ Cardinality(New) \in Nat
  <2> HIDE DEF New
  <2> QED
    BY <1>4, FS_CardinalityType
<1>8. Cardinality(VcpusUpTo(n + 1)) = Cardinality(VcpusUpTo(n)) + Cardinality(New)
  <2> HIDE DEF New
  <2>1. Cardinality(VcpusUpTo(n) \cap New) = 0
    BY <1>5, FS_EmptySet
  <2>2. Cardinality(VcpusUpTo(n) \cup New) =
          Cardinality(VcpusUpTo(n)) + Cardinality(New) - Cardinality(VcpusUpTo(n) \cap New)
    BY <1>4, FS_Union
  <2>3. Cardinality(VcpusUpTo(n + 1)) = Cardinality(VcpusUpTo(n)) + Cardinality(New) - 0
    BY <1>5, <2>1, <2>2
  <2> QED
    BY <1>7, <2>3
<1>9. Cardinality(AllVcpus(system)) <= 64
  BY DEF SystemInv, NamesFit, MAX_VMS
<1>10. Cardinality(AllVcpus(system)) \in Nat
  BY <1>2, FS_CardinalityType
<1> HIDE DEF New, vcpus
<1>11. Cardinality(VcpusUpTo(n + 1)) <= 64
  BY <1>1, <1>4, <1>6, <1>7, <1>8, <1>9, <1>10
<1> QED
  BY <1>1, <1>6, <1>7, <1>8, <1>11 DEF vcpus

MonSlots(p) == {9 + p, 137 + p, 201 + p}

\* What the monitor gets with a PD, at the index of the PD.
LEMMA MonEntriesFacts ==
  ASSUME SystemInv, NEW p \in Pds(system)
  PROVE  /\ IsSeq(MonEntries(p)) /\ Unique(MonEntries(p))
         /\ SlotsOf(MonEntries(p)) \subseteq MonSlots(p)
         /\ ToSet(MonEntries(p)) =
              {Entry(9 + p, Cap("tcb", <<p>>, {}))}
              \cup (IF system.pds[p].passive
                    THEN {Entry(137 + p, Cap("sc", <<p>>, {})),
                          Entry(201 + p, Cap("ntfn", <<p>>, {}))}
                    ELSE {})
<1> DEFINE one == << Entry(MON_BASE_PD_TCB_CAP + p - 1, Cap("tcb", <<p>>, {})) >>
           two == << Entry(MON_BASE_SCHED_CONTEXT_CAP + p - 1, Cap("sc", <<p>>, {})),
                     Entry(MON_BASE_NOTIFICATION_CAP + p - 1, Cap("ntfn", <<p>>, {})) >>
           may == When(system.pds[p].passive, two)
<1>1. /\ p \in Nat
      /\ MON_BASE_PD_TCB_CAP + p - 1 = 9 + p /\ MON_BASE_SCHED_CONTEXT_CAP + p - 1 = 137 + p
      /\ MON_BASE_NOTIFICATION_CAP + p - 1 = 201 + p
  BY PdFacts, Bases
<1>2. /\ IsSeq(one) /\ Unique(one) /\ SlotsOf(one) = {9 + p}
      /\ ToSet(one) = {Entry(9 + p, Cap("tcb", <<p>>, {}))}
  BY <1>1, OneFacts DEF Entry
<1>3. /\ IsSeq(two) /\ Unique(two) /\ SlotsOf(two) = {137 + p, 201 + p}
      /\ ToSet(two) = {Entry(137 + p, Cap("sc", <<p>>, {})), Entry(201 + p, Cap("ntfn", <<p>>, {}))}
  <2>1. /\ IsSeq(two) /\ DOMAIN two = {1, 2} /\ ToSet(two) = {two[1], two[2]}
        /\ SlotsOf(two) = {two[1].slot, two[2].slot}
    BY DEF IsSeq, ToSet, SlotsOf
  <2>2. two[1].slot = 137 + p /\ two[2].slot = 201 + p /\ 137 + p # 201 + p
    BY <1>1 DEF Entry
  <2>3. Unique(two)
    BY <2>1, <2>2 DEF Unique
  <2> QED
    BY <1>1, <2>1, <2>2, <2>3
<1>4. /\ IsSeq(may) /\ Unique(may) /\ SlotsOf(may) \subseteq {137 + p, 201 + p}
      /\ ToSet(may) = IF system.pds[p].passive THEN ToSet(two) ELSE {}
  <2> HIDE DEF two
  <2> QED
    BY <1>3, WhenFacts
<1>5. MonEntries(p) = one \o may
  BY DEF MonEntries
<1>6. SlotsOf(one) \cap SlotsOf(may) = {}
  <2>1. 9 + p # 137 + p /\ 9 + p # 201 + p
    BY <1>1
  <2> HIDE DEF one, may
  <2> QED
    BY <1>2, <1>4, <2>1
<1> HIDE DEF one, may, two
<1>7. /\ IsSeq(one \o may) /\ Unique(one \o may) /\ ToSet(one \o may) = ToSet(one) \cup ToSet(may)
      /\ SlotsOf(one \o may) = SlotsOf(one) \cup SlotsOf(may)
  BY <1>2, <1>4, <1>6, ConcatFacts
<1> QED
  BY <1>2, <1>3, <1>4, <1>5, <1>7 DEF MonSlots

\* The TCBs of the vCPUs of a PD come right after those of earlier PDs.
LEMMA MonVcpuEntriesFacts ==
  ASSUME SystemInv, monitorVcpuIdx \in Nat, NEW p \in Pds(system)
  PROVE  /\ IsSeq(MonVcpuEntries(p)) /\ Unique(MonVcpuEntries(p))
         /\ Len(MonVcpuEntries(p)) \in 0 .. Len(system.pds[p].vcpus)
         /\ SlotsOf(MonVcpuEntries(p)) \subseteq
              74 + monitorVcpuIdx .. 74 + monitorVcpuIdx + Len(MonVcpuEntries(p)) - 1
<1> DEFINE vcpus == system.pds[p].vcpus
           first == 74 + monitorVcpuIdx
           f     == [k \in DOMAIN vcpus |->
                       Entry(MON_BASE_VM_TCB_CAP + monitorVcpuIdx + k - 1,
                             Cap("tcb", <<p, vcpus[k]>>, {}))]
<1>1. Len(vcpus) \in Nat /\ DOMAIN vcpus = 1 .. Len(vcpus)
  BY PdFacts, LenProperties
<1>2. \A k \in 1 .. Len(vcpus) : f[k].slot = first + k - 1
  BY <1>1, Bases DEF Entry
<1>3. IsSeq(f) /\ DOMAIN f = 1 .. Len(vcpus) /\ Len(f) = Len(vcpus)
  <2>1. DOMAIN f = 1 .. Len(vcpus) /\ f = [k \in 1 .. Len(vcpus) |-> f[k]]
    BY <1>1
  <2> HIDE DEF f, vcpus
  <2>2. f \in [1 .. Len(vcpus) -> ToSet(f)]
    BY <2>1 DEF ToSet
  <2>3. f \in Seq(ToSet(f))
    BY <1>1, <2>2, SeqDef
  <2>4. DOMAIN f = 1 .. Len(f) /\ Len(f) \in Nat
    BY <2>3, LenProperties
  <2> QED
    BY <1>1, <2>1, <2>3, <2>4 DEF IsSeq
<1>4. Unique(f)
  <2>1. first \in Nat /\ \A k, l \in 1 .. Len(vcpus) : first + k - 1 = first + l - 1 => k = l
    BY <1>1
  <2> HIDE DEF f, vcpus, first
  <2> QED
    BY <1>2, <1>3, <2>1 DEF Unique
<1>5. SlotsOf(f) \subseteq first .. first + Len(f) - 1
  <2>1. \A k \in 1 .. Len(vcpus) : first + k - 1 \in first .. first + Len(vcpus) - 1
    BY <1>1
  <2> HIDE DEF f, vcpus, first
  <2> QED
    BY <1>2, <1>3, <2>1 DEF SlotsOf
<1>6. MonVcpuEntries(p) = IF system.arch # "x86" THEN f ELSE <<>>
  BY DEF MonVcpuEntries, When
<1>7. Len(<<>>) = 0
  OBVIOUS
<1> HIDE DEF f, first, vcpus
<1>8. CASE system.arch # "x86"
  <2>1. Len(vcpus) \in 0 .. Len(vcpus)
    BY <1>1
  <2> QED
    BY <2>1, <1>3, <1>4, <1>5, <1>6, <1>8 DEF first, vcpus
<1>9. CASE system.arch = "x86"
  BY <1>1, <1>6, <1>7, <1>9, EmptyFacts DEF first, vcpus
<1> QED
  BY <1>8, <1>9

\* The slots of the monitor for PDs, beside each other and the others.
LEMMA MonSlotsFacts ==
  /\ \A p, q \in 1 .. 63 : p # q => MonSlots(p) \cap MonSlots(q) = {}
  /\ \A p \in 1 .. 63 : MonSlots(p) \cap (74 .. 137) = {} /\ MonSlots(p) \cap {1, 2} = {}
  /\ \A p \in 1 .. 63 : MonSlots(p) \subseteq 0 .. 511
<1>1. ASSUME NEW p \in 1 .. 63, NEW q \in 1 .. 63, p # q, NEW x \in MonSlots(p)
      PROVE  x \notin MonSlots(q)
  BY <1>1 DEF MonSlots
<1>2. ASSUME NEW p \in 1 .. 63, NEW x \in MonSlots(p)
      PROVE  x \notin 74 .. 137 /\ x \notin {1, 2} /\ x \in 0 .. 511
  BY <1>2 DEF MonSlots
<1> QED
  BY <1>1, <1>2, ZenonT(60)

\* The slots for 64 threads of vCPUs.
LEMMA VmRange ==
  \A i, l \in Nat :
    i + l <= 64 => /\ 74 + i .. 74 + i + l - 1 \subseteq 74 .. 137
                   /\ 74 .. 74 + i - 1 \subseteq 74 .. 137
  OBVIOUS

\* A PD brings slots that are free.
LEMMA MonFresh ==
  ASSUME SystemInv, StepsInv, MonInv, VcpusInv, BuildPd
  PROVE  LET n == pdsBuilt + 1
             v == MonVcpuEntries(n)
             m == MonEntries(n)
         IN /\ n \in Pds(system) /\ n \in 1 .. 63 /\ Len(v) \in Nat
            /\ monitorVcpuIdx + Len(v) <= Cardinality(VcpusUpTo(n))
            /\ monitorVcpuIdx + Len(v) <= 64
            /\ SlotsOf(v) \subseteq 74 .. 137
            /\ SlotsOf(mon) \cap SlotsOf(v) = {}
            /\ SlotsOf(mon) \cap SlotsOf(m) = {}
            /\ SlotsOf(v) \cap SlotsOf(m) = {}
<1> DEFINE n == pdsBuilt + 1
           v == MonVcpuEntries(n)
           m == MonEntries(n)
<1>1. /\ pdsBuilt \in Nat /\ n \in Pds(system) /\ n \in 1 .. 63
      /\ \A q \in 1 .. pdsBuilt : q \in Pds(system) /\ q \in 1 .. 63 /\ q # n
  <2> DEFINE L == Len(system.pds)
  <2>1. Pds(system) = 1 .. L
    BY PdFacts
  <2>2. L \in 1 .. 63 /\ pdsBuilt \in 0 .. L /\ pdsBuilt < L
    BY PdFacts DEF StepsInv, MAX_PDS, BuildPd
  <2> HIDE DEF L
  <2>3. pdsBuilt \in Nat /\ pdsBuilt + 1 \in 1 .. L /\ pdsBuilt + 1 \in 1 .. 63
    BY <2>2
  <2>4. ASSUME NEW q \in 1 .. pdsBuilt
        PROVE  q \in 1 .. L /\ q \in 1 .. 63 /\ q # pdsBuilt + 1
    BY <2>2
  <2> QED
    BY <2>1, <2>3, <2>4
<1>2. monitorVcpuIdx \in Nat /\ monitorVcpuIdx <= Cardinality(VcpusUpTo(pdsBuilt))
  BY DEF VcpusInv
<1>3. /\ Len(v) \in 0 .. Len(system.pds[n].vcpus)
      /\ SlotsOf(v) \subseteq 74 + monitorVcpuIdx .. 74 + monitorVcpuIdx + Len(v) - 1
  BY <1>1, <1>2, MonVcpuEntriesFacts
<1>4. /\ Len(system.pds[n].vcpus) \in Nat
      /\ Cardinality(VcpusUpTo(pdsBuilt)) \in Nat
      /\ Cardinality(VcpusUpTo(n)) =
           Cardinality(VcpusUpTo(pdsBuilt)) + Len(system.pds[n].vcpus)
      /\ Cardinality(VcpusUpTo(n)) <= 64
  BY <1>1, VcpuCount
<1>5. /\ Len(v) \in Nat
      /\ monitorVcpuIdx + Len(v) <= Cardinality(VcpusUpTo(n))
      /\ monitorVcpuIdx + Len(v) <= 64
  <2> HIDE DEF n, v
  <2> QED
    BY <1>2, <1>3, <1>4, SMTT(40)
<1>6. SlotsOf(v) \subseteq 74 .. 137
  <2>1. 74 + monitorVcpuIdx .. 74 + monitorVcpuIdx + Len(v) - 1 \subseteq 74 .. 137
    BY <1>2, <1>5, VmRange
  <2> QED
    BY <1>3, <2>1
<1>7. SlotsOf(m) \subseteq MonSlots(n)
  BY <1>1, MonEntriesFacts
<1>8. ASSUME NEW x \in SlotsOf(mon)
      PROVE  \/ x \in {1, 2}
             \/ x \in 74 .. 74 + monitorVcpuIdx - 1
             \/ \E q \in 1 .. pdsBuilt : x \in MonSlots(q)
  <2>1. PICK e \in ToSet(mon) : x = e.slot
    BY SlotsFacts
  <2>2. \/ e \in MonFixed
        \/ e.slot \in MON_BASE_VM_TCB_CAP .. MON_BASE_VM_TCB_CAP + monitorVcpuIdx - 1
        \/ \E q \in 1 .. pdsBuilt : e \in ToSet(MonEntries(q))
    BY DEF MonInv
  <2>3. CASE e \in MonFixed
    BY <2>1, <2>3 DEF MonFixed, Entry
  <2>4. CASE e.slot \in MON_BASE_VM_TCB_CAP .. MON_BASE_VM_TCB_CAP + monitorVcpuIdx - 1
    BY <2>1, <2>4, Bases
  <2>5. ASSUME NEW q \in 1 .. pdsBuilt, e \in ToSet(MonEntries(q))
        PROVE  x \in MonSlots(q)
    <3>1. x \in SlotsOf(MonEntries(q))
      BY <2>1, <2>5, SlotsFacts
    <3> QED
      BY <1>1, <3>1, MonEntriesFacts
  <2> QED
    BY <2>2, <2>3, <2>4, <2>5
<1>9. SlotsOf(mon) \cap SlotsOf(v) = {}
  <2>1. SUFFICES ASSUME NEW x \in SlotsOf(mon), x \in SlotsOf(v)
                 PROVE  FALSE
    OBVIOUS
  <2>2. x \in 74 + monitorVcpuIdx .. 74 + monitorVcpuIdx + Len(v) - 1 /\ x \in 74 .. 137
    BY <1>3, <1>6, <2>1
  <2>3. ~(x \in {1, 2}) /\ ~(x \in 74 .. 74 + monitorVcpuIdx - 1)
    <3> HIDE DEF v
    <3> QED
      BY <1>2, <1>5, <2>2
  <2>4. PICK q \in 1 .. pdsBuilt : x \in MonSlots(q)
    BY <1>8, <2>3
  <2>5. q \in 1 .. 63
    BY <1>1
  <2> QED
    BY <2>2, <2>4, <2>5, MonSlotsFacts, Zenon
<1>10. SlotsOf(mon) \cap SlotsOf(m) = {}
  <2>1. SUFFICES ASSUME NEW x \in SlotsOf(mon), x \in SlotsOf(m)
                 PROVE  FALSE
    OBVIOUS
  <2>2. x \in MonSlots(n)
    BY <1>7, <2>1
  <2>3. ~(x \in {1, 2}) /\ ~(x \in 74 .. 137)
    BY <1>1, <2>2, MonSlotsFacts, SMTT(40)
  <2>4. ~(x \in 74 .. 74 + monitorVcpuIdx - 1)
    <3>1. 74 .. 74 + monitorVcpuIdx - 1 \subseteq 74 .. 137
      BY <1>2, <1>5, VmRange
    <3> QED
      BY <2>3, <3>1
  <2>5. PICK q \in 1 .. pdsBuilt : x \in MonSlots(q)
    BY <1>8, <2>3, <2>4
  <2> QED
    BY <1>1, <2>2, <2>5, MonSlotsFacts, SMTT(40)
<1>11. SlotsOf(v) \cap SlotsOf(m) = {}
  BY <1>1, <1>6, <1>7, MonSlotsFacts, SMTT(40)
<1> QED
  BY <1>1, <1>5, <1>6, <1>9, <1>10, <1>11

\* The CNode of the monitor.
LEMMA MonStep ==
  ASSUME SystemInv, StepsInv, MonInv, VcpusInv, [Next]_vars
  PROVE  MonInv' /\ VcpusInv'
<1>1. system' = system /\ \A q : MonEntries(q)' = MonEntries(q) /\ VcpusUpTo(q)' = VcpusUpTo(q)
  BY SystemStep, SameSystem
<1>2. \A q : VcpusUpTo(q)' = VcpusUpTo(q)
  BY <1>1
<1>3. SUFFICES
        /\ IsSeq(mon') /\ Unique(mon')
        /\ \A e \in ToSet(mon') :
             \/ e \in MonFixed
             \/ e.slot \in 74 .. 74 + monitorVcpuIdx' - 1
             \/ \E q \in 1 .. pdsBuilt' : e \in ToSet(MonEntries(q))
        /\ \A q \in 1 .. pdsBuilt' : ToSet(MonEntries(q)) \subseteq ToSet(mon')
        /\ monitorVcpuIdx' \in Nat /\ monitorVcpuIdx' <= Cardinality(VcpusUpTo(pdsBuilt'))
  <2>1. VcpusUpTo(pdsBuilt)' = VcpusUpTo(pdsBuilt')
    BY <1>1 DEF VcpusUpTo, AllVcpus, Pds
  <2>2. MON_BASE_VM_TCB_CAP = 74
    BY Bases
  <2> QED
    BY <1>1, <2>1, <2>2 DEF MonInv, VcpusInv, MonFixed
<1>4. /\ IsSeq(mon) /\ Unique(mon)
      /\ \A e \in ToSet(mon) :
           \/ e \in MonFixed
           \/ e.slot \in 74 .. 74 + monitorVcpuIdx - 1
           \/ \E q \in 1 .. pdsBuilt : e \in ToSet(MonEntries(q))
      /\ \A q \in 1 .. pdsBuilt : ToSet(MonEntries(q)) \subseteq ToSet(mon)
      /\ monitorVcpuIdx \in Nat /\ monitorVcpuIdx <= Cardinality(VcpusUpTo(pdsBuilt))
      /\ pdsBuilt \in Nat
  BY Bases, PdFacts DEF MonInv, VcpusInv, StepsInv
<1>5. CASE BuildPd
  <2> DEFINE n == pdsBuilt + 1
             v == MonVcpuEntries(n)
             m == MonEntries(n)
  <2>1. /\ pdsBuilt' = n /\ mon' = mon \o v \o m
        /\ monitorVcpuIdx' = monitorVcpuIdx + Len(v)
    BY <1>5 DEF BuildPd
  <2>2. /\ n \in Pds(system) /\ Len(v) \in Nat
        /\ monitorVcpuIdx + Len(v) <= Cardinality(VcpusUpTo(n))
        /\ SlotsOf(mon) \cap SlotsOf(v) = {}
        /\ SlotsOf(mon) \cap SlotsOf(m) = {}
        /\ SlotsOf(v) \cap SlotsOf(m) = {}
    BY <1>5, MonFresh
  <2>3. /\ IsSeq(v) /\ Unique(v)
        /\ SlotsOf(v) \subseteq 74 + monitorVcpuIdx .. 74 + monitorVcpuIdx + Len(v) - 1
    BY <1>4, <2>2, MonVcpuEntriesFacts
  <2>4. IsSeq(m) /\ Unique(m)
    BY <2>2, MonEntriesFacts
  <2> HIDE DEF v, m
  <2>5. /\ IsSeq(mon \o v) /\ Unique(mon \o v)
        /\ ToSet(mon \o v) = ToSet(mon) \cup ToSet(v)
        /\ SlotsOf(mon \o v) = SlotsOf(mon) \cup SlotsOf(v)
    BY <1>4, <2>2, <2>3, ConcatFacts
  <2>6. SlotsOf(mon \o v) \cap SlotsOf(m) = {}
    BY <2>2, <2>5
  <2>7. /\ IsSeq(mon') /\ Unique(mon')
        /\ ToSet(mon') = ToSet(mon) \cup ToSet(v) \cup ToSet(m)
    BY <2>1, <2>4, <2>5, <2>6, ConcatFacts
  <2>8. \A q : q \in 1 .. n <=> q \in 1 .. pdsBuilt \/ q = n
    BY <1>4
  <2>9. ASSUME NEW e \in ToSet(mon')
        PROVE  \/ e \in MonFixed
               \/ e.slot \in 74 .. 74 + monitorVcpuIdx' - 1
               \/ \E q \in 1 .. n : e \in ToSet(MonEntries(q))
    <3>1. CASE e \in ToSet(mon)
      <4>1. 74 .. 74 + monitorVcpuIdx - 1 \subseteq 74 .. 74 + monitorVcpuIdx' - 1
        BY <1>4, <2>1, <2>2
      <4> QED
        BY <1>4, <2>8, <3>1, <4>1
    <3>2. CASE e \in ToSet(v)
      <4>1. e.slot \in SlotsOf(v)
        BY <3>2, SlotsFacts
      <4>2. 74 + monitorVcpuIdx .. 74 + monitorVcpuIdx + Len(v) - 1
              \subseteq 74 .. 74 + monitorVcpuIdx' - 1
        BY <1>4, <2>1, <2>2
      <4> QED
        BY <2>3, <4>1, <4>2
    <3>3. CASE e \in ToSet(m)
      BY <2>8, <3>3 DEF m
    <3> QED
      BY <2>7, <3>1, <3>2, <3>3
  <2>10. \A q \in 1 .. n : ToSet(MonEntries(q)) \subseteq ToSet(mon')
    BY <1>4, <2>7, <2>8 DEF m
  <2> HIDE DEF n
  <2> QED
    BY <1>4, <2>1, <2>2, <2>7, <2>9, <2>10
<1>6. CASE BuildChannel
  BY <1>4, <1>6 DEF BuildChannel
<1>7. CASE MapCaps
  BY <1>4, <1>7 DEF MapCaps
<1>8. CASE UNCHANGED vars
  BY <1>4, <1>8 DEF vars
<1> QED
  BY <1>5, <1>6, <1>7, <1>8 DEF Next

FaultEpsOf(p) == {[thread |-> <<p>>, cap |-> FaultCap(p)]} \cup VcpuFaultEps(p)

\* The endpoints, and where the faults of threads go, after a step.
LEMMA FaultsStep ==
  ASSUME SystemInv, StepsInv, FaultsInv, [Next]_vars
  PROVE  FaultsInv'
<1>1. /\ system' = system
      /\ \A p : /\ NeedsEp(p)' = NeedsEp(p) /\ FaultCap(p)' = FaultCap(p)
                /\ VcpuFaultEps(p)' = VcpuFaultEps(p)
  BY SystemStep, SameSystem
<1>2. SUFFICES /\ endpoint' = {q \in 1 .. pdsBuilt' : NeedsEp(q)}
               /\ faultEp' = UNION {FaultEpsOf(p) : p \in 1 .. pdsBuilt'}
  BY <1>1 DEF FaultsInv, FaultEpsOf
<1>3. /\ endpoint = {q \in 1 .. pdsBuilt : NeedsEp(q)}
      /\ faultEp = UNION {FaultEpsOf(p) : p \in 1 .. pdsBuilt}
  BY DEF FaultsInv, FaultEpsOf
<1>4. CASE BuildPd
  <2> DEFINE n == pdsBuilt + 1
  <2>1. /\ pdsBuilt' = n /\ endpoint' = endpoint \cup {q \in {n} : NeedsEp(q)}
        /\ faultEp' = faultEp \cup {[thread |-> <<n>>, cap |-> FaultCap(n)]}
                              \cup VcpuFaultEps(n)
    BY <1>4 DEF BuildPd
  <2>2. faultEp' = faultEp \cup FaultEpsOf(n)
    BY <2>1 DEF FaultEpsOf
  <2>3. \A q : q \in 1 .. n <=> q \in 1 .. pdsBuilt \/ q = n
    BY PdFacts DEF StepsInv
  <2> HIDE DEF n
  <2>4. endpoint' = {q \in 1 .. n : NeedsEp(q)}
    BY <1>3, <2>1, <2>3
  <2>5. faultEp' = UNION {FaultEpsOf(p) : p \in 1 .. n}
    BY <1>3, <2>2, <2>3
  <2> QED
    BY <2>1, <2>4, <2>5
<1>5. CASE BuildChannel
  BY <1>3, <1>5 DEF BuildChannel
<1>6. CASE MapCaps
  BY <1>3, <1>6 DEF MapCaps
<1>7. CASE UNCHANGED vars
  BY <1>3, <1>7 DEF vars
<1> QED
  BY <1>4, <1>5, <1>6, <1>7 DEF Next

\* Nothing the builder insists on fails.
LEMMA PanicStep ==
  ASSUME SystemInv, StepsInv, MonInv, VcpusInv, FaultsInv, PanicInv, [Next]_vars
  PROVE  PanicInv'
<1>1. system' = system
  BY SystemStep
<1>2. ChildIdsBelow(PD_CAP_SIZE - PD_BASE_PD_TCB_CAP)' =>
        ChildIdsBelow(PD_CAP_SIZE - PD_BASE_PD_TCB_CAP)
  BY <1>1 DEF ChildIdsBelow, Pds
<1>3. SUFFICES ASSUME ChildIdsBelow(PD_CAP_SIZE - PD_BASE_PD_TCB_CAP), panicked'
               PROVE  /\ system.arch = "x86"
                      /\ \E p \in Pds(system) : Len(system.pds[p].vcpus) > 1
  BY <1>1, <1>2 DEF PanicInv, NoPanic, Pds
<1>4. PD_CAP_SIZE = 512 /\ PD_BASE_PD_TCB_CAP = 202 /\ ChildIdsBelow(310)
  <2>1. PD_CAP_SIZE = 512 /\ PD_BASE_PD_TCB_CAP = 202
    BY Bases DEF PD_CAP_SIZE
  <2>2. PD_CAP_SIZE - PD_BASE_PD_TCB_CAP = 310
    BY <2>1
  <2> QED
    BY <1>3, <2>1, <2>2
<1>5. CASE BuildPd
  <2> DEFINE n      == pdsBuilt + 1
             parent == system.pds[n].parent
             v      == MonVcpuEntries(n)
             m      == MonEntries(n)
  <2>1. \/ parent # NoParent
             /\ (parent \notin endpoint
                 \/ PD_BASE_PD_TCB_CAP + system.pds[n].id >= PD_CAP_SIZE)
        \/ system.arch = "x86" /\ Len(system.pds[n].vcpus) > 1
        \/ \E e \in ToSet(v \o m) : e.slot >= PD_CAP_SIZE
    BY <1>3, <1>5 DEF BuildPd
  <2>2. /\ n \in Pds(system) /\ n \in 1 .. 63 /\ SlotsOf(v) \subseteq 74 .. 137
    BY <1>5, MonFresh
  <2>3. CASE /\ parent # NoParent
             /\ \/ parent \notin endpoint
                \/ PD_BASE_PD_TCB_CAP + system.pds[n].id >= PD_CAP_SIZE
    <3>1. system.pds[n].id \in Nat /\ system.pds[n].id < 310
      BY <1>4, <2>2, <2>3, PdFacts DEF ChildIdsBelow
    <3>2. ~(PD_BASE_PD_TCB_CAP + system.pds[n].id >= PD_CAP_SIZE)
      BY <1>4, <3>1
    <3>3. parent \in 1 .. pdsBuilt
      <4>1. parent \in 0 .. n - 1 /\ parent # 0 /\ n - 1 = pdsBuilt
        BY <2>2, <2>3, PdFacts DEF NoParent, StepsInv
      <4> QED
        BY <4>1
    <3>4. NeedsEp(parent)
      BY <2>2 DEF NeedsEp, Children
    <3>5. parent \in endpoint
      BY <3>3, <3>4 DEF FaultsInv
    <3> QED
      BY <2>3, <3>2, <3>5
  <2>4. CASE system.arch = "x86" /\ Len(system.pds[n].vcpus) > 1
    BY <2>2, <2>4
  <2>5. ASSUME NEW e \in ToSet(v \o m), e.slot >= PD_CAP_SIZE
        PROVE  FALSE
    <3>1. IsSeq(v) /\ IsSeq(m) /\ SlotsOf(m) \subseteq MonSlots(n)
      BY <2>2, MonVcpuEntriesFacts, MonEntriesFacts DEF VcpusInv
    <3>2. SlotsOf(v \o m) = SlotsOf(v) \cup SlotsOf(m)
      <4> HIDE DEF v, m
      <4> QED
        BY <3>1, ConcatFacts
    <3>3. e.slot \in SlotsOf(v \o m)
      BY <2>5, SlotsFacts
    <3>4. e.slot \in (74 .. 137) \cup MonSlots(n)
      BY <2>2, <3>1, <3>2, <3>3
    <3>5. e.slot \in 0 .. 511
      BY <2>2, <3>4, MonSlotsFacts, SMTT(40)
    <3> QED
      BY <1>4, <2>5, <3>5
  <2> QED
    BY <2>1, <2>3, <2>4, <2>5
<1>6. CASE BuildChannel
  <2> DEFINE k == channelsBuilt + 1
             c == system.channels[k]
  <2>1. /\ pdsBuilt = Len(system.pds) /\ k \in DOMAIN system.channels
        /\ \/ c.a.pp /\ c.b.pd \notin endpoint
           \/ c.b.pp /\ c.a.pd \notin endpoint
    <3>1. pdsBuilt = Len(system.pds) /\ channelsBuilt < Len(system.channels)
      BY <1>6 DEF BuildChannel
    <3>2. k \in DOMAIN system.channels
      BY <3>1, EndFacts DEF StepsInv
    <3> QED
      BY <1>3, <1>6, <3>1, <3>2 DEF BuildChannel
  <2>2. /\ c.a.pd \in 1 .. pdsBuilt /\ c.b.pd \in 1 .. pdsBuilt /\ c \in ToSet(system.channels)
    BY <2>1, EndFacts, PdFacts DEF EndType, ToSet
  <2>3. (c.a.pp => NeedsEp(c.b.pd)) /\ (c.b.pp => NeedsEp(c.a.pd))
    BY <2>2 DEF NeedsEp
  <2> QED
    BY <2>1, <2>2, <2>3 DEF FaultsInv
<1>7. CASE MapCaps
  BY <1>3, <1>7 DEF MapCaps
<1>8. CASE UNCHANGED vars
  BY <1>3, <1>8 DEF vars, PanicInv, NoPanic
<1> QED
  BY <1>5, <1>6, <1>7, <1>8 DEF Next

-----------------------------------------------------------------------------
(***************************************************************************)
(* The invariant holds.                                                    *)
(***************************************************************************)
\* It holds when the build starts,
LEMMA LayoutInit == Init => LayoutInv
<1> SUFFICES ASSUME Init
             PROVE  LayoutInv
  OBVIOUS
<1>1. SystemInv
  BY DEF Init, SystemInv
<1>2. Len(system.pds) \in Nat /\ Len(system.channels) \in Nat
  BY <1>1, PdFacts, EndFacts
<1>3. StepsInv
  BY <1>2 DEF Init, StepsInv
<1>4. 1 .. pdsBuilt = {} /\ pdsBuilt = 0
  BY DEF Init
<1>5. IsSeq(<<>>) /\ Len(<<>>) = 0
  BY DEF IsSeq
<1>6. CnodeInv /\ RootInv /\ CnodeUnique
  BY <1>4, <1>5 DEF Init, CnodeInv, RootInv, CnodeUnique
<1>7. MonInv
  <2>1. IsSeq(mon) /\ ToSet(mon) = MonFixed /\ Unique(mon)
    BY DEF Init, IsSeq, ToSet, MonFixed, Unique, Entry
  <2> QED
    BY <1>4, <2>1 DEF MonInv
<1>8. VcpusInv
  <2>1. VcpusUpTo(0) = {}
    BY <1>1, PdFacts DEF VcpusUpTo, AllVcpus
  <2> QED
    BY <1>4, <2>1, FS_EmptySet DEF Init, VcpusInv
<1>9. FaultsInv
  BY <1>4 DEF Init, FaultsInv
<1>10. PanicInv
  BY DEF Init, PanicInv, NoPanic
<1> QED
  BY <1>1, <1>3, <1>6, <1>7, <1>8, <1>9, <1>10 DEF LayoutInv

\* and every step keeps it.
LEMMA LayoutStep ==
  ASSUME LayoutInv, [Next]_vars
  PROVE  LayoutInv'
  BY SystemStep, CnodeStep, CnodeUniqueStep, RootStep, MonStep, FaultsStep, PanicStep
     DEF LayoutInv

\* In every state of every build the CNodes hold exactly what the PDs, channels
\* and user capabilities so far have put there.
THEOREM LayoutInvariant == Spec => []LayoutInv
<1>1. Init => LayoutInv
  BY LayoutInit
<1>2. LayoutInv /\ [Next]_vars => LayoutInv'
  BY LayoutStep
<1> QED
  BY <1>1, <1>2, PTL DEF Spec

\* No assert and no expect of the builder fails, if the number of every child
\* leaves room for its TCB in the CNode of its parent: nothing in sdf.rs limits
\* that number, and with a larger one than 309 the builder panics.
THEOREM NothingPanics ==
  Spec => [](ChildIdsBelow(PD_CAP_SIZE - PD_BASE_PD_TCB_CAP) => NoPanic)
<1>1. LayoutInv => (ChildIdsBelow(PD_CAP_SIZE - PD_BASE_PD_TCB_CAP) => NoPanic)
  BY DEF LayoutInv, PanicInv
<1> QED
  BY <1>1, LayoutInvariant, PTL

\* No slot is filled twice, if no channel has both its ends at one id of one PD:
\* sdf.rs compares the ends of a channel with those before it, never with each
\* other.
THEOREM SlotsAreUnique == Spec => [](NoneFolded => SlotsUnique)
<1>1. ASSUME LayoutInv, NoneFolded
      PROVE  SlotsUnique
  <2>1. \A entries \in ToSet(cnode) : Unique(entries)
    <3>1. DOMAIN cnode = 1 .. pdsBuilt
      BY <1>1, LenProperties DEF LayoutInv, CnodeInv, IsSeq
    <3> QED
      BY <1>1, <3>1 DEF LayoutInv, CnodeUnique, ToSet
  <2>2. \A entries \in ToSet(root) : Unique(entries)
    <3>1. DOMAIN root = 1 .. pdsBuilt
      BY <1>1, LenProperties DEF LayoutInv, RootInv, IsSeq
    <3> QED
      BY <1>1, <3>1 DEF LayoutInv, RootInv, ToSet
  <2>3. Unique(mon)
    BY <1>1 DEF LayoutInv, MonInv
  <2> QED
    BY <2>1, <2>2, <2>3 DEF SlotsUnique, Unique
<1>2. LayoutInv => (NoneFolded => SlotsUnique)
  BY <1>1
<1> QED
  BY <1>2, LayoutInvariant, PTL

-----------------------------------------------------------------------------
(***************************************************************************)
(* What is at a slot.                                                      *)
(***************************************************************************)
\* An entry whose slot no other has.
LEMMA AtSlotOne ==
  ASSUME NEW s, NEW x \in ToSet(s), \A y \in ToSet(s) : y.slot = x.slot => y = x
  PROVE  AtSlot(s, x.slot) = {x.cap}
  BY DEF AtSlot

\* Two elements with one slot are one.
LEMMA UniqueElements ==
  ASSUME NEW s, Unique(s), NEW x \in ToSet(s), NEW y \in ToSet(s), y.slot = x.slot
  PROVE  y = x
<1>1. PICK k \in DOMAIN s : x = s[k]
  BY DEF ToSet
<1>2. PICK l \in DOMAIN s : y = s[l]
  BY DEF ToSet
<1> QED
  BY <1>1, <1>2 DEF Unique

\* The capabilities a PD was built with stay alone at their slots.
LEMMA BuiltSlot ==
  ASSUME LayoutInv, NEW p \in 1 .. pdsBuilt, NEW x \in ToSet(PdEntries(p))
  PROVE  AtSlot(cnode[p], x.slot) = {x.cap}
<1>1. SystemInv /\ StepsInv /\ CnodeInv
  BY DEF LayoutInv
<1>2. p \in Pds(system) /\ x \in ToSet(cnode[p])
  BY <1>1, CnodeHas, PdEntriesFacts
<1>3. x.slot \in PdSlots
  <2>1. x.slot \in SlotsOf(PdEntries(p))
    BY SlotsFacts
  <2> QED
    BY <1>1, <1>2, <2>1, PdEntriesFacts
<1>4. ASSUME NEW y \in ToSet(cnode[p]), y.slot = x.slot
      PROVE  y = x
  <2>1. ASSUME NEW k \in 1 .. channelsBuilt, NEW w \in Ways(k),
               y = NtfnEntry(w[1], w[2]) \/ y = EpEntry(w[1], w[2])
        PROVE  FALSE
    <3>1. k \in DOMAIN system.channels
      BY <1>1, EndFacts DEF StepsInv
    <3>2. w[1].id \in 0 .. 61
      BY <1>1, <3>1, WayFacts
    <3>3. y.slot = 10 + w[1].id \/ y.slot = 74 + w[1].id
      BY <2>1, Bases DEF NtfnEntry, EpEntry, Entry
    <3> QED
      BY <1>3, <1>4, <3>2, <3>3, FewSlots, ZenonT(60)
  <2>2. y \in ToSet(PdEntries(p))
    BY <1>1, <1>2, <2>1, CnodeHas, PdEntriesFacts
  <2>3. Unique(PdEntries(p))
    BY <1>1, <1>2, PdEntriesFacts
  <2> QED
    BY <1>4, <2>2, <2>3, UniqueElements
<1> QED
  BY <1>2, <1>4, AtSlotOne

\* A PD that needs an endpoint is called at it.
LEMMA EpListens ==
  ASSUME LayoutInv, NEW p \in 1 .. pdsBuilt, NeedsEp(p)
  PROVE  Listens(p)
<1> DEFINE x == Entry(PD_INPUT_CAP, Cap("ep", <<p>>, {}))
<1>1. p \in Pds(system) /\ SystemInv
  BY CnodeHas DEF LayoutInv
<1>2. x \in FixedSet(p)
  BY DEF FixedSet
<1>3. x \in ToSet(PdEntries(p))
  BY <1>1, <1>2, PdEntriesFacts
<1>4. AtSlot(cnode[p], x.slot) = {x.cap}
  BY <1>3, BuiltSlot
<1>5. x.slot = PD_INPUT_CAP /\ x.cap = Cap("ep", <<p>>, {})
  BY DEF Entry
<1> QED
  BY <1>4, <1>5 DEF Listens

-----------------------------------------------------------------------------
(***************************************************************************)
(* At the end of the build.                                                *)
(***************************************************************************)
\* Everything is built.
LEMMA DoneFacts ==
  ASSUME LayoutInv, Done
  PROVE  /\ SystemInv /\ pdsBuilt = Len(system.pds) /\ channelsBuilt = Len(system.channels)
         /\ mapsBuilt = pdsBuilt /\ Pds(system) = 1 .. pdsBuilt
         /\ DOMAIN system.channels = 1 .. channelsBuilt
         /\ DOMAIN cnode = 1 .. pdsBuilt /\ DOMAIN root = 1 .. pdsBuilt
         /\ pdsBuilt \in 1 .. 63
<1>1. SystemInv /\ StepsInv /\ CnodeInv /\ RootInv
  BY DEF LayoutInv
<1>2. DOMAIN cnode = 1 .. pdsBuilt /\ DOMAIN root = 1 .. pdsBuilt
  BY <1>1, LenProperties DEF CnodeInv, RootInv, IsSeq
<1> QED
  BY <1>1, <1>2, PdFacts, EndFacts DEF Done, MAX_PDS

\* A channel of the system, with the entries of one of its ways.
LEMMA WayEntries ==
  ASSUME LayoutInv, Done, NEW k \in DOMAIN system.channels, NEW w \in Ways(k)
  PROVE  /\ w[1].pd \in 1 .. pdsBuilt /\ w[2].pd \in 1 .. pdsBuilt
         /\ w[1].id \in 0 .. 61 /\ w[2].id \in 0 .. 61
         /\ w[1].notify => NtfnEntry(w[1], w[2]) \in ToSet(cnode[w[1].pd])
         /\ w[1].pp => EpEntry(w[1], w[2]) \in ToSet(cnode[w[1].pd]) /\ NeedsEp(w[2].pd)
<1>1. /\ SystemInv /\ StepsInv /\ CnodeInv /\ k \in 1 .. channelsBuilt
      /\ Pds(system) = 1 .. pdsBuilt
  BY DoneFacts DEF LayoutInv
<1>2. /\ w[1].pd \in Pds(system) /\ w[1].id \in 0 .. 61 /\ w[2].id \in 0 .. 61
      /\ w[2].pd \in Pds(system)
  BY <1>1, WayFacts DEF EndType
<1>3. w[1].pp => NeedsEp(w[2].pd)
  <2>1. system.channels[k] \in ToSet(system.channels)
    BY DEF ToSet
  <2>2. \/ w[1] = system.channels[k].a /\ w[2] = system.channels[k].b
        \/ w[1] = system.channels[k].b /\ w[2] = system.channels[k].a
    BY DEF Ways
  <2> QED
    BY <2>1, <2>2 DEF NeedsEp
<1> QED
  BY <1>1, <1>2, <1>3, CnodeHas

\* A call or a notification through a channel arrives at the other PD's entry
\* point, with the number that PD gave the channel.
THEOREM ChannelsArrive == Spec => [](NoneFolded => ChannelsWork)
<1>1. ASSUME LayoutInv, NoneFolded
      PROVE  ChannelsWork
  <2>1. SUFFICES ASSUME Done, NEW k \in DOMAIN system.channels, NEW w \in Ways(k)
                 PROVE  /\ w[1].notify =>
                             Reaches(w[1].pd, PD_BASE_OUTPUT_NOTIFICATION_CAP + w[1].id, "ntfn",
                                     w[2].pd, <<"notified", w[2].id>>)
                        /\ w[1].pp =>
                             Reaches(w[1].pd, PD_BASE_OUTPUT_ENDPOINT_CAP + w[1].id, "ep",
                                     w[2].pd, <<"protected", w[2].id>>)
    BY DEF ChannelsWork, Ways, ToSet
  <2> DEFINE p == w[1].pd
             q == w[2].pd
  <2>2. /\ p \in 1 .. pdsBuilt /\ q \in 1 .. pdsBuilt
        /\ w[1].id \in 0 .. 61 /\ w[2].id \in 0 .. 61
        /\ w[1].notify => NtfnEntry(w[1], w[2]) \in ToSet(cnode[p])
        /\ w[1].pp => EpEntry(w[1], w[2]) \in ToSet(cnode[p]) /\ NeedsEp(q)
    BY <1>1, <2>1, WayEntries
  <2>3. Unique(cnode[p])
    BY <1>1, <2>2 DEF LayoutInv, CnodeUnique
  <2>4. ASSUME w[1].notify
        PROVE  Reaches(p, PD_BASE_OUTPUT_NOTIFICATION_CAP + w[1].id, "ntfn",
                       q, <<"notified", w[2].id>>)
    <3> DEFINE x == NtfnEntry(w[1], w[2])
    <3>1. AtSlot(cnode[p], x.slot) = {x.cap}
      BY <2>2, <2>3, <2>4, UniqueElements, AtSlotOne
    <3>2. /\ x.slot = PD_BASE_OUTPUT_NOTIFICATION_CAP + w[1].id
          /\ x.cap.type = "ntfn" /\ x.cap.obj = <<q>> /\ x.cap.badge = {w[2].id}
      BY DEF NtfnEntry, Entry, Cap
    <3>3. w[2].id \in Nat /\ w[2].id < FAULT_BIT
      BY <2>2 DEF FAULT_BIT
    <3>4. Dispatch(x.cap.badge) = {<<"notified", w[2].id>>}
      <4>1. x.cap.badge = NtfnBadge(w[2].id)
        BY <3>2 DEF NtfnBadge
      <4> QED
        BY <3>3, <4>1, BadgeFacts
    <3> QED
      BY <3>1, <3>2, <3>4 DEF Reaches
  <2>5. ASSUME w[1].pp
        PROVE  Reaches(p, PD_BASE_OUTPUT_ENDPOINT_CAP + w[1].id, "ep",
                       q, <<"protected", w[2].id>>)
    <3> DEFINE x == EpEntry(w[1], w[2])
    <3>1. AtSlot(cnode[p], x.slot) = {x.cap}
      BY <2>2, <2>3, <2>5, UniqueElements, AtSlotOne
    <3>2. /\ x.slot = PD_BASE_OUTPUT_ENDPOINT_CAP + w[1].id
          /\ x.cap.type = "ep" /\ x.cap.obj = <<q>> /\ x.cap.badge = {PPC_BIT} \cup Bits(w[2].id)
      BY DEF EpEntry, Entry, Cap
    <3>3. w[2].id \in Nat /\ w[2].id < 64
      BY <2>2
    <3>4. Dispatch(x.cap.badge) = {<<"protected", w[2].id>>}
      <4>1. x.cap.badge = CallBadge(w[2].id)
        BY <3>2 DEF CallBadge
      <4> QED
        BY <3>3, <4>1, BadgeFacts
    <3>5. Listens(q)
      BY <1>1, <2>2, <2>5, EpListens
    <3> QED
      BY <3>1, <3>2, <3>4, <3>5 DEF Reaches
  <2> QED
    BY <2>4, <2>5
<1>2. LayoutInv => (NoneFolded => ChannelsWork)
  BY <1>1
<1> QED
  BY <1>2, LayoutInvariant, PTL

\* A user capability is where microkit_cspace_root_slot_to_cptr() looks for it:
\* sdf.rs keeps the user's slots apart from each other and from the builder's.
THEOREM UserCapsAreThere == Spec => []UserCapsArrive
<1>1. ASSUME LayoutInv
      PROVE  UserCapsArrive
  <2>1. SUFFICES ASSUME Done, NEW p \in DOMAIN root, NEW m \in ToSet(system.pds[p].maps)
                 PROVE  AtSlot(root[p], m.slot) = {Cap(m.type, <<m.pd>>, {})}
    BY DEF UserCapsArrive
  <2>2. p \in 1 .. pdsBuilt /\ p <= mapsBuilt
    BY <1>1, <2>1, DoneFacts
  <2> DEFINE x == Entry(m.slot, Cap(m.type, <<m.pd>>, {}))
  <2>3. x \in MapSet(p)
    BY DEF MapSet
  <2>4. x \in ToSet(root[p]) /\ Unique(root[p])
    BY <1>1, <2>2, <2>3 DEF LayoutInv, RootInv, RootSet
  <2>5. AtSlot(root[p], x.slot) = {x.cap}
    BY <2>4, UniqueElements, AtSlotOne
  <2>6. x.slot = m.slot /\ x.cap = Cap(m.type, <<m.pd>>, {})
    BY DEF Entry
  <2> QED
    BY <2>5, <2>6
<1> QED
  BY <1>1, LayoutInvariant, PTL

\* From the badge of a fault or of a request to become passive the monitor gets
\* to the TCB, the scheduling context and the notification of its sender.
THEOREM MonitorFindsAll == Spec => []MonitorKnows
<1>1. ASSUME LayoutInv, Done, NEW p \in DOMAIN cnode
      PROVE  /\ Number(Bits(p)) = p
             /\ AtSlot(mon, MON_BASE_PD_TCB_CAP + (Number(Bits(p)) - 1))
                  = {Cap("tcb", <<p>>, {})}
             /\ system.pds[p].passive =>
                  /\ AtSlot(mon, MON_BASE_SCHED_CONTEXT_CAP + (Number(Bits(p)) - 1))
                       = {Cap("sc", <<p>>, {})}
                  /\ AtSlot(mon, MON_BASE_NOTIFICATION_CAP + (Number(Bits(p)) - 1))
                       = {Cap("ntfn", <<p>>, {})}
  <2>1. p \in Pds(system) /\ p \in 1 .. pdsBuilt /\ p \in 1 .. 63 /\ SystemInv
    <3>1. p \in 1 .. pdsBuilt /\ pdsBuilt \in 1 .. 63 /\ Pds(system) = 1 .. pdsBuilt /\ SystemInv
      BY <1>1, DoneFacts
    <3>2. \A i \in 1 .. 63 : \A j \in 1 .. i : j \in 1 .. 63
      OBVIOUS
    <3> QED
      BY <3>1, <3>2
  <2>2. Number(Bits(p)) = p
    <3>1. p \in Nat /\ p < 1024
      BY <2>1
    <3> QED
      BY <3>1, BadgeFacts, ZenonT(60)
  <2>3. /\ MON_BASE_PD_TCB_CAP + (p - 1) = 9 + p
        /\ MON_BASE_SCHED_CONTEXT_CAP + (p - 1) = 137 + p
        /\ MON_BASE_NOTIFICATION_CAP + (p - 1) = 201 + p
    BY <2>1, Bases
  <2>4. \A x \in ToSet(MonEntries(p)) : AtSlot(mon, x.slot) = {x.cap}
    <3>1. \A x \in ToSet(MonEntries(p)) : x \in ToSet(mon)
      BY <1>1, <2>1 DEF LayoutInv, MonInv
    <3>2. Unique(mon)
      BY <1>1 DEF LayoutInv, MonInv
    <3> QED
      BY <3>1, <3>2, UniqueElements, AtSlotOne
  <2>5. AtSlot(mon, 9 + p) = {Cap("tcb", <<p>>, {})}
    <3>1. Entry(9 + p, Cap("tcb", <<p>>, {})) \in ToSet(MonEntries(p))
      BY <2>1, MonEntriesFacts
    <3> QED
      BY <2>4, <3>1 DEF Entry
  <2>6. ASSUME system.pds[p].passive
        PROVE  /\ AtSlot(mon, 137 + p) = {Cap("sc", <<p>>, {})}
               /\ AtSlot(mon, 201 + p) = {Cap("ntfn", <<p>>, {})}
    <3>1. /\ Entry(137 + p, Cap("sc", <<p>>, {})) \in ToSet(MonEntries(p))
          /\ Entry(201 + p, Cap("ntfn", <<p>>, {})) \in ToSet(MonEntries(p))
      BY <2>1, <2>6, MonEntriesFacts
    <3> QED
      BY <2>4, <3>1 DEF Entry
  <2> QED
    BY <2>2, <2>3, <2>5, <2>6
<1>2. ASSUME LayoutInv, Done, NEW p \in DOMAIN cnode, system.pds[p].passive
      PROVE  Cap("ep", <<>>, Bits(p)) \in AtSlot(cnode[p], PD_MONITOR_EP_CAP)
  <2>1. p \in Pds(system) /\ p \in 1 .. pdsBuilt /\ SystemInv
    BY <1>2, DoneFacts
  <2> DEFINE x == Entry(PD_MONITOR_EP_CAP, Cap("ep", <<>>, Bits(p)))
  <2>2. x \in ToSet(PdEntries(p))
    BY <1>2, <2>1, PdEntriesFacts DEF FixedSet
  <2>3. AtSlot(cnode[p], x.slot) = {x.cap}
    BY <1>2, <2>1, <2>2, BuiltSlot
  <2> QED
    BY <2>3 DEF Entry
<1>3. ASSUME LayoutInv, Done, NEW p \in DOMAIN cnode, NEW f \in faultEp,
             f.thread = <<p>>, f.cap.obj = <<>>
      PROVE  f.cap.badge = Bits(p)
  <2>1. PICK q \in 1 .. pdsBuilt : f \in FaultEpsOf(q)
    BY <1>3 DEF LayoutInv, FaultsInv, FaultEpsOf
  <2>2. f \notin VcpuFaultEps(q)
    BY <1>3 DEF VcpuFaultEps, Cap
  <2>3. f = [thread |-> <<q>>, cap |-> FaultCap(q)]
    BY <2>1, <2>2 DEF FaultEpsOf
  <2>4. q = p
    BY <1>3, <2>3
  <2> QED
    BY <1>3, <2>3, <2>4 DEF FaultCap, Cap
<1>4. LayoutInv => MonitorKnows
  <2>1. SUFFICES ASSUME LayoutInv, Done, NEW p \in DOMAIN cnode
                 PROVE  LET MonitorFinds(badge) ==
                              LET pdId == Number(badge) - 1
                              IN /\ AtSlot(mon, MON_BASE_PD_TCB_CAP + pdId)
                                      = {Cap("tcb", <<p>>, {})}
                                 /\ system.pds[p].passive =>
                                      /\ AtSlot(mon, MON_BASE_SCHED_CONTEXT_CAP + pdId)
                                           = {Cap("sc", <<p>>, {})}
                                      /\ AtSlot(mon, MON_BASE_NOTIFICATION_CAP + pdId)
                                           = {Cap("ntfn", <<p>>, {})}
                        IN /\ system.pds[p].passive =>
                                \E cap \in AtSlot(cnode[p], PD_MONITOR_EP_CAP) :
                                  cap.obj = <<>> /\ MonitorFinds(cap.badge)
                           /\ \A f \in faultEp :
                                f.thread = <<p>> /\ f.cap.obj = <<>> =>
                                  MonitorFinds(f.cap.badge)
    BY DEF MonitorKnows
  <2> DEFINE Finds(badge) ==
               /\ AtSlot(mon, MON_BASE_PD_TCB_CAP + (Number(badge) - 1))
                    = {Cap("tcb", <<p>>, {})}
               /\ system.pds[p].passive =>
                    /\ AtSlot(mon, MON_BASE_SCHED_CONTEXT_CAP + (Number(badge) - 1))
                         = {Cap("sc", <<p>>, {})}
                    /\ AtSlot(mon, MON_BASE_NOTIFICATION_CAP + (Number(badge) - 1))
                         = {Cap("ntfn", <<p>>, {})}
  <2>2. Finds(Bits(p))
    BY <1>1, <2>1
  <2>3. system.pds[p].passive =>
          \E cap \in AtSlot(cnode[p], PD_MONITOR_EP_CAP) : cap.obj = <<>> /\ Finds(cap.badge)
    <3>1. Cap("ep", <<>>, Bits(p)).obj = <<>> /\ Cap("ep", <<>>, Bits(p)).badge = Bits(p)
      BY DEF Cap
    <3> HIDE DEF Finds
    <3> QED
      BY <1>2, <2>1, <2>2, <3>1
  <2>4. \A f \in faultEp : f.thread = <<p>> /\ f.cap.obj = <<>> => Finds(f.cap.badge)
    <3> HIDE DEF Finds
    <3> QED
      BY <1>3, <2>1, <2>2
  <2> QED
    BY <2>3, <2>4
<1> QED
  BY <1>4, LayoutInvariant, PTL

\* The fault endpoints of threads: of the PDs and of the vCPUs.
LEMMA FaultEpFacts ==
  ASSUME LayoutInv, NEW f \in faultEp
  PROVE  \E p \in 1 .. pdsBuilt :
           \/ f = [thread |-> <<p>>, cap |-> FaultCap(p)]
           \/ \E v \in ToSet(system.pds[p].vcpus) :
                f = [thread |-> <<p, v>>, cap |-> Cap("ep", <<p>>, FaultBadge(v))]
<1>1. PICK p \in 1 .. pdsBuilt :
        f \in {[thread |-> <<p>>, cap |-> FaultCap(p)]} \cup VcpuFaultEps(p)
  BY DEF LayoutInv, FaultsInv
<1>2. CASE f = [thread |-> <<p>>, cap |-> FaultCap(p)]
  BY <1>2
<1>3. CASE f \in VcpuFaultEps(p)
  BY <1>3 DEF VcpuFaultEps, FaultBadge
<1> QED
  BY <1>1, <1>2, <1>3

\* The numbers of children and vCPUs, which a fault carries.
LEMMA FaultIds ==
  ASSUME LayoutInv, ChildIdsBelow(256), NEW p \in 1 .. pdsBuilt
  PROVE  /\ p \in Pds(system) /\ system.pds[p].parent \in 0 .. p - 1
         /\ system.pds[p].parent # NoParent =>
              /\ system.pds[p].parent \in 1 .. pdsBuilt
              /\ Dispatch(FaultBadge(system.pds[p].id)) = {<<"fault", system.pds[p].id>>}
              /\ FaultCap(p) =
                   Cap("ep", <<system.pds[p].parent>>, FaultBadge(system.pds[p].id))
         /\ \A v \in ToSet(system.pds[p].vcpus) : Dispatch(FaultBadge(v)) = {<<"fault", v>>}
<1>1. SystemInv /\ pdsBuilt \in 0 .. Len(system.pds)
  BY DEF LayoutInv, StepsInv
<1>2. p \in Pds(system) /\ system.pds[p].parent \in 0 .. p - 1 /\ system.pds[p].id \in Nat
  <2>1. Pds(system) = 1 .. Len(system.pds) /\ Len(system.pds) \in Nat
    BY <1>1, PdFacts
  <2>2. p \in Pds(system)
    BY <1>1, <2>1
  <2> QED
    BY <1>1, <2>2, PdFacts
<1>3. ASSUME system.pds[p].parent # NoParent
      PROVE  /\ system.pds[p].parent \in 1 .. pdsBuilt
             /\ Dispatch(FaultBadge(system.pds[p].id)) = {<<"fault", system.pds[p].id>>}
             /\ FaultCap(p) =
                  Cap("ep", <<system.pds[p].parent>>, FaultBadge(system.pds[p].id))
  <2>1. system.pds[p].id < 256
    BY <1>2, <1>3 DEF ChildIdsBelow
  <2>2. system.pds[p].parent \in 1 .. pdsBuilt
    BY <1>1, <1>2, <1>3 DEF NoParent
  <2>3. Dispatch(FaultBadge(system.pds[p].id)) = {<<"fault", system.pds[p].id>>}
    BY <1>2, <2>1, BadgeFacts
  <2>4. FaultCap(p) = Cap("ep", <<system.pds[p].parent>>, FaultBadge(system.pds[p].id))
    BY <1>3, Zenon DEF FaultCap, FaultBadge
  <2> QED
    BY <2>2, <2>3, <2>4
<1>4. ASSUME NEW v \in ToSet(system.pds[p].vcpus)
      PROVE  Dispatch(FaultBadge(v)) = {<<"fault", v>>}
  <2>1. ToSet(system.pds[p].vcpus) \subseteq 0 .. VCPU_MAX_ID
    BY <1>1, <1>2, IdFacts
  <2>2. v \in Nat /\ v < 256
    BY <2>1 DEF VCPU_MAX_ID, PD_MAX_ID
  <2> QED
    BY <2>2, BadgeFacts
<1> QED
  BY <1>2, <1>3, <1>4

\* A fault of a child or of a vCPU arrives at its parent with its number, if
\* that of a child fits into the eight bits libmicrokit reads: nothing in
\* sdf.rs says so.
THEOREM FaultsArrive == Spec => [](ChildIdsBelow(256) => ChildFaultsArrive)
<1> DEFINE Arrives(f, parent, id) ==
             parent # NoParent =>
               /\ f.cap.obj = <<parent>> /\ f.cap.type = "ep" /\ Listens(parent)
               /\ Dispatch(f.cap.badge) = {<<"fault", id>>}
<1>1. ASSUME LayoutInv, ChildIdsBelow(256), Done, NEW f \in faultEp
      PROVE  LET p == f.thread[1]
             IN Arrives(f, IF Len(f.thread) = 2 THEN p ELSE system.pds[p].parent,
                        IF Len(f.thread) = 2 THEN f.thread[2] ELSE system.pds[p].id)
  <2>1. PICK p \in 1 .. pdsBuilt :
           \/ f = [thread |-> <<p>>, cap |-> FaultCap(p)]
           \/ \E v \in ToSet(system.pds[p].vcpus) :
                f = [thread |-> <<p, v>>, cap |-> Cap("ep", <<p>>, FaultBadge(v))]
    BY <1>1, FaultEpFacts
  <2>2. CASE f = [thread |-> <<p>>, cap |-> FaultCap(p)]
    <3>1. f.thread = <<p>> /\ f.cap = FaultCap(p) /\ f.thread[1] = p /\ Len(f.thread) = 1
      BY <2>2
    <3>2. ASSUME system.pds[p].parent # NoParent
          PROVE  /\ f.cap.obj = <<system.pds[p].parent>> /\ f.cap.type = "ep"
                 /\ Dispatch(f.cap.badge) = {<<"fault", system.pds[p].id>>}
      BY <1>1, <3>1, <3>2, FaultIds DEF Cap
    <3>3. ASSUME system.pds[p].parent # NoParent
          PROVE  Listens(system.pds[p].parent)
      <4>1. system.pds[p].parent \in 1 .. pdsBuilt /\ p \in Pds(system)
        BY <1>1, <3>3, FaultIds
      <4>2. NeedsEp(system.pds[p].parent)
        BY <4>1 DEF NeedsEp, Children
      <4> QED
        BY <1>1, <4>1, <4>2, EpListens
    <3>4. Arrives(f, system.pds[p].parent, system.pds[p].id)
      BY <3>2, <3>3
    <3> HIDE DEF Arrives
    <3> QED
      BY <3>1, <3>4
  <2>3. ASSUME NEW v \in ToSet(system.pds[p].vcpus),
               f = [thread |-> <<p, v>>, cap |-> Cap("ep", <<p>>, FaultBadge(v))]
        PROVE  LET q == f.thread[1]
               IN Arrives(f, IF Len(f.thread) = 2 THEN q ELSE system.pds[q].parent,
                          IF Len(f.thread) = 2 THEN f.thread[2] ELSE system.pds[q].id)
    <3>1. /\ f.thread[1] = p /\ f.thread[2] = v /\ Len(f.thread) = 2
          /\ f.cap.obj = <<p>> /\ f.cap.type = "ep" /\ f.cap.badge = FaultBadge(v)
      BY <2>3 DEF Cap
    <3>2. Dispatch(FaultBadge(v)) = {<<"fault", v>>}
      BY <1>1, FaultIds
    <3>3. NeedsEp(p)
      BY DEF NeedsEp, HasVm, ToSet
    <3>4. Listens(p)
      BY <1>1, <3>3, EpListens
    <3>5. Arrives(f, p, v)
      BY <3>1, <3>2, <3>4
    <3> HIDE DEF Arrives
    <3> QED
      BY <3>1, <3>5
  <2> HIDE DEF Arrives
  <2> QED
    BY <2>1, <2>2, <2>3
<1>2. LayoutInv => (ChildIdsBelow(256) => ChildFaultsArrive)
  BY <1>1 DEF ChildFaultsArrive
<1> QED
  BY <1>2, LayoutInvariant, PTL

\* A slot at which there is something.
LEMMA FilledSlot ==
  ASSUME NEW s, NEW slot
  PROVE  AtSlot(s, slot) # {} <=> \E x \in ToSet(s) : x.slot = slot
  BY DEF AtSlot

\* What an entry of a PD's CNode may be for, as its slot shows.
IsIrq(p, x) ==
  \E i \in ToSet(system.pds[p].irqs) :
    i \in 0 .. 61 /\ x.slot = 138 + i /\ x.cap = Cap("irq", <<p>>, NtfnBadge(i))

IsIoPort(p, x) ==
  \E i \in ToSet(system.pds[p].ioports) :
    i \in 0 .. 61 /\ x.slot = 394 + i /\ x.cap.type = "ioport"

IsVm(x) ==
  \E v \in 0 .. 61 : (x.slot = 266 + v \/ x.slot = 330 + v) /\ x.cap.type \in {"vcpu", "tcb"}

IsWay(p, x, w) ==
  /\ w[1].pd = p /\ w[1].id \in 0 .. 61
  /\ \/ /\ w[1].notify /\ x.slot = 10 + w[1].id
        /\ x.cap = Cap("ntfn", <<w[2].pd>>, NtfnBadge(w[2].id))
     \/ /\ w[1].pp /\ x.slot = 74 + w[1].id
        /\ x.cap = Cap("ep", <<w[2].pd>>, CallBadge(w[2].id))

\* There are no others.
LEMMA CnodeCases ==
  ASSUME SystemInv, StepsInv, CnodeInv, NEW p \in 1 .. pdsBuilt, NEW x \in ToSet(cnode[p])
  PROVE  \/ x.slot \in 1 .. 5
         \/ IsIrq(p, x)
         \/ IsIoPort(p, x)
         \/ IsVm(x)
         \/ \E k \in 1 .. channelsBuilt : \E w \in Ways(k) : IsWay(p, x, w)
<1>1. p \in Pds(system)
  BY CnodeHas
<1>2. CASE x \in FixedSet(p)
  <2>1. x \in ToSet(FixedEntries(p)) /\ SlotsOf(FixedEntries(p)) \subseteq 1 .. 5
    BY <1>2, FixedFacts, Zenon
  <2>2. x.slot \in SlotsOf(FixedEntries(p))
    BY <2>1, SlotsFacts
  <2> QED
    BY <2>1, <2>2, Zenon
<1>3. CASE x \in IrqSet(p)
  <2>1. PICK i \in ToSet(system.pds[p].irqs) :
          x = Entry(PD_BASE_IRQ_CAP + i, Cap("irq", <<p>>, {i}))
    BY <1>3 DEF IrqSet
  <2>2. x.slot = 138 + i /\ x.cap = Cap("irq", <<p>>, NtfnBadge(i))
    BY <2>1, Bases DEF Entry, NtfnBadge
  <2>3. i \in 0 .. 61
    BY <1>1, <2>1, IdFacts DEF PD_MAX_ID
  <2> QED
    BY <2>2, <2>3 DEF IsIrq
<1>4. CASE x \in IoPortSet(p)
  <2>1. PICK i \in ToSet(system.pds[p].ioports) :
          x = Entry(PD_BASE_IOPORT_CAP + i, Cap("ioport", <<p, i>>, {}))
    BY <1>4 DEF IoPortSet
  <2>2. x.slot = 394 + i /\ x.cap.type = "ioport"
    BY <2>1, Bases DEF Entry, Cap
  <2>3. i \in 0 .. 61
    BY <1>1, <2>1, IdFacts DEF PD_MAX_ID
  <2> QED
    BY <2>2, <2>3 DEF IsIoPort
<1>5. CASE x \in VcpuSet(p) \cup VmTcbSet(p)
  <2>1. PICK v \in ToSet(system.pds[p].vcpus) :
          \/ x = Entry(PD_BASE_VCPU_CAP + v, Cap("vcpu", <<p, v>>, {}))
          \/ x = Entry(PD_BASE_VM_TCB_CAP + v, Cap("tcb", <<p, v>>, {}))
    BY <1>5 DEF VcpuSet, VmTcbSet
  <2>2. (x.slot = 266 + v \/ x.slot = 330 + v) /\ x.cap.type \in {"vcpu", "tcb"}
    BY <2>1, Bases DEF Entry, Cap
  <2>3. v \in 0 .. 61
    BY <1>1, <2>1, IdFacts DEF PD_MAX_ID, VCPU_MAX_ID
  <2> QED
    BY <2>2, <2>3 DEF IsVm
<1>6. ASSUME NEW k \in 1 .. channelsBuilt, NEW w \in Ways(k), w[1].pd = p,
             \/ w[1].notify /\ x = NtfnEntry(w[1], w[2])
             \/ w[1].pp /\ x = EpEntry(w[1], w[2])
      PROVE  IsWay(p, x, w)
  <2>1. k \in DOMAIN system.channels
    BY EndFacts DEF StepsInv
  <2>2. w[1].id \in 0 .. 61
    BY <2>1, WayFacts
  <2>3. CASE w[1].notify /\ x = NtfnEntry(w[1], w[2])
    BY <1>6, <2>2, <2>3, Bases DEF NtfnEntry, Entry, NtfnBadge, IsWay
  <2>4. CASE w[1].pp /\ x = EpEntry(w[1], w[2])
    BY <1>6, <2>2, <2>4, Bases DEF EpEntry, Entry, CallBadge, IsWay
  <2> QED
    BY <1>6, <2>3, <2>4
<1>7. CASE \E k \in 1 .. channelsBuilt : \E w \in Ways(k) :
              /\ w[1].pd = p
              /\ \/ w[1].notify /\ x = NtfnEntry(w[1], w[2])
                 \/ w[1].pp /\ x = EpEntry(w[1], w[2])
  BY <1>6, <1>7, Zenon
<1> QED
  BY <1>2, <1>3, <1>4, <1>5, <1>7, CnodeHas

\* The ends of channels that a PD has.
LEMMA PdEndsFacts ==
  ASSUME SystemInv, NEW p, NEW e
  PROVE  e \in PdEnds(p) <=>
           e.pd = p /\ \E k \in DOMAIN system.channels : \E w \in Ways(k) : w[1] = e
<1>1. DOMAIN system.channels = 1 .. Len(system.channels) + 1 - 1
  BY EndFacts
<1>2. e \in EarlierEnds(system, Len(system.channels) + 1) <=>
        \E k \in DOMAIN system.channels : e \in {system.channels[k].a, system.channels[k].b}
  BY <1>1 DEF EarlierEnds
<1>3. \A k : e \in {system.channels[k].a, system.channels[k].b} <=> \E w \in Ways(k) : w[1] = e
  BY DEF Ways
<1> QED
  BY <1>2, <1>3 DEF PdEnds

\* What symbols.rs tells a PD about its channels, interrupts and I/O ports is
\* what builder.rs has given it capabilities for.
THEOREM MasksAreRight == Spec => []MasksAgree
<1> DEFINE Agree(p, i) ==
             /\ i \in NotificationBits(p) <=> AtSlot(cnode[p], 10 + i) # {}
             /\ i \in PpBits(p)           <=> AtSlot(cnode[p], 74 + i) # {}
             /\ i \in IrqBits(p)          <=> AtSlot(cnode[p], 138 + i) # {}
             /\ i \in IoPortBits(p)       <=> AtSlot(cnode[p], 394 + i) # {}
<1>1. ASSUME LayoutInv, Done, NEW p \in 1 .. pdsBuilt, NEW i \in 0 .. 61
      PROVE  Agree(p, i)
  <2>1. /\ SystemInv /\ StepsInv /\ CnodeInv /\ p \in Pds(system)
        /\ DOMAIN system.channels = 1 .. channelsBuilt
    BY <1>1, DoneFacts DEF LayoutInv
  <2>2. ASSUME NEW x \in ToSet(cnode[p])
        PROVE  /\ x.slot = 10 + i =>
                    \E k \in DOMAIN system.channels : \E w \in Ways(k) :
                      w[1].pd = p /\ w[1].notify /\ w[1].id = i
               /\ x.slot = 74 + i =>
                    \E k \in DOMAIN system.channels : \E w \in Ways(k) :
                      w[1].pd = p /\ w[1].pp /\ w[1].id = i
               /\ x.slot = 138 + i => i \in ToSet(system.pds[p].irqs)
               /\ x.slot = 394 + i => i \in ToSet(system.pds[p].ioports)
    <3>1. CASE x.slot \in 1 .. 5
      BY <3>1
    <3>2. CASE IsIrq(p, x)
      BY <3>2 DEF IsIrq
    <3>3. CASE IsIoPort(p, x)
      BY <3>3 DEF IsIoPort
    <3>4. CASE IsVm(x)
      BY <3>4 DEF IsVm
    <3>5. ASSUME NEW k \in 1 .. channelsBuilt, NEW w \in Ways(k), IsWay(p, x, w)
          PROVE  /\ w[1].pd = p /\ x.slot # 138 + i /\ x.slot # 394 + i
                 /\ x.slot = 10 + i => w[1].notify /\ w[1].id = i
                 /\ x.slot = 74 + i => w[1].pp /\ w[1].id = i
      <4> DEFINE id == w[1].id
                 s  == x.slot
      <4>1. /\ w[1].pd = p /\ id \in 0 .. 61
            /\ \/ w[1].notify /\ s = 10 + id
               \/ w[1].pp /\ s = 74 + id
        BY <3>5 DEF IsWay
      <4> HIDE DEF id, s
      <4>2. /\ s # 138 + i /\ s # 394 + i
            /\ s = 10 + i => w[1].notify /\ id = i
            /\ s = 74 + i => w[1].pp /\ id = i
        <5>1. CASE w[1].notify /\ s = 10 + id
          <6>1. s # 138 + i /\ s # 394 + i /\ s # 74 + i /\ (s = 10 + i => id = i)
            BY <4>1, <5>1
          <6> QED
            BY <5>1, <6>1
        <5>2. CASE w[1].pp /\ s = 74 + id
          <6>1. s # 138 + i /\ s # 394 + i /\ s # 10 + i /\ (s = 74 + i => id = i)
            BY <4>1, <5>2
          <6> QED
            BY <5>2, <6>1
        <5> QED
          BY <4>1, <5>1, <5>2
      <4> QED
        BY <4>1, <4>2 DEF id, s
    <3> QED
      BY <2>1, <3>1, <3>2, <3>3, <3>4, <3>5, CnodeCases
  <2>3. ASSUME NEW k \in DOMAIN system.channels, NEW w \in Ways(k), w[1].pd = p, w[1].id = i
        PROVE  /\ w[1].notify => \E x \in ToSet(cnode[p]) : x.slot = 10 + i
               /\ w[1].pp => \E x \in ToSet(cnode[p]) : x.slot = 74 + i
    <3>1. /\ NtfnEntry(w[1], w[2]).slot = 10 + i
          /\ EpEntry(w[1], w[2]).slot = 74 + i
      BY <2>3, Bases DEF NtfnEntry, EpEntry, Entry
    <3>2. /\ w[1].notify => NtfnEntry(w[1], w[2]) \in ToSet(cnode[p])
          /\ w[1].pp => EpEntry(w[1], w[2]) \in ToSet(cnode[p])
      BY <1>1, <2>3, WayEntries
    <3> QED
      BY <3>1, <3>2
  <2>4. i \in ToSet(system.pds[p].irqs) => \E x \in ToSet(cnode[p]) : x.slot = 138 + i
    <3> DEFINE x == Entry(PD_BASE_IRQ_CAP + i, Cap("irq", <<p>>, {i}))
    <3>1. i \in ToSet(system.pds[p].irqs) => x \in ToSet(cnode[p])
      <4>1. i \in ToSet(system.pds[p].irqs) => x \in IrqSet(p)
        BY DEF IrqSet
      <4> HIDE DEF x
      <4> QED
        BY <2>1, <4>1, CnodeHas
    <3>2. x.slot = 138 + i
      BY Bases DEF Entry
    <3> QED
      BY <3>1, <3>2
  <2>5. i \in ToSet(system.pds[p].ioports) => \E x \in ToSet(cnode[p]) : x.slot = 394 + i
    <3> DEFINE x == Entry(PD_BASE_IOPORT_CAP + i, Cap("ioport", <<p, i>>, {}))
    <3>1. i \in ToSet(system.pds[p].ioports) => x \in ToSet(cnode[p])
      <4>1. i \in ToSet(system.pds[p].ioports) => x \in IoPortSet(p)
        BY DEF IoPortSet
      <4> HIDE DEF x
      <4> QED
        BY <2>1, <4>1, CnodeHas
    <3>2. x.slot = 394 + i
      BY Bases DEF Entry
    <3> QED
      BY <3>1, <3>2
  <2>6. /\ i \in NotificationBits(p) <=>
             \E k \in DOMAIN system.channels : \E w \in Ways(k) :
               w[1].pd = p /\ w[1].notify /\ w[1].id = i
        /\ i \in PpBits(p) <=>
             \E k \in DOMAIN system.channels : \E w \in Ways(k) :
               w[1].pd = p /\ w[1].pp /\ w[1].id = i
    <3>1. /\ i \in NotificationBits(p) <=> \E e : e \in PdEnds(p) /\ e.notify /\ e.id = i
          /\ i \in PpBits(p) <=> \E e : e \in PdEnds(p) /\ e.pp /\ e.id = i
      BY DEF NotificationBits, PpBits
    <3>2. \A e : e \in PdEnds(p) <=>
            e.pd = p /\ \E k \in DOMAIN system.channels : \E w \in Ways(k) : w[1] = e
      BY <2>1, PdEndsFacts
    <3> QED
      BY <3>1, <3>2
  <2>7. \A slot : AtSlot(cnode[p], slot) # {} <=> \E x \in ToSet(cnode[p]) : x.slot = slot
    BY FilledSlot
  <2>8. /\ i \in NotificationBits(p) <=> \E x \in ToSet(cnode[p]) : x.slot = 10 + i
        /\ i \in PpBits(p)           <=> \E x \in ToSet(cnode[p]) : x.slot = 74 + i
        /\ i \in IrqBits(p)          <=> \E x \in ToSet(cnode[p]) : x.slot = 138 + i
        /\ i \in IoPortBits(p)       <=> \E x \in ToSet(cnode[p]) : x.slot = 394 + i
    BY <2>2, <2>3, <2>4, <2>5, <2>6 DEF IrqBits, IoPortBits
  <2>9. /\ AtSlot(cnode[p], 10 + i) # {}  <=> \E x \in ToSet(cnode[p]) : x.slot = 10 + i
        /\ AtSlot(cnode[p], 74 + i) # {}  <=> \E x \in ToSet(cnode[p]) : x.slot = 74 + i
        /\ AtSlot(cnode[p], 138 + i) # {} <=> \E x \in ToSet(cnode[p]) : x.slot = 138 + i
        /\ AtSlot(cnode[p], 394 + i) # {} <=> \E x \in ToSet(cnode[p]) : x.slot = 394 + i
    BY <2>7
  <2> QED
    BY <2>8, <2>9
<1>2. ASSUME LayoutInv, Done, NEW p \in DOMAIN cnode, NEW i \in 0 .. PD_MAX_ID
      PROVE  LET Filled(base) == AtSlot(cnode[p], base + i) # {}
             IN /\ i \in NotificationBits(p) <=> Filled(PD_BASE_OUTPUT_NOTIFICATION_CAP)
                /\ i \in PpBits(p)           <=> Filled(PD_BASE_OUTPUT_ENDPOINT_CAP)
                /\ i \in IrqBits(p)          <=> Filled(PD_BASE_IRQ_CAP)
                /\ i \in IoPortBits(p)       <=> Filled(PD_BASE_IOPORT_CAP)
  <2>1. p \in 1 .. pdsBuilt /\ i \in 0 .. 61
    BY <1>2, DoneFacts DEF PD_MAX_ID
  <2>2. Agree(p, i)
    <3> HIDE DEF Agree
    <3> QED
      BY <1>1, <1>2, <2>1
  <2> QED
    BY <2>2, Bases
<1>3. LayoutInv => MasksAgree
  BY <1>2 DEF MasksAgree
<1> QED
  BY <1>3, LayoutInvariant, PTL

\* What makes seL4 run an entry point of a PD: a channel, an interrupt, a fault
\* of a child, a fault of a vCPU.
IsEvent(s, q, entry, n) == s.to = <<q>> /\ s.as = {<<entry, n>>}

ByNtfn(s, w) ==
  /\ w[1].notify /\ IsEvent(s, w[2].pd, "notified", w[2].id)
  /\ s.from = <<w[1].pd, 10 + w[1].id>>

ByCall(s, w) ==
  /\ w[1].pp /\ IsEvent(s, w[2].pd, "protected", w[2].id)
  /\ s.from = <<w[1].pd, 74 + w[1].id>>

ByIrq(s, q, i) ==
  IsEvent(s, q, "notified", i) /\ s.from = <<q, 138 + i>>

ByChild(s, c) ==
  /\ system.pds[c].parent # NoParent
  /\ IsEvent(s, system.pds[c].parent, "fault", system.pds[c].id) /\ s.from = <<c>>

ByVcpu(s, q, v) ==
  IsEvent(s, q, "fault", v) /\ s.from = <<q, v>>

IsArrival(s) == s = [from |-> s.from, to |-> s.to, as |-> s.as]

\* What a capability of a PD, and what a thread that faults, makes happen.
LEMMA CapArrivals ==
  ASSUME LayoutInv, NEW p \in 1 .. pdsBuilt, NEW x \in ToSet(cnode[p]), NEW s,
         x.slot >= 10, x.cap.type \in {"ntfn", "ep", "irq"},
         s = [from |-> <<p, x.slot>>, to |-> x.cap.obj, as |-> Dispatch(x.cap.badge)]
  PROVE  \/ \E k \in DOMAIN system.channels : \E w \in Ways(k) : ByNtfn(s, w) \/ ByCall(s, w)
         \/ \E i \in ToSet(system.pds[p].irqs) : ByIrq(s, p, i)
<1>1. SystemInv /\ StepsInv /\ CnodeInv
  BY DEF LayoutInv
<1>2. x.slot \notin 1 .. 5
  OBVIOUS
<1>3. CASE IsIrq(p, x)
  <2>1. PICK i \in ToSet(system.pds[p].irqs) :
          i \in 0 .. 61 /\ x.slot = 138 + i /\ x.cap = Cap("irq", <<p>>, NtfnBadge(i))
    BY <1>3 DEF IsIrq
  <2>2. x.cap.obj = <<p>> /\ x.cap.badge = NtfnBadge(i)
    BY <2>1 DEF Cap
  <2>3. Dispatch(NtfnBadge(i)) = {<<"notified", i>>}
    BY <2>1, BadgeFacts DEF FAULT_BIT
  <2> QED
    BY <2>1, <2>2, <2>3 DEF ByIrq, IsEvent
<1>4. ~IsIoPort(p, x)
  BY DEF IsIoPort
<1>5. ~IsVm(x)
  BY DEF IsVm
<1>6. ASSUME NEW k \in 1 .. channelsBuilt, NEW w \in Ways(k), IsWay(p, x, w)
      PROVE  k \in DOMAIN system.channels /\ (ByNtfn(s, w) \/ ByCall(s, w))
  <2>1. k \in DOMAIN system.channels
    BY <1>1, EndFacts DEF StepsInv
  <2>2. w[2].id \in 0 .. 61
    BY <1>1, <2>1, WayFacts
  <2>3. CASE /\ w[1].notify /\ x.slot = 10 + w[1].id
             /\ x.cap = Cap("ntfn", <<w[2].pd>>, NtfnBadge(w[2].id))
    <3>1. Dispatch(NtfnBadge(w[2].id)) = {<<"notified", w[2].id>>}
      BY <2>2, BadgeFacts DEF FAULT_BIT
    <3>2. x.cap.obj = <<w[2].pd>> /\ x.cap.badge = NtfnBadge(w[2].id)
      BY <2>3 DEF Cap
    <3>3. w[1].pd = p
      BY <1>6 DEF IsWay
    <3>4. ByNtfn(s, w)
      BY <2>3, <3>1, <3>2, <3>3 DEF ByNtfn, IsEvent
    <3> QED
      BY <2>1, <3>4
  <2>4. CASE /\ w[1].pp /\ x.slot = 74 + w[1].id
             /\ x.cap = Cap("ep", <<w[2].pd>>, CallBadge(w[2].id))
    <3>1. Dispatch(CallBadge(w[2].id)) = {<<"protected", w[2].id>>}
      BY <2>2, BadgeFacts
    <3>2. x.cap.obj = <<w[2].pd>> /\ x.cap.badge = CallBadge(w[2].id)
      BY <2>4 DEF Cap
    <3>3. w[1].pd = p
      BY <1>6 DEF IsWay
    <3>4. ByCall(s, w)
      BY <2>4, <3>1, <3>2, <3>3 DEF ByCall, IsEvent
    <3> QED
      BY <2>1, <3>4
  <2> QED
    BY <1>6, <2>3, <2>4 DEF IsWay
<1> QED
  BY <1>1, <1>2, <1>3, <1>4, <1>5, <1>6, CnodeCases

\* And nothing else does.
LEMMA ArrivalCases ==
  ASSUME LayoutInv, ChildIdsBelow(256), NEW s \in Arrivals
  PROVE  /\ IsArrival(s)
         /\ \/ \E k \in DOMAIN system.channels : \E w \in Ways(k) : ByNtfn(s, w) \/ ByCall(s, w)
            \/ \E q \in 1 .. pdsBuilt : \E i \in ToSet(system.pds[q].irqs) : ByIrq(s, q, i)
            \/ \E c \in 1 .. pdsBuilt : ByChild(s, c)
            \/ \E q \in 1 .. pdsBuilt : \E v \in ToSet(system.pds[q].vcpus) : ByVcpu(s, q, v)
<1>1. \/ \E p \in DOMAIN cnode : \E x \in ToSet(cnode[p]) :
           /\ x.slot >= PD_BASE_OUTPUT_NOTIFICATION_CAP /\ x.cap.type \in {"ntfn", "ep", "irq"}
           /\ s = [from |-> <<p, x.slot>>, to |-> x.cap.obj, as |-> Dispatch(x.cap.badge)]
      \/ \E f \in faultEp :
           /\ f.cap.obj # <<>>
           /\ s = [from |-> f.thread, to |-> f.cap.obj, as |-> Dispatch(f.cap.badge)]
  BY DEF Arrivals
<1>2. ASSUME NEW p \in DOMAIN cnode, NEW x \in ToSet(cnode[p]),
             x.slot >= PD_BASE_OUTPUT_NOTIFICATION_CAP, x.cap.type \in {"ntfn", "ep", "irq"},
             s = [from |-> <<p, x.slot>>, to |-> x.cap.obj, as |-> Dispatch(x.cap.badge)]
      PROVE  /\ IsArrival(s)
             /\ \/ \E k \in DOMAIN system.channels : \E w \in Ways(k) :
                     ByNtfn(s, w) \/ ByCall(s, w)
                \/ \E q \in 1 .. pdsBuilt : \E i \in ToSet(system.pds[q].irqs) : ByIrq(s, q, i)
  <2>1. p \in 1 .. pdsBuilt
    BY LenProperties DEF LayoutInv, CnodeInv, IsSeq
  <2>2. IsArrival(s)
    BY <1>2 DEF IsArrival
  <2> QED
    BY <1>2, <2>1, <2>2, Bases, CapArrivals
<1>3. ASSUME NEW f \in faultEp, f.cap.obj # <<>>,
             s = [from |-> f.thread, to |-> f.cap.obj, as |-> Dispatch(f.cap.badge)]
      PROVE  /\ IsArrival(s)
             /\ \/ \E c \in 1 .. pdsBuilt : ByChild(s, c)
                \/ \E q \in 1 .. pdsBuilt : \E v \in ToSet(system.pds[q].vcpus) : ByVcpu(s, q, v)
  <2>1. IsArrival(s)
    BY <1>3 DEF IsArrival
  <2>2. PICK p \in 1 .. pdsBuilt :
           \/ f = [thread |-> <<p>>, cap |-> FaultCap(p)]
           \/ \E v \in ToSet(system.pds[p].vcpus) :
                f = [thread |-> <<p, v>>, cap |-> Cap("ep", <<p>>, FaultBadge(v))]
    BY FaultEpFacts
  <2>3. CASE f = [thread |-> <<p>>, cap |-> FaultCap(p)]
    <3>1. f.thread = <<p>> /\ f.cap = FaultCap(p)
      BY <2>3
    <3>2. system.pds[p].parent # NoParent
      BY <1>3, <3>1 DEF FaultCap, Cap
    <3>3. /\ f.cap.obj = <<system.pds[p].parent>>
          /\ Dispatch(f.cap.badge) = {<<"fault", system.pds[p].id>>}
      BY <3>1, <3>2, FaultIds DEF Cap
    <3>4. ByChild(s, p)
      BY <1>3, <3>1, <3>2, <3>3 DEF ByChild, IsEvent
    <3> QED
      BY <2>1, <3>4
  <2>4. ASSUME NEW v \in ToSet(system.pds[p].vcpus),
               f = [thread |-> <<p, v>>, cap |-> Cap("ep", <<p>>, FaultBadge(v))]
        PROVE  ByVcpu(s, p, v)
    <3>1. f.thread = <<p, v>> /\ f.cap.obj = <<p>> /\ f.cap.badge = FaultBadge(v)
      BY <2>4 DEF Cap
    <3>2. Dispatch(FaultBadge(v)) = {<<"fault", v>>}
      BY FaultIds
    <3> QED
      BY <1>3, <3>1, <3>2 DEF ByVcpu, IsEvent
  <2> QED
    BY <2>1, <2>2, <2>3, <2>4
<1> QED
  BY <1>1, <1>2, <1>3

\* The two ends of a channel that one PD has with one id are the same way.
LEMMA SameWay ==
  ASSUME SystemInv, NEW k \in DOMAIN system.channels, NEW l \in DOMAIN system.channels,
         NEW w \in Ways(k), NEW z \in Ways(l), w[2].pd = z[2].pd, w[2].id = z[2].id
  PROVE  w[1].pd = z[1].pd /\ w[1].id = z[1].id
<1>1. w[2] \in EndsOf(k) /\ z[2] \in EndsOf(l)
  BY WayFacts
<1>2. k = l
  BY <1>1, UsedIdsFacts
<1> QED
  BY <1>2 DEF Ways

\* An event has one entry point, one PD and one argument.
LEMMA SameEvent ==
  ASSUME NEW s, NEW t, s.to = t.to, s.as \cap t.as # {}, NEW p, NEW q, NEW a, NEW b, NEW m, NEW n,
         IsEvent(s, p, a, m), IsEvent(t, q, b, n)
  PROVE  p = q /\ a = b /\ m = n
<1>1. <<p>> = <<q>> /\ <<a, m>> = <<b, n>>
  BY DEF IsEvent
<1> QED
  BY <1>1

\* Two arrivals at one PD as one event have one origin.
LEMMA SameOrigin ==
  ASSUME LayoutInv, NEW s, NEW t, s.to = t.to, s.as \cap t.as # {}
  PROVE  /\ \A k, l \in DOMAIN system.channels : \A w \in Ways(k) : \A z \in Ways(l) :
              /\ ByNtfn(s, w) /\ ByNtfn(t, z) => s.from = t.from
              /\ ByCall(s, w) /\ ByCall(t, z) => s.from = t.from
              /\ ~(ByNtfn(s, w) /\ ByCall(t, z))
         /\ \A k \in DOMAIN system.channels : \A w \in Ways(k) :
              \A q, c \in 1 .. pdsBuilt :
                /\ \A i \in ToSet(system.pds[q].irqs) :
                     ByIrq(t, q, i) => ~ByNtfn(s, w) /\ ~ByCall(s, w)
                /\ ByChild(t, c) => ~ByNtfn(s, w) /\ ~ByCall(s, w)
                /\ \A v \in ToSet(system.pds[q].vcpus) :
                     ByVcpu(t, q, v) => ~ByNtfn(s, w) /\ ~ByCall(s, w)
         /\ \A p, q : \A i, j : ByIrq(s, p, i) /\ ByIrq(t, q, j) => s.from = t.from
         /\ \A p, q, i, c, v : ByIrq(s, p, i) => ~ByChild(t, c) /\ ~ByVcpu(t, q, v)
         /\ \A c, d \in 1 .. pdsBuilt : ByChild(s, c) /\ ByChild(t, d) => s.from = t.from
         /\ \A c, q \in 1 .. pdsBuilt : \A v \in ToSet(system.pds[q].vcpus) :
              ~(ByChild(s, c) /\ ByVcpu(t, q, v))
         /\ \A p, q, u, v : ByVcpu(s, p, u) /\ ByVcpu(t, q, v) => s.from = t.from
<1>1. SystemInv /\ pdsBuilt \in 0 .. Len(system.pds)
  BY DEF LayoutInv, StepsInv
<1>2. \A p \in 1 .. pdsBuilt : p \in Pds(system)
  <2>1. Pds(system) = 1 .. Len(system.pds) /\ Len(system.pds) \in Nat
    BY <1>1, PdFacts
  <2> QED
    BY <1>1, <2>1
<1>3. \A p, q, a, b, m, n : IsEvent(s, p, a, m) /\ IsEvent(t, q, b, n) => p = q /\ a = b /\ m = n
  BY SameEvent
<1>5. "notified" # "protected" /\ "notified" # "fault" /\ "protected" # "fault"
  OBVIOUS
<1>6. ASSUME NEW k \in DOMAIN system.channels, NEW l \in DOMAIN system.channels,
             NEW w \in Ways(k), NEW z \in Ways(l)
      PROVE  /\ ByNtfn(s, w) /\ ByNtfn(t, z) => s.from = t.from
             /\ ByCall(s, w) /\ ByCall(t, z) => s.from = t.from
             /\ ~(ByNtfn(s, w) /\ ByCall(t, z))
  <2>1. ASSUME ByNtfn(s, w), ByNtfn(t, z)
        PROVE  s.from = t.from
    <3>1. w[2].pd = z[2].pd /\ w[2].id = z[2].id
      BY <1>3, <2>1 DEF ByNtfn
    <3>2. w[1].pd = z[1].pd /\ w[1].id = z[1].id
      BY <1>1, <3>1, SameWay
    <3> QED
      BY <2>1, <3>2 DEF ByNtfn
  <2>2. ASSUME ByCall(s, w), ByCall(t, z)
        PROVE  s.from = t.from
    <3>1. w[2].pd = z[2].pd /\ w[2].id = z[2].id
      BY <1>3, <2>2 DEF ByCall
    <3>2. w[1].pd = z[1].pd /\ w[1].id = z[1].id
      BY <1>1, <3>1, SameWay
    <3> QED
      BY <2>2, <3>2 DEF ByCall
  <2>3. ~(ByNtfn(s, w) /\ ByCall(t, z))
    BY <1>3, <1>5 DEF ByNtfn, ByCall
  <2> QED
    BY <2>1, <2>2, <2>3
<1>7. ASSUME NEW k \in DOMAIN system.channels, NEW w \in Ways(k),
             NEW q \in 1 .. pdsBuilt, NEW c \in 1 .. pdsBuilt
      PROVE  /\ \A i \in ToSet(system.pds[q].irqs) :
                  ByIrq(t, q, i) => ~ByNtfn(s, w) /\ ~ByCall(s, w)
             /\ ByChild(t, c) => ~ByNtfn(s, w) /\ ~ByCall(s, w)
             /\ \A v \in ToSet(system.pds[q].vcpus) :
                  ByVcpu(t, q, v) => ~ByNtfn(s, w) /\ ~ByCall(s, w)
  <2>1. ASSUME NEW i \in ToSet(system.pds[q].irqs), ByIrq(t, q, i)
        PROVE  ~ByNtfn(s, w) /\ ~ByCall(s, w)
    <3>1. ASSUME ByNtfn(s, w)
          PROVE  FALSE
      <4>1. w[2].pd = q /\ w[2].id = i
        BY <1>3, <2>1, <3>1 DEF ByNtfn, ByIrq
      <4>2. w[2] \in EndsOf(k)
        BY <1>1, WayFacts
      <4>3. w[2].id \notin ToSet(system.pds[w[2].pd].irqs)
        BY <1>1, <4>2, UsedIdsFacts
      <4> QED
        BY <2>1, <4>1, <4>3
    <3>2. ~ByCall(s, w)
      BY <1>3, <1>5, <2>1 DEF ByCall, ByIrq
    <3> QED
      BY <3>1, <3>2
  <2>2. ByChild(t, c) => ~ByNtfn(s, w) /\ ~ByCall(s, w)
    BY <1>3, <1>5 DEF ByNtfn, ByCall, ByChild
  <2>3. ASSUME NEW v
        PROVE  ByVcpu(t, q, v) => ~ByNtfn(s, w) /\ ~ByCall(s, w)
    BY <1>3, <1>5 DEF ByNtfn, ByCall, ByVcpu
  <2> QED
    BY <2>1, <2>2, <2>3, Zenon
<1>8. \A p, q, i, j : ByIrq(s, p, i) /\ ByIrq(t, q, j) => s.from = t.from
  BY <1>3 DEF ByIrq
<1>9. \A p, q, i, c, v : ByIrq(s, p, i) => ~ByChild(t, c) /\ ~ByVcpu(t, q, v)
  BY <1>3, <1>5 DEF ByIrq, ByChild, ByVcpu
<1>10. ASSUME NEW c \in 1 .. pdsBuilt, NEW d \in 1 .. pdsBuilt, ByChild(s, c), ByChild(t, d)
       PROVE  s.from = t.from
  <2>1. system.pds[c].parent = system.pds[d].parent /\ system.pds[c].id = system.pds[d].id
    BY <1>3, <1>10 DEF ByChild
  <2>2. c \in Pds(system) /\ d \in Pds(system) /\ system.pds[c].parent \in Pds(system)
    <3>1. /\ Pds(system) = 1 .. Len(system.pds) /\ Len(system.pds) \in Nat
          /\ system.pds[c].parent \in 0 .. c - 1
      BY <1>1, <1>2, PdFacts
    <3> QED
      BY <1>2, <1>10, <3>1 DEF ByChild, NoParent
  <2>3. c = d
    BY <1>1, <2>1, <2>2, ChildFacts
  <2> QED
    BY <1>10, <2>3 DEF ByChild
<1>11. ASSUME NEW c \in 1 .. pdsBuilt, NEW q \in 1 .. pdsBuilt,
              NEW v \in ToSet(system.pds[q].vcpus), ByChild(s, c), ByVcpu(t, q, v)
       PROVE  FALSE
  <2>1. system.pds[c].parent = q /\ system.pds[c].id = v
    BY <1>3, <1>11 DEF ByChild, ByVcpu
  <2>2. system.pds[c].id \notin ToSet(system.pds[q].vcpus)
    BY <1>1, <1>2, <2>1, ChildFacts
  <2> QED
    BY <1>11, <2>1, <2>2
<1>12. \A p, q, u, v : ByVcpu(s, p, u) /\ ByVcpu(t, q, v) => s.from = t.from
  BY <1>3 DEF ByVcpu
<1> QED
  BY <1>6, <1>7, <1>8, <1>9, <1>10, <1>11, <1>12, Zenon

\* No two capabilities or faulting threads make seL4 run an entry point of a PD
\* with one argument, if the numbers of children fit into the badge of a fault.
THEOREM OneSourceEach == Spec => [](ChildIdsBelow(256) => OneSource)
<1>1. ASSUME LayoutInv, ChildIdsBelow(256), NEW s \in Arrivals, NEW t \in Arrivals,
             s.to = t.to, s.as \cap t.as # {}
      PROVE  s = t
  <2> DEFINE A(a) == \E k \in DOMAIN system.channels : \E w \in Ways(k) :
                       ByNtfn(a, w) \/ ByCall(a, w)
             B(a) == \E q \in 1 .. pdsBuilt : \E i \in ToSet(system.pds[q].irqs) : ByIrq(a, q, i)
             C(a) == \E c \in 1 .. pdsBuilt : ByChild(a, c)
             D(a) == \E q \in 1 .. pdsBuilt : \E v \in ToSet(system.pds[q].vcpus) :
                       ByVcpu(a, q, v)
  <2>1. /\ A(s) \/ B(s) \/ C(s) \/ D(s)
        /\ A(t) \/ B(t) \/ C(t) \/ D(t)
    BY <1>1, ArrivalCases
  <2>2. t.to = s.to /\ t.as \cap s.as # {}
    BY <1>1
  <2>3. A(s) /\ A(t) => s.from = t.from
    BY <1>1, <2>2, SameOrigin
  <2>4. ~(A(s) /\ B(t)) /\ ~(A(s) /\ C(t)) /\ ~(A(s) /\ D(t))
    BY <1>1, SameOrigin
  <2>5. ~(A(t) /\ B(s)) /\ ~(A(t) /\ C(s)) /\ ~(A(t) /\ D(s))
    BY <1>1, <2>2, SameOrigin
  <2>6. B(s) /\ B(t) => s.from = t.from
    BY <1>1, SameOrigin
  <2>7. ~(B(s) /\ C(t)) /\ ~(B(s) /\ D(t)) /\ ~(B(t) /\ C(s)) /\ ~(B(t) /\ D(s))
    BY <1>1, <2>2, SameOrigin
  <2>8. C(s) /\ C(t) => s.from = t.from
    BY <1>1, SameOrigin
  <2>9. ~(C(s) /\ D(t)) /\ ~(C(t) /\ D(s))
    BY <1>1, <2>2, SameOrigin
  <2>10. D(s) /\ D(t) => s.from = t.from
    BY <1>1, SameOrigin
  <2>11. s.from = t.from
    <3> HIDE DEF A, B, C, D
    <3> QED
      BY <2>1, <2>3, <2>4, <2>5, <2>6, <2>7, <2>8, <2>9, <2>10
  <2>12. IsArrival(s) /\ IsArrival(t)
    BY <1>1, ArrivalCases
  <2>13. s.as = t.as
    <3>1. ASSUME NEW a, A(a) \/ B(a) \/ C(a) \/ D(a)
          PROVE  \E e : a.as = {e}
      BY <3>1 DEF ByNtfn, ByCall, ByIrq, ByChild, ByVcpu, IsEvent
    <3>2. PICK d : s.as = {d}
      BY <2>1, <3>1
    <3>3. PICK e : t.as = {e}
      BY <2>1, <3>1
    <3> QED
      BY <1>1, <3>2, <3>3
  <2> QED
    BY <1>1, <2>11, <2>12, <2>13 DEF IsArrival
<1>2. LayoutInv => (ChildIdsBelow(256) => OneSource)
  BY <1>1 DEF OneSource
<1> QED
  BY <1>2, LayoutInvariant, PTL
=============================================================================
