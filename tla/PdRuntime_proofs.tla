-------------------------- MODULE PdRuntime_proofs --------------------------
(* Proofs about PdRuntime, for every set of PDs, channels and interrupts.   *)
EXTENDS PdRuntime, WellFoundedInduction, TLAPS

\* A non-empty set of naturals has a least element.
LEMMA LeastElement ==
  ASSUME NEW S \in SUBSET Nat, S # {}
  PROVE  \E x \in S : \A y \in S : x <= y
<1> DEFINE R == {ss \in Nat \X Nat : ss[1] < ss[2]}
<1>1. IsWellFoundedOn(R, Nat)
  BY NatLessThanWellFounded, Zenon DEF OpToRel
<1>2. PICK x \in S : \A y \in S : <<y, x>> \notin R
  BY <1>1, WFMin, Zenon
<1>3. ASSUME NEW y \in S
      PROVE  x <= y
  <2>1. <<y, x>> \in Nat \X Nat /\ <<y, x>> \notin R
    BY <1>2
  <2>2. ~(y < x)
    BY <2>1
  <2> QED
    BY <2>2
<1> QED
  BY <1>3

\* The lowest set bit of a notification word is one of its bits.
LEMMA LowestIsMember ==
  ASSUME NEW S \in SUBSET Id, S # {}
  PROVE  Lowest(S) \in S
<1>1. S \in SUBSET Nat
  BY DEF Id
<1>2. \E x \in S : \A y \in S : x <= y
  BY <1>1, LeastElement, Zenon
<1> QED
  BY <1>2, Zenon DEF Lowest

\* What TypeOK needs to be inductive: in the walk over irqs_to_ack there is a
\* bit left, and every bit left is an interrupt of the PD.
AckBusy ==
  \A p \in PD : loc[p] = "ack" => todo[p] # {} /\ todo[p] \subseteq IrqIds(p)

\* A calling thread calls through one of its own pp ends.
CallsOwnEnd ==
  \A c \in PD : thread[c] \in {"call", "callwait"} =>
    dest[c] \in Ends /\ dest[c].pd = c /\ dest[c].pp

TypeInv == TypeOK /\ AckBusy /\ CallsOwnEnd

\* Initially the types hold.
LEMMA InitTypeInv == Init => TypeInv
<1> SUFFICES ASSUME Init PROVE TypeInv
  OBVIOUS
<1>1. TypeOK
  BY TreeAssumption DEF Init, TypeOK, Entry, Thread, Cap, Id, InitMayDefer
<1>2. AckBusy /\ CallsOwnEnd
  BY DEF Init, AckBusy, CallsOwnEnd
<1> QED
  BY <1>1, <1>2 DEF TypeInv

\* Every step keeps the types.
LEMMA NextTypeInv == TypeInv /\ [Next]_vars => TypeInv'
<1> SUFFICES ASSUME TypeInv, [Next]_vars PROVE TypeInv'
  OBVIOUS
<1> USE DEF TypeInv, TypeOK, AckBusy, CallsOwnEnd, Entry, Thread
<1>1. ASSUME NEW p \in PD, InitReturn(p) PROVE TypeInv'
  <2>1. IrqIds(p) \subseteq Id
    BY IrqsAssumption DEF IrqIds
  <2>2. MonitorEP \in Cap
    BY DEF Cap
  <2> QED
    BY <1>1, <2>1, <2>2 DEF InitReturn, Running, threadVars, irqVars
<1>2. ASSUME NEW p \in PD, AckIrq(p) PROVE TypeInv'
  <2> DEFINE low  == Lowest(todo[p])
             rest == todo[p] \ {low}
             irq  == [pd |-> p, id |-> low]
  <2>1. low \in todo[p]
    BY <1>2, LowestIsMember DEF AckIrq, Running
  <2>2. irq \in Irqs
    BY <1>2, <2>1, IrqsAssumption DEF AckIrq, Running, IrqIds
  <2>3. /\ todo' = [todo EXCEPT ![p] = rest]
        /\ loc' = [loc EXCEPT ![p] = IF rest = {} THEN "top" ELSE "ack"]
        /\ armed' = armed \cup {irq}
        /\ owes' = owes \ {irq}
        /\ Running(p, "ack")
    BY <1>2 DEF AckIrq
  <2> QED
    BY <1>2, <2>2, <2>3 DEF AckIrq, Running, threadVars, IrqIds
<1>3. ASSUME NEW p \in PD, DeferredFlush(p) PROVE TypeInv'
  BY <1>3, EndsAssumption DEF DeferredFlush, Invoke, threadVars
<1>4. ASSUME NEW p \in PD, ReplyRecv(p) PROVE TypeInv'
  BY <1>4 DEF ReplyRecv, Reply, irqVars
<1>5. ASSUME NEW p \in PD, NBSendRecv(p) PROVE TypeInv'
  BY <1>5, EndsAssumption DEF NBSendRecv, Invoke, CutReply
<1>6. ASSUME NEW p \in PD, Recv(p) PROVE TypeInv'
  BY <1>6 DEF Recv, CutReply, irqVars
<1>7. ASSUME NEW p \in PD, ReceiveNotification(p) PROVE TypeInv'
  <2>1. Lowest(ntfn[p]) \in Id
    BY <1>7, LowestIsMember DEF ReceiveNotification
  <2> QED
    BY <1>7, <2>1 DEF ReceiveNotification, Woken, EnterNotified, threadVars
<1>8. ASSUME NEW p \in PD, NEW c \in PD, ReceiveCall(p, c) PROVE TypeInv'
  <2>1. dest[c] \in Ends
    BY <1>8 DEF ReceiveCall
  <2> QED
    BY <1>8, <2>1, EndsAssumption DEF ReceiveCall, Woken, irqVars
<1>9. ASSUME NEW p \in PD, NEW c \in PD, ReceiveFault(p, c) PROVE TypeInv'
  BY <1>9 DEF ReceiveFault, Woken, irqVars
<1>10. ASSUME NEW p \in PD, NotifiedReturn(p) PROVE TypeInv'
  <2>1. CASE todo[p] = {}
    BY <1>10, <2>1 DEF NotifiedReturn, Running, threadVars
  <2>2. CASE todo[p] # {}
    <3>1. Lowest(todo[p]) \in Id
      BY <2>2, LowestIsMember
    <3>2. /\ EnterNotified(p, todo[p])
          /\ mayDefer' \in [PD -> BOOLEAN]
          /\ UNCHANGED <<loc, haveReply, haveSignal, signalCap, threadVars, ntfn,
                         armed, line, unsent>>
          /\ loc[p] = "notified"
      BY <1>10, <2>2 DEF NotifiedReturn, Running
    <3> QED
      BY <3>1, <3>2 DEF EnterNotified, threadVars
  <2> QED
    BY <2>1, <2>2
<1>11. ASSUME NEW p \in PD, ProtectedReturn(p) PROVE TypeInv'
  BY <1>11 DEF ProtectedReturn, threadVars, irqVars
<1>12. ASSUME NEW p \in PD, FaultReturn(p) PROVE TypeInv'
  BY <1>12 DEF FaultReturn, threadVars, irqVars
<1>13. ASSUME NEW p \in PD, NEW e \in Ends, Notify(p, e) PROVE TypeInv'
  BY <1>13, EndsAssumption DEF Notify, Invoke, pdVars, threadVars
<1>14. ASSUME NEW p \in PD, NEW i \in Irqs, IrqAck(p, i) PROVE TypeInv'
  BY <1>14, EndsAssumption DEF IrqAck, Invoke, pdVars, threadVars
<1>15. ASSUME NEW p \in PD, NEW e \in Ends, PPCall(p, e) PROVE TypeInv'
  BY <1>15 DEF PPCall, pdVars, irqVars
<1>16. ASSUME NEW p \in PD, NEW e \in Ends, DeferredNotify(p, e) PROVE TypeInv'
  BY <1>16 DEF DeferredNotify, Defer, Cap, threadVars
<1>17. ASSUME NEW p \in PD, NEW i \in Irqs, DeferredIrqAck(p, i) PROVE TypeInv'
  BY <1>17 DEF DeferredIrqAck, Defer, Cap, threadVars
<1>18. ASSUME NEW p \in PD, NEW c \in PD, PdRestart(p, c) PROVE TypeInv'
  BY <1>18 DEF PdRestart, Unlink, InitMayDefer, irqVars
<1>19. ASSUME NEW p \in PD, NEW c \in PD, PdStop(p, c) PROVE TypeInv'
  BY <1>19 DEF PdStop, Unlink, pdVars, irqVars
<1>20. ASSUME NEW p \in PD, Fault(p) PROVE TypeInv'
  BY <1>20 DEF Fault, pdVars, irqVars
<1>21. ASSUME NEW i \in Irqs, IrqAssert(i) PROVE TypeInv'
  BY <1>21 DEF IrqAssert, pdVars, threadVars
<1>22. ASSUME NEW i \in Irqs, IrqFire(i) PROVE TypeInv'
  BY <1>22, IrqsAssumption DEF IrqFire, pdVars, threadVars
<1>23. CASE UNCHANGED vars
  BY <1>23 DEF vars, pdVars, threadVars, irqVars
<1> QED
  BY <1>1, <1>2, <1>3, <1>4, <1>5, <1>6, <1>7, <1>8, <1>9, <1>10, <1>11, <1>12,
     <1>13, <1>14, <1>15, <1>16, <1>17, <1>18, <1>19, <1>20, <1>21, <1>22, <1>23
     DEF Next, Loop, Receive, Return, UserCall

\* The type invariant holds of every system the assumptions allow.
THEOREM TypeCorrect == Spec => []TypeOK
<1>1. TypeInv => TypeOK
  BY DEF TypeInv
<1> QED
  BY InitTypeInv, NextTypeInv, <1>1, PTL DEF Spec

-----------------------------------------------------------------------------
(* No deadlock of protected calls: of the PDs in S, one of highest priority *)
(* cannot be calling into S.                                                *)

\* A non-empty set of PDs has one of highest priority.
LEMMA HighestPriority ==
  ASSUME NEW S \in SUBSET PD, S # {}
  PROVE  \E p \in S : \A q \in S : Prio[q] <= Prio[p]
<1> DEFINE Below == {254 - Prio[p] : p \in S}
<1>1. \A p \in S : Prio[p] \in 0 .. 254
  BY PrioAssumption
<1>2. Below \in SUBSET Nat /\ Below # {}
  BY <1>1
<1>3. PICK x \in Below : \A y \in Below : x <= y
  BY <1>2, LeastElement, Zenon
<1>4. PICK p \in S : x = 254 - Prio[p]
  OBVIOUS
<1>5. \A q \in S : 254 - Prio[p] <= 254 - Prio[q]
  BY <1>3, <1>4
<1>6. \A q \in S : Prio[q] <= Prio[p]
  <2> TAKE q \in S
  <2>1. Prio[q] \in Int /\ Prio[p] \in Int /\ 254 - Prio[p] <= 254 - Prio[q]
    BY <1>1, <1>5
  <2> QED
    BY <2>1
<1> QED
  BY <1>6

\* A call goes up in priority, so a chain of calls has an end.
LEMMA TypeInvNoCallCycle == TypeInv => NoCallCycle
<1> SUFFICES ASSUME TypeInv, NEW S \in SUBSET PD, S # {}
             PROVE  \E p \in S :
                      ~(thread[p] \in {"call", "callwait"} /\ dest[p].to \in S)
  BY DEF NoCallCycle
<1>1. PICK p \in S : \A q \in S : Prio[q] <= Prio[p]
  BY HighestPriority
<1>2. SUFFICES ASSUME thread[p] \in {"call", "callwait"}, dest[p].to \in S
               PROVE  FALSE
  OBVIOUS
<1>3. Prio[p] < Prio[dest[p].to]
  BY <1>2, EndsAssumption DEF TypeInv, CallsOwnEnd
<1>4. Prio[p] \in Nat /\ Prio[dest[p].to] \in Nat
  BY <1>2, PrioAssumption
<1> QED
  BY <1>1, <1>2, <1>3, <1>4

\* However protected calls interleave, no set of PDs ever waits on itself.
THEOREM NoDeadlockedCalls == Spec => []NoCallCycle
  BY InitTypeInv, NextTypeInv, TypeInvNoCallCycle, PTL DEF Spec

-----------------------------------------------------------------------------
(* Reply objects.                                                           *)

\* A thread waits for a reply exactly while one PD's reply object is linked to
\* it: no reply is owed to two threads, and no thread waits on a reply object
\* that was used again.
ReplyLinked ==
  \A c \in PD :
    /\ Waiting(c) <=> \E p \in PD : replyTo[p] = c
    /\ \A p, q \in PD : replyTo[p] = c /\ replyTo[q] = c => p = q

\* ReplyLinked is inductive once a PD in Recv has nothing linked.
RecvUnlinked == \A p \in PD : loc[p] = "recv" => replyTo[p] = Null

LinkInv == TypeInv /\ ReplyLinked /\ RecvUnlinked

\* Initially nobody waits for a reply.
LEMMA InitLinkInv == Init => LinkInv
  BY InitTypeInv, TreeAssumption DEF Init, LinkInv, ReplyLinked, RecvUnlinked, Waiting

\* Linking to a reply object and waiting for it begin and end together.
LEMMA NextLinkInv == LinkInv /\ [Next]_vars => LinkInv'
<1> SUFFICES ASSUME LinkInv, [Next]_vars PROVE ReplyLinked' /\ RecvUnlinked'
  BY NextTypeInv DEF LinkInv
<1> USE DEF LinkInv, TypeInv, TypeOK, ReplyLinked, RecvUnlinked, Waiting, Entry
<1> USE TreeAssumption
<1>1. ASSUME NEW p \in PD, InitReturn(p) PROVE ReplyLinked' /\ RecvUnlinked'
  BY <1>1 DEF InitReturn, Running, threadVars
<1>2. ASSUME NEW p \in PD, AckIrq(p) PROVE ReplyLinked' /\ RecvUnlinked'
  BY <1>2 DEF AckIrq, Running, threadVars
<1>3. ASSUME NEW p \in PD, DeferredFlush(p) PROVE ReplyLinked' /\ RecvUnlinked'
  BY <1>3 DEF DeferredFlush, threadVars
<1>4. ASSUME NEW p \in PD, ReplyRecv(p) PROVE ReplyLinked' /\ RecvUnlinked'
  BY <1>4 DEF ReplyRecv, Reply, Running
<1>5. ASSUME NEW p \in PD, NBSendRecv(p) PROVE ReplyLinked' /\ RecvUnlinked'
  BY <1>5 DEF NBSendRecv, CutReply, Running
<1>6. ASSUME NEW p \in PD, Recv(p) PROVE ReplyLinked' /\ RecvUnlinked'
  BY <1>6 DEF Recv, CutReply, Running
<1>7. ASSUME NEW p \in PD, ReceiveNotification(p) PROVE ReplyLinked' /\ RecvUnlinked'
  BY <1>7 DEF ReceiveNotification, Woken, threadVars
<1>8. ASSUME NEW p \in PD, NEW c \in PD, ReceiveCall(p, c)
      PROVE  ReplyLinked' /\ RecvUnlinked'
  BY <1>8 DEF ReceiveCall, Woken, Running
<1>9. ASSUME NEW p \in PD, NEW c \in PD, ReceiveFault(p, c)
      PROVE  ReplyLinked' /\ RecvUnlinked'
  BY <1>9 DEF ReceiveFault, Woken, Running
<1>10. ASSUME NEW p \in PD, NotifiedReturn(p) PROVE ReplyLinked' /\ RecvUnlinked'
  BY <1>10 DEF NotifiedReturn, threadVars
<1>11. ASSUME NEW p \in PD, ProtectedReturn(p) PROVE ReplyLinked' /\ RecvUnlinked'
  BY <1>11 DEF ProtectedReturn, threadVars
<1>12. ASSUME NEW p \in PD, FaultReturn(p) PROVE ReplyLinked' /\ RecvUnlinked'
  BY <1>12 DEF FaultReturn, threadVars
<1>13. ASSUME NEW p \in PD, NEW e \in Ends, PPCall(p, e)
       PROVE  ReplyLinked' /\ RecvUnlinked'
  BY <1>13 DEF PPCall, InEntry, pdVars
<1>14. ASSUME NEW p \in PD, NEW c \in PD, PdRestart(p, c)
       PROVE  ReplyLinked' /\ RecvUnlinked'
  BY <1>14 DEF PdRestart, Unlink
<1>15. ASSUME NEW p \in PD, NEW c \in PD, PdStop(p, c)
       PROVE  ReplyLinked' /\ RecvUnlinked'
  BY <1>15 DEF PdStop, Unlink, pdVars
<1>16. ASSUME NEW p \in PD, Fault(p) PROVE ReplyLinked' /\ RecvUnlinked'
  BY <1>16 DEF Fault, InEntry, pdVars
<1>17. ASSUME UNCHANGED <<loc, threadVars>> PROVE ReplyLinked' /\ RecvUnlinked'
  BY <1>17 DEF threadVars
<1> QED
  BY <1>1, <1>2, <1>3, <1>4, <1>5, <1>6, <1>7, <1>8, <1>9, <1>10, <1>11, <1>12,
     <1>13, <1>14, <1>15, <1>16, <1>17
     DEF Next, Loop, Receive, Return, UserCall, Notify, IrqAck, DeferredNotify,
         DeferredIrqAck, Defer, IrqAssert, IrqFire, vars, pdVars

(***************************************************************************)
(* Callers are held: the PD a reply object belongs to is the one that was   *)
(* called or whose child faulted, and is in the entry point for it or on    *)
(* its way to the reply.                                                    *)
(***************************************************************************)

\* The reply object of p is linked to the thread the entry point of p is about.
HeldBy(p, c) ==
  /\ thread[c] = "callwait" => dest[c].to = p
  /\ thread[c] = "faultwait" => Parent[c] = p
  /\ p \notin MayManage =>
       /\ thread[c] = "callwait" => loc[p] \in {"protected", "top"} /\ haveReply[p]
       /\ thread[c] = "faultwait" => loc[p] \in {"fault", "top"}

Held == \A p, c \in PD : replyTo[p] = c => HeldBy(p, c)

HeldInv == LinkInv /\ Held

\* Initially no caller is held.
LEMMA InitHeldInv == Init => HeldInv
  BY InitLinkInv DEF Init, HeldInv, Held, HeldBy

\* Every step keeps the callers that are held where the loop answers them.
LEMMA NextHeldInv == HeldInv /\ [Next]_vars => HeldInv'
<1> SUFFICES ASSUME HeldInv, [Next]_vars PROVE Held'
  BY NextLinkInv DEF HeldInv
<1> USE DEF HeldInv, LinkInv, TypeInv, TypeOK, ReplyLinked, RecvUnlinked, Waiting,
        Held, HeldBy
<1> USE TreeAssumption
<1>1. ASSUME NEW p \in PD, InitReturn(p) PROVE Held'
  BY <1>1 DEF InitReturn, Running, threadVars
<1>2. ASSUME NEW p \in PD, AckIrq(p) PROVE Held'
  BY <1>2 DEF AckIrq, Running, threadVars
<1>3. ASSUME NEW p \in PD, DeferredFlush(p) PROVE Held'
  BY <1>3 DEF DeferredFlush, threadVars
<1>4. ASSUME NEW p \in PD, ReplyRecv(p) PROVE Held'
  BY <1>4 DEF ReplyRecv, Reply, Running
<1>5. ASSUME NEW p \in PD, NBSendRecv(p) PROVE Held'
  BY <1>5 DEF NBSendRecv, CutReply, Running
<1>6. ASSUME NEW p \in PD, Recv(p) PROVE Held'
  BY <1>6 DEF Recv, CutReply, Running
<1>7. ASSUME NEW p \in PD, ReceiveNotification(p) PROVE Held'
  BY <1>7 DEF ReceiveNotification, Woken, Running, threadVars
<1>8. ASSUME NEW p \in PD, NEW c \in PD, ReceiveCall(p, c) PROVE Held'
  BY <1>8 DEF ReceiveCall, Woken, Running
<1>9. ASSUME NEW p \in PD, NEW c \in PD, ReceiveFault(p, c) PROVE Held'
  BY <1>9 DEF ReceiveFault, Woken, Running
<1>10. ASSUME NEW p \in PD, NotifiedReturn(p) PROVE Held'
  BY <1>10 DEF NotifiedReturn, Running, threadVars
<1>11. ASSUME NEW p \in PD, ProtectedReturn(p) PROVE Held'
  BY <1>11 DEF ProtectedReturn, Running, threadVars
<1>12. ASSUME NEW p \in PD, FaultReturn(p) PROVE Held'
  BY <1>12 DEF FaultReturn, Running, threadVars
<1>13. ASSUME NEW p \in PD, NEW e \in Ends, PPCall(p, e) PROVE Held'
  BY <1>13 DEF PPCall, InEntry, pdVars
<1>14. ASSUME NEW p \in PD, NEW c \in PD, PdRestart(p, c) PROVE Held'
  BY <1>14 DEF PdRestart, Unlink
<1>15. ASSUME NEW p \in PD, NEW c \in PD, PdStop(p, c) PROVE Held'
  BY <1>15 DEF PdStop, Unlink, pdVars
<1>16. ASSUME NEW p \in PD, Fault(p) PROVE Held'
  BY <1>16 DEF Fault, InEntry, pdVars
<1>17. ASSUME UNCHANGED <<loc, haveReply, threadVars>> PROVE Held'
  BY <1>17 DEF threadVars
<1> QED
  BY <1>1, <1>2, <1>3, <1>4, <1>5, <1>6, <1>7, <1>8, <1>9, <1>10, <1>11, <1>12,
     <1>13, <1>14, <1>15, <1>16, <1>17
     DEF Next, Loop, Receive, Return, UserCall, Notify, IrqAck, DeferredNotify,
         DeferredIrqAck, Defer, IrqAssert, IrqFire, vars, pdVars

\* Between receiving a call or a fault and replying to it, the event loop never
\* comes back to Recv, where the caller would be lost, in any system (a PD its
\* parent may restart in the middle of an entry point is exempt).
THEOREM CallersHeld == Spec => []CallerHeld
<1>1. HeldInv => CallerHeld
  <2> SUFFICES ASSUME HeldInv, NEW c \in PD, Waiting(c), Holder(c) \notin MayManage
               PROVE  LET s == Holder(c)
                      IN /\ replyTo[s] = c
                         /\ thread[c] = "callwait" =>
                              loc[s] \in {"protected", "top"} /\ haveReply[s]
                         /\ thread[c] = "faultwait" => loc[s] \in {"fault", "top"}
    BY DEF CallerHeld
  <2>1. PICK p \in PD : replyTo[p] = c
    BY DEF HeldInv, LinkInv, ReplyLinked
  <2>2. HeldBy(p, c)
    BY <2>1 DEF HeldInv, Held
  <2>3. Holder(c) = p
    BY <2>2 DEF HeldBy, Holder, Waiting
  <2> QED
    BY <2>1, <2>2, <2>3 DEF HeldBy
<1> QED
  BY InitHeldInv, NextHeldInv, <1>1, PTL DEF Spec

-----------------------------------------------------------------------------
(* Interrupts, for PDs that make one deferred call per wakeup.              *)

\* In a handler that may still defer nothing is pending, so a deferred
\* acknowledgement is replaced in init() at most, where all are acknowledged.
DeferQuiet ==
  \A p \in PD : loc[p] \in {"notified", "protected", "fault"} /\ mayDefer[p] =>
                ~haveSignal[p]

\* IrqAccounted, with the deferred acknowledgement counted only until it is sent.
AccountedFor(i) ==
  \/ thread[i.pd] = "stop" \/ loc[i.pd] = "init"
  \/ loc[i.pd] \in {"ack", "notified"} /\ i.id \in todo[i.pd]
  \/ i.id \in ntfn[i.pd]
  \/ i \in owes
  \/ haveSignal[i.pd] /\ signalCap[i.pd] = i /\ loc[i.pd] # "recv"

Accounted == \A i \in Irqs \ armed : AccountedFor(i)

IrqInv == LinkInv /\ DeferQuiet /\ Accounted

\* Initially the interrupts are to be acknowledged by main().
LEMMA InitIrqInv == Init => IrqInv
  BY InitLinkInv, IrqsAssumption DEF Init, IrqInv, DeferQuiet, Accounted, AccountedFor

\* Every step accounts for the masked interrupts.
LEMMA NextIrqInv ==
  ASSUME DeferUnit = "wakeup"
  PROVE  IrqInv /\ [Next]_vars => IrqInv'
<1> SUFFICES ASSUME IrqInv, [Next]_vars PROVE DeferQuiet' /\ Accounted'
  BY NextLinkInv DEF IrqInv
<1> USE DEF IrqInv, LinkInv, TypeInv, TypeOK, DeferQuiet, Accounted, AccountedFor
<1> USE IrqsAssumption
<1>1. ASSUME NEW p \in PD, InitReturn(p) PROVE DeferQuiet' /\ Accounted'
  <2>1. \A i \in Irqs : i.pd = p => i.id \in IrqIds(p)
    BY DEF IrqIds
  <2>2. DeferQuiet'
    BY <1>1 DEF InitReturn, Running
  <2>3. ASSUME NEW i \in Irqs, i \notin armed'
        PROVE  AccountedFor(i)'
    BY <1>1, <2>1, <2>3 DEF InitReturn, Running, threadVars, irqVars
  <2> QED
    BY <2>2, <2>3
<1>2. ASSUME NEW p \in PD, AckIrq(p) PROVE DeferQuiet' /\ Accounted'
  <2> DEFINE low == Lowest(todo[p])
             irq == [pd |-> p, id |-> low]
  <2>1. /\ todo' = [todo EXCEPT ![p] = todo[p] \ {low}]
        /\ loc[p] = "ack" /\ thread[p] = "run"
        /\ loc' = [loc EXCEPT ![p] = IF todo[p] \ {low} = {} THEN "top" ELSE "ack"]
        /\ armed' = armed \cup {irq}
        /\ owes' = owes \ {irq}
        /\ UNCHANGED <<haveSignal, signalCap, mayDefer, thread, ntfn>>
    BY <1>2 DEF AckIrq, Running, threadVars
  <2>2. \A i \in Irqs : i.pd = p /\ i.id = low => i = irq
    OBVIOUS
  <2> HIDE DEF low, irq
  <2>3. DeferQuiet'
    BY <2>1
  <2>4. ASSUME NEW i \in Irqs, i \notin armed'
        PROVE  AccountedFor(i)'
    BY <2>1, <2>2, <2>4
  <2> QED
    BY <2>3, <2>4
<1>3. ASSUME NEW p \in PD, DeferredFlush(p) PROVE DeferQuiet' /\ Accounted'
  BY <1>3, EndsAssumption DEF DeferredFlush, Invoke, Running, threadVars
<1>4. ASSUME NEW p \in PD, ReplyRecv(p) PROVE DeferQuiet' /\ Accounted'
  BY <1>4 DEF ReplyRecv, Reply, Running, irqVars, ReplyLinked, Waiting
<1>5. ASSUME NEW p \in PD, NBSendRecv(p) PROVE DeferQuiet' /\ Accounted'
  BY <1>5, EndsAssumption DEF NBSendRecv, Invoke, CutReply, Running
<1>6. ASSUME NEW p \in PD, Recv(p) PROVE DeferQuiet' /\ Accounted'
  BY <1>6 DEF Recv, CutReply, Running, irqVars
<1>7. ASSUME NEW p \in PD, ReceiveNotification(p) PROVE DeferQuiet' /\ Accounted'
  BY <1>7 DEF ReceiveNotification, Woken, EnterNotified, Running, threadVars
<1>8. ASSUME NEW p \in PD, NEW c \in PD, ReceiveCall(p, c)
      PROVE  DeferQuiet' /\ Accounted'
  BY <1>8 DEF ReceiveCall, Woken, Running, irqVars
<1>9. ASSUME NEW p \in PD, NEW c \in PD, ReceiveFault(p, c)
      PROVE  DeferQuiet' /\ Accounted'
  BY <1>9 DEF ReceiveFault, Woken, Running, irqVars
<1>10. ASSUME NEW p \in PD, NotifiedReturn(p) PROVE DeferQuiet' /\ Accounted'
  BY <1>10 DEF NotifiedReturn, EnterNotified, Running, threadVars
<1>11. ASSUME NEW p \in PD, ProtectedReturn(p) PROVE DeferQuiet' /\ Accounted'
  BY <1>11 DEF ProtectedReturn, Running, threadVars, irqVars
<1>12. ASSUME NEW p \in PD, FaultReturn(p) PROVE DeferQuiet' /\ Accounted'
  BY <1>12 DEF FaultReturn, Running, threadVars, irqVars
<1>13. ASSUME NEW p \in PD, NEW e \in Ends, Notify(p, e)
       PROVE  DeferQuiet' /\ Accounted'
  BY <1>13, EndsAssumption DEF Notify, Invoke, pdVars, threadVars
<1>14. ASSUME NEW p \in PD, NEW i \in Irqs, IrqAck(p, i)
       PROVE  DeferQuiet' /\ Accounted'
  BY <1>14, EndsAssumption DEF IrqAck, Invoke, pdVars, threadVars
<1>15. ASSUME NEW p \in PD, NEW e \in Ends, PPCall(p, e)
       PROVE  DeferQuiet' /\ Accounted'
  BY <1>15 DEF PPCall, InEntry, pdVars, irqVars
<1>16. ASSUME NEW p \in PD, NEW e \in Ends, DeferredNotify(p, e)
       PROVE  DeferQuiet' /\ Accounted'
  BY <1>16 DEF DeferredNotify, Defer, InEntry, Entry, threadVars
<1>17. ASSUME NEW p \in PD, NEW i \in Irqs, DeferredIrqAck(p, i)
       PROVE  DeferQuiet' /\ Accounted'
  BY <1>17 DEF DeferredIrqAck, Defer, InEntry, Entry, threadVars
<1>18. ASSUME NEW p \in PD, NEW c \in PD, PdRestart(p, c)
       PROVE  DeferQuiet' /\ Accounted'
  BY <1>18 DEF PdRestart, irqVars
<1>19. ASSUME NEW p \in PD, NEW c \in PD, PdStop(p, c)
       PROVE  DeferQuiet' /\ Accounted'
  BY <1>19 DEF PdStop, pdVars, irqVars
<1>20. ASSUME NEW p \in PD, Fault(p) PROVE DeferQuiet' /\ Accounted'
  BY <1>20 DEF Fault, InEntry, pdVars, irqVars
<1>21. ASSUME NEW i \in Irqs, IrqAssert(i) PROVE DeferQuiet' /\ Accounted'
  BY <1>21 DEF IrqAssert, pdVars, threadVars
<1>22. ASSUME NEW i \in Irqs, IrqFire(i) PROVE DeferQuiet' /\ Accounted'
  BY <1>22 DEF IrqFire, pdVars, threadVars
<1>23. CASE UNCHANGED vars
  BY <1>23 DEF vars, pdVars, threadVars, irqVars
<1> QED
  BY <1>1, <1>2, <1>3, <1>4, <1>5, <1>6, <1>7, <1>8, <1>9, <1>10, <1>11, <1>12,
     <1>13, <1>14, <1>15, <1>16, <1>17, <1>18, <1>19, <1>20, <1>21, <1>22, <1>23
     DEF Next, Loop, Receive, Return, UserCall

\* A masked interrupt is never forgotten, whatever faults, restarts and stops
\* its PD goes through, if PDs make one deferred call per wakeup.
THEOREM InterruptsAccounted ==
  ASSUME DeferUnit = "wakeup"
  PROVE  Spec => []IrqAccounted
<1>1. IrqInv => IrqAccounted
  BY DEF IrqInv, Accounted, AccountedFor, IrqAccounted
<1>2. IrqInv /\ [Next]_vars => IrqInv'
  BY NextIrqInv
<1> QED
  BY InitIrqInv, <1>1, <1>2, PTL DEF Spec
-----------------------------------------------------------------------------
(* Deferred calls, for PDs that make one per wakeup and are not restarted.  *)

\* Nothing is pending for a PD in an entry point that may still defer, nor for
\* a passive one in init(), whose request to the monitor needs the place.
DeferReady ==
  \A p \in PD :
    /\ loc[p] \in Entry /\ mayDefer[p] => ~haveSignal[p]
    /\ loc[p] = "init" /\ p \in Passive => ~haveSignal[p] /\ ~mayDefer[p]

DeferInv == TypeInv /\ DeferReady /\ DeferredOnce

\* A pending deferred call is not replaced.
NotReplaced ==
  \A p \in PD : p \in unsent /\ p \in unsent' => signalCap'[p] = signalCap[p]

DeferStep == DeferReady' /\ DeferredOnce' /\ NotReplaced

\* Initially nothing is deferred.
LEMMA InitDeferInv ==
  ASSUME DeferUnit = "wakeup"
  PROVE  Init => DeferInv
  BY InitTypeInv DEF Init, DeferInv, DeferReady, DeferredOnce, InitMayDefer

\* Every step keeps the flag and what is to be sent together.
LEMMA NextDeferInv ==
  ASSUME DeferUnit = "wakeup", MayManage = {}
  PROVE  DeferInv /\ [Next]_vars => DeferInv' /\ NotReplaced
<1> SUFFICES ASSUME DeferInv, [Next]_vars PROVE DeferStep
  BY NextTypeInv DEF DeferInv, DeferStep
<1> USE DEF DeferInv, DeferStep, TypeInv, TypeOK, DeferReady, DeferredOnce, NotReplaced, Entry
<1>1. ASSUME NEW p \in PD, InitReturn(p) PROVE DeferStep
  BY <1>1 DEF InitReturn, Running, InitMayDefer
<1>2. ASSUME NEW p \in PD, AckIrq(p) PROVE DeferStep
  BY <1>2 DEF AckIrq, Running
<1>3. ASSUME NEW p \in PD, DeferredFlush(p) PROVE DeferStep
  BY <1>3 DEF DeferredFlush, Running
<1>4. ASSUME NEW p \in PD, ReplyRecv(p) PROVE DeferStep
  BY <1>4 DEF ReplyRecv, Running
<1>5. ASSUME NEW p \in PD, NBSendRecv(p) PROVE DeferStep
  BY <1>5 DEF NBSendRecv, Running
<1>6. ASSUME NEW p \in PD, Recv(p) PROVE DeferStep
  BY <1>6 DEF Recv, Running
<1>7. ASSUME NEW p \in PD, ReceiveNotification(p) PROVE DeferStep
  BY <1>7 DEF ReceiveNotification, Woken, Running
<1>8. ASSUME NEW p \in PD, NEW c \in PD, ReceiveCall(p, c) PROVE DeferStep
  BY <1>8 DEF ReceiveCall, Woken, Running
<1>9. ASSUME NEW p \in PD, NEW c \in PD, ReceiveFault(p, c) PROVE DeferStep
  BY <1>9 DEF ReceiveFault, Woken, Running
<1>10. ASSUME NEW p \in PD, NotifiedReturn(p) PROVE DeferStep
  BY <1>10 DEF NotifiedReturn, Running
<1>11. ASSUME NEW p \in PD, ProtectedReturn(p) PROVE DeferStep
  BY <1>11 DEF ProtectedReturn, Running
<1>12. ASSUME NEW p \in PD, FaultReturn(p) PROVE DeferStep
  BY <1>12 DEF FaultReturn, Running
<1>13. ASSUME NEW p \in PD, NEW e \in Ends, Notify(p, e) PROVE DeferStep
  BY <1>13 DEF Notify, pdVars
<1>14. ASSUME NEW p \in PD, NEW i \in Irqs, IrqAck(p, i) PROVE DeferStep
  BY <1>14 DEF IrqAck, pdVars
<1>15. ASSUME NEW p \in PD, NEW e \in Ends, PPCall(p, e) PROVE DeferStep
  BY <1>15 DEF PPCall, pdVars
<1>16. ASSUME NEW p \in PD, NEW e \in Ends, DeferredNotify(p, e) PROVE DeferStep
  BY <1>16 DEF DeferredNotify, Defer, InEntry, Entry
<1>17. ASSUME NEW p \in PD, NEW i \in Irqs, DeferredIrqAck(p, i) PROVE DeferStep
  BY <1>17 DEF DeferredIrqAck, Defer, InEntry, Entry
<1>18. ASSUME NEW p \in PD, NEW c \in PD, PdRestart(p, c) PROVE DeferStep
  BY <1>18 DEF PdRestart
<1>19. ASSUME NEW p \in PD, NEW c \in PD, PdStop(p, c) PROVE DeferStep
  BY <1>19 DEF PdStop, pdVars
<1>20. ASSUME NEW p \in PD, Fault(p) PROVE DeferStep
  BY <1>20 DEF Fault, pdVars
<1>21. ASSUME NEW i \in Irqs, IrqAssert(i) PROVE DeferStep
  BY <1>21 DEF IrqAssert, pdVars
<1>22. ASSUME NEW i \in Irqs, IrqFire(i) PROVE DeferStep
  BY <1>22 DEF IrqFire, pdVars
<1>23. CASE UNCHANGED vars
  BY <1>23 DEF vars, pdVars
<1> QED
  BY <1>1, <1>2, <1>3, <1>4, <1>5, <1>6, <1>7, <1>8, <1>9, <1>10, <1>11, <1>12,
     <1>13, <1>14, <1>15, <1>16, <1>17, <1>18, <1>19, <1>20, <1>21, <1>22, <1>23
     DEF Next, Loop, Receive, Return, UserCall

\* In any system whose PDs make one deferred call per wakeup and are neither
\* restarted nor stopped, the flag says in every state what is still to be sent.
THEOREM DeferredCallsOnce ==
  ASSUME DeferUnit = "wakeup", MayManage = {}
  PROVE  Spec => []DeferredOnce
<1>1. Init => DeferInv
  BY InitDeferInv
<1>2. DeferInv /\ [Next]_vars => DeferInv'
  BY NextDeferInv
<1>3. DeferInv => DeferredOnce
  BY DEF DeferInv
<1> QED
  BY <1>1, <1>2, <1>3, PTL DEF Spec

\* In such a system no deferred call is replaced before it is sent, not even by
\* the request to the monitor at the end of init().
THEOREM DeferredCallsKept ==
  ASSUME DeferUnit = "wakeup", MayManage = {}
  PROVE  Spec => DeferredNeverLost
<1>1. Init => DeferInv
  BY InitDeferInv
<1>2. DeferInv /\ [Next]_vars => DeferInv' /\ [NotReplaced]_vars
  BY NextDeferInv
<1>3. Spec => [][NotReplaced]_vars
  BY <1>1, <1>2, PTL DEF Spec
<1> QED
  BY <1>3 DEF DeferredNeverLost, NotReplaced
=============================================================================
