---------------------- MODULE PassiveHandshake_proofs -----------------------
(* Proofs about PassiveHandshake: no request to become passive is lost if   *)
(* the passive PDs run on the monitor's core.                               *)
EXTENDS PassiveHandshake, TLAPS

\* While it handles a message the monitor knows whose it is.
Badged == monitor \in {"request", "fault"} => badgePD \in PD

TypeInv == TypeOK /\ Badged

\* Initially the types hold.
LEMMA InitTypeInv == Init => TypeInv
  BY DEF Init, TypeInv, TypeOK, Badged

\* Every step keeps the types.
LEMMA NextTypeInv == TypeInv /\ [Next]_vars => TypeInv'
<1> SUFFICES ASSUME TypeInv, [Next]_vars PROVE TypeInv'
  OBVIOUS
<1> USE PDAssumption DEF TypeInv, TypeOK, Badged, monVars
<1>1. ASSUME MonitorRecv
      PROVE  /\ monitor' \in {"recv", "fault"}
             /\ monitor' = "fault" => badgePD' \in PD
             /\ badgePD' \in PD \cup {NoPD}
             /\ monReply' \in PD \cup {NoPD}
             /\ thread' \in [PD -> {"run", "fault", "faultwait", "stop"}]
  <2> DEFINE released == [c \in PD |-> IF c = monReply THEN "stop" ELSE thread[c]]
  <2>1. released \in [PD -> {"run", "fault", "faultwait", "stop"}]
    OBVIOUS
  <2> HIDE DEF released
  <2>2. CASE /\ thread' = released
             /\ monitor' = "recv" /\ badgePD' = NoPD /\ monReply' = NoPD
    BY <2>1, <2>2
  <2>3. ASSUME NEW c \in PD,
               thread' = [released EXCEPT ![c] = "faultwait"],
               monitor' = "fault" /\ badgePD' = c /\ monReply' = c
        PROVE  /\ monitor' = "fault" /\ badgePD' \in PD /\ monReply' \in PD
               /\ thread' \in [PD -> {"run", "fault", "faultwait", "stop"}]
    BY <2>1, <2>3
  <2> QED
    BY <1>1, <2>2, <2>3 DEF MonitorRecv, released
<1>2. ASSUME Monitor PROVE TypeInv'
  BY <1>1, <1>2 DEF Monitor, MonitorStart, MonitorBind, MonitorFault
<1>3. ASSUME NEW p \in PD, PdStep(p) PROVE TypeInv'
  BY <1>3 DEF PdStep, InitReturn, Ask, Wait, HandlerReturn, ReturnSC
<1>4. ASSUME NEW p \in PD, Wake(p) \/ Fault(p) PROVE TypeInv'
  BY <1>4 DEF Wake, Fault
<1>5. ASSUME NEW p \in PD, NEW c \in PD, Restart(p, c) PROVE TypeInv'
  BY <1>5 DEF Restart
<1>6. CASE UNCHANGED vars
  BY <1>6 DEF vars
<1> QED
  BY <1>2, <1>3, <1>4, <1>5, <1>6 DEF Next

\* Every variable keeps to its type.
THEOREM TypeCorrect == Spec => []TypeOK
<1>1. TypeInv => TypeOK
  BY DEF TypeInv
<1> QED
  BY InitTypeInv, NextTypeInv, <1>1, PTL DEF Spec

-----------------------------------------------------------------------------
\* A passive PD between init() and its first wait has its request pending,
\* after that the monitor has it or has bound the scheduling context.
Served(p) == p \in bound \/ (monitor = "request" /\ badgePD = p)

Pending ==
  \A p \in Passive :
    /\ pc[p] = "top" => p \in asking \/ Served(p)
    /\ pc[p] \in {"recv", "handler"} => Served(p)

OnlyPassiveAsk == asking \subseteq Passive

CoreInv == TypeInv /\ Pending /\ OnlyPassiveAsk

PassiveWithMonitor == \A p \in Passive : Core[p] = MonitorCore

\* Every step keeps the requests on the monitor's core in order.
LEMMA NextCoreInv ==
  ASSUME PassiveWithMonitor
  PROVE  CoreInv /\ [Next]_vars => CoreInv'
<1> SUFFICES ASSUME CoreInv, [Next]_vars
             PROVE  Pending' /\ OnlyPassiveAsk'
  BY NextTypeInv DEF CoreInv
<1> USE PDAssumption DEF CoreInv, TypeInv, TypeOK, Pending, OnlyPassiveAsk, Served,
              monVars
<1>1. CASE Monitor
  <2>1. monitor = "request" => bound' = bound \cup {badgePD}
    BY <1>1 DEF Monitor, MonitorStart, MonitorBind, MonitorFault
  <2>2. monitor # "request" => bound' = bound
    BY <1>1 DEF Monitor, MonitorStart, MonitorBind, MonitorFault
  <2>3. pc' = pc /\ asking' = asking
    BY <1>1 DEF Monitor, MonitorStart, MonitorBind, MonitorFault
  <2> QED
    BY <2>1, <2>2, <2>3
<1>2. ASSUME NEW p \in PD, InitReturn(p) PROVE Pending' /\ OnlyPassiveAsk'
  BY <1>2 DEF InitReturn
<1>3. ASSUME NEW p \in PD, Ask(p) PROVE Pending' /\ OnlyPassiveAsk'
  <2>1. p \in Passive /\ monitor = "recv"
    BY <1>3, PassiveWithMonitor DEF Ask, Runs, PassiveWithMonitor
  <2> QED
    BY <1>3, <2>1 DEF Ask
<1>4. ASSUME NEW p \in PD, Wait(p) PROVE Pending' /\ OnlyPassiveAsk'
  BY <1>4 DEF Wait
<1>5. ASSUME NEW p \in PD, Wake(p) PROVE Pending' /\ OnlyPassiveAsk'
  <2>1. p \in Passive => monitor = "recv"
    BY <1>5, PassiveWithMonitor DEF Wake, PassiveWithMonitor
  <2> QED
    BY <1>5, <2>1 DEF Wake
<1>6. ASSUME NEW p \in PD, HandlerReturn(p) PROVE Pending' /\ OnlyPassiveAsk'
  BY <1>6 DEF HandlerReturn
<1>7. ASSUME NEW p \in PD, Fault(p) PROVE Pending' /\ OnlyPassiveAsk'
  BY <1>7 DEF Fault
<1>8. ASSUME NEW p \in PD, NEW c \in PD, Restart(p, c)
      PROVE  Pending' /\ OnlyPassiveAsk'
  BY <1>8 DEF Restart
<1>9. CASE UNCHANGED vars
  BY <1>9 DEF vars
<1> QED
  BY <1>1, <1>2, <1>3, <1>4, <1>5, <1>6, <1>7, <1>8, <1>9 DEF Next, PdStep

\* When the passive PDs share the monitor's core, every request reaches the
\* monitor: whatever the other PDs do on other cores, and with any faults and
\* restarts.
THEOREM NoRequestLost ==
  ASSUME PassiveWithMonitor
  PROVE  Spec => []RequestServed
<1>1. Init => CoreInv
  BY InitTypeInv, PDAssumption DEF Init, CoreInv, Pending, OnlyPassiveAsk
<1>2. CoreInv => RequestServed
  BY DEF CoreInv, Pending, Served, RequestServed
<1>3. CoreInv /\ [Next]_vars => CoreInv'
  BY NextCoreInv
<1> QED
  BY <1>1, <1>2, <1>3, PTL DEF Spec

-----------------------------------------------------------------------------
\* Only PDs that may fault are stopped, and only such a PD is linked to the
\* monitor's reply object.
OnlyFaultsStop ==
  /\ \A p \in PD : thread[p] # "run" => p \in MayFault
  /\ monReply # NoPD => monReply \in MayFault

FaultInv == TypeInv /\ OnlyFaultsStop

\* A thread that faulted does not run again.
StaysStopped ==
  \A p \in PD : thread[p] \in {"fault", "faultwait", "stop"} => thread'[p] # "run"

\* Nothing but a fault stops a PD, and no step starts it again.
LEMMA NextFaultInv ==
  ASSUME MayFault \cap MayRestart = {}
  PROVE  FaultInv /\ [Next]_vars => FaultInv' /\ StaysStopped
<1> SUFFICES ASSUME FaultInv, [Next]_vars
             PROVE  OnlyFaultsStop' /\ StaysStopped
  BY NextTypeInv DEF FaultInv
<1> USE PDAssumption DEF FaultInv, TypeInv, TypeOK, OnlyFaultsStop, StaysStopped, monVars
<1>1. CASE Monitor
  <2>1. MonitorRecv
    BY <1>1 DEF Monitor, MonitorStart, MonitorBind, MonitorFault
  <2> DEFINE released == [c \in PD |-> IF c = monReply THEN "stop" ELSE thread[c]]
  <2>2. CASE thread' = released /\ monReply' = NoPD
    BY <2>2
  <2>3. ASSUME NEW c \in PD, thread[c] = "fault", monReply' = c,
               thread' = [released EXCEPT ![c] = "faultwait"]
        PROVE  OnlyFaultsStop' /\ StaysStopped
    BY <2>3
  <2> QED
    BY <2>1, <2>2, <2>3 DEF MonitorRecv
<1>2. ASSUME NEW p \in PD, PdStep(p) \/ Wake(p)
      PROVE  OnlyFaultsStop' /\ StaysStopped
  BY <1>2 DEF PdStep, InitReturn, Ask, Wait, HandlerReturn, Wake
<1>3. ASSUME NEW p \in PD, Fault(p) PROVE OnlyFaultsStop' /\ StaysStopped
  BY <1>3 DEF Fault, Runs
<1>4. ASSUME NEW p \in PD, NEW c \in PD, Restart(p, c)
      PROVE  OnlyFaultsStop' /\ StaysStopped
  BY <1>4 DEF Restart
<1>5. CASE UNCHANGED vars
  BY <1>5 DEF vars
<1> QED
  BY <1>1, <1>2, <1>3, <1>4, <1>5 DEF Next

\* A fault the monitor takes, or finds in the queue, ends its PD, however the
\* faults and requests of others use the monitor's one reply object; unless the
\* PD has a parent that restarts it.
THEOREM FaultsEndPDs ==
  ASSUME MayFault \cap MayRestart = {}
  PROVE  Spec => FaultIsFinal
<1>1. Init => FaultInv
  BY InitTypeInv DEF Init, FaultInv, OnlyFaultsStop
<1>2. FaultInv /\ [Next]_vars => FaultInv' /\ [StaysStopped]_vars
  BY NextFaultInv
<1>3. Spec => [][StaysStopped]_vars
  BY <1>1, <1>2, PTL DEF Spec
<1> QED
  BY <1>3 DEF FaultIsFinal, StaysStopped
=============================================================================
