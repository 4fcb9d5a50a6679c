------------------------------ MODULE PdRuntime ------------------------------
(***************************************************************************)
(* The event loop every protection domain (PD) runs, handler_loop() and    *)
(* main() of libmicrokit/src/main.c with the calls of microkit.h, composed *)
(* with the part of the seL4 MCS kernel it relies on: notification words,  *)
(* endpoints, one reply object per PD, and IRQ handlers.                   *)
(*                                                                         *)
(* User code is an environment: inside an entry point a PD may make any    *)
(* libmicrokit call the capabilities it was given allow.                   *)
(*                                                                         *)
(* seL4 delivers a message to a PD blocked in Recv at once; here the PD    *)
(* sits in "recv" and a later step picks the message, notification word    *)
(* first as seL4 does on Recv.  Every eager delivery is one of these       *)
(* behaviours.  Scheduling contexts are left to module PassiveHandshake.   *)
(***************************************************************************)
EXTENDS Naturals, FiniteSets

CONSTANTS
  PD,         \* the protection domains of the system
  Prio,       \* their priorities
  Ends,       \* channel ends, as [pd, id, to, toId, notify, pp]
  Irqs,       \* interrupts, as [pd, id]
  Parent,     \* the parent PD of each PD, or Null
  Passive,    \* the PDs with passive="true"
  Null,       \* no PD, no end
  MonitorEP,  \* the capability to the monitor's endpoint
  DeferUnit,  \* a PD makes one deferred call per "wakeup" or per "entry" point
  MayFault,   \* the PDs whose code may fault
  MayManage   \* the PDs whose parent restarts and stops them

Id == 0 .. 61
Cap == Ends \cup Irqs \cup {MonitorEP}

\* What sdf.rs accepts: ids are unique in a PD, and a protected procedure
\* call goes to a strictly higher priority (sdf.rs:2134-2170).
ASSUME PrioAssumption == Prio \in [PD -> 0 .. 254]
ASSUME EndsAssumption ==
  /\ Ends \subseteq [pd : PD, id : Id, to : PD, toId : Id,
                     notify : BOOLEAN, pp : BOOLEAN]
  /\ \A e \in Ends : e.pp => Prio[e.pd] < Prio[e.to]
ASSUME IrqsAssumption ==
  /\ Irqs \subseteq [pd : PD, id : Id]
  /\ \A i \in Irqs, e \in Ends : ~(e.to = i.pd /\ e.toId = i.id)
ASSUME TreeAssumption ==
  /\ Null \notin PD
  /\ Null \notin Ends
  /\ Parent \in [PD -> PD \cup {Null}]
ASSUME OptionsAssumption ==
  /\ Passive \subseteq PD
  /\ MayFault \subseteq PD
  /\ MayManage \subseteq PD
  /\ DeferUnit \in {"wakeup", "entry"}

VARIABLES
  loc,         \* where the PD's code is: an entry point, "ack", "top" or "recv"
  cur,         \* the channel the entry point was called with
  todo,        \* bits of the badge (or of irqs_to_ack) still to be walked
  haveReply,   \* have_reply
  haveSignal,  \* microkit_have_signal
  signalCap,   \* microkit_signal_cap
  mayDefer,    \* the PD has not used its one deferred call yet
  thread,      \* the kernel's thread state
  dest,        \* the channel end a thread calls through
  replyTo,     \* the thread linked to the PD's reply object
  ntfn,        \* the PD's notification word
  armed,       \* the unmasked interrupts
  line,        \* the interrupts the devices assert
  owes,        \* history: interrupts notified and not acknowledged since
  unsent       \* history: PDs with a deferred call still to be performed

pdVars     == <<loc, cur, todo, haveReply, haveSignal, signalCap, mayDefer>>
threadVars == <<thread, dest, replyTo>>
irqVars    == <<armed, line, owes>>
vars       == <<pdVars, threadVars, ntfn, irqVars, unsent>>

Entry  == {"init", "notified", "protected", "fault"}
Thread == {"run", "call", "callwait", "fault", "faultwait", "stop"}

IrqIds(p)      == {i.id : i \in {j \in Irqs : j.pd = p}}
Lowest(S)      == CHOOSE i \in S : \A j \in S : i <= j
Running(p, l)  == thread[p] = "run" /\ loc[p] = l
InEntry(p)     == thread[p] = "run" /\ loc[p] \in Entry

\* The PDs, threads and interrupts have their types; in particular no id above 61,
\* the last one the badge has a bit for, is ever notified.
TypeOK ==
  /\ loc \in [PD -> Entry \cup {"ack", "top", "recv"}]
  /\ cur \in [PD -> Id]
  /\ todo \in [PD -> SUBSET Id]
  /\ haveReply \in [PD -> BOOLEAN]
  /\ haveSignal \in [PD -> BOOLEAN]
  /\ signalCap \in [PD -> Cap]
  /\ mayDefer \in [PD -> BOOLEAN]
  /\ thread \in [PD -> Thread]
  /\ dest \in [PD -> Ends \cup {Null}]
  /\ replyTo \in [PD -> PD \cup {Null}]
  /\ ntfn \in [PD -> SUBSET Id]
  /\ armed \subseteq Irqs
  /\ line \subseteq Irqs
  /\ owes \subseteq Irqs
  /\ unsent \subseteq PD

\* A passive PD that keeps to one deferred call per wakeup makes none in init():
\* main() uses the one pending signal for its request to the monitor.
InitMayDefer(p) == DeferUnit = "entry" \/ p \notin Passive

\* The kernel may hand an interrupt over masked (seL4 issue 1536).
Init ==
  /\ loc = [p \in PD |-> "init"]
  /\ cur = [p \in PD |-> 0]
  /\ todo = [p \in PD |-> {}]
  /\ haveReply = [p \in PD |-> FALSE]
  /\ haveSignal = [p \in PD |-> FALSE]
  /\ signalCap = [p \in PD |-> MonitorEP]
  /\ mayDefer = [p \in PD |-> InitMayDefer(p)]
  /\ thread = [p \in PD |-> "run"]
  /\ dest = [p \in PD |-> Null]
  /\ replyTo = [p \in PD |-> Null]
  /\ ntfn = [p \in PD |-> {}]
  /\ armed \in SUBSET Irqs
  /\ line = {}
  /\ owes = {}
  /\ unsent = {}

-----------------------------------------------------------------------------
(* Kernel services used by several actions.                                *)

\* Invoking a notification capability signals, an IRQ handler capability with
\* label IRQAckIRQ unmasks.  The monitor's side is in PassiveHandshake.
Invoke(cap) ==
  /\ ntfn' = IF cap \in Ends
               THEN [ntfn EXCEPT ![cap.to] = @ \cup {cap.toId}] ELSE ntfn
  /\ armed' = IF cap \in Irqs THEN armed \cup {cap} ELSE armed

\* seL4_Recv on REPLY_CAP: a thread still linked to the reply object loses its
\* reply for good and is left inactive.
CutReply(p) ==
  /\ thread' = [c \in PD |-> IF c = replyTo[p] THEN "stop" ELSE thread[c]]
  /\ replyTo' = [replyTo EXCEPT ![p] = Null]

\* The reply object delivers: the linked thread runs again where it stood.
Reply(p) ==
  /\ thread' = [c \in PD |-> IF c = replyTo[p] THEN "run" ELSE thread[c]]
  /\ replyTo' = [replyTo EXCEPT ![p] = Null]

\* cancelIPC on thread c: any reply object linked to it is unlinked.
Unlink(c) == [p \in PD |-> IF replyTo[p] = c THEN Null ELSE replyTo[p]]

-----------------------------------------------------------------------------
(* main() and handler_loop().                                              *)

\* Mutant: no acknowledgement of the interrupts at start.
InitReturnNoAck(p) ==
  /\ Running(p, "init")
  /\ loc' = [loc EXCEPT ![p] = "top"]
  /\ haveReply' = [haveReply EXCEPT ![p] = FALSE]
  /\ haveSignal' = [haveSignal EXCEPT ![p] = @ \/ p \in Passive]
  /\ signalCap' = [signalCap EXCEPT ![p] = IF p \in Passive THEN MonitorEP ELSE @]
  /\ unsent' = IF p \in Passive THEN unsent \cup {p} ELSE unsent
  /\ UNCHANGED <<cur, todo, mayDefer, threadVars, ntfn, irqVars>>

InitReturn(p) ==
  /\ Running(p, "init")
  /\ loc' = [loc EXCEPT ![p] = IF IrqIds(p) = {} THEN "top" ELSE "ack"]
  /\ todo' = [todo EXCEPT ![p] = IrqIds(p)]
  /\ haveReply' = [haveReply EXCEPT ![p] = FALSE]
  /\ haveSignal' = [haveSignal EXCEPT ![p] = @ \/ p \in Passive]
  /\ signalCap' = [signalCap EXCEPT ![p] = IF p \in Passive THEN MonitorEP ELSE @]
  /\ unsent' = IF p \in Passive THEN unsent \cup {p} ELSE unsent
  /\ UNCHANGED <<cur, mayDefer, threadVars, ntfn, irqVars>>

\* One round of the loop that acknowledges every interrupt once at start.
AckIrq(p) ==
  /\ Running(p, "ack")
  /\ LET low  == Lowest(todo[p])
         rest == todo[p] \ {low}
         irq  == [pd |-> p, id |-> low]
     IN /\ todo' = [todo EXCEPT ![p] = rest]
        /\ loc' = [loc EXCEPT ![p] = IF rest = {} THEN "top" ELSE "ack"]
        /\ armed' = armed \cup {irq}
        /\ owes' = owes \ {irq}
  /\ UNCHANGED <<cur, haveReply, haveSignal, signalCap, mayDefer, threadVars,
                 ntfn, line, unsent>>

\* deferred_flush(), on the way to seL4_ReplyRecv.
DeferredFlush(p) ==
  /\ Running(p, "top") /\ haveReply[p] /\ haveSignal[p]
  /\ Invoke(signalCap[p])
  /\ haveSignal' = [haveSignal EXCEPT ![p] = FALSE]
  /\ unsent' = unsent \ {p}
  /\ UNCHANGED <<loc, cur, todo, haveReply, signalCap, mayDefer, threadVars,
                 line, owes>>

ReplyRecv(p) ==
  /\ Running(p, "top") /\ haveReply[p] /\ ~haveSignal[p]
  /\ Reply(p)
  /\ loc' = [loc EXCEPT ![p] = "recv"]
  /\ UNCHANGED <<cur, todo, haveReply, haveSignal, signalCap, mayDefer, dest,
                 ntfn, irqVars, unsent>>

\* microkit_have_signal is cleared only when the system call returns.
NBSendRecv(p) ==
  /\ Running(p, "top") /\ ~haveReply[p] /\ haveSignal[p]
  /\ Invoke(signalCap[p])
  /\ CutReply(p)
  /\ loc' = [loc EXCEPT ![p] = "recv"]
  /\ unsent' = unsent \ {p}
  /\ UNCHANGED <<cur, todo, haveReply, haveSignal, signalCap, mayDefer, dest,
                 line, owes>>

\* Mutant: the loop looks at have_reply only, and waits with a signal to send.
RecvUnsent(p) ==
  /\ Running(p, "top") /\ ~haveReply[p]
  /\ CutReply(p)
  /\ loc' = [loc EXCEPT ![p] = "recv"]
  /\ UNCHANGED <<cur, todo, haveReply, haveSignal, signalCap, mayDefer, dest,
                 ntfn, irqVars, unsent>>

Recv(p) ==
  /\ Running(p, "top") /\ ~haveReply[p] /\ ~haveSignal[p]
  /\ CutReply(p)
  /\ loc' = [loc EXCEPT ![p] = "recv"]
  /\ UNCHANGED <<cur, todo, haveReply, haveSignal, signalCap, mayDefer, dest,
                 ntfn, irqVars, unsent>>

\* Mutant: microkit_have_signal is not cleared after seL4_NBSendRecv.
WokenKeepsSignal(p, entry, reply) ==
  /\ loc' = [loc EXCEPT ![p] = entry]
  /\ haveReply' = [haveReply EXCEPT ![p] = reply]
  /\ mayDefer' = [mayDefer EXCEPT ![p] = TRUE]
  /\ UNCHANGED haveSignal

\* What the loop does with every badge before it looks at it.
Woken(p, entry, reply) ==
  /\ loc' = [loc EXCEPT ![p] = entry]
  /\ haveReply' = [haveReply EXCEPT ![p] = reply]
  /\ haveSignal' = [haveSignal EXCEPT ![p] = FALSE]
  /\ mayDefer' = [mayDefer EXCEPT ![p] = TRUE]

\* notified(idx) is entered for the lowest bit of word, the others wait.
EnterNotified(p, word) ==
  /\ cur' = [cur EXCEPT ![p] = Lowest(word)]
  /\ todo' = [todo EXCEPT ![p] = word \ {Lowest(word)}]
  /\ owes' = owes \cup {i \in Irqs : i.pd = p /\ i.id = Lowest(word)}

ReceiveNotification(p) ==
  /\ Running(p, "recv") /\ ntfn[p] # {}
  /\ Woken(p, "notified", FALSE)
  /\ EnterNotified(p, ntfn[p])
  /\ ntfn' = [ntfn EXCEPT ![p] = {}]
  /\ UNCHANGED <<signalCap, threadVars, armed, line, unsent>>

\* Mutant: have_reply = false comes after the dispatch on the badge.
ReceiveCallNoReply(p, c) ==
  /\ Running(p, "recv") /\ ntfn[p] = {}
  /\ thread[c] = "call" /\ dest[c].to = p
  /\ Woken(p, "protected", FALSE)
  /\ cur' = [cur EXCEPT ![p] = dest[c].toId]
  /\ thread' = [thread EXCEPT ![c] = "callwait"]
  /\ replyTo' = [replyTo EXCEPT ![p] = c]
  /\ UNCHANGED <<todo, signalCap, dest, ntfn, irqVars, unsent>>

ReceiveCall(p, c) ==
  /\ Running(p, "recv") /\ ntfn[p] = {}
  /\ thread[c] = "call" /\ dest[c].to = p
  /\ Woken(p, "protected", TRUE)
  /\ cur' = [cur EXCEPT ![p] = dest[c].toId]
  /\ thread' = [thread EXCEPT ![c] = "callwait"]
  /\ replyTo' = [replyTo EXCEPT ![p] = c]
  /\ UNCHANGED <<todo, signalCap, dest, ntfn, irqVars, unsent>>

\* Mutant: the fault endpoint of a child is its own, not its parent's.
ReceiveFaultSwapped(p, c) ==
  /\ Running(p, "recv") /\ ntfn[p] = {}
  /\ thread[c] = "fault" /\ Parent[p] = c
  /\ Woken(p, "fault", FALSE)
  /\ thread' = [thread EXCEPT ![c] = "faultwait"]
  /\ replyTo' = [replyTo EXCEPT ![p] = c]
  /\ UNCHANGED <<cur, todo, signalCap, dest, ntfn, irqVars, unsent>>

\* Mutant: BADGE_ENDPOINT_BIT is the bit of a fault.
ReceiveFaultAsCall(p, c) ==
  /\ Running(p, "recv") /\ ntfn[p] = {}
  /\ thread[c] = "fault" /\ Parent[c] = p
  /\ Woken(p, "protected", TRUE)
  /\ thread' = [thread EXCEPT ![c] = "faultwait"]
  /\ replyTo' = [replyTo EXCEPT ![p] = c]
  /\ UNCHANGED <<cur, todo, signalCap, dest, ntfn, irqVars, unsent>>

ReceiveFault(p, c) ==
  /\ Running(p, "recv") /\ ntfn[p] = {}
  /\ thread[c] = "fault" /\ Parent[c] = p
  /\ Woken(p, "fault", FALSE)
  /\ thread' = [thread EXCEPT ![c] = "faultwait"]
  /\ replyTo' = [replyTo EXCEPT ![p] = c]
  /\ UNCHANGED <<cur, todo, signalCap, dest, ntfn, irqVars, unsent>>

\* Mutant: only the lowest bit of the badge is handled.
NotifiedReturnOnce(p) ==
  /\ Running(p, "notified")
  /\ loc' = [loc EXCEPT ![p] = "top"]
  /\ todo' = [todo EXCEPT ![p] = {}]
  /\ UNCHANGED <<cur, haveReply, haveSignal, signalCap, mayDefer, threadVars,
                 ntfn, irqVars, unsent>>

\* notified() returns: on to the next bit of the badge, or round the loop.
NotifiedReturn(p) ==
  /\ Running(p, "notified")
  /\ IF todo[p] = {}
       THEN /\ loc' = [loc EXCEPT ![p] = "top"]
            /\ UNCHANGED <<cur, todo, owes, mayDefer>>
       ELSE /\ EnterNotified(p, todo[p])
            /\ mayDefer' = [mayDefer EXCEPT ![p] = @ \/ DeferUnit = "entry"]
            /\ UNCHANGED loc
  /\ UNCHANGED <<haveReply, haveSignal, signalCap, threadVars, ntfn, armed, line,
                 unsent>>

ProtectedReturn(p) ==
  /\ Running(p, "protected")
  /\ loc' = [loc EXCEPT ![p] = "top"]
  /\ UNCHANGED <<cur, todo, haveReply, haveSignal, signalCap, mayDefer,
                 threadVars, ntfn, irqVars, unsent>>

\* fault() says whether the faulting child gets a reply.
FaultReturn(p) ==
  /\ Running(p, "fault")
  /\ loc' = [loc EXCEPT ![p] = "top"]
  /\ \E reply \in BOOLEAN : haveReply' = [haveReply EXCEPT ![p] = reply]
  /\ UNCHANGED <<cur, todo, haveSignal, signalCap, mayDefer, threadVars, ntfn,
                 irqVars, unsent>>

-----------------------------------------------------------------------------
(* Calls of microkit.h, made by user code inside an entry point.           *)

Notify(p, e) ==
  /\ InEntry(p) /\ e.pd = p /\ e.notify
  /\ Invoke(e)
  /\ UNCHANGED <<pdVars, threadVars, line, owes, unsent>>

IrqAck(p, i) ==
  /\ InEntry(p) /\ i.pd = p
  /\ Invoke(i)
  /\ owes' = owes \ {i}
  /\ UNCHANGED <<pdVars, threadVars, line, unsent>>

\* Mutant: the check against microkit_pps is missing.
PPCallAnyChannel(p, e) ==
  /\ InEntry(p) /\ e.pd = p
  /\ thread' = [thread EXCEPT ![p] = "call"]
  /\ dest' = [dest EXCEPT ![p] = e]
  /\ UNCHANGED <<pdVars, replyTo, ntfn, irqVars, unsent>>

PPCall(p, e) ==
  /\ InEntry(p) /\ e.pd = p /\ e.pp
  /\ thread' = [thread EXCEPT ![p] = "call"]
  /\ dest' = [dest EXCEPT ![p] = e]
  /\ UNCHANGED <<pdVars, replyTo, ntfn, irqVars, unsent>>

\* Both deferred calls store one capability for the next system call.
Defer(p, cap) ==
  /\ InEntry(p) /\ mayDefer[p]
  /\ haveSignal' = [haveSignal EXCEPT ![p] = TRUE]
  /\ signalCap' = [signalCap EXCEPT ![p] = cap]
  /\ mayDefer' = [mayDefer EXCEPT ![p] = FALSE]
  /\ unsent' = unsent \cup {p}
  /\ UNCHANGED <<loc, cur, todo, haveReply, threadVars, ntfn, armed, line>>

DeferredNotify(p, e) ==
  /\ e.pd = p /\ e.notify
  /\ Defer(p, e)
  /\ UNCHANGED owes

DeferredIrqAck(p, i) ==
  /\ i.pd = p
  /\ Defer(p, i)
  /\ owes' = owes \ {i}

\* microkit_pd_restart(): the child's program starts again, its globals stay.
PdRestart(p, c) ==
  /\ InEntry(p) /\ c \in MayManage /\ Parent[c] = p /\ c # p
  /\ thread' = [thread EXCEPT ![c] = "run"]
  /\ replyTo' = Unlink(c)
  /\ loc' = [loc EXCEPT ![c] = "init"]
  /\ todo' = [todo EXCEPT ![c] = {}]
  /\ mayDefer' = [mayDefer EXCEPT ![c] = InitMayDefer(c)]
  /\ UNCHANGED <<cur, haveReply, haveSignal, signalCap, dest, ntfn, irqVars,
                 unsent>>

PdStop(p, c) ==
  /\ InEntry(p) /\ c \in MayManage /\ Parent[c] = p /\ c # p
  /\ thread' = [thread EXCEPT ![c] = "stop"]
  /\ replyTo' = Unlink(c)
  /\ UNCHANGED <<pdVars, dest, ntfn, irqVars, unsent>>

-----------------------------------------------------------------------------
(* The environment: faults of user code, and the devices.                  *)

\* A fault goes to the parent's endpoint; without a parent, to the monitor,
\* which prints it and never replies.
Fault(p) ==
  /\ InEntry(p) /\ p \in MayFault
  /\ thread' = [thread EXCEPT ![p] = IF Parent[p] = Null THEN "stop" ELSE "fault"]
  /\ UNCHANGED <<pdVars, dest, replyTo, ntfn, irqVars, unsent>>

IrqAssert(i) ==
  /\ i \notin line
  /\ line' = line \cup {i}
  /\ UNCHANGED <<pdVars, threadVars, ntfn, armed, owes, unsent>>

\* The kernel signals the bound notification and masks the interrupt.
IrqFire(i) ==
  /\ i \in line \cap armed
  /\ ntfn' = [ntfn EXCEPT ![i.pd] = @ \cup {i.id}]
  /\ armed' = armed \ {i}
  /\ line' = line \ {i}
  /\ UNCHANGED <<pdVars, threadVars, owes, unsent>>

-----------------------------------------------------------------------------
Return(p) ==
  InitReturn(p) \/ NotifiedReturn(p) \/ ProtectedReturn(p) \/ FaultReturn(p)

Receive(p) ==
  \/ ReceiveNotification(p)
  \/ \E c \in PD : ReceiveCall(p, c) \/ ReceiveFault(p, c)

Loop(p) ==
  \/ AckIrq(p)
  \/ DeferredFlush(p) \/ ReplyRecv(p) \/ NBSendRecv(p) \/ Recv(p)
  \/ Receive(p)

UserCall(p) ==
  \/ \E e \in Ends : Notify(p, e) \/ PPCall(p, e) \/ DeferredNotify(p, e)
  \/ \E i \in Irqs : IrqAck(p, i) \/ DeferredIrqAck(p, i)
  \/ \E c \in PD : PdRestart(p, c) \/ PdStop(p, c)

Next ==
  \/ \E p \in PD : Loop(p) \/ Return(p) \/ UserCall(p) \/ Fault(p)
  \/ \E i \in Irqs : IrqAssert(i) \/ IrqFire(i)

Spec == Init /\ [][Next]_vars

\* Entry points are finite: one that can return again and again returns.  The
\* kernel runs every runnable PD and takes every unmasked interrupt.
Fairness ==
  /\ \A p \in PD : WF_vars(Loop(p)) /\ SF_vars(Return(p))
  /\ \A i \in Irqs : WF_vars(IrqFire(i))

FairSpec == Spec /\ Fairness

-----------------------------------------------------------------------------
(* Safety.                                                                 *)

Waiting(c) == thread[c] \in {"callwait", "faultwait"}
Holder(c)  == IF thread[c] \in {"call", "callwait"} THEN dest[c].to ELSE Parent[c]

\* Between a protected call (or a fault) being received and the reply, the loop
\* never comes back to Recv: the PD that holds the caller is in the entry point
\* for it, or on its way to reply with have_reply set.  Only a restart or stop
\* of the holder breaks this.
CallerHeld ==
  \A c \in PD :
    Waiting(c) /\ Holder(c) \notin MayManage =>
      LET s == Holder(c)
      IN /\ replyTo[s] = c
         /\ thread[c] = "callwait" =>
              loc[s] \in {"protected", "top"} /\ haveReply[s]
         /\ thread[c] = "faultwait" => loc[s] \in {"fault", "top"}

\* No set of PDs is deadlocked in protected calls to each other, however the
\* calls interleave; it rests on the priority rule of sdf.rs:2157-2170.
NoCallCycle ==
  \A S \in SUBSET PD :
    S # {} => \E p \in S :
      ~(thread[p] \in {"call", "callwait"} /\ dest[p].to \in S)

\* A masked interrupt is never forgotten: its notification is pending or being
\* walked, its handler still owes the acknowledgement, a deferred
\* acknowledgement is waiting, or the PD will acknowledge it at start.
IrqAccounted ==
  \A i \in Irqs \ armed :
    LET p == i.pd
    IN \/ thread[p] = "stop" \/ loc[p] = "init"
       \/ loc[p] \in {"ack", "notified"} /\ i.id \in todo[p]
       \/ i.id \in ntfn[p]
       \/ i \in owes
       \/ haveSignal[p] /\ signalCap[p] = i

\* A deferred call is performed exactly once before the PD waits again: the
\* flag of main.c:164 and main.c:81 tells what is still to be sent.
DeferredOnce ==
  \A p \in PD : IF loc[p] = "recv" THEN p \notin unsent
                                   ELSE haveSignal[p] <=> p \in unsent

-----------------------------------------------------------------------------
(* Actions.                                                                *)

\* A deferred call not performed yet is never replaced by another one.
DeferredNeverLost ==
  [][\A p \in PD : p \in unsent /\ p \in unsent' =>
                     signalCap'[p] = signalCap[p]]_vars

-----------------------------------------------------------------------------
(* Liveness, for systems whose PDs neither fault nor are restarted.        *)

\* A caller nobody receives from: the server is signalled so often that its
\* Recv never finds the notification word empty.
Starved == \E p \in PD : <>[](thread[p] = "call")

\* Every signal on a channel reaches notified() of the other end, with the
\* number the other end gave the channel.
SignalNotified ==
  Starved \/ \A e \in {x \in Ends : x.notify} :
    (e.toId \in ntfn[e.to]) ~> (loc[e.to] = "notified" /\ cur[e.to] = e.toId)

\* A protected call that was received is answered.
CallReturns ==
  Starved \/ \A c \in PD : (thread[c] = "callwait") ~> (thread[c] = "run")

\* The fault of a child reaches its parent, if that has not faulted itself
\* (docs/manual.md:348).
FaultDelivered ==
  \A c \in PD : (thread[c] = "fault") ~>
                   (thread[c] # "fault" \/ thread[Parent[c]] = "stop")
=============================================================================
