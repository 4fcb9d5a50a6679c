-------------------------- MODULE PassiveHandshake --------------------------
(***************************************************************************)
(* How a passive PD gives up its scheduling context: main() of libmicrokit *)
(* sends a request to the monitor with the first seL4_NBSendRecv of the    *)
(* event loop, monitor() of monitor/src/main.c binds the scheduling        *)
(* context to the PD's notification.  The same endpoint carries the faults *)
(* of PDs without a parent.                                                *)
(*                                                                         *)
(* A non-blocking send reaches the monitor only while it is blocked in     *)
(* seL4_Recv.  The monitor has the highest priority (builder.rs:508-510),  *)
(* so a PD on its core runs only while the monitor waits; a PD on another  *)
(* core runs at any time.                                                  *)
(***************************************************************************)
EXTENDS Naturals, FiniteSets

CONSTANTS
  PD,          \* the protection domains
  Passive,     \* those with passive="true"
  Parent,      \* the parent PD of each PD, or NoPD
  NoPD,
  Core,        \* the core each PD runs on
  MonitorCore, \* the core of the monitor
  MayFault,    \* the PDs without a parent whose code may fault
  MayRestart   \* the PDs their parent restarts

ASSUME PDAssumption ==
  /\ NoPD \notin PD
  /\ Passive \subseteq PD
  /\ Parent \in [PD -> PD \cup {NoPD}]
  /\ MayFault \subseteq {p \in PD : Parent[p] = NoPD}
  /\ MayRestart \subseteq {p \in PD : Parent[p] # NoPD}

VARIABLES
  monitor,   \* what the monitor does: "start", "recv", "request" or "fault"
  badgePD,   \* the PD the badge of its message names
  monReply,  \* the thread linked to the monitor's REPLY_CAP
  pc,        \* where each PD is: "init", "top", "recv" or "handler"
  asking,    \* PDs whose pending signal is the request to the monitor
  thread,    \* "run", "fault" (queued), "faultwait" or "stop"
  bound,     \* PDs whose scheduling context is bound to their notification
  hasSC      \* threads that have a scheduling context to run on

vars == <<monitor, badgePD, monReply, pc, asking, thread, bound, hasSC>>
monVars == <<monitor, badgePD, monReply>>

\* A badge the monitor takes names a PD, never one that does not exist.
TypeOK ==
  /\ monitor \in {"start", "recv", "request", "fault"}
  /\ badgePD \in PD \cup {NoPD}
  /\ monReply \in PD \cup {NoPD}
  /\ pc \in [PD -> {"init", "top", "recv", "handler"}]
  /\ asking \subseteq PD
  /\ thread \in [PD -> {"run", "fault", "faultwait", "stop"}]
  /\ bound \subseteq PD
  /\ hasSC \subseteq PD

Init ==
  /\ monitor = "start"
  /\ badgePD = NoPD
  /\ monReply = NoPD
  /\ pc = [p \in PD |-> "init"]
  /\ asking = {}
  /\ thread = [p \in PD |-> "run"]
  /\ bound = {}
  /\ hasSC = PD

\* The kernel gives p the processor.
Runs(p) ==
  /\ thread[p] = "run" /\ p \in hasSC
  /\ Core[p] = MonitorCore => monitor = "recv"

\* A PD on its notification's scheduling context gives it back when it waits.
ReturnSC(p) == hasSC' = IF p \in bound THEN hasSC \ {p} ELSE hasSC

-----------------------------------------------------------------------------
(* The PD: main(), and the system calls of handler_loop().                 *)

\* init() returns; a passive PD will ask the monitor with its first wait.
InitReturn(p) ==
  /\ Runs(p) /\ pc[p] = "init"
  /\ pc' = [pc EXCEPT ![p] = "top"]
  /\ asking' = IF p \in Passive THEN asking \cup {p} ELSE asking
  /\ UNCHANGED <<monVars, thread, bound, hasSC>>

\* seL4_NBSendRecv(MONITOR_EP, ...): nobody keeps a request the monitor does
\* not wait for.
Ask(p) ==
  /\ Runs(p) /\ pc[p] = "top" /\ p \in asking
  /\ IF monitor = "recv"
       THEN monitor' = "request" /\ badgePD' = p
       ELSE UNCHANGED <<monitor, badgePD>>
  /\ pc' = [pc EXCEPT ![p] = "recv"]
  /\ ReturnSC(p)
  /\ UNCHANGED <<monReply, asking, thread, bound>>

Wait(p) ==
  /\ Runs(p) /\ pc[p] = "top" /\ p \notin asking
  /\ pc' = [pc EXCEPT ![p] = "recv"]
  /\ ReturnSC(p)
  /\ UNCHANGED <<monVars, asking, thread, bound>>

\* A message arrives: a PD without a scheduling context gets the one of its
\* notification or of its caller, and microkit_have_signal is cleared.
Wake(p) ==
  /\ thread[p] = "run" /\ pc[p] = "recv"
  /\ Core[p] = MonitorCore => monitor = "recv"
  /\ pc' = [pc EXCEPT ![p] = "handler"]
  /\ hasSC' = hasSC \cup {p}
  /\ asking' = asking \ {p}
  /\ UNCHANGED <<monVars, thread, bound>>

HandlerReturn(p) ==
  /\ Runs(p) /\ pc[p] = "handler"
  /\ pc' = [pc EXCEPT ![p] = "top"]
  /\ UNCHANGED <<monVars, asking, thread, bound, hasSC>>

\* A fault is a call to the monitor's endpoint: delivered or queued.
Fault(p) ==
  /\ Runs(p) /\ pc[p] \in {"init", "handler"} /\ p \in MayFault
  /\ IF monitor = "recv"
       THEN /\ monitor' = "fault" /\ badgePD' = p /\ monReply' = p
            /\ thread' = [thread EXCEPT ![p] = "faultwait"]
       ELSE /\ thread' = [thread EXCEPT ![p] = "fault"]
            /\ UNCHANGED monVars
  /\ UNCHANGED <<pc, asking, bound, hasSC>>

\* microkit_pd_restart() by the parent, in one of its entry points.
Restart(p, c) ==
  /\ Runs(p) /\ pc[p] \in {"init", "handler"}
  /\ c \in MayRestart /\ Parent[c] = p
  /\ pc' = [pc EXCEPT ![c] = "init"]
  /\ thread' = [thread EXCEPT ![c] = "run"]
  /\ UNCHANGED <<monVars, asking, bound, hasSC>>

-----------------------------------------------------------------------------
(* The monitor.                                                            *)

\* Mutant: the linked thread is resumed, as by a reply.
MonitorRecvResumes ==
  LET released == [c \in PD |-> IF c = monReply THEN "run" ELSE thread[c]]
  IN \/ /\ \A c \in PD : thread[c] # "fault"
        /\ thread' = released
        /\ monitor' = "recv" /\ badgePD' = NoPD /\ monReply' = NoPD
     \/ \E c \in PD :
          /\ thread[c] = "fault"
          /\ thread' = [released EXCEPT ![c] = "faultwait"]
          /\ monitor' = "fault" /\ badgePD' = c /\ monReply' = c

\* seL4_Recv(FAULT_EP_CAP, &badge, REPLY_CAP): a thread still linked to the
\* reply object is left inactive; a queued fault is received at once.
MonitorRecv ==
  LET released == [c \in PD |-> IF c = monReply THEN "stop" ELSE thread[c]]
  IN \/ /\ \A c \in PD : thread[c] # "fault"
        /\ thread' = released
        /\ monitor' = "recv" /\ badgePD' = NoPD /\ monReply' = NoPD
     \/ \E c \in PD :
          /\ thread[c] = "fault"
          /\ thread' = [released EXCEPT ![c] = "faultwait"]
          /\ monitor' = "fault" /\ badgePD' = c /\ monReply' = c

MonitorStart ==
  /\ monitor = "start"
  /\ MonitorRecv
  /\ UNCHANGED <<pc, asking, bound, hasSC>>

\* Mutant: the request of the PD with the next badge is served.
MonitorBindsWrong ==
  /\ monitor = "request"
  /\ \E q \in PD \ {badgePD} : bound' = bound \cup {q}
  /\ MonitorRecv
  /\ UNCHANGED <<pc, asking, hasSC>>

\* seL4_SchedContext_Bind fails on a scheduling context that is bound already;
\* the monitor prints that and goes on.
MonitorBind ==
  /\ monitor = "request"
  /\ bound' = bound \cup {badgePD}
  /\ MonitorRecv
  /\ UNCHANGED <<pc, asking, hasSC>>

\* Mutant: the monitor takes every fault for an invalid badge and stops.
MonitorFaultFails == monitor = "fault" /\ UNCHANGED vars

\* Any other label is a fault: it is printed and not answered.
MonitorFault ==
  /\ monitor = "fault"
  /\ MonitorRecv
  /\ UNCHANGED <<pc, asking, bound, hasSC>>

-----------------------------------------------------------------------------
PdStep(p) ==
  InitReturn(p) \/ Ask(p) \/ Wait(p) \/ HandlerReturn(p)

Monitor == MonitorStart \/ MonitorBind \/ MonitorFault

Next ==
  \/ Monitor
  \/ \E p \in PD : PdStep(p) \/ Wake(p) \/ Fault(p)
  \/ \E p, c \in PD : Restart(p, c)

Spec == Init /\ [][Next]_vars

\* Threads with a scheduling context get the processor, above all the monitor;
\* a PD it preempts goes on afterwards.  Nothing makes a message arrive.
FairSpec ==
  /\ Spec
  /\ WF_vars(Monitor)
  /\ \A p \in PD : SF_vars(PdStep(p))

-----------------------------------------------------------------------------
(* Properties.                                                             *)

\* A PD whose request is made does not wait in vain: its scheduling context is
\* bound, or the monitor is about to bind it (docs/manual.md:187).
RequestServed ==
  \A p \in Passive :
    pc[p] \in {"recv", "handler"} =>
      p \in bound \/ (monitor = "request" /\ badgePD = p)

\* A fault the monitor has taken is never answered: the PD does not run again.
FaultIsFinal ==
  [][\A p \in PD : thread[p] \in {"fault", "faultwait", "stop"} =>
                     thread'[p] # "run"]_vars

\* A passive PD that leaves init() loses its own scheduling context in the end,
\* unless its parent never stops restarting it.
BecomesPassive ==
  \A p \in Passive \ MayRestart : (pc[p] = "top") ~> (p \in bound)

\* No fault stays in the queue, also when several PDs fault at once.
EveryFaultTaken == \A p \in PD : (thread[p] = "fault") ~> (thread[p] = "stop")
=============================================================================
