------------------------------ MODULE VcpuLoop ------------------------------
(***************************************************************************)
(* handler_loop() of libmicrokit/src/main.c in a build with CONFIG_VTX,    *)
(* for one PD.  While the vCPU of its virtual machine is on, the PD waits  *)
(* in seL4_VMEnter instead of a receive: a notification still gets         *)
(* through, a message to its endpoint does not.  So sdf.rs allows a PD     *)
(* with a virtual machine neither children nor callers.                    *)
(***************************************************************************)
EXTENDS Naturals

CONSTANTS
  Channels,   \* bits of the notification word
  Rips        \* instruction pointers of the guest

VARIABLES
  pd,          \* the PD: whether it has a VM, children, callers
  loc,         \* where it is: an entry point, the system call, or its guest
  isOn,        \* microkit_x86_vcpu_state.is_on
  rip,         \* microkit_x86_vcpu_state.rip, for all three registers
  haveReply,   \* have_reply
  haveSignal,  \* microkit_have_signal
  todo,        \* bits of the badge that are left
  cur,         \* idx of the bit being handled
  ntfn,        \* notification word
  queue,       \* who waits at the endpoint: a caller, a child that faulted
  waiting,     \* who waits for the reply object
  vmcs,        \* instruction pointer of the guest
  due          \* history: where the guest is to go on

local == <<isOn, rip, haveReply, haveSignal, todo, cur>>
kernel == <<ntfn, queue, waiting, vmcs, due>>
vars == <<pd, loc, isOn, rip, haveReply, haveSignal, todo, cur, ntfn, queue, waiting, vmcs, due>>

Entry == {"init", "notified", "fault", "protected"}

\* Mutant: calls to a PD with a virtual machine are not refused.
AcceptedCalls(p) == p.vm => ~p.child

\* parse(): "Because the endpoint object isn't passed or checked for pending
\* messages, Child PDs won't work while the VCPU is on", and the same of calls.
Accepted(p) == p.vm => ~p.child /\ ~p.caller

Init ==
  /\ pd \in [vm : BOOLEAN, child : BOOLEAN, caller : BOOLEAN] /\ Accepted(pd)
  /\ loc = "init"
  /\ isOn = FALSE /\ rip \in Rips
  /\ haveReply = FALSE /\ haveSignal = FALSE
  /\ todo = {} /\ cur = 0
  /\ ntfn = {} /\ queue = {} /\ waiting = "nobody"
  /\ vmcs \in Rips /\ due = rip

-----------------------------------------------------------------------------
(* User code in an entry point.                                            *)

VcpuOn ==
  /\ loc \in Entry /\ pd.vm
  /\ isOn' = TRUE
  /\ UNCHANGED <<pd, loc, rip, haveReply, haveSignal, todo, cur, kernel>>

VcpuOff ==
  /\ loc \in Entry /\ pd.vm
  /\ isOn' = FALSE
  /\ UNCHANGED <<pd, loc, rip, haveReply, haveSignal, todo, cur, kernel>>

\* microkit_vcpu_x86_write_vmcs() of a register that goes with VMEnter.
WriteVmcs ==
  /\ loc \in Entry /\ pd.vm
  /\ rip' \in Rips /\ due' = rip'
  /\ UNCHANGED <<pd, loc, isOn, haveReply, haveSignal, todo, cur, ntfn, queue, waiting, vmcs>>

\* microkit_deferred_notify(), microkit_deferred_irq_ack().
Defer ==
  /\ loc \in Entry
  /\ haveSignal' = TRUE
  /\ UNCHANGED <<pd, loc, isOn, rip, haveReply, todo, cur, kernel>>

InitReturn ==
  /\ loc = "init"
  /\ loc' = "top"
  /\ UNCHANGED <<pd, local, kernel>>

\* The next bit of the badge, lowest first.
NotifiedReturn ==
  /\ loc = "notified"
  /\ IF todo = {} THEN loc' = "top" /\ UNCHANGED <<todo, cur>>
     ELSE /\ cur' \in todo /\ \A c \in todo : cur' <= c
          /\ todo' = todo \ {cur'}
          /\ UNCHANGED loc
  /\ UNCHANGED <<pd, isOn, rip, haveReply, haveSignal, kernel>>

\* Whatever fault() returns, nothing is replied; FALSE turns the vCPU off.
FaultReturn ==
  /\ loc = "fault"
  /\ isOn' \in {isOn, FALSE}
  /\ loc' = "top"
  /\ UNCHANGED <<pd, rip, haveReply, haveSignal, todo, cur, kernel>>

ProtectedReturn ==
  /\ loc = "protected"
  /\ loc' = "top"
  /\ UNCHANGED <<pd, local, kernel>>

-----------------------------------------------------------------------------
(* The system call of a round.                                             *)

\* x86_vcpu_resume(): deferred_flush(), then seL4_VMEnter.
VMEnter ==
  /\ loc = "top" /\ isOn
  /\ haveSignal' = FALSE
  /\ vmcs' = rip
  /\ loc' = "guest"
  /\ UNCHANGED <<pd, isOn, rip, haveReply, todo, cur, ntfn, queue, waiting, due>>

\* deferred_flush(), then seL4_ReplyRecv.
ReplyRecv ==
  /\ loc = "top" /\ ~isOn /\ haveReply
  /\ haveSignal' = FALSE
  /\ waiting' = "nobody"
  /\ loc' = "recv"
  /\ UNCHANGED <<pd, isOn, rip, haveReply, todo, cur, ntfn, queue, vmcs, due>>

\* seL4_NBSendRecv or seL4_Recv; the reply object lets go of who waits for it.
Recv ==
  /\ loc = "top" /\ ~isOn /\ ~haveReply
  /\ haveSignal' = FALSE
  /\ waiting' = "nobody"
  /\ loc' = "recv"
  /\ UNCHANGED <<pd, isOn, rip, haveReply, todo, cur, ntfn, queue, vmcs, due>>

Notified ==
  /\ ntfn # {} /\ ntfn' = {}
  /\ cur' \in ntfn /\ \A c \in ntfn : cur' <= c
  /\ todo' = ntfn \ {cur'}
  /\ loc' = "notified"
  /\ haveReply' = FALSE

ReceiveNotification ==
  /\ loc = "recv" /\ Notified
  /\ UNCHANGED <<pd, isOn, rip, haveSignal, queue, waiting, vmcs, due>>

\* The notification goes first.
Receive(sender, entry) ==
  /\ loc = "recv" /\ ntfn = {} /\ sender \in queue
  /\ queue' = queue \ {sender}
  /\ waiting' = sender
  /\ loc' = entry
  /\ haveReply' = (entry = "protected")
  /\ UNCHANGED <<pd, isOn, rip, haveSignal, todo, cur, ntfn, vmcs, due>>

ReceiveCall == Receive("caller", "protected")
ReceiveFault == Receive("child", "fault")

\* In the guest.
GuestRuns ==
  /\ loc = "guest" /\ ntfn = {}
  /\ vmcs' \in Rips /\ due' = vmcs'
  /\ UNCHANGED <<pd, loc, local, ntfn, queue, waiting>>

\* VM exit: the registers come back and a fault of child 0 is made up.
GuestExit ==
  /\ loc = "guest" /\ ntfn = {}
  /\ rip' = vmcs
  /\ loc' = "fault"
  /\ haveReply' = FALSE
  /\ UNCHANGED <<pd, isOn, haveSignal, todo, cur, kernel>>

\* Mutant: the registers are only copied for a fault.
GuestInterruptedNoCopy ==
  /\ loc = "guest" /\ Notified
  /\ UNCHANGED <<pd, isOn, rip, haveSignal, queue, waiting, vmcs, due>>

\* Mutant: whatever ends a VMEnter is taken for a VM exit.
GuestInterruptedAsFault ==
  /\ loc = "guest" /\ ntfn # {}
  /\ ntfn' = {} /\ haveReply' = FALSE
  /\ rip' = vmcs
  /\ loc' = "fault"
  /\ UNCHANGED <<pd, isOn, haveSignal, todo, cur, queue, waiting, vmcs, due>>

\* A notification: the registers come back as well.
GuestInterrupted ==
  /\ loc = "guest" /\ Notified
  /\ rip' = vmcs
  /\ UNCHANGED <<pd, isOn, haveSignal, queue, waiting, vmcs, due>>

-----------------------------------------------------------------------------
(* Everyone else.                                                          *)

Signal(c) ==
  /\ ntfn' = ntfn \cup {c}
  /\ UNCHANGED <<pd, loc, local, queue, waiting, vmcs, due>>

Send(sender) ==
  /\ sender \notin queue \cup {waiting}
  /\ queue' = queue \cup {sender}
  /\ UNCHANGED <<pd, loc, local, ntfn, waiting, vmcs, due>>

Call == pd.caller /\ Send("caller")
ChildFault == pd.child /\ Send("child")

Loop ==
  \/ VMEnter \/ ReplyRecv \/ Recv
  \/ ReceiveNotification \/ ReceiveCall \/ ReceiveFault \/ GuestInterrupted
Return == InitReturn \/ NotifiedReturn \/ FaultReturn \/ ProtectedReturn
User == VcpuOn \/ VcpuOff \/ WriteVmcs \/ Defer

Next ==
  \/ Loop \/ Return \/ User
  \/ GuestRuns \/ GuestExit
  \/ Call \/ ChildFault
  \/ \E c \in Channels : Signal(c)

Spec == Init /\ [][Next]_vars

\* Entry points are finite and the kernel runs a PD that can run.
FairSpec == Spec /\ WF_vars(Loop) /\ SF_vars(Return)

-----------------------------------------------------------------------------
(***************************************************************************)
(* Correctness.                                                            *)
(***************************************************************************)

\* While the guest runs nobody waits for the PD in a way it cannot notice: no
\* caller and no child is at its endpoint or without a reply, and no deferred
\* call is still to be made.  The comment at main.c:152 asserts the part about
\* replies.
NothingOwedInGuest ==
  loc = "guest" => ~haveSignal /\ ~haveReply /\ queue = {} /\ waiting = "nobody"

\* The guest goes on where it was when it left, or where user code has put it
\* since, however many notifications were handled and however often the vCPU
\* was turned off and on in between (main.c:103).
GuestResumesRight == loc = "guest" => vmcs = due

\* Every signal is handled, whether the guest runs or not.
SignalNotified ==
  \A c \in Channels : (c \in ntfn) ~> (loc = "notified" /\ cur = c)
=============================================================================
