--------------------------- MODULE VcpuLoop_proofs ---------------------------
(***************************************************************************)
(* The safety of VcpuLoop for any channels and guests.                     *)
(***************************************************************************)
EXTENDS VcpuLoop, TLAPS

\* A PD with a virtual machine has nobody who could wait for it: what Accepted
\* says of its description, and what this makes of the endpoint and the replies.
Alone ==
  /\ Accepted(pd)
  /\ queue = {} \/ pd.caller \/ pd.child
  /\ waiting = "nobody" \/ pd.caller \/ pd.child
  /\ haveReply => pd.caller \/ pd.child

\* Only a PD with a virtual machine turns a vCPU on, and it enters the guest
\* with nothing deferred.
Entered ==
  /\ isOn => pd.vm
  /\ loc = "guest" => pd.vm /\ ~haveSignal

\* The place where the guest is to go on is in the VMCS while it runs and in
\* the variable of libmicrokit otherwise.
Kept == due = IF loc = "guest" THEN vmcs ELSE rip

GuestInv == Alone /\ Entered /\ Kept

\* GuestInv holds initially.
LEMMA InitGuestInv == Init => GuestInv
  BY DEF Init, GuestInv, Alone, Entered, Kept

\* Every step of the loop, the user code, the guest and the others keeps it.
LEMMA NextGuestInv == GuestInv /\ [Next]_vars => GuestInv'
<1> SUFFICES ASSUME GuestInv, [Next]_vars PROVE GuestInv'
  OBVIOUS
<1> USE DEF GuestInv, Alone, Entered, Kept, local, kernel, Entry
<1>1. CASE User
  BY <1>1 DEF User, VcpuOn, VcpuOff, WriteVmcs, Defer
<1>2. CASE InitReturn \/ NotifiedReturn \/ ProtectedReturn
  BY <1>2 DEF InitReturn, NotifiedReturn, ProtectedReturn
<1>3. CASE FaultReturn
  <2>1. isOn' => isOn
    BY <1>3, Zenon DEF FaultReturn
  <2> QED
    BY <1>3, <2>1 DEF FaultReturn
<1>4. CASE VMEnter
  BY <1>4 DEF VMEnter
<1>5. CASE ReplyRecv \/ Recv
  BY <1>5 DEF ReplyRecv, Recv
<1>6. CASE ReceiveNotification \/ GuestInterrupted
  BY <1>6 DEF ReceiveNotification, GuestInterrupted, Notified
<1>7. CASE ReceiveCall
  BY <1>7 DEF ReceiveCall, Receive
<1>8. CASE ReceiveFault
  BY <1>8 DEF ReceiveFault, Receive
<1>9. CASE GuestRuns \/ GuestExit
  BY <1>9 DEF GuestRuns, GuestExit
<1>10. CASE Call \/ ChildFault
  BY <1>10 DEF Call, ChildFault, Send
<1>11. CASE \E c \in Channels : Signal(c)
  BY <1>11 DEF Signal
<1>12. CASE UNCHANGED vars
  BY <1>12 DEF vars
<1> QED
  BY <1>1, <1>2, <1>3, <1>4, <1>5, <1>6, <1>7, <1>8, <1>9, <1>10, <1>11, <1>12
     DEF Next, Loop, Return

\* GuestInv is an invariant.
LEMMA GuestInvariant == Spec => []GuestInv
  BY InitGuestInv, NextGuestInv, PTL DEF Spec

\* Nobody waits for a PD in a way it cannot notice while its guest runs: the
\* rule of sdf.rs is enough for what main.c:152 only asserts in a comment.
THEOREM NothingForgotten == Spec => []NothingOwedInGuest
<1>1. GuestInv => NothingOwedInGuest
  BY DEF GuestInv, Alone, Entered, Accepted, NothingOwedInGuest
<1> QED
  BY <1>1, GuestInvariant, PTL

\* The guest goes on where it was, whatever entry points ran in between.
THEOREM GuestKeepsPlace == Spec => []GuestResumesRight
<1>1. GuestInv => GuestResumesRight
  BY DEF GuestInv, Kept, GuestResumesRight
<1> QED
  BY <1>1, GuestInvariant, PTL
=============================================================================
