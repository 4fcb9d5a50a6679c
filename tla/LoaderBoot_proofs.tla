-------------------------- MODULE LoaderBoot_proofs --------------------------
(***************************************************************************)
(* The hand-over of print_lock and of the spin-table data, for any number  *)
(* of CPUs, any set of builds and any failures.                            *)
(***************************************************************************)
EXTENDS LoaderRun, TLAPS

Waiting == {"off", "switch", "stop"}
Booting == {"enter", "reset", "secondary", "mmu", "jump"}

\* Where CPU 0 is while the loop of main() has a CPU left to start.
InLoop == {"starting", "release", "returned", "error", "waitlock", "nextcpu"}

\* Each CPU executes its own part of the code, and the CPUs are started in the
\* order of their numbers.
OrderInv ==
  /\ pc[0] \notin {"enter", "reset", "secondary", "switch", "stop"}
  /\ pc[0] \in InLoop => next < N
  /\ pc[0] \in {"off", "main"} => next = 1
  /\ \A c \in Cpu \ {0} :
       /\ pc[c] \notin InLoop \cup {"main", "fail"}
       /\ pc[c] = "switch" => c = BootHart /\ pc[0] = "off"
       /\ pc[0] \in {"off", "main"} => pc[c] \in Waiting
       /\ c > next => pc[c] \in Waiting
       /\ c = next /\ pc[0] \in {"starting", "release"} => pc[c] \in Waiting

\* The data of the spin table belongs to the one CPU that is to take it.
StackInv ==
  /\ pc[0] = "release" => data = next /\ build.start = "spin"
  /\ \A c \in Cpu \ {0} :
       /\ pc[c] = "enter" /\ build.start = "spin" =>
            data = c /\ pc[0] # "release"
       /\ pc[c] = "reset" => data = c /\ pc[0] # "release"
       /\ pc[c] = "enter" /\ build.start # "spin" => sp[c] = c
       /\ pc[c] \in {"enter", "reset"} => stack[c] = c
       /\ pc[0] = "release" /\ c = next => stack[c] = c
       /\ pc[c] \in {"mmu", "jump"} /\ build.start # "sbi" => hwId[c] = c
  /\ hwId[0] = 0
  /\ OwnStack

\* In a build that prints, a CPU that boots has main() waiting for it and
\* print_lock still to set.
LockInv ==
  build.printing =>
    /\ pc[0] \in {"off", "main", "starting", "release"} => printLock = 0
    /\ \A c \in Cpu \ {0} : pc[c] \in Booting =>
         c = next /\ pc[0] \in {"returned", "waitlock"} /\ result = 0 /\ printLock = 0

BootInv == TypeOK /\ OrderInv /\ StackInv /\ LockInv

\* The facts about the constants that the proofs use.
LEMMA CpuIsInterval ==
  /\ N \in Nat \ {0}
  /\ 0 \in Cpu
  /\ \A c : c \in Cpu <=> c \in Nat /\ c < N
BY BootAssumption DEF BootAssumption, Cpu

\* The boot hart is one of the CPUs.
LEMMA BootHartIsCpu == BootHart \in Cpu
BY BootAssumption DEF BootAssumption

(***************************************************************************)
(* The initial states.                                                     *)
(***************************************************************************)

\* Initially the types hold.
LEMMA InitTypeOK == BootInit => TypeOK
BY CpuIsInterval, BootHartIsCpu, SMT DEF BootInit, TypeOK, Pc, Printing

\* Initially the invariant holds.
LEMMA InitBootInv == BootInit => BootInv
<1> SUFFICES ASSUME BootInit PROVE BootInv
  OBVIOUS
<1>1. TypeOK
  BY InitTypeOK
<1>2. OrderInv
  BY CpuIsInterval, BootHartIsCpu, SMT DEF BootInit, OrderInv, InLoop, Waiting
<1>3. StackInv
  BY CpuIsInterval, BootHartIsCpu, SMT DEF BootInit, StackInv, OwnStack
<1>4. LockInv
  BY CpuIsInterval, BootHartIsCpu, SMT DEF BootInit, LockInv, Booting
<1> QED
  BY <1>1, <1>2, <1>3, <1>4 DEF BootInv

\* Every step keeps the types.
LEMMA NextTypeOK == BootInv /\ [BootNext]_bootVars => TypeOK'
<1> SUFFICES ASSUME BootInv, [BootNext]_bootVars PROVE TypeOK'
  OBVIOUS
<1> USE CpuIsInterval DEF BootInv, TypeOK, OrderInv, StackInv, OwnStack,
        InLoop, Pc, Printing, Goto, Loop, memory
<1>1. CASE Copy
  BY <1>1, SMT DEF Copy
<1>2. CASE StartBySpinTable
  BY <1>2, SMT DEF StartBySpinTable
<1>3. CASE Release
  BY <1>3, SMT DEF Release
<1>4. CASE StartByFirmware
  BY <1>4, SMT DEF StartByFirmware
<1>5. CASE StartRefused
  BY <1>5, SMT DEF StartRefused
<1>6. CASE StartUnknown
  BY <1>6, SMT DEF StartUnknown
<1>7. CASE Returned
  BY <1>7, SMT DEF Returned
<1>8. CASE Fail
  BY <1>8, SMT DEF Fail
<1>9. CASE WaitLock
  BY <1>9, SMT DEF WaitLock
<1>10. CASE NextCpu
  BY <1>10, SMT DEF NextCpu
<1>11. ASSUME NEW c \in Cpu, SwitchHart(c) PROVE TypeOK'
  BY <1>11, SMT DEF SwitchHart
<1>12. ASSUME NEW c \in Cpu, StopHart(c) PROVE TypeOK'
  BY <1>12, SMT DEF StopHart
<1>13. ASSUME NEW c \in Cpu, Enter(c) PROVE TypeOK'
  BY <1>13, SMT DEF Enter
<1>14. ASSUME NEW c \in Cpu, TakeStack(c) PROVE TypeOK'
  BY <1>14, SMT DEF TakeStack
<1>15. ASSUME NEW c \in Cpu, ResetData(c) PROVE TypeOK'
  BY <1>15, SMT DEF ResetData
<1>16. ASSUME NEW c \in Cpu, Secondary(c) PROVE TypeOK'
  BY <1>16, SMT DEF Secondary
<1>17. ASSUME NEW c \in Cpu, EnableMMU(c) PROVE TypeOK'
  BY <1>17, SMT DEF EnableMMU
<1>18. ASSUME NEW c \in Cpu, Jump(c) PROVE TypeOK'
  BY <1>18, SMT DEF Jump
<1>19. CASE UNCHANGED bootVars
  BY <1>19, SMT DEF bootVars
<1> QED
  BY <1>1, <1>2, <1>3, <1>4, <1>5, <1>6, <1>7, <1>8, <1>9, <1>10, <1>11,
     <1>12, <1>13, <1>14, <1>15, <1>16, <1>17, <1>18, <1>19 DEF BootNext, Main, Step

\* Every step keeps the order in which CPUs are started.
LEMMA NextOrderInv == BootInv /\ [BootNext]_bootVars => OrderInv'
<1> SUFFICES ASSUME BootInv, [BootNext]_bootVars PROVE OrderInv'
  OBVIOUS
<1> USE CpuIsInterval DEF BootInv, TypeOK, OrderInv, InLoop, Waiting, Goto,
        Loop, memory
<1>1. CASE Copy
  BY <1>1, SMT DEF Copy
<1>2. CASE StartBySpinTable
  BY <1>2, SMT DEF StartBySpinTable
<1>3. CASE Release
  BY <1>3, SMT DEF Release
<1>4. CASE StartByFirmware
  BY <1>4, SMT DEF StartByFirmware
<1>5. CASE StartRefused
  BY <1>5, SMT DEF StartRefused
<1>6. CASE StartUnknown
  BY <1>6, SMT DEF StartUnknown
<1>7. CASE Returned
  BY <1>7, SMT DEF Returned
<1>8. CASE Fail
  BY <1>8, SMT DEF Fail
<1>9. CASE WaitLock
  BY <1>9, SMT DEF WaitLock
<1>10. CASE NextCpu
  BY <1>10, SMT DEF NextCpu
<1>11. ASSUME NEW c \in Cpu, SwitchHart(c) PROVE OrderInv'
  BY <1>11, SMT DEF SwitchHart
<1>12. ASSUME NEW c \in Cpu, StopHart(c) PROVE OrderInv'
  BY <1>12, SMT DEF StopHart
<1>13. ASSUME NEW c \in Cpu, Enter(c) PROVE OrderInv'
  BY <1>13, SMT DEF Enter
<1>14. ASSUME NEW c \in Cpu, TakeStack(c) PROVE OrderInv'
  BY <1>14, SMT DEF TakeStack
<1>15. ASSUME NEW c \in Cpu, ResetData(c) PROVE OrderInv'
  BY <1>15, SMT DEF ResetData
<1>16. ASSUME NEW c \in Cpu, Secondary(c) PROVE OrderInv'
  BY <1>16, SMT DEF Secondary
<1>17. ASSUME NEW c \in Cpu, EnableMMU(c) PROVE OrderInv'
  BY <1>17, SMT DEF EnableMMU
<1>18. ASSUME NEW c \in Cpu, Jump(c) PROVE OrderInv'
  BY <1>18, SMT DEF Jump
<1>19. CASE UNCHANGED bootVars
  BY <1>19, SMT DEF bootVars
<1> QED
  BY <1>1, <1>2, <1>3, <1>4, <1>5, <1>6, <1>7, <1>8, <1>9, <1>10, <1>11,
     <1>12, <1>13, <1>14, <1>15, <1>16, <1>17, <1>18, <1>19 DEF BootNext, Main, Step

\* Every step keeps the ownership of the spin-table data.
LEMMA NextStackInv == BootInv /\ [BootNext]_bootVars => StackInv'
<1> SUFFICES ASSUME BootInv, [BootNext]_bootVars PROVE StackInv'
  OBVIOUS
<1> USE CpuIsInterval DEF BootInv, TypeOK, OrderInv, StackInv, OwnStack,
        InLoop, Waiting, Goto, Loop, memory
<1>1. CASE Copy
  BY <1>1, SMT DEF Copy
<1>2. CASE StartBySpinTable
  BY <1>2, SMT DEF StartBySpinTable
<1>3. CASE Release
  BY <1>3, SMT DEF Release
<1>4. CASE StartByFirmware
  BY <1>4, SMT DEF StartByFirmware
<1>5. CASE StartRefused
  BY <1>5, SMT DEF StartRefused
<1>6. CASE StartUnknown
  BY <1>6, SMT DEF StartUnknown
<1>7. CASE Returned
  BY <1>7, SMT DEF Returned
<1>8. CASE Fail
  BY <1>8, SMT DEF Fail
<1>9. CASE WaitLock
  BY <1>9, SMT DEF WaitLock
<1>10. CASE NextCpu
  BY <1>10, SMT DEF NextCpu
<1>11. ASSUME NEW c \in Cpu, SwitchHart(c) PROVE StackInv'
  BY <1>11, SMT DEF SwitchHart
<1>12. ASSUME NEW c \in Cpu, StopHart(c) PROVE StackInv'
  BY <1>12, SMT DEF StopHart
<1>13. ASSUME NEW c \in Cpu, Enter(c) PROVE StackInv'
  BY <1>13, SMT DEF Enter
<1>14. ASSUME NEW c \in Cpu, TakeStack(c) PROVE StackInv'
  BY <1>14, SMT DEF TakeStack
<1>15. ASSUME NEW c \in Cpu, ResetData(c) PROVE StackInv'
  BY <1>15, SMT DEF ResetData
<1>16. ASSUME NEW c \in Cpu, Secondary(c) PROVE StackInv'
  BY <1>16, SMT DEF Secondary
<1>17. ASSUME NEW c \in Cpu, EnableMMU(c) PROVE StackInv'
  BY <1>17, SMT DEF EnableMMU
<1>18. ASSUME NEW c \in Cpu, Jump(c) PROVE StackInv'
  BY <1>18, SMT DEF Jump
<1>19. CASE UNCHANGED bootVars
  BY <1>19, SMT DEF bootVars
<1> QED
  BY <1>1, <1>2, <1>3, <1>4, <1>5, <1>6, <1>7, <1>8, <1>9, <1>10, <1>11,
     <1>12, <1>13, <1>14, <1>15, <1>16, <1>17, <1>18, <1>19 DEF BootNext, Main, Step

\* Every step keeps the lock with one CPU.
LEMMA NextLockInv == BootInv /\ [BootNext]_bootVars => LockInv'
<1> SUFFICES ASSUME BootInv, [BootNext]_bootVars PROVE LockInv'
  OBVIOUS
<1> USE CpuIsInterval DEF BootInv, TypeOK, OrderInv, LockInv, InLoop,
        Waiting, Booting, Goto, Loop, memory
<1>1. CASE Copy
  BY <1>1, SMT DEF Copy
<1>2. CASE StartBySpinTable
  BY <1>2, SMT DEF StartBySpinTable
<1>3. CASE Release
  BY <1>3, SMT DEF Release
<1>4. CASE StartByFirmware
  BY <1>4, SMT DEF StartByFirmware
<1>5. CASE StartRefused
  BY <1>5, SMT DEF StartRefused
<1>6. CASE StartUnknown
  BY <1>6, SMT DEF StartUnknown
<1>7. CASE Returned
  BY <1>7, SMT DEF Returned
<1>8. CASE Fail
  BY <1>8, SMT DEF Fail
<1>9. CASE WaitLock
  BY <1>9, SMT DEF WaitLock
<1>10. CASE NextCpu
  BY <1>10, SMT DEF NextCpu
<1>11. ASSUME NEW c \in Cpu, SwitchHart(c) PROVE LockInv'
  BY <1>11, SMT DEF SwitchHart
<1>12. ASSUME NEW c \in Cpu, StopHart(c) PROVE LockInv'
  BY <1>12, SMT DEF StopHart
<1>13. ASSUME NEW c \in Cpu, Enter(c) PROVE LockInv'
  BY <1>13, SMT DEF Enter
<1>14. ASSUME NEW c \in Cpu, TakeStack(c) PROVE LockInv'
  BY <1>14, SMT DEF TakeStack
<1>15. ASSUME NEW c \in Cpu, ResetData(c) PROVE LockInv'
  BY <1>15, SMT DEF ResetData
<1>16. ASSUME NEW c \in Cpu, Secondary(c) PROVE LockInv'
  BY <1>16, SMT DEF Secondary
<1>17. ASSUME NEW c \in Cpu, EnableMMU(c) PROVE LockInv'
  BY <1>17, SMT DEF EnableMMU
<1>18. ASSUME NEW c \in Cpu, Jump(c) PROVE LockInv'
  BY <1>18, SMT DEF Jump
<1>19. CASE UNCHANGED bootVars
  BY <1>19, SMT DEF bootVars
<1> QED
  BY <1>1, <1>2, <1>3, <1>4, <1>5, <1>6, <1>7, <1>8, <1>9, <1>10, <1>11,
     <1>12, <1>13, <1>14, <1>15, <1>16, <1>17, <1>18, <1>19 DEF BootNext, Main, Step

\* BootInv is an invariant.
LEMMA BootInvariant == BootSpec => []BootInv
<1>1. BootInv /\ [BootNext]_bootVars => BootInv'
  BY NextTypeOK, NextOrderInv, NextStackInv, NextLockInv DEF BootInv
<1> QED
  BY InitBootInv, <1>1, PTL DEF BootSpec

(***************************************************************************)
(* The theorems.                                                           *)
(***************************************************************************)

\* Every variable of the loader and of its CPUs keeps its type: the loop of
\* main() never names a CPU that does not exist.
THEOREM TypeCorrect == BootSpec => []TypeOK
BY BootInvariant, PTL DEF BootInv

\* Secondary CPUs never share a stack or a logical id, however many are
\* started while others still take theirs from the spin-table data.
THEOREM StacksAreOwn == BootSpec => []OwnStack
<1>1. BootInv => OwnStack
  BY DEF BootInv, StackInv
<1> QED
  BY BootInvariant, <1>1, PTL

\* print_lock is handed over without two CPUs ever printing at once.
THEOREM LockWorks == BootSpec => []OnePrinter
<1>1. BootInv => OnePrinter
  BY CpuIsInterval, SMT DEF BootInv, OrderInv, LockInv, InLoop, Booting, Printing,
     OnePrinter
<1> QED
  BY BootInvariant, <1>1, PTL

(***************************************************************************)
(* No CPU is left out.                                                     *)
(***************************************************************************)

\* The only start that is taken for a success without being one is that of an
\* SBI that refused.
Started(c) == pc[c] \notin Waiting \/ (build.start = "sbi" /\ c \in refused)

\* The CPUs main() has gone past are started, and it leaves the loop behind
\* the last one.
StartedInv ==
  /\ \A c \in Cpu \ {0} : c < next => Started(c)
  /\ pc[0] = "returned" /\ result = 0 => Started(next)
  /\ pc[0] \in {"waitlock", "nextcpu"} => Started(next)
  /\ pc[0] \in {"mmu", "jump", "kernel"} => next = N

\* Initially no CPU is missing.
LEMMA InitStartedInv == BootInit => StartedInv
BY CpuIsInterval, BootHartIsCpu, SMT DEF BootInit, StartedInv

\* The CPUs main() has gone past stay started.
LEMMA NextStartedInv == BootInv /\ StartedInv /\ [BootNext]_bootVars => StartedInv'
<1> SUFFICES ASSUME BootInv, StartedInv, [BootNext]_bootVars PROVE StartedInv'
  OBVIOUS
<1> USE CpuIsInterval DEF BootInv, TypeOK, OrderInv, StartedInv, Started, InLoop,
        Waiting, Goto, Loop, memory
<1>1. CASE Copy
  BY <1>1, SMT DEF Copy
<1>2. CASE StartBySpinTable
  BY <1>2, SMT DEF StartBySpinTable
<1>3. CASE Release
  BY <1>3, SMT DEF Release
<1>4. CASE StartByFirmware
  BY <1>4, SMT DEF StartByFirmware
<1>5. CASE StartRefused
  BY <1>5, SMT DEF StartRefused
<1>6. CASE StartUnknown
  BY <1>6, SMT DEF StartUnknown
<1>7. CASE Returned
  BY <1>7, SMT DEF Returned
<1>8. CASE Fail
  BY <1>8, SMT DEF Fail
<1>9. CASE WaitLock
  BY <1>9, SMT DEF WaitLock
<1>10. CASE NextCpu
  BY <1>10, SMT DEF NextCpu
<1>11. ASSUME NEW c \in Cpu, SwitchHart(c) PROVE StartedInv'
  BY <1>11, SMT DEF SwitchHart
<1>12. ASSUME NEW c \in Cpu, StopHart(c) PROVE StartedInv'
  BY <1>12, SMT DEF StopHart
<1>13. ASSUME NEW c \in Cpu, Enter(c) PROVE StartedInv'
  BY <1>13, SMT DEF Enter
<1>14. ASSUME NEW c \in Cpu, TakeStack(c) PROVE StartedInv'
  BY <1>14, SMT DEF TakeStack
<1>15. ASSUME NEW c \in Cpu, ResetData(c) PROVE StartedInv'
  BY <1>15, SMT DEF ResetData
<1>16. ASSUME NEW c \in Cpu, Secondary(c) PROVE StartedInv'
  BY <1>16, SMT DEF Secondary
<1>17. ASSUME NEW c \in Cpu, EnableMMU(c) PROVE StartedInv'
  BY <1>17, SMT DEF EnableMMU
<1>18. ASSUME NEW c \in Cpu, Jump(c) PROVE StartedInv'
  BY <1>18, SMT DEF Jump
<1>19. CASE UNCHANGED bootVars
  BY <1>19, SMT DEF bootVars
<1> QED
  BY <1>1, <1>2, <1>3, <1>4, <1>5, <1>6, <1>7, <1>8, <1>9, <1>10, <1>11,
     <1>12, <1>13, <1>14, <1>15, <1>16, <1>17, <1>18, <1>19 DEF BootNext, Main, Step

\* CPU 0 does not enter the kernel with a CPU missing: whatever is refused, and
\* however slowly the others come, except for a refusal of the SBI.
THEOREM AllAreStarted == BootSpec => []NoCpuMissing
<1>1. BootInv /\ StartedInv => NoCpuMissing
  BY CpuIsInterval, SMT DEF BootInv, TypeOK, StartedInv, Started, Waiting, NoCpuMissing
<1> QED
  BY BootInvariant, InitStartedInv, NextStartedInv, <1>1, PTL DEF BootSpec
-----------------------------------------------------------------------------
(* The loader as a whole.                                                  *)

\* Every step of the loader as a whole is one of LoaderBoot or leaves its
\* variables alone: what is proved above holds of it.
THEOREM RunImplementsBoot == RunSpec => BootSpec
<1>1. RunInit => BootInit
  BY DEF RunInit
<1>2. ASSUME [RunNext]_runVars PROVE [BootNext]_bootVars
  <2>1. CASE Delivery
    BY <2>1 DEF Delivery
  <2>2. CASE FirstCpu
    <3>1. CASE MoveAndCopy \/ Wild
      BY <3>1 DEF MoveAndCopy, Wild
    <3>2. CASE Magic \/ BeginLoop
      BY <3>2 DEF Magic, BeginLoop, BootNext, Main
    <3>3. CASE LoopStep
      BY <3>3 DEF LoopStep, BootNext, Main
    <3>4. CASE EnableFirst \/ JumpFirst
      BY <3>4, CpuIsInterval DEF EnableFirst, JumpFirst, BootNext, Step
    <3> QED
      BY <2>2, <3>1, <3>2, <3>3, <3>4 DEF FirstCpu
  <2>3. ASSUME NEW c \in Cpu, BootHartStep(c) PROVE BootNext
    BY <2>3 DEF BootHartStep, BootNext, Step
  <2>4. ASSUME NEW c \in Cpu, OtherCpu(c) PROVE BootNext
    BY <2>4 DEF OtherCpu, BootNext, Step
  <2>5. CASE UNCHANGED runVars
    BY <2>5 DEF runVars
  <2> QED
    BY <1>2, <2>1, <2>2, <2>3, <2>4, <2>5 DEF RunNext
<1> QED
  BY <1>1, <1>2, PTL DEF RunSpec, BootSpec

\* Every step of the loader as a whole is one of LoaderImage or leaves its
\* variables alone, so that what LoaderImage_proofs shows holds of it.
THEOREM RunImplementsImage == RunSpec => Spec
<1>1. RunInit => Init
  BY DEF RunInit
<1>2. ASSUME [RunNext]_runVars PROVE [Next]_vars
  <2>1. CASE Delivery
    BY <2>1 DEF Delivery, Next
  <2>2. CASE FirstCpu
    <3>1. CASE MoveAndCopy \/ Magic \/ Wild
      BY <3>1 DEF MoveAndCopy, Magic, Wild, Next
    <3>2. CASE BeginLoop \/ LoopStep
      BY <3>2 DEF BeginLoop, LoopStep
    <3>3. CASE EnableFirst \/ JumpFirst
      BY <3>3 DEF EnableFirst, JumpFirst, Next
    <3> QED
      BY <2>2, <3>1, <3>2, <3>3 DEF FirstCpu
  <2>3. ASSUME NEW c \in Cpu, BootHartStep(c) \/ OtherCpu(c) PROVE UNCHANGED vars
    BY <2>3 DEF BootHartStep, OtherCpu
  <2>4. CASE UNCHANGED runVars
    BY <2>4 DEF runVars
  <2> QED
    BY <1>2, <2>1, <2>2, <2>3, <2>4 DEF RunNext
<1> QED
  BY <1>1, <1>2, PTL DEF RunSpec, Spec

=============================================================================
