----------------------------- MODULE LoaderBoot -----------------------------
(***************************************************************************)
(* How the loader brings the CPUs of a multicore system into the kernel:   *)
(* main() and start_kernel() of loader/src/loader.c, plat_start_cpu() and  *)
(* the secondary entry of loader/src/{aarch64,riscv}/cpus.c with their     *)
(* assembly.  CPU 0 starts the others one by one, by a spin table, by PSCI *)
(* or by SBI; a build with CONFIG_PRINTING keeps their output apart with   *)
(* print_lock, a build without it lets them start in parallel.  The image  *)
(* that CPU 0 moves and unpacks before is in LoaderImage; LoaderRun puts   *)
(* the two together.                                                       *)
(*                                                                         *)
(* A hart of RISC-V that is not FIRST_HART_ID starts that hart, then stops *)
(* itself (riscv/crt0.S).  Acquire, release and the barriers make shared   *)
(* memory sequentially consistent here.                                    *)
(***************************************************************************)
EXTENDS Integers

CONSTANTS
  N,          \* NUM_ACTIVE_CPUS
  Builds,     \* the builds, as [start, printing]
  BootHart,   \* the CPU the SBI started, 0 for FIRST_HART_ID
  MayRefuse,  \* the CPUs the firmware may refuse to start
  MayFail     \* the CPUs whose arch_mmu_enable() may fail

Cpu == 0 .. N - 1

ASSUME BootAssumption ==
  /\ N \in Nat \ {0}
  /\ Builds \subseteq [start : {"spin", "psci", "sbi", "none"}, printing : BOOLEAN]
  /\ BootHart \in Cpu
  /\ MayRefuse \subseteq Cpu
  /\ MayFail \subseteq Cpu

VARIABLES
  build,      \* the build that runs
  pc,         \* what each CPU does
  next,       \* the variable cpu of main()
  result,     \* what plat_start_cpu() returned
  stack,      \* the logical id on top of each stack, sp[0]
  sp,         \* the CPU whose stack each CPU runs on
  id,         \* the logical_cpu each CPU was given
  hwId,       \* cpu_mpidrs
  data,       \* arm_spin_table_secondary_cpu_data, 0 or whose stack it is
  printLock,  \* print_lock
  refused     \* history: CPUs the firmware refused to start

memory == <<stack, hwId, data, printLock>>
bootVars == <<build, pc, next, result, stack, sp, id, hwId, data, printLock, refused>>

\* Where a CPU writes to the UART in a build with CONFIG_PRINTING.
Printing == {"main", "starting", "error", "secondary", "mmu", "jump"}
Pc == Printing \cup {"off", "switch", "stop", "release", "returned", "waitlock",
                     "nextcpu", "enter", "reset", "kernel", "fail", "halt"}

\* Stacks and ids are those of CPUs that exist, printLock and data are the words
\* they are in the code.
TypeOK ==
  /\ build \in Builds
  /\ pc \in [Cpu -> Pc]
  /\ next \in 1 .. N
  /\ result \in {-1, 0, 1}
  /\ stack \in [Cpu -> Cpu]
  /\ sp \in [Cpu -> Cpu]
  /\ id \in [Cpu -> Cpu]
  /\ hwId \in [Cpu -> Cpu]
  /\ data \in Cpu
  /\ printLock \in {0, 1}
  /\ refused \subseteq Cpu

BootInit ==
  /\ build \in Builds
  /\ pc = [c \in Cpu |->
             IF build.start = "sbi" /\ BootHart # 0
               THEN IF c = BootHart THEN "switch" ELSE "off"
               ELSE IF c = 0 THEN "main" ELSE "off"]
  /\ next = 1
  /\ result = 0
  /\ stack = [c \in Cpu |-> 0]
  /\ sp = [c \in Cpu |-> 0]
  /\ id = [c \in Cpu |-> 0]
  /\ hwId = [c \in Cpu |-> 0]
  /\ data = 0
  /\ printLock = 0
  /\ refused = {}

Goto(c, label) == pc' = [pc EXCEPT ![c] = label]

-----------------------------------------------------------------------------
(* The boot hart of RISC-V.                                                *)

\* hsm_switch_hart: SBI_HSM_HART_START of FIRST_HART_ID.
SwitchHart(c) ==
  /\ pc[c] = "switch"
  /\ pc' = [pc EXCEPT ![c] = "stop", ![0] = "main"]
  /\ UNCHANGED <<build, next, result, sp, id, memory, refused>>

\* SBI_HSM_HART_STOP.
StopHart(c) ==
  /\ pc[c] = "stop"
  /\ Goto(c, "off")
  /\ UNCHANGED <<build, next, result, sp, id, memory, refused>>

-----------------------------------------------------------------------------
(* CPU 0: main().                                                          *)

\* The head of the for loop, with its variable at cpu.  It never calls
\* plat_start_cpu() with a number the check there would reject.
Loop(cpu) == Goto(0, IF cpu < N THEN "starting" ELSE "mmu")

\* The image is checked (or fail()) and copied, the loop begins.
Copy ==
  /\ pc[0] = "main"
  /\ Loop(1) \/ Goto(0, "fail")
  /\ UNCHANGED <<build, next, result, sp, id, memory, refused>>

\* Mutant: the data of the last CPU is overwritten.
StartBySpinTableNoWait ==
  /\ pc[0] = "starting" /\ build.start = "spin"
  /\ stack' = [stack EXCEPT ![next] = next]
  /\ data' = next
  /\ Goto(0, "release")
  /\ UNCHANGED <<build, next, result, sp, id, hwId, printLock, refused>>

\* plat_start_cpu() with a spin table: wait until the last CPU has taken its
\* data, then leave the stack of this one.
StartBySpinTable ==
  /\ pc[0] = "starting" /\ build.start = "spin"
  /\ data = 0
  /\ stack' = [stack EXCEPT ![next] = next]
  /\ data' = next
  /\ Goto(0, "release")
  /\ UNCHANGED <<build, next, result, sp, id, hwId, printLock, refused>>

\* arm_spin_table_cpu_start() writes the release address and sends an event.
Release ==
  /\ pc[0] = "release"
  /\ pc' = [pc EXCEPT ![0] = "returned", ![next] = "enter"]
  /\ result' = 0
  /\ UNCHANGED <<build, next, sp, id, memory, refused>>

\* plat_start_cpu() with PSCI CPU_ON or SBI HART_START: the stack is passed in
\* a register, and the firmware starts only a CPU it has.
StartByFirmware ==
  /\ pc[0] = "starting" /\ build.start \in {"psci", "sbi"}
  /\ pc[next] = "off"
  /\ stack' = [stack EXCEPT ![next] = next]
  /\ sp' = [sp EXCEPT ![next] = next]
  /\ pc' = [pc EXCEPT ![0] = "returned", ![next] = "enter"]
  /\ result' = 0
  /\ UNCHANGED <<build, next, id, hwId, data, printLock, refused>>

\* Mutant: the error of PSCI is printed only, as that of SBI is.
StartRefusedIgnored ==
  /\ pc[0] = "starting" /\ build.start \in {"psci", "sbi"}
  /\ next \in MayRefuse \/ pc[next] # "off"
  /\ stack' = [stack EXCEPT ![next] = next]
  /\ Goto(0, "returned")
  /\ result' = 0
  /\ refused' = refused \cup {next}
  /\ UNCHANGED <<build, next, sp, id, hwId, data, printLock>>

\* The firmware reports an error.  The code for PSCI returns it, the code for
\* SBI prints it and returns 0.
StartRefused ==
  /\ pc[0] = "starting" /\ build.start \in {"psci", "sbi"}
  /\ next \in MayRefuse \/ pc[next] # "off"
  /\ stack' = [stack EXCEPT ![next] = next]
  /\ Goto(0, "returned")
  /\ result' = IF build.start = "psci" THEN 1 ELSE 0
  /\ refused' = refused \cup {next}
  /\ UNCHANGED <<build, next, sp, id, hwId, data, printLock>>

\* A board without PSCI and without a spin table.
StartUnknown ==
  /\ pc[0] = "starting" /\ build.start = "none"
  /\ stack' = [stack EXCEPT ![next] = next]
  /\ Goto(0, "returned")
  /\ result' = -1
  /\ refused' = refused \cup {next}
  /\ UNCHANGED <<build, next, sp, id, hwId, data, printLock>>

\* Mutant: the next CPU is started without waiting for this one.
ReturnedNoWait ==
  /\ pc[0] = "returned"
  /\ IF result # 0 THEN Goto(0, "error") /\ next' = next
                   ELSE next' = next + 1 /\ Loop(next + 1)
  /\ UNCHANGED <<build, result, sp, id, memory, refused>>

\* main() looks at the result, and waits if the build prints.
Returned ==
  /\ pc[0] = "returned"
  /\ IF result # 0 THEN Goto(0, "error") /\ next' = next
     ELSE IF build.printing THEN Goto(0, "waitlock") /\ next' = next
     ELSE next' = next + 1 /\ Loop(next + 1)
  /\ UNCHANGED <<build, result, sp, id, memory, refused>>

\* "unable to start CPU", fail().
Fail ==
  /\ pc[0] = "error"
  /\ Goto(0, "fail")
  /\ UNCHANGED <<build, next, result, sp, id, memory, refused>>

\* while (print_lock != 1);
WaitLock ==
  /\ pc[0] = "waitlock" /\ printLock = 1
  /\ Goto(0, "nextcpu")
  /\ UNCHANGED <<build, next, result, sp, id, memory, refused>>

\* print_lock = 0, ++cpu.
NextCpu ==
  /\ pc[0] = "nextcpu"
  /\ printLock' = 0
  /\ next' = next + 1
  /\ Loop(next + 1)
  /\ UNCHANGED <<build, result, sp, id, stack, hwId, data, refused>>

-----------------------------------------------------------------------------
(* The secondary CPUs, and start_kernel() on all of them.                  *)

\* arm_secondary_cpu_entry_asm and its like: the stack is in a register, the
\* logical id on the stack.
Enter(c) ==
  /\ pc[c] = "enter" /\ build.start # "spin"
  /\ id' = [id EXCEPT ![c] = stack[sp[c]]]
  /\ Goto(c, "secondary")
  /\ UNCHANGED <<build, next, result, sp, memory, refused>>

\* arm_spin_table_secondary_cpu_entry_asm: the stack is in the shared data.
TakeStack(c) ==
  /\ pc[c] = "enter" /\ build.start = "spin"
  /\ sp' = [sp EXCEPT ![c] = data]
  /\ Goto(c, "reset")
  /\ UNCHANGED <<build, next, result, id, memory, refused>>

\* Mutant: the data is not given back.
ResetDataNot(c) ==
  /\ pc[c] = "reset"
  /\ id' = [id EXCEPT ![c] = stack[sp[c]]]
  /\ Goto(c, "secondary")
  /\ UNCHANGED <<build, next, result, sp, memory, refused>>

\* ... which it resets, for the next CPU.
ResetData(c) ==
  /\ pc[c] = "reset"
  /\ data' = 0
  /\ id' = [id EXCEPT ![c] = stack[sp[c]]]
  /\ Goto(c, "secondary")
  /\ UNCHANGED <<build, next, result, sp, stack, hwId, printLock, refused>>

\* arm_secondary_cpu_entry() and riscv_secondary_cpu_entry(): only the first
\* saves the hardware id.
Secondary(c) ==
  /\ pc[c] = "secondary"
  /\ IF id[c] = 0
       THEN Goto(c, "halt") /\ hwId' = hwId
       ELSE /\ Goto(c, "mmu")
            /\ hwId' = IF build.start = "sbi" THEN hwId
                                              ELSE [hwId EXCEPT ![id[c]] = c]
  /\ UNCHANGED <<build, next, result, sp, id, stack, data, printLock, refused>>

\* start_kernel() up to the jump; a CPU at a wrong exception level stays here.
EnableMMU(c) ==
  /\ pc[c] = "mmu"
  /\ Goto(c, "jump") \/ (c \in MayFail /\ Goto(c, "halt"))
  /\ UNCHANGED <<build, next, result, sp, id, memory, refused>>

\* print_lock = 1, arch_jump_to_kernel().
Jump(c) ==
  /\ pc[c] = "jump"
  /\ Goto(c, "kernel")
  /\ printLock' = IF build.printing THEN 1 ELSE printLock
  /\ UNCHANGED <<build, next, result, sp, id, stack, hwId, data, refused>>

-----------------------------------------------------------------------------
Main ==
  \/ Copy \/ StartBySpinTable \/ Release \/ StartByFirmware \/ StartRefused
  \/ StartUnknown \/ Returned \/ Fail \/ WaitLock \/ NextCpu

Step(c) ==
  \/ SwitchHart(c) \/ StopHart(c)
  \/ Enter(c) \/ TakeStack(c) \/ ResetData(c) \/ Secondary(c)
  \/ EnableMMU(c) \/ Jump(c)

BootNext == Main \/ \E c \in Cpu : Step(c)

BootSpec == BootInit /\ [][BootNext]_bootVars

-----------------------------------------------------------------------------
(* Properties.                                                             *)

\* print_lock keeps the output apart: at most one CPU is at a statement that
\* prints (loader.c:114-116 and 188-193).
OnePrinter ==
  build.printing =>
    \A c, d \in Cpu : pc[c] \in Printing /\ pc[d] \in Printing => c = d

\* A secondary CPU runs on its own stack, under its own logical id, and saves
\* its own hardware id, however the starts overlap (cpus.c:189-191).
OwnStack ==
  \A c \in Cpu \ {0} :
    /\ pc[c] \in {"reset", "secondary", "mmu", "jump", "kernel"} => sp[c] = c
    /\ pc[c] \in {"secondary", "mmu", "jump", "kernel"} => id[c] = c
    /\ pc[c] = "kernel" /\ build.start # "sbi" => hwId[c] = c

\* The kernel waits for all NUM_ACTIVE_CPUS: CPU 0 does not enter it before
\* each of them has been started.  Only an SBI that refuses is not noticed.
NoCpuMissing ==
  pc[0] = "kernel" /\ (build.start = "sbi" => refused = {}) =>
    \A c \in Cpu : pc[c] \notin {"off", "switch", "stop"}
=============================================================================
