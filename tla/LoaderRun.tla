------------------------------ MODULE LoaderRun ------------------------------
(***************************************************************************)
(* The loader as a whole: CPU 0 moves and unpacks the image (LoaderImage), *)
(* starts the other CPUs (LoaderBoot) and enables its MMU, and all of them *)
(* run the code and read the header that the image brought.  A step is one *)
(* of LoaderBoot, one of LoaderImage, or one of both.                      *)
(*                                                                         *)
(* The words that release the CPUs of a spin table are on page 0, where no *)
(* region is loaded on the boards that have one.                           *)
(***************************************************************************)
EXTENDS LoaderImage, LoaderBoot

CONSTANT BuildsOf   \* the builds of the loader for each board

ASSUME BuildsOfAssumption ==
  /\ BuildsOf \in [Boards -> SUBSET Builds]
  /\ \A b \in Boards : \A l \in BuildsOf[b] :
       /\ (l.start = "sbi") <=> (b.arch = "riscv64")
       /\ (l.start = "spin") <=> b.spin

runVars == <<vars, bootVars>>

-----------------------------------------------------------------------------
(* The tool and the bootloader of the board; the boot hart of RISC-V.      *)

Delivery == (WriteImage \/ Load) /\ UNCHANGED bootVars

\* It switches before anything is moved, and stops in the code where the image
\* was put, if that is still there.
BootHartStep(c) ==
  /\ SwitchHart(c) \/ StopHart(c)
  /\ stage \notin {"tool", "panic", "image", "wild"}
  /\ \A i \in 1 .. board.loader : mem[board.at + i - 1] = LoaderPage(i)
  /\ UNCHANGED vars

-----------------------------------------------------------------------------
(* CPU 0.                                                                  *)

\* crt0.S and copy_data().
MoveAndCopy ==
  /\ pc[0] = "main"
  /\ AtLinkAddress \/ RelocationFailed \/ Relocate \/ Restart \/ CopyRegion
  /\ UNCHANGED bootVars

Magic ==
  /\ pc[0] = "main"
  /\ CheckMagic
  /\ IF stage' = "copy" THEN UNCHANGED bootVars ELSE Copy /\ pc'[0] = "fail"

\* Behind copy_data(): the loop over the CPUs.
AllCopied == copied = Len(Regions(board))

BeginLoop ==
  /\ Running("copy") /\ HeaderIntact /\ AllCopied
  /\ Copy /\ pc'[0] # "fail"
  /\ UNCHANGED vars

LoopStep ==
  /\ Running("copy") /\ HeaderIntact
  /\ \/ StartBySpinTable \/ Release \/ StartByFirmware \/ StartRefused
     \/ StartUnknown \/ Returned \/ Fail \/ WaitLock \/ NextCpu
  /\ UNCHANGED vars

\* start_kernel(0).
EnableFirst ==
  /\ EnableMMU(0)
  /\ IF pc'[0] = "jump" THEN EnableMmu ELSE Running("copy") /\ UNCHANGED vars

JumpFirst == Jump(0) /\ JumpToKernel

Wild == GoWild /\ UNCHANGED bootVars

FirstCpu ==
  MoveAndCopy \/ Magic \/ BeginLoop \/ LoopStep \/ EnableFirst \/ JumpFirst \/ Wild

-----------------------------------------------------------------------------
(* The others, in the code and with the header that CPU 0 has left.        *)

OtherCpu(c) ==
  /\ c # 0
  /\ stage # "wild" /\ LoaderIntact /\ HeaderIntact
  /\ Enter(c) \/ TakeStack(c) \/ ResetData(c) \/ Secondary(c) \/ EnableMMU(c) \/ Jump(c)
  /\ UNCHANGED vars

-----------------------------------------------------------------------------
RunInit ==
  /\ Init
  /\ build \in BuildsOf[board]
  /\ BootInit

RunNext ==
  \/ Delivery \/ FirstCpu
  \/ \E c \in Cpu : BootHartStep(c) \/ OtherCpu(c)

\* Every CPU that has been started executes its code.
RunSpec ==
  /\ RunInit /\ [][RunNext]_runVars
  /\ WF_runVars(FirstCpu)
  /\ \A c \in Cpu : WF_runVars(BootHartStep(c) \/ OtherCpu(c))

-----------------------------------------------------------------------------
\* Every CPU arrives in the kernel from wherever the image was put, unless a
\* CPU fails or is refused.  That the loader cannot move without moving onto
\* itself (loader.c:124, relocation_failed) or has to unpack a region onto
\* what is still packed is excluded.
AllInKernel ==
  \A c \in Cpu :
    (stage = "start" /\ PayloadClear /\ (at = board.link \/ MayRelocate)) ~>
      \/ stage = "kernel" /\ pc[c] = "kernel"
      \/ refused # {} \/ \E d \in Cpu : pc[d] \in {"fail", "halt"}
=============================================================================
