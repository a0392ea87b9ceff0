------------------------------ MODULE PowerOn ------------------------------
(***************************************************************************)
(* The machine from power on: the boot loader, and where it jumps to, the  *)
(* kernel.  The BIOS has left interrupts on for the loader's calls, and    *)
(* its handlers serve them; stage 2 turns them off before the kernel.      *)
(***************************************************************************)
EXTENDS Boot

CONSTANTS SECTORS_PER_TRACK, HEADS, STAGE2_SECTORS, KERNEL_SECTORS

VARIABLES at, a20, es, cl, ch, dh, si, di, memory

Loader  == INSTANCE BootLoader
loader  == <<at, a20, es, cl, ch, dh, si, di, memory>>
machine == <<vars, loader>>

(* Stage 2 is on the first track, and the kernel fits between its place in *)
(* low memory and 1 MB.                                                    *)
ASSUME LoaderAssumption ==
  /\ SECTORS_PER_TRACK \in Nat \ {0} /\ HEADS \in Nat \ {0}
  /\ STAGE2_SECTORS \in 1 .. SECTORS_PER_TRACK - 1
  /\ KERNEL_SECTORS \in 1 .. (1048576 - 8192 * 16) \div 512

PowerOnInit == Loader!Init /\ Init

Load      == Loader!Next /\ UNCHANGED vars
Kernel(A) == at = "kernel" /\ A /\ UNCHANGED loader

PowerOnNext == Load \/ Kernel(Next)

(* Every call of the BIOS returns.  In the kernel the thread gets on       *)
(* although it is interrupted again and again, the PIC offers the two      *)
(* lines of highest priority before the others, and the timer ticks; its   *)
(* fairness is strong because of the bound, which leaves only the ticks    *)
(* that find the thread halted.                                            *)
PowerOnSpec ==
  /\ PowerOnInit /\ [][PowerOnNext]_machine
  /\ WF_machine(Load)
  /\ SF_machine(Kernel(Thread)) /\ WF_machine(Kernel(Stub))
  /\ SF_machine(Kernel(Accept(0))) /\ SF_machine(Kernel(Accept(1)))
  /\ SF_machine(Kernel(Tick))
-----------------------------------------------------------------------------
(* Properties                                                              *)

(* Every variable of the loader and of the kernel has its type.            *)
MachineTypeOK == Loader!TypeOK /\ TypeOK

(* The kernel starts with its image whole (BootLoader).                    *)
KernelInPlace == Loader!KernelInPlace

(* Power on ends in the shell, with an error message of the loader, or,    *)
(* in the second idt_init only (FaultOnlyInReload), in a fault: the        *)
(* retries of a bad disk come to an end, and so do the splash screen's     *)
(* sleeps, although a tick may come between the test of timer_ticks and    *)
(* hlt (timer.c:76-77).                                                    *)
BootEnds == <>(at = "error" \/ pc = "shell" \/ cpu \in Dead)
=============================================================================
