----------------------------- MODULE BootLoader -----------------------------
(***************************************************************************)
(* The boot loader: load_stage2 of boot/stage1.asm reads stage 2 in one    *)
(* call of the BIOS, load_kernel of boot/stage2.asm reads the kernel       *)
(* sector by sector, with retries, into low memory, and pmode_entry copies *)
(* it to 1 MB and jumps to it.                                             *)
(*                                                                         *)
(* Memory is cut into blocks of the size of a sector, BLOCK bytes.  The    *)
(* BIOS, the disk and the A20 gate are external: a call of the BIOS either *)
(* succeeds or fails, and a read that fails may have stored anything in    *)
(* the block it was to fill.                                               *)
(***************************************************************************)
EXTENDS Integers

CONSTANTS
  SECTORS_PER_TRACK, HEADS,     \* the disk's geometry
  STAGE2_SECTORS, KERNEL_SECTORS    \* PowerOn has what is assumed of them

BLOCK          == 512
STAGE2_SEG     == 4096          \* 0x1000, a segment is 16 bytes
KERNEL_TEMP_SEG == 8192         \* 0x2000
KERNEL_LOAD    == 1048576       \* 0x100000
STAGE2_LBA     == 1             \* where the image has stage 2
KERNEL_LBA     == STAGE2_LBA + STAGE2_SECTORS     \* and the kernel
RETRIES        == 3

VARIABLES
  at,               \* where the loader is
  a20,              \* whether the A20 gate is open
  es, cl, ch, dh,   \* where the next sector goes and where it is on the disk
  si, di,           \* sectors left, tries left
  memory            \* block -> what it holds

vars == <<at, a20, es, cl, ch, dh, si, di, memory>>

(* What a block holds: the image's sector of that number, or something     *)
(* else.                                                                   *)
Junk == -1

Block(segment)  == (segment * 16) \div BLOCK
Stage2Blocks    == Block(STAGE2_SEG) .. Block(STAGE2_SEG) + STAGE2_SECTORS - 1
TempBlocks      == Block(KERNEL_TEMP_SEG) .. Block(KERNEL_TEMP_SEG) + KERNEL_SECTORS - 1
KernelBlocks    == KERNEL_LOAD \div BLOCK .. KERNEL_LOAD \div BLOCK + KERNEL_SECTORS - 1
(* With the gate closed an address above 1 MB is the one 1 MB below it.    *)
AliasBlocks     == 0 .. KERNEL_SECTORS - 1
Blocks          == Stage2Blocks \cup TempBlocks \cup KernelBlocks \cup AliasBlocks

Sector(c, h, s) == (c * HEADS + h) * SECTORS_PER_TRACK + s - 1

Init ==
  /\ at = "reset disk" /\ a20 \in BOOLEAN
  /\ es = 0 /\ cl = 0 /\ ch = 0 /\ dh = 0 /\ si = 0 /\ di = 0
  /\ memory = [b \in Blocks |-> Junk]

-----------------------------------------------------------------------------
(* Stage 1                                                                 *)

ResetDisk ==
  /\ at = "reset disk"
  /\ at' \in {"read stage 2", "error"}
  /\ UNCHANGED <<a20, es, cl, ch, dh, si, di, memory>>

(* One call for all the sectors, which lie on one track; no second try.    *)
ReadStage2 ==
  /\ at = "read stage 2"
  /\ \/ /\ memory' = [b \in Blocks |->
                        IF b \in Stage2Blocks
                        THEN Sector(0, 0, STAGE2_LBA + 1) + b - Block(STAGE2_SEG)
                        ELSE memory[b]]
        /\ at' = "enable a20"
     \/ /\ at' = "error"
        /\ UNCHANGED memory
  /\ UNCHANGED <<a20, es, cl, ch, dh, si, di>>

-----------------------------------------------------------------------------
(* Stage 2, real mode                                                      *)

(* Nothing checks that the gate has opened (stage2.asm:69-73); it has.     *)
EnableA20 ==
  /\ at = "enable a20" /\ at' = "load kernel"
  /\ a20' = TRUE
  /\ UNCHANGED <<es, cl, ch, dh, si, di, memory>>

LoadKernel ==
  /\ at = "load kernel" /\ at' = "loop"
  /\ es' = KERNEL_TEMP_SEG
  /\ cl' = 18 /\ ch' = 0 /\ dh' = 0
  /\ si' = KERNEL_SECTORS
  /\ UNCHANGED <<a20, di, memory>>

Loop ==
  /\ at = "loop"
  /\ IF si = 0 THEN at' = "copy" /\ UNCHANGED di
               ELSE at' = "read" /\ di' = RETRIES
  /\ UNCHANGED <<a20, es, cl, ch, dh, si, memory>>

NextSectorLate ==
  /\ cl' = IF cl <= 18 THEN cl + 1 ELSE 1
  /\ dh' = IF cl <= 18 THEN dh ELSE IF dh = 0 THEN 1 ELSE 0
  /\ ch' = IF cl <= 18 \/ dh = 0 THEN ch ELSE ch + 1
NextSector ==
  /\ cl' = IF cl < 18 THEN cl + 1 ELSE 1
  /\ dh' = IF cl < 18 THEN dh ELSE IF dh = 0 THEN 1 ELSE 0
  /\ ch' = IF cl < 18 \/ dh = 0 THEN ch ELSE ch + 1

ReadSector ==
  /\ at = "read" /\ at' = "loop"
  /\ memory' = [memory EXCEPT ![Block(es)] = Sector(ch, dh, cl)]
  /\ es' = es + 32
  /\ NextSector
  /\ si' = si - 1
  /\ UNCHANGED <<a20, di>>

(* The disk is reset, and every register is what it was before.            *)
Spoilt(b) == memory' \in {memory, [memory EXCEPT ![b] = Junk]}
ReadFailsDone ==
  /\ at = "read"
  /\ Spoilt(Block(es))
  /\ di' = di - 1
  /\ at' = IF di' = 0 THEN "copy" ELSE "read"
  /\ UNCHANGED <<a20, es, cl, ch, dh, si>>
ReadFails ==
  /\ at = "read"
  /\ Spoilt(Block(es))
  /\ di' = di - 1
  /\ at' = IF di' = 0 THEN "error" ELSE "read"
  /\ UNCHANGED <<a20, es, cl, ch, dh, si>>

-----------------------------------------------------------------------------
(* Stage 2, protected mode: the copy and the jump.                         *)

Copy ==
  /\ at = "copy" /\ at' = "kernel"
  /\ LET to == IF a20 THEN KernelBlocks ELSE AliasBlocks
         from(b) == Block(KERNEL_TEMP_SEG) + IF a20 THEN b - KERNEL_LOAD \div BLOCK ELSE b
     IN  memory' = [b \in Blocks |-> IF b \in to THEN memory[from(b)] ELSE memory[b]]
  /\ UNCHANGED <<a20, es, cl, ch, dh, si, di>>

(* The processor waits with its interrupts off.                            *)
Hang == at = "error" /\ UNCHANGED vars

Next ==
  \/ ResetDisk \/ ReadStage2
  \/ EnableA20 \/ LoadKernel \/ Loop \/ ReadSector \/ ReadFails
  \/ Copy \/ Hang

-----------------------------------------------------------------------------
(* Properties                                                              *)

(* Every variable has its type: no sector is read to a block that is not   *)
(* the kernel's, and the disk has the sector that is asked for.            *)
TypeOK ==
  /\ at \in {"reset disk", "read stage 2", "enable a20", "load kernel", "loop", "read",
             "copy", "kernel", "error"}
  /\ a20 \in BOOLEAN
  /\ es \in Nat /\ ch \in Nat /\ si \in 0 .. KERNEL_SECTORS /\ di \in 0 .. RETRIES
  /\ at = "read" => /\ Block(es) \in TempBlocks
                    /\ cl \in 1 .. SECTORS_PER_TRACK /\ dh \in 0 .. HEADS - 1
  /\ memory \in [Blocks -> {Junk} \cup Nat]

(* When the loader jumps to the kernel the image's kernel is there, sector *)
(* by sector in its order, whatever reads failed, were tried again and had *)
(* spoilt their block (stage2.asm:102-147) and however A20 was; stage 2 is *)
(* whole as long as it runs.                                               *)
KernelInPlace ==
  /\ at \notin {"reset disk", "read stage 2", "error"} =>
       \A k \in 0 .. STAGE2_SECTORS - 1 :
         memory[Block(STAGE2_SEG) + k] = STAGE2_LBA + k
  /\ at = "kernel" =>
       \A k \in 0 .. KERNEL_SECTORS - 1 :
         memory[KERNEL_LOAD \div BLOCK + k] = KERNEL_LBA + k
=============================================================================
