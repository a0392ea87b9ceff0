---------------------------- MODULE PowerOnProofs ----------------------------
(***************************************************************************)
(* The machine from power on, for any disk that fails at will, a kernel of *)
(* any size that fits below 1 MB, any set of devices, masks and vectors:   *)
(* the kernel starts with its image in place, interrupts are acknowledged, *)
(* the masks come back, a gate can be missing in the second idt_init only, *)
(* and every variable keeps its type.                                      *)
(***************************************************************************)
EXTENDS PowerOn, TLAPS

-----------------------------------------------------------------------------
(* The loader.  Stage 2 counts in 18 sectors and 2 heads and finds the     *)
(* kernel behind 16 sectors of its own (stage2.asm:85-89), so these are    *)
(* what the disk must have.                                                *)
RealDisk == SECTORS_PER_TRACK = 18 /\ HEADS = 2 /\ STAGE2_SECTORS = 16

(* The blocks of stage 2, of the kernel's place in low memory, of the      *)
(* kernel's place above 1 MB.                                              *)
STAGE2 == 128
TEMP   == 256
KERNEL == 2048

(* n sectors of the image, from number first on, are at block place.       *)
Holds(m, place, first, n) == \A k \in 0 .. n - 1 : m[place + k] = first + k

Done == KERNEL_SECTORS - si

(* The registers of the loop agree on how many sectors are done.           *)
Counting ==
  /\ si \in 0 .. KERNEL_SECTORS
  /\ es = 8192 + 32 * Done
  /\ cl \in 1 .. 18 /\ dh \in 0 .. 1 /\ ch \in Nat
  /\ 36 * ch + 18 * dh + cl = 18 + Done

LInv ==
  /\ memory = [b \in Loader!Blocks |-> memory[b]]
  /\ at \notin {"reset disk", "read stage 2", "error"} => Holds(memory, STAGE2, 1, 16)
  /\ at \in {"load kernel", "loop", "read", "copy"} => a20 = TRUE
  /\ at \in {"loop", "read"} => Counting /\ Holds(memory, TEMP, 17, Done)
  /\ at = "read" => si # 0
  /\ at = "copy" => Holds(memory, TEMP, 17, KERNEL_SECTORS)
  /\ at = "kernel" => Holds(memory, KERNEL, 17, KERNEL_SECTORS)

-----------------------------------------------------------------------------
LEMMA Places ==
  ASSUME RealDisk
  PROVE  /\ Loader!Block(4096) = STAGE2 /\ Loader!Block(8192) = TEMP
         /\ Loader!KERNEL_LOAD \div Loader!BLOCK = KERNEL /\ KERNEL_SECTORS \in 1 .. 1792
         /\ Loader!Stage2Blocks = STAGE2 .. STAGE2 + 15
         /\ Loader!TempBlocks = TEMP .. TEMP + KERNEL_SECTORS - 1
         /\ Loader!KernelBlocks = KERNEL .. KERNEL + KERNEL_SECTORS - 1
<1>1. Loader!Block(4096) = STAGE2 /\ Loader!Block(8192) = TEMP
  BY DEF Loader!Block, Loader!BLOCK, STAGE2, TEMP
<1>2. Loader!KERNEL_LOAD \div Loader!BLOCK = KERNEL
  BY SMT DEF Loader!KERNEL_LOAD, Loader!BLOCK, KERNEL
<1>3. KERNEL_SECTORS \in 1 .. 1792
  BY SMT, LoaderAssumption
<1>4. /\ Loader!Stage2Blocks = STAGE2 .. STAGE2 + 15
      /\ Loader!TempBlocks = TEMP .. TEMP + KERNEL_SECTORS - 1
  <2>1. Loader!Block(Loader!STAGE2_SEG) = STAGE2 /\ Loader!Block(Loader!KERNEL_TEMP_SEG) = TEMP
    BY <1>1 DEF Loader!STAGE2_SEG, Loader!KERNEL_TEMP_SEG
  <2>2. STAGE2_SECTORS = 16
    BY DEF RealDisk
  <2>3. Loader!TempBlocks = TEMP .. TEMP + KERNEL_SECTORS - 1
    BY <2>1 DEF Loader!TempBlocks
  <2>4. Loader!Stage2Blocks = STAGE2 .. STAGE2 + 15
    BY <2>1, <2>2 DEF Loader!Stage2Blocks
  <2> QED BY <2>3, <2>4
<1>5. Loader!KernelBlocks = KERNEL .. KERNEL + KERNEL_SECTORS - 1
  BY <1>2, <1>3 DEF Loader!KernelBlocks
<1> QED BY <1>1, <1>2, <1>3, <1>4, <1>5

LEMMA SectorIs ==
  ASSUME RealDisk, NEW c \in Nat, NEW h \in Nat, NEW s \in Nat
  PROVE  Loader!Sector(c, h, s) = 36 * c + 18 * h + (s - 1)
  BY DEF RealDisk, Loader!Sector

(* A block outside a region may change.                                    *)
LEMMA HoldsOutside ==
  ASSUME NEW m, NEW b \in Int, NEW e, NEW place \in Int, NEW first, NEW n \in Nat,
         Holds(m, place, first, n), b \notin place .. place + (n - 1)
  PROVE  Holds([m EXCEPT ![b] = e], place, first, n)
<1> SUFFICES ASSUME NEW k \in 0 .. n - 1
             PROVE  [m EXCEPT ![b] = e][place + k] = first + k
  BY DEF Holds
<1>1. place + k # b /\ m[place + k] = first + k
  BY DEF Holds
<1> QED BY <1>1

LEMMA LoaderInit == Loader!Init => LInv
  BY DEF Loader!Init, LInv

(* The block that is read or spoilt is the next one of the kernel's.       *)
LEMMA NextBlock ==
  ASSUME RealDisk, LInv, at = "read"
  PROVE  /\ Done \in 0 .. KERNEL_SECTORS - 1 /\ Loader!Block(es) = TEMP + Done
         /\ Loader!Sector(ch, dh, cl) = 17 + Done
<1>1. Counting /\ si # 0 /\ KERNEL_SECTORS \in 1 .. 1792
  BY Places DEF LInv
<1>2. Done \in 0 .. KERNEL_SECTORS - 1
  BY <1>1 DEF Counting, Done
<1>3. Loader!Block(es) = TEMP + Done
  <2> DEFINE d == Done
  <2>1. es = 8192 + 32 * d /\ d \in Nat
    BY <1>1, <1>2 DEF Counting
  <2> HIDE DEF d
  <2>2. ((8192 + 32 * d) * 16) \div 512 = 256 + d
    BY <2>1
  <2> QED BY <2>1, <2>2 DEF Loader!Block, Loader!BLOCK, TEMP, d
<1>4. Loader!Sector(ch, dh, cl) = 17 + Done
  <2>1. ch \in Nat /\ dh \in Nat /\ cl \in Nat /\ 36 * ch + 18 * dh + cl = 18 + Done
    BY <1>1 DEF Counting
  <2>2. Loader!Sector(ch, dh, cl) = 36 * ch + 18 * dh + (cl - 1)
    BY <2>1, SectorIs
  <2> QED BY <1>1, <1>2, <2>1, <2>2
<1> QED BY <1>2, <1>3, <1>4

(* Sector, head and cylinder carry.                                        *)
LEMMA NextSectorStep ==
  ASSUME RealDisk, LInv, at = "read", Loader!ReadSector
  PROVE  Counting' /\ Done' = Done + 1
<1>1. Counting /\ si # 0 /\ KERNEL_SECTORS \in Nat /\ Done \in Nat
  <2>1. KERNEL_SECTORS \in 1 .. 1792 /\ Done \in 0 .. KERNEL_SECTORS - 1
    BY Places, NextBlock
  <2>2. Counting /\ si # 0
    BY DEF LInv
  <2> QED BY <2>1, <2>2
<1>2. si' = si - 1 /\ es' = es + 32 /\ Loader!NextSector
  BY DEF Loader!ReadSector
<1>3. Done' = Done + 1 /\ si' \in 0 .. KERNEL_SECTORS
  BY <1>1, <1>2 DEF Counting, Done
<1>4. es' = 8192 + 32 * Done'
  BY <1>1, <1>2, <1>3 DEF Counting
<1>5. cl' \in 1 .. 18 /\ dh' \in 0 .. 1 /\ ch' \in Nat /\ 36 * ch' + 18 * dh' + cl' = 18 + Done'
  <2>1. CASE cl < 18
    BY <1>1, <1>2, <1>3, <2>1 DEF Counting, Loader!NextSector
  <2>2. CASE ~(cl < 18) /\ dh = 0
    BY <1>1, <1>2, <1>3, <2>2 DEF Counting, Loader!NextSector
  <2>3. CASE ~(cl < 18) /\ dh # 0
    BY <1>1, <1>2, <1>3, <2>3 DEF Counting, Loader!NextSector
  <2> QED BY <2>1, <2>2, <2>3
<1> QED BY <1>3, <1>4, <1>5 DEF Counting

LEMMA LoaderStep == ASSUME RealDisk, LInv, Loader!Next PROVE LInv'
<1>1. KERNEL_SECTORS \in 1 .. 1792
  BY Places
<1>1a. STAGE2 \in Int /\ TEMP \in Int /\ 16 \in Nat
  BY DEF STAGE2, TEMP
<1>2. CASE Loader!ResetDisk
  BY <1>2 DEF Loader!ResetDisk, LInv
<1>3. CASE Loader!ReadStage2
  <2>1. CASE at' = "error"
    BY <1>3, <2>1 DEF Loader!ReadStage2, LInv
  <2>2. CASE at' # "error"
    <3>1. at' = "enable a20"
          /\ memory' = [b \in Loader!Blocks |->
                          IF b \in Loader!Stage2Blocks
                          THEN Loader!Sector(0, 0, 2) + b - STAGE2 ELSE memory[b]]
      <4>1. at' = "enable a20"
            /\ memory' = [b \in Loader!Blocks |->
                            IF b \in Loader!Stage2Blocks
                            THEN Loader!Sector(0, 0, Loader!STAGE2_LBA + 1)
                                 + b - Loader!Block(Loader!STAGE2_SEG)
                            ELSE memory[b]]
        BY <1>3, <2>2 DEF Loader!ReadStage2
      <4>2. Loader!STAGE2_LBA + 1 = 2
        BY DEF Loader!STAGE2_LBA
      <4>3. Loader!Block(Loader!STAGE2_SEG) = STAGE2
        BY Places DEF Loader!STAGE2_SEG
      <4> QED BY <4>1, <4>2, <4>3, Zenon
    <3>2. Loader!Sector(0, 0, 2) = 1
      BY SectorIs
    <3>3. Holds(memory', STAGE2, 1, 16)
      <4> SUFFICES ASSUME NEW k \in 0 .. 15 PROVE memory'[STAGE2 + k] = 1 + k
        BY DEF Holds
      <4>1. STAGE2 + k \in Loader!Stage2Blocks /\ STAGE2 + k \in Loader!Blocks
        BY Places DEF Loader!Blocks, STAGE2
      <4>2. memory'[STAGE2 + k] = 1 + ((STAGE2 + k) - STAGE2)
        BY <3>1, <3>2, <4>1, Zenon
      <4> QED BY <4>2 DEF STAGE2
    <3>4. memory' = [b \in Loader!Blocks |-> memory'[b]]
      BY <3>1
    <3> QED BY <3>1, <3>3, <3>4 DEF LInv
  <2> QED BY <2>1, <2>2
<1>4. CASE Loader!EnableA20
  BY <1>4 DEF Loader!EnableA20, LInv
<1>5. CASE Loader!LoadKernel
  <2>1. Done' = 0 /\ Counting'
    <3>1. es' = 8192 /\ cl' = 18 /\ ch' = 0 /\ dh' = 0 /\ si' = KERNEL_SECTORS
      <4>1. es' = Loader!KERNEL_TEMP_SEG /\ cl' = 18 /\ ch' = 0 /\ dh' = 0 /\ si' = KERNEL_SECTORS
        BY <1>5 DEF Loader!LoadKernel
      <4> QED BY <4>1 DEF Loader!KERNEL_TEMP_SEG
    <3>2. Done' = 0
      BY <1>1, <3>1 DEF Done
    <3> QED BY <1>1, <3>1, <3>2 DEF Counting
  <2>2. Holds(memory', TEMP, 17, Done')
    BY <2>1 DEF Holds
  <2> QED BY <1>5, <2>1, <2>2 DEF Loader!LoadKernel, LInv
<1>6. CASE Loader!Loop
  <2>1. at = "loop" /\ Counting /\ Holds(memory, TEMP, 17, Done) /\ LInv
    BY <1>6 DEF Loader!Loop, LInv
  <2>2. Counting' /\ Holds(memory', TEMP, 17, Done')
    BY <1>6, <2>1 DEF Loader!Loop, Counting, Holds, Done
  <2>3. si = 0 => Done = KERNEL_SECTORS
    BY <1>1 DEF Done
  <2> QED BY <1>6, <2>1, <2>2, <2>3 DEF Loader!Loop, LInv
<1>7. CASE Loader!ReadSector
  <2>1. at = "read" /\ at' = "loop" /\ a20' = a20
        /\ memory' = [memory EXCEPT ![Loader!Block(es)] = Loader!Sector(ch, dh, cl)]
    BY <1>7 DEF Loader!ReadSector
  <2> DEFINE d == Done
  <2>2. d \in 0 .. KERNEL_SECTORS - 1 /\ memory' = [memory EXCEPT ![TEMP + d] = 17 + d]
    BY <2>1, NextBlock
  <2>3. Counting' /\ Done' = d + 1
    BY <1>7, <2>1, NextSectorStep
  <2>4. /\ memory = [b \in Loader!Blocks |-> memory[b]] /\ a20 = TRUE
        /\ Holds(memory, STAGE2, 1, 16) /\ Holds(memory, TEMP, 17, d)
    BY <2>1 DEF LInv
  <2> HIDE DEF d
  <2>5. TEMP + d \in Loader!Blocks /\ TEMP + d \in Int /\ TEMP + d \notin STAGE2 .. STAGE2 + (16 - 1)
        /\ TEMP + d \notin TEMP .. TEMP + (d - 1) /\ d \in Nat
    BY <1>1, <2>2, Places DEF Loader!Blocks, TEMP, STAGE2
  <2>6. Holds(memory', STAGE2, 1, 16)
    BY <1>1a, <2>2, <2>4, <2>5, HoldsOutside
  <2>7. Holds(memory', TEMP, 17, d)
    BY <1>1a, <2>2, <2>4, <2>5, HoldsOutside
  <2>8. memory'[TEMP + d] = 17 + d
    BY <2>2, <2>4, <2>5
  <2>9. Holds(memory', TEMP, 17, d + 1)
    BY <2>5, <2>7, <2>8 DEF Holds
  <2>10. memory' = [b \in Loader!Blocks |-> memory'[b]]
    BY <2>2, <2>4
  <2> QED BY <2>1, <2>3, <2>4, <2>6, <2>9, <2>10 DEF LInv
<1>8. CASE Loader!ReadFails
  <2>1. at = "read" /\ at' \in {"error", "read"} /\ UNCHANGED <<a20, es, cl, ch, dh, si>>
        /\ \/ memory' = memory
           \/ memory' = [memory EXCEPT ![Loader!Block(es)] = Loader!Junk]
    BY <1>8 DEF Loader!ReadFails, Loader!Spoilt
  <2> DEFINE d == Done
  <2>2. d \in 0 .. KERNEL_SECTORS - 1 /\ Loader!Block(es) = TEMP + d
    BY <2>1, NextBlock
  <2>3. /\ memory = [b \in Loader!Blocks |-> memory[b]] /\ a20 = TRUE /\ Counting /\ si # 0
        /\ Holds(memory, STAGE2, 1, 16) /\ Holds(memory, TEMP, 17, d)
    BY <2>1 DEF LInv
  <2>4. Counting' /\ Done' = d
    BY <2>1, <2>3 DEF Counting, Done
  <2> HIDE DEF d
  <2>5. TEMP + d \in Int /\ TEMP + d \notin STAGE2 .. STAGE2 + (16 - 1)
        /\ TEMP + d \notin TEMP .. TEMP + (d - 1) /\ d \in Nat
    BY <1>1, <2>2 DEF TEMP, STAGE2
  <2>6. Holds(memory', STAGE2, 1, 16)
    BY <1>1a, <2>1, <2>2, <2>3, <2>5, HoldsOutside
  <2>7. Holds(memory', TEMP, 17, d)
    BY <1>1a, <2>1, <2>2, <2>3, <2>5, HoldsOutside
  <2>8. memory' = [b \in Loader!Blocks |-> memory'[b]]
    BY <2>1, <2>3
  <2> QED BY <2>1, <2>3, <2>4, <2>6, <2>7, <2>8 DEF LInv
<1>9. CASE Loader!Copy
  <2>1. at = "copy" /\ at' = "kernel" /\ a20 = TRUE /\ Holds(memory, TEMP, 17, KERNEL_SECTORS)
        /\ Holds(memory, STAGE2, 1, 16)
    BY <1>9 DEF Loader!Copy, LInv
  <2>2. memory' = [b \in Loader!Blocks |->
                     IF b \in Loader!KernelBlocks THEN memory[TEMP + (b - KERNEL)] ELSE memory[b]]
    <3>1. Loader!KERNEL_LOAD \div Loader!BLOCK = KERNEL
          /\ Loader!Block(Loader!KERNEL_TEMP_SEG) = TEMP
      BY Places DEF Loader!KERNEL_TEMP_SEG
    <3> QED BY <1>9, <2>1, <3>1 DEF Loader!Copy
  <2>3. Holds(memory', KERNEL, 17, KERNEL_SECTORS)
    <3> SUFFICES ASSUME NEW k \in 0 .. KERNEL_SECTORS - 1
                 PROVE  memory'[KERNEL + k] = 17 + k
      BY DEF Holds
    <3>1. KERNEL + k \in Loader!KernelBlocks /\ KERNEL + k \in Loader!Blocks
          /\ (KERNEL + k) - KERNEL = k
      BY <1>1, Places DEF Loader!Blocks, KERNEL
    <3>2. memory[TEMP + k] = 17 + k
      BY <2>1 DEF Holds
    <3> QED BY <2>2, <3>1, <3>2, Zenon
  <2>4. Holds(memory', STAGE2, 1, 16)
    <3> SUFFICES ASSUME NEW k \in 0 .. 16 - 1 PROVE memory'[STAGE2 + k] = 1 + k
      BY DEF Holds
    <3>1. STAGE2 + k \notin Loader!KernelBlocks /\ STAGE2 + k \in Loader!Blocks
      BY <1>1, Places DEF Loader!Blocks, KERNEL, STAGE2
    <3>2. memory[STAGE2 + k] = 1 + k
      BY <2>1 DEF Holds
    <3> QED BY <2>2, <3>1, <3>2, Zenon
  <2>5. memory' = [b \in Loader!Blocks |-> memory'[b]]
    BY <2>2
  <2> QED BY <2>1, <2>3, <2>4, <2>5 DEF LInv
<1>10. CASE Loader!Hang
  BY <1>10 DEF Loader!Hang, Loader!vars, LInv, Counting, Done, Holds
<1> QED BY <1>2, <1>3, <1>4, <1>5, <1>6, <1>7, <1>8, <1>9, <1>10 DEF Loader!Next

LEMMA MachineStep == ASSUME RealDisk PROVE LInv /\ [PowerOnNext]_machine => LInv'
<1> SUFFICES ASSUME LInv, [PowerOnNext]_machine PROVE LInv'
  OBVIOUS
<1>1. CASE Load
  BY <1>1, LoaderStep DEF Load
<1>2. CASE UNCHANGED loader
  <2>1. /\ at' = at /\ a20' = a20 /\ memory' = memory
        /\ es' = es /\ cl' = cl /\ ch' = ch /\ dh' = dh /\ si' = si
    BY <1>2 DEF loader
  <2>2. Counting' = Counting /\ Done' = Done
    BY <2>1 DEF Counting, Done
  <2>3. (memory = [b \in Loader!Blocks |-> memory[b]])'
        <=> (memory = [b \in Loader!Blocks |-> memory[b]])
    BY <2>1
  <2> QED BY <2>1, <2>2, <2>3, Zenon DEF LInv, Holds
<1> QED BY <1>1, <1>2 DEF PowerOnNext, Kernel, machine

(* Whatever reads fail and are tried again, the kernel starts with its     *)
(* whole image in place, of whatever size it is (stage2.asm:76-147).       *)
THEOREM ImageIsWhole == ASSUME RealDisk PROVE PowerOnSpec => []KernelInPlace
<1>1. PowerOnInit => LInv
  BY LoaderInit DEF PowerOnInit
<1>2. LInv => KernelInPlace
  <2>1. STAGE2_SECTORS = 16 /\ Loader!STAGE2_LBA = 1
    BY DEF RealDisk, Loader!STAGE2_LBA
  <2>2. Loader!KERNEL_LBA = 17
    BY <2>1 DEF Loader!KERNEL_LBA
  <2>3. Loader!Block(Loader!STAGE2_SEG) = STAGE2
    BY Places DEF Loader!STAGE2_SEG
  <2>4. Loader!KERNEL_LOAD \div Loader!BLOCK = KERNEL
    BY Places
  <2> SUFFICES ASSUME LInv PROVE Loader!KernelInPlace
    BY DEF KernelInPlace
  <2>5. ASSUME at \notin {"reset disk", "read stage 2", "error"},
               NEW k \in 0 .. STAGE2_SECTORS - 1
        PROVE  memory[Loader!Block(Loader!STAGE2_SEG) + k] = Loader!STAGE2_LBA + k
    <3>1. Holds(memory, STAGE2, 1, 16)
      BY <2>5 DEF LInv
    <3>2. k \in 0 .. 16 - 1
      BY <2>1
    <3>3. memory[STAGE2 + k] = 1 + k
      BY <3>1, <3>2 DEF Holds
    <3> QED BY <2>1, <2>3, <3>3
  <2>6. ASSUME at = "kernel", NEW k \in 0 .. KERNEL_SECTORS - 1
        PROVE  memory[Loader!KERNEL_LOAD \div Loader!BLOCK + k] = Loader!KERNEL_LBA + k
    <3>1. memory[KERNEL + k] = 17 + k
      BY <2>6 DEF LInv, Holds
    <3> QED BY <2>2, <2>4, <3>1
  <2> QED BY <2>5, <2>6 DEF Loader!KernelInPlace
<1> QED BY <1>1, <1>2, MachineStep, PTL DEF PowerOnSpec

(* The types of the registers and of what memory holds; the tries of a     *)
(* sector are counted down from 3.                                         *)
Registers ==
  /\ at \in {"reset disk", "read stage 2", "enable a20", "load kernel", "loop", "read",
             "copy", "kernel", "error"}
  /\ a20 \in BOOLEAN
  /\ es \in Nat /\ ch \in Nat /\ si \in 0 .. KERNEL_SECTORS /\ di \in 0 .. 3
  /\ at = "read" => di # 0
  /\ memory \in [Loader!Blocks -> {-1} \cup Nat]

LEMMA RegistersInit == ASSUME RealDisk PROVE Loader!Init => Registers
<1>1. KERNEL_SECTORS \in 1 .. 1792
  BY Places
<1> SUFFICES ASSUME Loader!Init PROVE Registers
  OBVIOUS
<1>2. at = "reset disk" /\ a20 \in BOOLEAN /\ es = 0 /\ ch = 0 /\ si = 0 /\ di = 0
  BY DEF Loader!Init
<1>3. memory \in [Loader!Blocks -> {-1} \cup Nat]
  BY DEF Loader!Init, Loader!Junk
<1>4. 0 \in Nat /\ 0 \in 0 .. KERNEL_SECTORS /\ 0 \in 0 .. 3
  BY <1>1
<1> QED BY <1>2, <1>3, <1>4 DEF Registers

LEMMA RegistersStep == ASSUME RealDisk, LInv, Registers, Loader!Next PROVE Registers'
<1>1. KERNEL_SECTORS \in 1 .. 1792
  BY Places
<1>2. CASE Loader!ResetDisk \/ Loader!EnableA20 \/ Loader!Hang
  BY <1>2 DEF Loader!ResetDisk, Loader!EnableA20, Loader!Hang, Loader!vars, Registers
<1>3. CASE Loader!ReadStage2
  <2>1. at' \in {"enable a20", "error"} /\ UNCHANGED <<a20, es, cl, ch, dh, si, di>>
    BY <1>3 DEF Loader!ReadStage2
  <2>2. memory' \in [Loader!Blocks -> {-1} \cup Nat]
    <3>1. CASE memory' = memory
      BY <3>1 DEF Registers
    <3>2. CASE memory' # memory
      <4>1. memory' = [b \in Loader!Blocks |->
                            IF b \in Loader!Stage2Blocks
                            THEN Loader!Sector(0, 0, Loader!STAGE2_LBA + 1)
                                 + b - Loader!Block(Loader!STAGE2_SEG)
                            ELSE memory[b]]
        BY <1>3, <3>2 DEF Loader!ReadStage2
      <4>2. Loader!STAGE2_LBA + 1 = 2 /\ Loader!Block(Loader!STAGE2_SEG) = STAGE2
        BY Places DEF Loader!STAGE2_LBA, Loader!STAGE2_SEG
      <4>3. Loader!Sector(0, 0, Loader!STAGE2_LBA + 1) = 1
        BY <4>2, SectorIs
      <4>4. ASSUME NEW b \in Loader!Stage2Blocks
            PROVE  Loader!Sector(0, 0, Loader!STAGE2_LBA + 1)
                                 + b - Loader!Block(Loader!STAGE2_SEG) \in Nat
        <5>1. b \in STAGE2 .. STAGE2 + 15
          BY Places
        <5> QED BY <4>2, <4>3, <5>1 DEF STAGE2
      <4>5. \A b \in Loader!Blocks : memory[b] \in {-1} \cup Nat
        BY DEF Registers
      <4> QED BY <4>1, <4>4, <4>5, Zenon
    <3> QED BY <3>1, <3>2
  <2> QED BY <2>1, <2>2 DEF Registers
<1>4. CASE Loader!LoadKernel
  <2>1. /\ at' = "loop" /\ es' = Loader!KERNEL_TEMP_SEG /\ ch' = 0 /\ si' = KERNEL_SECTORS
        /\ UNCHANGED <<a20, di, memory>>
    BY <1>4, Zenon DEF Loader!LoadKernel
  <2>2. Loader!KERNEL_TEMP_SEG \in Nat /\ 0 \in Nat /\ KERNEL_SECTORS \in 0 .. KERNEL_SECTORS
    BY <1>1 DEF Loader!KERNEL_TEMP_SEG
  <2>3. at' \in {"loop"} /\ "loop" # "read"
    BY <2>1
  <2> QED BY <2>1, <2>2, <2>3, Zenon DEF Registers
<1>5. CASE Loader!Loop
  <2>1. UNCHANGED <<a20, es, ch, si, memory>>
    BY <1>5 DEF Loader!Loop
  <2>2. \/ at' = "copy" /\ di' = di
        \/ at' = "read" /\ di' = 3
    BY <1>5 DEF Loader!Loop, Loader!RETRIES
  <2>3. di \in 0 .. 3
    BY Zenon DEF Registers
  <2>4. di' \in 0 .. 3
    BY <2>2, <2>3
  <2>5. at' = "read" => di' # 0
    BY <2>2, <2>3
  <2> QED BY <2>1, <2>2, <2>4, <2>5 DEF Registers
<1>6. CASE Loader!ReadSector
  <2>1. at = "read" /\ at' = "loop" /\ a20' = a20 /\ di' = di /\ es' = es + 32 /\ si' = si - 1
        /\ memory' = [memory EXCEPT ![Loader!Block(es)] = Loader!Sector(ch, dh, cl)]
        /\ (ch' = ch \/ ch' = ch + 1)
    BY <1>6 DEF Loader!ReadSector, Loader!NextSector
  <2>2. Loader!Sector(ch, dh, cl) \in Nat
    BY <1>1, <2>1, NextBlock
  <2>3. memory' \in [Loader!Blocks -> {-1} \cup Nat]
    BY <2>1, <2>2 DEF Registers
  <2>4. si # 0
    BY <2>1 DEF LInv
  <2> QED BY <1>1, <2>1, <2>3, <2>4 DEF Registers
<1>7. CASE Loader!ReadFails
  BY <1>7 DEF Loader!ReadFails, Loader!Spoilt, Loader!Junk, Registers
<1>8. CASE Loader!Copy
  <2>1. at = "copy" /\ at' = "kernel" /\ a20 = TRUE /\ UNCHANGED <<a20, es, cl, ch, dh, si, di>>
    BY <1>8 DEF Loader!Copy, LInv
  <2>2. memory' = [b \in Loader!Blocks |->
                     IF b \in Loader!KernelBlocks THEN memory[TEMP + (b - KERNEL)] ELSE memory[b]]
    <3>1. Loader!KERNEL_LOAD \div Loader!BLOCK = KERNEL
          /\ Loader!Block(Loader!KERNEL_TEMP_SEG) = TEMP
      BY Places DEF Loader!KERNEL_TEMP_SEG
    <3> QED BY <1>8, <2>1, <3>1 DEF Loader!Copy
  <2>3. \A b \in Loader!KernelBlocks : memory[TEMP + (b - KERNEL)] \in {-1} \cup Nat
    <3> TAKE b \in Loader!KernelBlocks
    <3>1. TEMP + (b - KERNEL) \in Loader!Blocks
      BY <1>1, Places DEF Loader!Blocks, TEMP, KERNEL
    <3> QED BY <3>1 DEF Registers
  <2>4. \A b \in Loader!Blocks : memory[b] \in {-1} \cup Nat
    BY DEF Registers
  <2>5. memory' \in [Loader!Blocks -> {-1} \cup Nat]
    BY <2>2, <2>3, <2>4, Zenon
  <2> QED BY <2>1, <2>5 DEF Registers
<1> QED BY <1>2, <1>3, <1>4, <1>5, <1>6, <1>7, <1>8 DEF Loader!Next

LEMMA LoaderTypes == ASSUME RealDisk PROVE PowerOnSpec => []Loader!TypeOK
<1>1. PowerOnInit => LInv /\ Registers
  BY LoaderInit, RegistersInit DEF PowerOnInit
<1>2. LInv /\ Registers /\ [PowerOnNext]_machine => Registers'
  <2>1. Loader!Next \/ UNCHANGED loader \/ ~[PowerOnNext]_machine
    BY DEF PowerOnNext, Load, Kernel, machine
  <2>2. Registers /\ UNCHANGED loader => Registers'
    BY DEF loader, Registers
  <2> QED BY <2>1, <2>2, RegistersStep
<1>3. LInv /\ Registers => Loader!TypeOK
  <2> SUFFICES ASSUME LInv, Registers PROVE Loader!TypeOK
    OBVIOUS
  <2>1. at = "read" => /\ Loader!Block(es) \in Loader!TempBlocks
                       /\ cl \in 1 .. SECTORS_PER_TRACK /\ dh \in 0 .. HEADS - 1
    <3> SUFFICES ASSUME at = "read"
                 PROVE  /\ Loader!Block(es) \in Loader!TempBlocks
                        /\ cl \in 1 .. SECTORS_PER_TRACK /\ dh \in 0 .. HEADS - 1
      OBVIOUS
    <3>1. Done \in 0 .. KERNEL_SECTORS - 1 /\ Loader!Block(es) = TEMP + Done
      BY NextBlock
    <3>2. Loader!Block(es) \in Loader!TempBlocks
      <4>1. KERNEL_SECTORS \in 1 .. 1792 /\ Loader!TempBlocks = TEMP .. TEMP + KERNEL_SECTORS - 1
        BY Places
      <4> QED BY <3>1, <4>1 DEF TEMP
    <3>3. cl \in 1 .. 18 /\ dh \in 0 .. 1
      BY DEF LInv, Counting
    <3> QED BY <3>2, <3>3 DEF RealDisk
  <2> QED BY <2>1 DEF Registers, Loader!TypeOK, Loader!RETRIES, Loader!Junk
<1> QED BY <1>1, <1>2, <1>3, MachineStep, PTL DEF PowerOnSpec

-----------------------------------------------------------------------------
(* The kernel.                                                             *)
Alive == cpu \notin Dead

(* The lines in service while a handler runs.                              *)
InService(l) == {l} \cup (IF l < 8 THEN {} ELSE {2})

Types ==
  /\ pc \in Control /\ round \in {1, 2} /\ masks \subseteq Lines
  /\ DOMAIN idt = Vectors /\ loaded \in BOOLEAN
  /\ enabled \in BOOLEAN /\ cpu \in {"running", "halted"} \cup Dead
  /\ stub \in {"idle", "call", "eoi", "iret"} /\ irq \in Lines
  /\ pic \in [ready : BOOLEAN, irr : SUBSET Lines, isr : SUBSET Lines, imr : SUBSET Lines]

(* A handler runs with interrupts off, and what it serves is in service    *)
(* until it acknowledges it.                                               *)
Serving ==
  /\ stub # "idle" => ~enabled /\ cpu = "running"
  /\ Alive => pic.isr = IF stub \in {"call", "eoi"} THEN InService(irq) ELSE {}

(* pic_remap has the masks in its locals while the PIC has lost them.      *)
Masked == IF pc \in {"ready", "unmask"} THEN masks = BiosMask ELSE pic.imr = BiosMask

(* How far the table is; before the first sti no interrupt is taken.       *)
IrqVectors == {v \in Vectors : v \in 32 .. 47}
Stubbed(S) == \A v \in S : idt[v] = "irq stub"
Table ==
  /\ pc \notin Reload => Stubbed(IrqVectors)
  /\ pc = "irqs" => Stubbed(IrqVectors \ todo)
  /\ round = 2 \/ pc \notin Reload \cup {"lidt"} => loaded
  /\ round = 1 /\ pc \in Reload \cup {"lidt", "sti"} => ~enabled /\ stub = "idle"

IInv == Types /\ Serving /\ Masked /\ Table

-----------------------------------------------------------------------------
LEMMA MinOfOne == ASSUME NEW x \in Int PROVE Min({x}) = x
  BY DEF Min

LEMMA InvariantInit == Init => IInv
<1> SUFFICES ASSUME Init PROVE IInv
  OBVIOUS
<1>1. Types
  BY BootAssumption DEF Init, Types, Control, Reload, Lines, Dead
<1>2. Serving
  BY DEF Init, Serving
<1>3. Masked
  BY DEF Init, Masked
<1>4. Table
  BY DEF Init, Table, Reload
<1> QED BY <1>1, <1>2, <1>3, <1>4 DEF IInv

(* What idt_init, the rest of the thread, the stub, an interrupt and the   *)
(* devices change.                                                         *)
LEMMA IdtInitStep == ASSUME IInv, IdtInit PROVE IInv'
<1>1. At(pc) /\ Types /\ Serving /\ Masked /\ Table
  BY DEF IInv, IdtInit, Clear, Cleared, Exceptions, Remap, Ready, Unmask, Irqs, Lidt, Sti, SetGates, At
<1>2. cpu = "running" /\ stub = "idle" /\ Alive /\ pic.isr = {} /\ cpu' = cpu /\ stub' = stub
      /\ irq' = irq /\ round' = round
  BY <1>1 DEF At, Serving, Alive, Dead, IdtInit, Clear, Cleared, Exceptions, Remap, Ready, Unmask,
              Irqs, Lidt, Sti, SetGates, handler
<1>3. CASE Clear
  BY <1>1, <1>2, <1>3 DEF Clear, At, IInv, Types, Serving, Alive, Dead, Masked, Table, Reload
<1>4. CASE Cleared
  BY <1>1, <1>2, <1>4 DEF Cleared, At, Goto, IInv, Types, Serving, Alive, Dead, Masked, Table, Reload,
                          Control, tables
<1>5. CASE Exceptions
  BY <1>1, <1>2, <1>5 DEF Exceptions, SetGates, At, Goto, IInv, Types, Serving, Alive, Dead, Masked,
                          Table, Reload, Control
<1>6. CASE Remap
  BY <1>1, <1>2, <1>6 DEF Remap, At, Goto, IInv, Types, Serving, Alive, Dead, Masked, Table, Reload,
                          Control, tables, Lines
<1>7. CASE Ready
  BY <1>1, <1>2, <1>7 DEF Ready, At, Goto, IInv, Types, Serving, Alive, Dead, Masked, Table, Reload,
                          Control, tables
<1>8. CASE Unmask
  BY <1>1, <1>2, <1>8 DEF Unmask, At, Goto, IInv, Types, Serving, Alive, Dead, Masked, Table, Reload,
                          Control, tables, IrqVectors, Stubbed
<1>9. CASE Irqs
  BY <1>1, <1>2, <1>9 DEF Irqs, SetGates, At, Goto, IInv, Types, Serving, Alive, Dead, Masked, Table,
                          Reload, Control, Stubbed, IrqVectors
<1>10. CASE Lidt
  BY <1>1, <1>2, <1>10 DEF Lidt, At, Goto, IInv, Types, Serving, Alive, Dead, Masked, Table, Reload,
                           Control, Stubbed
<1>11. CASE Sti
  BY <1>1, <1>2, <1>11 DEF Sti, At, Goto, IInv, Types, Serving, Alive, Dead, Masked, Table, Reload,
                           Control, tables, Stubbed
<1> QED BY <1>3, <1>4, <1>5, <1>6, <1>7, <1>8, <1>9, <1>10, <1>11 DEF IdtInit

LEMMA ThreadStep == ASSUME IInv, Thread PROVE IInv'
<1>1. Types /\ Serving /\ Masked /\ Table
  BY DEF IInv
<1>2. CASE IdtInit
  BY <1>2, IdtInitStep
<1>3. CASE ZeroTicks
  BY <1>1, <1>3 DEF ZeroTicks, At, Goto, IInv, Types, Serving, Alive, Dead, Masked, Table, Reload,
                    Control, tables, handler, Stubbed
<1>4. CASE RegisterTimer
  BY <1>1, <1>4 DEF RegisterTimer, At, Goto, IInv, Types, Serving, Alive, Dead, Masked, Table,
                    Reload, Control, handler, Stubbed
<1>5. CASE KeyboardInit
  BY <1>1, <1>5 DEF KeyboardInit, At, Goto, IInv, Types, Serving, Alive, Dead, Masked, Table,
                    Reload, Control, handler, Stubbed
<1>6. CASE Sleep
  BY <1>1, <1>6 DEF Sleep, At, Goto, IInv, Types, Serving, Alive, Dead, Masked, Table, Reload,
                    Control, tables, handler, Stubbed
<1>7. CASE Check
  <2>1. /\ pc = "check" /\ stub = "idle" /\ UNCHANGED <<masks, enabled, cpu, pic>>
        /\ UNCHANGED <<idt, loaded, stub, irq>>
    BY <1>7 DEF Check, At, tables, handler
  <2>2. \/ pc' = "halt" /\ round' = round
        \/ pc' = "sleep" /\ round' = round
        \/ pc' = "clear" /\ round' = 2
    BY <1>7 DEF Check, Goto
  <2>3. Types'
    BY <1>1, <2>1, <2>2 DEF Types, Control, Reload
  <2>4. Serving' /\ Masked'
    BY <1>1, <2>1, <2>2 DEF Serving, Alive, Masked
  <2>5. Table'
    <3>1. loaded /\ Stubbed(IrqVectors)
      BY <1>1, <2>1 DEF Table, Reload
    <3>2. loaded' /\ Stubbed(IrqVectors)'
      BY <2>1, <3>1 DEF Stubbed, IrqVectors
    <3>3. pc' # "irqs" /\ ~(round' = 1 /\ pc' \in Reload \cup {"lidt", "sti"})
      BY <2>2 DEF Reload
    <3> QED BY <3>2, <3>3 DEF Table
  <2> QED BY <2>3, <2>4, <2>5 DEF IInv
<1>8. CASE Halt
  BY <1>1, <1>8 DEF Halt, At, Goto, IInv, Types, Serving, Alive, Dead, Masked, Table, Reload,
                    Control, tables, handler, Stubbed
<1> QED BY <1>2, <1>3, <1>4, <1>5, <1>6, <1>7, <1>8 DEF Thread

(* The acknowledgement ends the service of every line that is in service.  *)
LEMMA StubStep == ASSUME IInv, Stub PROVE IInv'
<1>1. Types /\ Serving /\ Masked /\ Table
  BY DEF IInv
<1>2. CASE CallHandler
  BY <1>1, <1>2 DEF CallHandler, IInv, Types, Serving, Alive, Dead, Masked, Table, thread, tables,
                    Stubbed
<1>3. CASE Eoi
  <2>1. irq \in 0 .. 15 /\ pic.isr = InService(irq)
    BY <1>1, <1>3 DEF Eoi, Types, Serving, Alive, Dead, Lines
  <2>2. pic'.isr = {}
    <3>1. CASE irq < 8
      <4>1. pic.isr \cap 0 .. 7 = {irq} /\ Min({irq}) = irq
        <5>1. pic.isr = {irq} /\ irq \in 0 .. 7 /\ irq \in Int
          BY <2>1, <3>1 DEF InService
        <5> QED BY <5>1, MinOfOne
      <4> QED BY <1>1, <1>3, <2>1, <3>1, <4>1 DEF Eoi, Types, InService
    <3>2. CASE irq >= 8
      <4>1. pic.isr \cap 0 .. 7 = {2} /\ Min({2}) = 2
        BY <2>1, <3>2, MinOfOne DEF InService
      <4>2. pic.isr \cap 8 .. 15 = {irq} /\ Min({irq}) = irq
        BY <2>1, <3>2, MinOfOne DEF InService
      <4> QED BY <1>1, <1>3, <2>1, <3>2, <4>1, <4>2 DEF Eoi, Types, InService
    <3> QED BY <2>1, <3>1, <3>2
  <2>3. pic' \in [ready : BOOLEAN, irr : SUBSET Lines, isr : SUBSET Lines, imr : SUBSET Lines]
        /\ pic'.imr = pic.imr
    BY <1>1, <1>3 DEF Eoi, Types
  <2> QED BY <1>1, <1>3, <2>2, <2>3 DEF Eoi, IInv, Types, Serving, Alive, Dead, Masked, Table,
                    thread, tables, Stubbed
<1>4. CASE Iret
  <2>1. /\ stub = "iret" /\ stub' = "idle" /\ irq' = 0 /\ enabled' = TRUE
        /\ UNCHANGED <<thread, tables, cpu, pic>>
    BY <1>4 DEF Iret
  <2>2. ~(round = 1 /\ pc \in Reload \cup {"lidt", "sti"})
    BY <1>1, <2>1 DEF Table
  <2>3. Types' /\ Masked'
    BY <1>1, <2>1 DEF Types, Masked, thread, tables, Lines
  <2>4. Serving'
    BY <1>1, <2>1 DEF Serving, Alive
  <2>5. Table'
    BY <1>1, <2>1, <2>2 DEF Table, thread, tables, Stubbed
  <2> QED BY <2>3, <2>4, <2>5 DEF IInv
<1> QED BY <1>2, <1>3, <1>4 DEF Stub

LEMMA AcceptStep == ASSUME IInv, NEW l \in Devices, Accept(l) PROVE IInv'
<1>1. Types /\ Serving /\ Masked /\ Table /\ l \in Lines
  BY BootAssumption DEF IInv
<1>2. Alive /\ enabled /\ stub = "idle" /\ pic.isr = {}
  BY <1>1 DEF Accept, Serving, Alive, Dead
<1>3. /\ pic' \in [ready : BOOLEAN, irr : SUBSET Lines, isr : SUBSET Lines, imr : SUBSET Lines]
      /\ pic'.imr = pic.imr /\ pic'.isr = InService(l)
  <2> DEFINE s == {l} \cup (IF l < 8 THEN {} ELSE {2})
  <2>1. pic' = [pic EXCEPT !.irr = @ \ {l}, !.isr = (@ \cup {l}) \cup (IF l < 8 THEN {} ELSE {2})]
    BY DEF Accept
  <2>2. (pic.isr \cup {l}) \cup (IF l < 8 THEN {} ELSE {2}) = s /\ s \subseteq Lines
    BY <1>1, <1>2 DEF Lines
  <2> HIDE DEF s
  <2>3. pic' = [pic EXCEPT !.irr = @ \ {l}, !.isr = s]
    BY <2>1, <2>2
  <2> QED BY <1>1, <2>2, <2>3 DEF Types, InService, s
<1>4. ~(round = 1 /\ pc \in Reload \cup {"lidt", "sti"})
  BY <1>1, <1>2 DEF Table
<1>5. CASE loaded /\ idt[32 + l] = "irq stub"
  <2>1. cpu' = "running" /\ stub' = "call" /\ irq' = l /\ enabled' = FALSE
    BY <1>5 DEF Accept
  <2> QED BY <1>1, <1>3, <1>4, <2>1 DEF Accept, IInv, Types, Serving, Masked, Table, thread, tables,
                    Stubbed
<1>6. CASE ~(loaded /\ idt[32 + l] = "irq stub")
  <2>1. cpu' \in Dead /\ stub' = stub /\ irq' = irq /\ enabled' = FALSE
    BY <1>6 DEF Accept, Fault, DoubleFault, Dead, handler
  <2> QED BY <1>1, <1>2, <1>3, <1>4, <2>1 DEF Accept, IInv, Types, Serving, Alive, Masked, Table,
                    thread, tables, Stubbed
<1> QED BY <1>5, <1>6

LEMMA DeviceStep == ASSUME IInv, Tick \/ Key \/ Other PROVE IInv'
<1>1. Types /\ Serving /\ Masked /\ Table
  BY DEF IInv
<1>2. PICK l \in Lines : Raise(l)
  BY BootAssumption DEF Tick, Key, Other, Lines
<1>3. /\ pic' \in [ready : BOOLEAN, irr : SUBSET Lines, isr : SUBSET Lines, imr : SUBSET Lines]
      /\ pic'.imr = pic.imr /\ pic'.isr = pic.isr
  BY <1>1, <1>2 DEF Raise, Types
<1>4. UNCHANGED <<thread, tables, enabled, cpu, handler>>
  BY DEF Tick, Key, Other
<1> QED BY <1>1, <1>3, <1>4 DEF IInv, Types, Serving, Alive, Masked, Table, thread, tables, handler,
                    Stubbed

LEMMA InvariantStep == IInv /\ [PowerOnNext]_machine => IInv'
<1> SUFFICES ASSUME IInv, [PowerOnNext]_machine PROVE IInv'
  OBVIOUS
<1>1. Next \/ UNCHANGED vars
  BY DEF PowerOnNext, Load, Kernel, machine
<1>2. CASE UNCHANGED vars
  BY <1>2 DEF vars, IInv, Types, Serving, Alive, Masked, Table, thread, tables, handler, Stubbed
<1> QED BY <1>1, <1>2, ThreadStep, StubStep, AcceptStep, DeviceStep DEF Next

LEMMA Invariant == PowerOnSpec => []IInv
<1>1. PowerOnInit => IInv
  BY InvariantInit DEF PowerOnInit
<1> QED BY <1>1, InvariantStep, PTL DEF PowerOnSpec

(* No stub leaves a line in service, be it the master's or the slave's     *)
(* (idt.c:294-298).                                                        *)
THEOREM EveryLineAcknowledged == PowerOnSpec => []Acknowledged
<1>1. IInv => Acknowledged
  BY DEF IInv, Serving, Alive, Acknowledged
<1> QED BY <1>1, Invariant, PTL

(* pic_remap gives the PICs the masks they had, both times (idt.c:123-153). *)
THEOREM MasksComeBack == PowerOnSpec => []MasksRestored
<1>1. IInv => MasksRestored
  BY DEF IInv, Masked, MasksRestored
<1> QED BY <1>1, Invariant, PTL

(* Only an interrupt in the second idt_init can find its gate missing      *)
(* (idt.c:166-223).                                                        *)
THEOREM FaultsOnlyInReload == PowerOnSpec => FaultOnlyInReload
<1>1. IInv /\ [PowerOnNext]_machine
        => [cpu \notin Dead /\ cpu' \in Dead => round = 2 /\ pc \in Reload]_vars
  <2> SUFFICES ASSUME IInv, PowerOnNext, cpu \notin Dead, cpu' \in Dead
               PROVE  round = 2 /\ pc \in Reload
    BY DEF machine, vars
  <2>1. Next
    BY DEF PowerOnNext, Load, Kernel, vars
  <2>2. PICK l \in Devices : Accept(l)
    BY <2>1 DEF Next, Thread, IdtInit, Clear, Cleared, Exceptions, Remap, Ready, Unmask, Irqs, Lidt,
                Sti, SetGates, ZeroTicks, RegisterTimer, KeyboardInit, Sleep, Check, Halt, Stub,
                CallHandler, Eoi, Iret, Tick, Key, Other, Dead
  <2>3. enabled /\ ~(loaded /\ idt[32 + l] = "irq stub")
    BY <2>2 DEF Accept, Dead
  <2>4. 32 + l \in IrqVectors
    BY BootAssumption DEF IrqVectors, Lines
  <2>5. Table /\ round \in {1, 2}
    BY DEF IInv, Types
  <2>6. pc \in Reload
    BY <2>3, <2>4, <2>5 DEF Table, Stubbed, Reload
  <2> QED BY <2>3, <2>5, <2>6 DEF Table
<1> QED BY <1>1, Invariant, PTL DEF PowerOnSpec, FaultOnlyInReload

(* The types of the variables the invariant above has nothing to say of.   *)
(* The splash screen, which sleeps in the first round only, counts to      *)
(* bar_width + 1.                                                          *)
Splash == {"sleep", "check", "halt"}
Counters ==
  /\ todo \subseteq Vectors /\ obf \in BOOLEAN /\ late \in 0 .. MaxLate
  /\ i \in 0 .. bar_width + 1 /\ (round = 1 => i <= bar_width) /\ (pc \in Splash => round = 1)
  /\ end \in 0 .. WORD - 1 /\ timer_ticks \in 0 .. WORD - 1
  /\ idt \in [Vectors -> Gate]
  /\ irq_handlers \in [Lines -> {"none", "timer_handler", "keyboard_handler"}]

LEMMA Sizes == WORD \in Nat /\ WORD > 1 /\ bar_width \in Nat /\ bar_width > 0 /\ MaxLate \in Nat
  BY BootAssumption

LEMMA CountersInit == Init => Counters
<1> SUFFICES ASSUME Init PROVE Counters
  OBVIOUS
<1>1. i = 0 /\ end = 0 /\ timer_ticks = 0 /\ late = 0 /\ obf = FALSE
  BY DEF Init
<1>2. /\ 0 \in 0 .. bar_width + 1 /\ 0 <= bar_width /\ 0 \in 0 .. WORD - 1
      /\ 0 \in 0 .. MaxLate
  BY Sizes
<1>3. pc \notin Splash /\ todo \subseteq Vectors /\ idt \in [Vectors -> Gate]
      /\ irq_handlers \in [Lines -> {"none", "timer_handler", "keyboard_handler"}]
  BY DEF Init, Splash, Gate
<1> QED BY <1>1, <1>2, <1>3 DEF Counters

LEMMA InWord == ASSUME NEW n \in Int PROVE n % WORD \in 0 .. WORD - 1
  BY BootAssumption

LEMMA CountersStep == ASSUME IInv, Counters, Next PROVE Counters'
<1>1. Types
  BY DEF IInv
<1>2. CASE IdtInit
  <2>1. UNCHANGED <<i, end, irq_handlers, timer_ticks, obf, late, round>>
    BY <1>2 DEF IdtInit, Clear, Cleared, Exceptions, Remap, Ready, Unmask, Irqs, Lidt, Sti,
                SetGates, tables
  <2>2. pc' \notin Splash
    BY <1>2 DEF IdtInit, Clear, Cleared, Exceptions, Remap, Ready, Unmask, Irqs, Lidt, Sti,
                SetGates, At, Goto, Splash
  <2>3. todo' \subseteq Vectors
    BY <1>2 DEF IdtInit, Clear, Cleared, Exceptions, Remap, Ready, Unmask, Irqs, Lidt, Sti,
                SetGates, Counters
  <2>4. \/ idt' = idt
        \/ \E v, g : g \in Gate /\ idt' = [idt EXCEPT ![v] = g]
    BY <1>2 DEF IdtInit, Clear, Cleared, Exceptions, Remap, Ready, Unmask, Irqs, Lidt, Sti,
                SetGates, tables, Gate, Present
  <2>5. idt' \in [Vectors -> Gate]
    BY <2>4 DEF Counters
  <2> QED BY <2>1, <2>2, <2>3, <2>5 DEF Counters
<1>3. CASE ZeroTicks
  <2>1. timer_ticks' = 0 /\ pc' = "register timer"
    BY <1>3 DEF ZeroTicks, Goto
  <2>2. 0 \in 0 .. WORD - 1
    BY Sizes
  <2> QED BY <1>3, <2>1, <2>2 DEF ZeroTicks, tables, Counters, Splash
<1>4. CASE RegisterTimer
  BY <1>1, <1>4 DEF RegisterTimer, At, Goto, Types, Counters, Splash
<1>5. CASE KeyboardInit
  BY <1>1, <1>5 DEF KeyboardInit, At, Goto, Counters, Splash
<1>6. CASE Sleep
  <2>1. /\ pc = "sleep" /\ pc' = "check"
        /\ UNCHANGED <<round, todo, i, idt, irq_handlers, timer_ticks, obf, late>>
    BY <1>6 DEF Sleep, At, Goto, tables
  <2>2. end' \in 0 .. WORD - 1
    <3> DEFINE ms == IF i < bar_width THEN total_time_ms \div bar_width ELSE PAUSE_MS
    <3>1. end' = (timer_ticks + SleepTicks(ms)) % WORD
      BY <1>6 DEF Sleep
    <3>2. ms \in Nat
      BY BootAssumption DEF PAUSE_MS
    <3> HIDE DEF ms
    <3>3. ms * frequency \in Int
      BY <3>2, BootAssumption
    <3>4. (ms * frequency) % WORD \in Int
      BY <3>3, InWord
    <3>5. SleepTicks(ms) \in Int
      BY <3>4 DEF SleepTicks
    <3>6. timer_ticks + SleepTicks(ms) \in Int
      BY <3>5 DEF Counters
    <3> QED BY <3>1, <3>6, InWord
  <2> QED BY <2>1, <2>2 DEF Counters, Splash
<1>7. CASE Check
  <2>1. pc = "check" /\ UNCHANGED <<end, idt, irq_handlers, timer_ticks, obf, late>>
    BY <1>7 DEF Check, At, tables
  <2>2. round = 1 /\ i \in 0 .. bar_width
    BY <2>1, Sizes DEF Counters, Splash
  <2>3. \/ pc' = "halt" /\ UNCHANGED <<i, round, todo>>
        \/ pc' = "sleep" /\ i' = i + 1 /\ i < bar_width /\ UNCHANGED <<round, todo>>
        \/ pc' = "clear" /\ i' = i + 1 /\ round' = 2 /\ todo' = Vectors
    BY <1>7 DEF Check, Goto
  <2>4. i' \in 0 .. bar_width + 1 /\ (round' = 1 => i' <= bar_width)
    BY <2>2, <2>3, Sizes
  <2>5. todo' \subseteq Vectors /\ (pc' \in Splash => round' = 1)
    BY <2>2, <2>3 DEF Counters, Splash
  <2> QED BY <2>1, <2>4, <2>5 DEF Counters
<1>8. CASE Halt
  BY <1>1, <1>8 DEF Halt, At, Goto, tables, Counters, Splash
<1>9. CASE Stub
  <2>1. UNCHANGED <<thread, tables, late>>
    BY <1>9 DEF Stub, CallHandler, Eoi, Iret
  <2>2. obf' \in BOOLEAN
    BY <1>9, Zenon DEF Stub, CallHandler, KeyboardHandler, Eoi, Iret, Counters
  <2>3. timer_ticks' \in 0 .. WORD - 1
    <3>1. timer_ticks' = timer_ticks \/ timer_ticks' = (timer_ticks + 1) % WORD
      BY <1>9 DEF Stub, CallHandler, TimerHandler, Eoi, Iret
    <3> QED BY <3>1, InWord DEF Counters
  <2> QED BY <2>1, <2>2, <2>3 DEF Counters, thread, tables
<1>10. CASE \E l \in Devices : Accept(l)
  <2>1. UNCHANGED <<thread, tables, timer_ticks, obf, late>>
    BY <1>10 DEF Accept
  <2> QED BY <2>1 DEF Counters, thread, tables
<1>11. CASE Tick \/ Key \/ Other
  <2>1. UNCHANGED <<thread, tables, timer_ticks>>
    BY <1>11 DEF Tick, Key, Other
  <2>2. obf' \in BOOLEAN
    BY <1>11, Zenon DEF Tick, Key, Other, Counters
  <2>3. late' \in 0 .. MaxLate
    BY <1>11, BootAssumption DEF Tick, Key, Other, Counters
  <2> QED BY <2>1, <2>2, <2>3 DEF Counters, thread, tables
<1> QED BY <1>2, <1>3, <1>4, <1>5, <1>6, <1>7, <1>8, <1>9, <1>10, <1>11 DEF Next, Thread

LEMMA KernelTypes == PowerOnSpec => []TypeOK
<1>1. PowerOnInit => Counters
  BY CountersInit DEF PowerOnInit
<1>2. IInv /\ Counters /\ [PowerOnNext]_machine => Counters'
  <2>1. Next \/ UNCHANGED vars \/ ~[PowerOnNext]_machine
    BY DEF PowerOnNext, Load, Kernel, machine
  <2>2. Counters /\ UNCHANGED vars => Counters'
    BY DEF vars, thread, tables, Counters
  <2> QED BY <2>1, <2>2, CountersStep
<1>3. IInv /\ Counters => TypeOK
  BY DEF IInv, Types, Counters, TypeOK
<1> QED BY <1>1, <1>2, <1>3, Invariant, PTL DEF PowerOnSpec

(* Every variable of the machine has its type: no sector is read to a      *)
(* block that is not the kernel's (stage2.asm:102-147), the tables of      *)
(* idt.c keep their domains, the ticks their word (timer.c:23).            *)
THEOREM MachineTypes == ASSUME RealDisk PROVE PowerOnSpec => []MachineTypeOK
  BY LoaderTypes, KernelTypes, PTL DEF MachineTypeOK
=============================================================================
