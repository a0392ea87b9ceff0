-------------------------------- MODULE Boot --------------------------------
(***************************************************************************)
(* From kernel_main to the shell: kernel/kernel.c, the interrupt tables of *)
(* kernel/idt.c with the stubs of kernel/isr.asm, and drivers/timer.c.     *)
(* idt_init and timer_init run twice, before the splash screen with        *)
(* interrupts off and in init_system with interrupts on.                   *)
(*                                                                         *)
(* The processor, the two PICs, the keyboard controller and the timer chip *)
(* are external.  An IRQ line that rises is latched in irr; the PIC offers *)
(* it unless it is masked or a line of its priority or a higher one is in  *)
(* service (isr).  The controller's line 1 is up while its output buffer   *)
(* is full (obf), so that there is no new edge until port 0x60 is read.    *)
(***************************************************************************)
EXTENDS Integers, FiniteSetsExt

CONSTANTS
  Vectors,        \* the entries of the IDT, 0 .. 255 in the kernel
  Devices,        \* the IRQ lines that something drives
  BiosMask,       \* the lines the BIOS left masked
  bar_width, total_time_ms, frequency,
  WORD,           \* number of values of uint32_t
  MaxLate         \* bound: how many ticks come while the thread is awake

DOUBLE_FAULT == 8
PROTECTION   == 13
PAUSE_MS     == 200
Lines        == 0 .. 15

ASSUME BootAssumption ==
  /\ {0, 1} \subseteq Devices /\ Devices \subseteq Lines
  /\ BiosMask \subseteq Lines \ {0, 1}
  /\ {DOUBLE_FAULT, PROTECTION} \cup {32 + i : i \in Devices} \subseteq Vectors
  /\ Vectors \subseteq 0 .. 255
  /\ bar_width \in Nat \ {0} /\ total_time_ms \in Nat /\ frequency \in Nat \ {0}
  /\ WORD \in Nat \ {0, 1} /\ MaxLate \in Nat

VARIABLES
  pc,             \* where kernel_main is
  round,          \* the first or the second idt_init
  todo,           \* the entries the running loop of idt_init has left
  i,              \* the splash screen's loop counter
  end,            \* the local of timer_sleep_ticks
  masks,          \* the locals of pic_remap
  idt,            \* vector -> the state of its gate
  loaded,         \* lidt was executed
  irq_handlers,
  timer_ticks,
  enabled,        \* the processor's interrupt flag
  cpu,
  stub,           \* where the interrupt stub is
  irq,            \* the line it serves
  pic,
  obf,
  late

thread  == <<pc, round, todo, i, end, masks>>
tables  == <<idt, loaded, irq_handlers>>
handler == <<stub, irq>>
vars    == <<thread, tables, timer_ticks, enabled, cpu, handler, pic, obf, late>>

(* A gate is absent, is there, or has lost its address and not its flags.  *)
Present == {"isr stub", "irq stub"}
Gate    == Present \cup {"absent", "torn"}
Dead    == {"panic", "reset", "astray"}

(* The places inside idt_init, and the rest of kernel_main.                *)
Reload  == {"clear", "exceptions", "remap", "ready", "unmask", "irqs"}
Control == Reload \cup {"lidt", "sti", "zero ticks", "register timer", "sleep", "check",
                        "halt", "keyboard_init", "shell"}

Init ==
  /\ pc = "clear" /\ round = 1 /\ todo = Vectors
  /\ i = 0 /\ end = 0 /\ masks = {}
  /\ idt = [v \in Vectors |-> "absent"]
  /\ loaded = FALSE
  /\ irq_handlers = [l \in Lines |-> "none"]
  /\ timer_ticks = 0
  /\ enabled = FALSE /\ cpu = "running"
  /\ stub = "idle" /\ irq = 0
  /\ pic = [ready |-> TRUE, irr |-> {}, isr |-> {}, imr |-> BiosMask]
  /\ obf = FALSE
  /\ late = 0

-----------------------------------------------------------------------------
(* idt_init                                                                *)

Goto(p) == pc' = p
At(p)   == pc = p /\ cpu = "running" /\ stub = "idle"

(* idt_set_gate(v, 0, 0, 0) stores the address first and the flags last.   *)
Clear ==
  /\ At("clear") /\ todo # {}
  /\ LET v == Min(todo)
     IN  IF idt[v] \in Present
         THEN idt' = [idt EXCEPT ![v] = "torn"] /\ UNCHANGED todo
         ELSE idt' = [idt EXCEPT ![v] = "absent"] /\ todo' = todo \ {v}
  /\ UNCHANGED <<pc, round, i, end, masks, loaded, irq_handlers, timer_ticks, enabled, cpu, handler, pic, obf, late>>

Cleared ==
  /\ At("clear") /\ todo = {}
  /\ todo' = {v \in Vectors : v < 32}
  /\ Goto("exceptions")
  /\ UNCHANGED <<round, i, end, masks, tables, timer_ticks, enabled, cpu, handler, pic, obf, late>>

SetGates(p, gate, next) ==
  /\ At(p)
  /\ IF todo # {}
     THEN /\ idt' = [idt EXCEPT ![Min(todo)] = gate]
          /\ todo' = todo \ {Min(todo)}
          /\ UNCHANGED pc
     ELSE /\ UNCHANGED <<idt, todo>>
          /\ Goto(next)
  /\ UNCHANGED <<round, i, end, masks, loaded, irq_handlers, timer_ticks, enabled, cpu, handler, pic, obf, late>>

Exceptions == SetGates("exceptions", "isr stub", "remap")
Irqs       == SetGates("irqs", "irq stub", "lidt")

(* pic_remap: the masks are saved; the first command word starts the       *)
(* initialisation, which forgets the masks and the edges seen so far.      *)
RemapThenSave ==
  /\ At("remap")
  /\ masks' = {}
  /\ pic' = [ready |-> FALSE, irr |-> {}, isr |-> {}, imr |-> {}]
  /\ Goto("ready")
  /\ UNCHANGED <<round, todo, i, end, tables, timer_ticks, enabled, cpu, handler, obf, late>>
Remap ==
  /\ At("remap")
  /\ masks' = pic.imr
  /\ pic' = [ready |-> FALSE, irr |-> {}, isr |-> {}, imr |-> {}]
  /\ Goto("ready")
  /\ UNCHANGED <<round, todo, i, end, tables, timer_ticks, enabled, cpu, handler, obf, late>>

(* The last command word: vectors 32 to 47 from now on, nothing masked.    *)
Ready ==
  /\ At("ready")
  /\ pic' = [pic EXCEPT !.ready = TRUE]
  /\ Goto("unmask")
  /\ UNCHANGED <<round, todo, i, end, masks, tables, timer_ticks, enabled, cpu, handler, obf, late>>

UnmaskAndEnable ==
  /\ At("unmask")
  /\ pic' = [pic EXCEPT !.imr = masks]
  /\ enabled' = TRUE
  /\ todo' = {v \in Vectors : v \in 32 .. 47}
  /\ Goto("irqs")
  /\ UNCHANGED <<round, i, end, masks, tables, timer_ticks, cpu, handler, obf, late>>
Unmask ==
  /\ At("unmask")
  /\ pic' = [pic EXCEPT !.imr = masks]
  /\ todo' = {v \in Vectors : v \in 32 .. 47}
  /\ Goto("irqs")
  /\ UNCHANGED <<round, i, end, masks, tables, timer_ticks, enabled, cpu, handler, obf, late>>

Lidt ==
  /\ At("lidt")
  /\ loaded' = TRUE
  /\ Goto("sti")
  /\ UNCHANGED <<round, todo, i, end, masks, idt, irq_handlers, timer_ticks, enabled, cpu, handler, pic, obf, late>>

Sti ==
  /\ At("sti")
  /\ enabled' = TRUE
  /\ Goto("zero ticks")
  /\ UNCHANGED <<round, todo, i, end, masks, tables, timer_ticks, cpu, handler, pic, obf, late>>

-----------------------------------------------------------------------------
(* timer_init and keyboard_init                                            *)

ZeroTicks ==
  /\ At("zero ticks")
  /\ timer_ticks' = 0
  /\ Goto("register timer")
  /\ UNCHANGED <<round, todo, i, end, masks, tables, enabled, cpu, handler, pic, obf, late>>

(* The chip is programmed by three bytes, which this module does not have. *)
RegisterTimerNever ==
  /\ At("register timer")
  /\ Goto(IF round = 1 THEN "sleep" ELSE "keyboard_init")
  /\ UNCHANGED <<round, todo, i, end, masks, tables, timer_ticks, enabled, cpu, handler, pic, obf, late>>
RegisterTimer ==
  /\ At("register timer")
  /\ irq_handlers' = [irq_handlers EXCEPT ![0] = "timer_handler"]
  /\ Goto(IF round = 1 THEN "sleep" ELSE "keyboard_init")
  /\ UNCHANGED <<round, todo, i, end, masks, idt, loaded, timer_ticks, enabled, cpu, handler, pic, obf, late>>

(* keyboard_init; fs_init and shell_init touch nothing of this module.     *)
KeyboardInit ==
  /\ At("keyboard_init")
  /\ irq_handlers' = [irq_handlers EXCEPT ![1] = "keyboard_handler"]
  /\ Goto("shell")
  /\ UNCHANGED <<round, todo, i, end, masks, idt, loaded, timer_ticks, enabled, cpu, handler, pic, obf, late>>

-----------------------------------------------------------------------------
(* The splash screen: bar_width sleeps and a pause.                        *)

SleepTicks(ms) == LET t == ((ms * frequency) % WORD) \div 1000
                  IN  IF t = 0 THEN 1 ELSE t

Sleep ==
  /\ At("sleep")
  /\ LET ms == IF i < bar_width THEN total_time_ms \div bar_width ELSE PAUSE_MS
     IN  end' = (timer_ticks + SleepTicks(ms)) % WORD
  /\ Goto("check")
  /\ UNCHANGED <<round, todo, i, masks, tables, timer_ticks, enabled, cpu, handler, pic, obf, late>>

Check ==
  /\ At("check")
  /\ IF timer_ticks < end
     THEN Goto("halt") /\ UNCHANGED <<i, round, todo>>
     ELSE /\ i' = i + 1
          /\ IF i < bar_width
             THEN Goto("sleep") /\ UNCHANGED <<round, todo>>
             ELSE Goto("clear") /\ round' = 2 /\ todo' = Vectors
  /\ UNCHANGED <<end, masks, tables, timer_ticks, enabled, cpu, handler, pic, obf, late>>

(* hlt: the processor waits, and goes on behind it after an interrupt.     *)
Halt ==
  /\ At("halt")
  /\ cpu' = "halted"
  /\ Goto("check")
  /\ UNCHANGED <<round, todo, i, end, masks, tables, timer_ticks, enabled, handler, pic, obf, late>>

-----------------------------------------------------------------------------
(* Interrupts                                                              *)

(* The lines the PIC may offer: the slave's come through line 2.           *)
Offered ==
  {l \in pic.irr \ pic.imr :
     /\ pic.ready
     /\ l >= 8 => 2 \notin pic.imr
     /\ \A s \in pic.isr : IF s < 8 THEN (IF l < 8 THEN l ELSE 2) < s
                                    ELSE l >= 8 => l < s}

(* What becomes of the processor when a vector has no gate: a protection   *)
(* fault, if that has none a double fault, if that has none a reset.  The  *)
(* stubs of exceptions end in kernel_panic.                                *)
DoubleFault ==
  CASE idt[DOUBLE_FAULT] \in Present -> {"panic"}
    [] idt[DOUBLE_FAULT] = "absent"  -> {"reset"}
    [] OTHER                         -> {"reset", "astray"}
Fault ==
  CASE idt[PROTECTION] \in Present -> {"panic"}
    [] idt[PROTECTION] = "absent"  -> DoubleFault
    [] OTHER                       -> DoubleFault \cup {"astray"}

(* The gates are interrupt gates: the processor clears its interrupt flag. *)
Accept(l) ==
  /\ cpu \in {"running", "halted"} /\ enabled /\ l \in Offered
  /\ pic' = [pic EXCEPT !.irr = @ \ {l}, !.isr = @ \cup {l} \cup (IF l < 8 THEN {} ELSE {2})]
  /\ enabled' = FALSE
  /\ IF loaded /\ idt[32 + l] = "irq stub"
     THEN cpu' = "running" /\ stub' = "call" /\ irq' = l
     ELSE /\ cpu' \in IF ~loaded THEN {"reset"}
                      ELSE Fault \cup IF idt[32 + l] = "torn" THEN {"astray"} ELSE {}
          /\ UNCHANGED handler
  /\ UNCHANGED <<thread, tables, timer_ticks, obf, late>>

TimerHandler == timer_ticks' = IF irq_handlers[irq] = "timer_handler"
                               THEN (timer_ticks + 1) % WORD ELSE timer_ticks

KeyboardHandlerNoRead == UNCHANGED obf
KeyboardHandler == obf' = (obf /\ irq_handlers[irq] # "keyboard_handler")

(* irq_handler calls the registered handler, if there is one,              *)
CallHandler ==
  /\ stub = "call"
  /\ TimerHandler
  /\ KeyboardHandler
  /\ stub' = "eoi"
  /\ UNCHANGED <<thread, tables, enabled, cpu, irq, pic, late>>

(* acknowledges to the slave, if the line is the slave's, and the master,  *)
EoiMasterOnly ==
  /\ stub = "eoi"
  /\ pic' = [pic EXCEPT !.isr = @ \ {Min(@ \cap 0 .. 7)}]
  /\ stub' = "iret"
  /\ UNCHANGED <<thread, tables, timer_ticks, enabled, cpu, irq, obf, late>>
Eoi ==
  /\ stub = "eoi"
  /\ pic' = [pic EXCEPT !.isr = @ \ ({Min(@ \cap 0 .. 7)} \cup
                                     IF irq >= 8 THEN {Min(@ \cap 8 .. 15)} ELSE {})]
  /\ stub' = "iret"
  /\ UNCHANGED <<thread, tables, timer_ticks, enabled, cpu, irq, obf, late>>

(* and the stub returns to what was interrupted.                           *)
Iret ==
  /\ stub = "iret"
  /\ stub' = "idle" /\ irq' = 0
  /\ enabled' = TRUE
  /\ UNCHANGED <<thread, tables, timer_ticks, cpu, pic, obf, late>>

-----------------------------------------------------------------------------
(* The devices                                                             *)

Raise(l) == pic' = [pic EXCEPT !.irr = @ \cup {l}]

Tick ==
  /\ IF cpu = "halted" THEN UNCHANGED late ELSE late < MaxLate /\ late' = late + 1
  /\ Raise(0)
  /\ UNCHANGED <<thread, tables, timer_ticks, enabled, cpu, handler, obf>>

Key ==
  /\ ~obf
  /\ obf' = TRUE
  /\ Raise(1)
  /\ UNCHANGED <<thread, tables, timer_ticks, enabled, cpu, handler, late>>

Other ==
  /\ \E l \in Devices \ {0, 1} : Raise(l)
  /\ UNCHANGED <<thread, tables, timer_ticks, enabled, cpu, handler, obf, late>>

-----------------------------------------------------------------------------
IdtInit == \/ Clear \/ Cleared \/ Exceptions \/ Remap \/ Ready \/ Unmask
           \/ Irqs \/ Lidt \/ Sti
Thread  == \/ IdtInit
           \/ ZeroTicks \/ RegisterTimer \/ KeyboardInit
           \/ Sleep \/ Check \/ Halt
Stub    == CallHandler \/ Eoi \/ Iret

Next ==
  \/ Thread \/ Stub
  \/ \E l \in Devices : Accept(l)
  \/ Tick \/ Key \/ Other

Spec == Init /\ [][Next]_vars
-----------------------------------------------------------------------------
(* Properties                                                              *)

(* Every variable has its type.                                            *)
TypeOK ==
  /\ pc \in Control /\ round \in {1, 2} /\ todo \subseteq Vectors
  /\ i \in 0 .. bar_width + 1 /\ end \in 0 .. WORD - 1 /\ masks \subseteq Lines
  /\ idt \in [Vectors -> Gate] /\ loaded \in BOOLEAN
  /\ irq_handlers \in [Lines -> {"none", "timer_handler", "keyboard_handler"}]
  /\ timer_ticks \in 0 .. WORD - 1
  /\ enabled \in BOOLEAN /\ cpu \in {"running", "halted"} \cup Dead
  /\ stub \in {"idle", "call", "eoi", "iret"} /\ irq \in Lines
  /\ pic \in [ready : BOOLEAN, irr : SUBSET Lines, isr : SUBSET Lines, imr : SUBSET Lines]
  /\ obf \in BOOLEAN
  /\ late \in 0 .. MaxLate

(* When a stub has returned no line is left in service, on either PIC: a   *)
(* missing acknowledgement (idt.c:294-298) would block it for ever.        *)
Acknowledged ==
  stub \in {"idle", "iret"} /\ cpu \notin Dead => pic.isr = {}

(* After idt_init the masks are the BIOS's again (idt.c:123-125, 151-153), *)
(* although the initialisation of the PICs clears them and runs twice.     *)
MasksRestored == pc \notin {"ready", "unmask"} => pic.imr = BiosMask

(* An interrupt fails to find its handler in the second idt_init only: the *)
(* first one runs with interrupts off, and every place after it finds the  *)
(* whole table.                                                            *)
FaultOnlyInReload ==
  [][cpu \notin Dead /\ cpu' \in Dead => round = 2 /\ pc \in Reload]_vars

(* A byte in the keyboard controller is on its way to keyboard_handler.    *)
KeyPending ==
  obf => \/ 1 \in pic.irr
         \/ stub = "call" /\ irq = 1 /\ irq_handlers[1] = "keyboard_handler"

(* Once the shell runs with a keyboard that interrupts, every byte is read *)
(* (keyboard.c:87), and no order of keys and ticks silences the keyboard.  *)
KeysServed == [](pc = "shell" /\ KeyPending => [](obf => <>~obf))

-----------------------------------------------------------------------------
(* What the comments say and the code does not do.                         *)

(* "Full IDT with exception and IRQ handlers" (README.md:20): while        *)
(* interrupts are enabled every line finds its stub.                       *)
GatesPresent ==
  enabled /\ cpu \notin Dead => \A l \in Devices : idt[32 + l] = "irq stub"

(* "PS/2 keyboard with US QWERTY layout" (README.md:21), "Initialize       *)
(* keyboard driver" (keyboard.c:157): in the shell a key reaches the       *)
(* keyboard's handler.                                                     *)
KeyboardWorks == pc = "shell" => KeyPending
=============================================================================
