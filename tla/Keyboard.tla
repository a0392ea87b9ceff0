------------------------------ MODULE Keyboard ------------------------------
(***************************************************************************)
(* The keyboard driver, drivers/keyboard.c: the interrupt handler of IRQ 1 *)
(* puts characters into a ring buffer, and the kernel's one thread takes   *)
(* them out in keyboard_getchar, called by keyboard_readline.              *)
(*                                                                         *)
(* The handler runs through an interrupt gate and is one step.  The thread *)
(* runs with interrupts enabled, and is cut where a handler can run        *)
(* between two of its accesses to the shared variables: the test, the hlt, *)
(* the read of the character and the advance of buffer_start.              *)
(***************************************************************************)
EXTENDS Integers, Sequences, SequencesExt

CONSTANTS
  KEYBOARD_BUFFER_SIZE,
  max_length,            \* the argument of keyboard_readline
  Keys                   \* the keys of the keyboard

NUL == "NUL"
NL  == "newline"
BS  == "backspace"

LShift == "left shift"
RShift == "right shift"
LCtrl  == "left control"
RCtrl  == "right control"
Alt    == "alt"
Caps   == "caps lock"
Shifts    == {LShift, RShift}
Ctrls     == {LCtrl, RCtrl}
Modifiers == Shifts \cup Ctrls \cup {Alt}

Letters == {"a"}
scancode_to_ascii ==
  [k \in {"a", "1", "enter", "erase"} |->
     CASE k = "a" -> "a" [] k = "1" -> "1" [] k = "enter" -> NL [] k = "erase" -> BS]
scancode_to_ascii_shift ==
  [k \in {"a", "1", "enter", "erase"} |->
     CASE k = "a" -> "A" [] k = "1" -> "!" [] k = "enter" -> NL [] k = "erase" -> BS]
Char == {NUL, "a", "A", "^A", "1", "!", NL, BS}

ASSUME KeyboardAssumption ==
  /\ KEYBOARD_BUFFER_SIZE \in Nat \ {0, 1}
  /\ max_length \in Nat \ {0, 1}

VARIABLES
  keyboard_buffer, buffer_start, buffer_end,
  shift_pressed, ctrl_pressed, alt_pressed, capslock_on,
  held,        \* the modifier keys a finger is on
  pc,          \* where the thread is
  c,           \* keyboard_getchar's local
  got,         \* what keyboard_getchar returned last
  line         \* what keyboard_readline has stored

ring  == <<keyboard_buffer, buffer_start, buffer_end>>
flags == <<shift_pressed, ctrl_pressed, alt_pressed, capslock_on>>
vars  == <<ring, flags, held, pc, c, got, line>>

(* "check": the test of keyboard_has_key.  "halt": the test failed and hlt *)
(* is next.  "halted": the processor waits for an interrupt.  "take" and   *)
(* "advance": the two accesses that remove a character.  "done":           *)
(* keyboard_readline has returned to the shell.                            *)
Control == {"check", "halt", "halted", "take", "advance", "done"}

Init ==
  /\ keyboard_buffer = [i \in 0 .. KEYBOARD_BUFFER_SIZE - 1 |-> NUL]
  /\ buffer_start = 0 /\ buffer_end = 0
  /\ shift_pressed = FALSE /\ ctrl_pressed = FALSE
  /\ alt_pressed = FALSE /\ capslock_on = FALSE
  /\ held = {}
  /\ pc = "check"
  /\ c = NUL /\ got = NUL
  /\ line = <<>>

NextIndexNoWrap(i) == i + 1
NextIndex(i) == (i + 1) % KEYBOARD_BUFFER_SIZE

-----------------------------------------------------------------------------
(* The interrupt handler                                                   *)

BufferPutUnchecked(ch) ==
  /\ keyboard_buffer' = [keyboard_buffer EXCEPT ![buffer_end] = ch]
  /\ buffer_end' = NextIndex(buffer_end)
BufferPut(ch) ==
  IF NextIndex(buffer_end) # buffer_start
  THEN /\ keyboard_buffer' = [keyboard_buffer EXCEPT ![buffer_end] = ch]
       /\ buffer_end' = NextIndex(buffer_end)
  ELSE UNCHANGED <<keyboard_buffer, buffer_end>>

(* The character of a key that has one.                                    *)
Ascii(k) ==
  LET use_shift == IF k \in Letters THEN shift_pressed # capslock_on ELSE shift_pressed
  IN  IF ctrl_pressed /\ k \in Letters THEN "^A"
      ELSE IF use_shift THEN scancode_to_ascii_shift[k] ELSE scancode_to_ascii[k]

(* A modifier sets its flag on both edges, caps lock toggles when pressed. *)
ShiftFlagEitherEdge(k, released) == IF k \in Shifts THEN TRUE ELSE shift_pressed
ShiftFlag(k, released) == IF k \in Shifts THEN ~released ELSE shift_pressed

(* The make and break codes of right control are those of left control     *)
(* behind a byte 0xE0, which the handler reads as the release of a key it  *)
(* does not know; that interrupt changes nothing.                          *)
KeyboardHandler(k, released) ==
  /\ shift_pressed' = ShiftFlag(k, released)
  /\ ctrl_pressed' = IF k \in Ctrls THEN ~released ELSE ctrl_pressed
  /\ alt_pressed' = IF k = Alt THEN ~released ELSE alt_pressed
  /\ capslock_on' = (capslock_on # (k = Caps /\ ~released))
  /\ IF k \in DOMAIN scancode_to_ascii /\ ~released
     THEN BufferPut(Ascii(k))
     ELSE UNCHANGED <<keyboard_buffer, buffer_end>>

(* Any interrupt ends a hlt.                                               *)
WakeNever == UNCHANGED pc
Wake == pc' = IF pc = "halted" THEN "check" ELSE pc

(* A key that is held sends its make code again and again.                 *)
KeyDown(k) ==
  /\ held' = held \cup ({k} \cap Modifiers)
  /\ KeyboardHandler(k, FALSE)
  /\ Wake
  /\ UNCHANGED <<buffer_start, c, got, line>>

KeyUp(k) ==
  /\ k \in Modifiers => k \in held
  /\ held' = held \ {k}
  /\ KeyboardHandler(k, TRUE)
  /\ Wake
  /\ UNCHANGED <<buffer_start, c, got, line>>

(* IRQ 0, a hundred times a second.                                        *)
TimerTick == Wake /\ UNCHANGED <<ring, flags, held, c, got, line>>

-----------------------------------------------------------------------------
(* keyboard_getchar, keyboard_readline                                     *)

HasKey == buffer_start # buffer_end

Check ==
  /\ pc = "check"
  /\ pc' = IF HasKey THEN "take" ELSE "halt"
  /\ UNCHANGED <<ring, flags, held, c, got, line>>

(* hlt waits for the next interrupt, also when a key came after the test.  *)
Halt ==
  /\ pc = "halt"
  /\ pc' = "halted"
  /\ UNCHANGED <<ring, flags, held, c, got, line>>

Take ==
  /\ pc = "take"
  /\ c' = keyboard_buffer[buffer_start]
  /\ pc' = "advance"
  /\ UNCHANGED <<ring, flags, held, got, line>>

(* What keyboard_readline has stored after it was given ch.                *)
Edited(ch) ==
  CASE ch = NL -> line
    [] ch = BS -> IF line = <<>> THEN line ELSE Front(line)
    [] OTHER   -> Append(line, ch)

(* keyboard_readline's loop condition.                                     *)
MoreNoNul(l) == Len(l) < max_length
More(l)      == Len(l) < max_length - 1

AdvanceToEnd ==
  /\ pc = "advance"
  /\ buffer_start' = buffer_end
  /\ got' = c
  /\ line' = Edited(c)
  /\ pc' = IF c # NL /\ More(line') THEN "check" ELSE "done"
  /\ UNCHANGED <<keyboard_buffer, buffer_end, flags, held, c>>

(* buffer_start moves on, keyboard_getchar returns and keyboard_readline   *)
(* deals with the character, which no interrupt can see.                   *)
Advance ==
  /\ pc = "advance"
  /\ buffer_start' = NextIndex(buffer_start)
  /\ got' = c
  /\ line' = Edited(c)
  /\ pc' = IF c # NL /\ More(line') THEN "check" ELSE "done"
  /\ UNCHANGED <<keyboard_buffer, buffer_end, flags, held, c>>

(* The shell runs the command and asks for the next line.                  *)
Readline ==
  /\ pc = "done"
  /\ line' = <<>>
  /\ pc' = "check"
  /\ UNCHANGED <<ring, flags, held, c, got>>

-----------------------------------------------------------------------------
Thread == Check \/ Halt \/ Take \/ Advance \/ Readline

Next ==
  \/ \E k \in Keys : KeyDown(k) \/ KeyUp(k)
  \/ TimerTick
  \/ Thread

(* The processor executes the thread whenever it is not halted, and the    *)
(* timer, programmed by timer_init, does not stop.                         *)
Spec == Init /\ [][Next]_vars /\ WF_vars(Thread) /\ WF_vars(TimerTick)
-----------------------------------------------------------------------------
(* Properties                                                              *)

(* Every variable has its type.                                            *)
TypeOK ==
  /\ keyboard_buffer \in [0 .. KEYBOARD_BUFFER_SIZE - 1 -> Char]
  /\ buffer_start \in 0 .. KEYBOARD_BUFFER_SIZE - 1
  /\ buffer_end \in 0 .. KEYBOARD_BUFFER_SIZE - 1
  /\ shift_pressed \in BOOLEAN /\ ctrl_pressed \in BOOLEAN
  /\ alt_pressed \in BOOLEAN /\ capslock_on \in BOOLEAN
  /\ held \subseteq Modifiers
  /\ pc \in Control
  /\ c \in Char /\ got \in Char
  /\ line \in Seq(Char)

(* The characters in the ring, oldest first.                               *)
Pending ==
  LET n == (buffer_end - buffer_start + KEYBOARD_BUFFER_SIZE) % KEYBOARD_BUFFER_SIZE
  IN  [i \in 1 .. n |-> keyboard_buffer[(buffer_start + i - 1) % KEYBOARD_BUFFER_SIZE]]

(* Between the read of a character and the advance of buffer_start         *)
(* (keyboard.c:188-189) no handler overwrites or empties its slot, also    *)
(* when the buffer is full.                                                *)
TakenStays == /\ pc = "take" => HasKey
              /\ pc = "advance" => HasKey /\ keyboard_buffer[buffer_start] = c

(* keyboard_readline stores at most max_length bytes, the final NUL        *)
(* (keyboard.c:233) included.                                              *)
LineFits == Len(line) + 1 <= max_length

(* A modifier flag that is set has its key held: no key is stuck after its *)
(* release.  This is about plain make and break codes: the shifts that a   *)
(* keyboard fakes behind the prefix 0xE0 are not among Keys.               *)
NoStuckModifier ==
  /\ shift_pressed => held \cap Shifts # {}
  /\ ctrl_pressed => held \cap Ctrls # {}
  /\ alt_pressed => Alt \in held

(* A waiting character is read, although hlt may be executed after the     *)
(* interrupt that brought it (keyboard.c:183-185), for the timer ends the  *)
(* hlt; and once Enter is in the buffer keyboard_readline returns.         *)
WaitingEnds ==
  /\ HasKey ~> pc = "advance"
  /\ (\E i \in DOMAIN Pending : Pending[i] = NL) ~> pc = "done"

(* The ring buffer is a queue that drops the newest character when full.   *)
QueueView ==
  INSTANCE KeyQueue WITH
    Capacity <- KEYBOARD_BUFFER_SIZE - 1, queue <- Pending, last <- got
ImplementsKeyQueue == QueueView!Spec

=============================================================================
