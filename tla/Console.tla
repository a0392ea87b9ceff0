------------------------------ MODULE Console ------------------------------
(***************************************************************************)
(* The console: shell_run of kernel/shell.c prints its prompt, reads a     *)
(* line with keyboard_readline of drivers/keyboard.c, which echoes it, and *)
(* executes the command, all on the screen of module Vga.  The splash      *)
(* screen of kernel/kernel.c and the editor draw on the screen before and  *)
(* in between.                                                             *)
(*                                                                         *)
(* A key is one that keyboard_getchar returned (module Keyboard); what the *)
(* commands do to files is in RamFS and Nano.  Texts are short stand-ins:  *)
(* what counts is where they leave the cursor and in which colour.         *)
(***************************************************************************)
EXTENDS Vga, Words

CONSTANTS
  SHELL_BUFFER_SIZE, MAX_ARGS,
  Typeable,         \* what the keyboard can send besides Enter, NL
  shell_prompt,
  commands,         \* the command table: name -> handler
  ColorNumber,      \* what cmd_color reads from an argument: word -> number
  Figures, Spots,   \* texts the drawing programs put on the screen, and places
  Files,            \* contents of files
  GREEN, WHITE, RED

Handlers == {"echo", "color", "clear", "report", "cat", "draw", "reboot", "halt"}

ASSUME ConsoleAssumption ==
  /\ SHELL_BUFFER_SIZE \in Nat \ {0, 1} /\ MAX_ARGS \in Nat \ {0}
  /\ Typeable \subseteq Glyphs \cup {CR, TAB, BS}
  /\ shell_prompt \in Seq(Glyphs) /\ Figures \subseteq Seq(Glyphs)
  /\ Files \subseteq Seq(Glyphs \cup {NL}) \ {<<>>}
  /\ Spots \subseteq Nat \X Nat
  /\ \A name \in DOMAIN commands : commands[name] \in Handlers
  /\ {GREEN, WHITE, RED} \subseteq Colors /\ "!" \in Glyphs

VARIABLES
  vga,              \* the screen
  out,              \* what the thread has still to print
  line,             \* what keyboard_readline has stored
  pc,
  home, exact       \* auxiliary, while the line is read: where it begins on
                    \* the screen, and whether every key since has moved the cursor by one

vars == <<vga, out, line, pc, home, exact>>

Control == {"draw", "next", "prompt", "read", "execute", "print", "stopped"}

(* A text to print, a colour to print in.                                  *)
Chars(str)  == [k \in DOMAIN str |-> [do |-> "put", what |-> str[k]]]
InColor(n)  == <<[do |-> "color", what |-> n]>>
Message     == Chars(<<"!", NL>>)

(* The splash screen has cleared the screen and hidden the cursor.         *)
Init ==
  /\ vga = HideCursor(Clear([row |-> 0, col |-> 0, color |-> WHITE, cursor |-> 0, shown |-> TRUE,
                             buffer |-> [i \in Cells |-> Entry(SPACE, WHITE)]]))
  /\ out = <<>> /\ line = <<>>
  /\ pc = "draw"
  /\ home = 0 /\ exact = TRUE

-----------------------------------------------------------------------------
(* show_splash_screen and cmd_nano place what they draw, which is all in   *)
(* white here, and clear it at the end; after the splash screen            *)
(* init_system says what it does.                                          *)

Drawing == pc = "draw" /\ UNCHANGED <<out, line, pc, home, exact>>

DrawCursor == Drawing /\ \E spot \in Spots : vga' = SetCursor(vga, spot[1], spot[2])
DrawText == Drawing /\ \E row \in Rows, str \in Figures : vga' = PrintCentered(vga, row, str)
DrawAt   == Drawing /\ \E spot \in Spots, c \in Glyphs :
  vga' = PutAt(vga, spot[1], spot[2], c)

DrawEnd ==
  /\ pc = "draw"
  /\ vga' = ShowCursor(Clear(vga))
  /\ out' = (IF line = <<>> THEN InColor(GREEN) \o Message ELSE <<>>) \o InColor(WHITE)
  /\ pc' = "print"
  /\ UNCHANGED <<line, home, exact>>

-----------------------------------------------------------------------------
(* vga_print: one character after the other.                               *)
Output ==
  /\ out # <<>>
  /\ out' = Tail(out)
  /\ vga' = IF Head(out).do = "color" THEN SetColor(vga, Head(out).what)
                                      ELSE PutChar(vga, Head(out).what)
  /\ UNCHANGED <<line, pc, home, exact>>

Prompt ==
  /\ pc = "next"
  /\ out' = InColor(GREEN) \o Chars(shell_prompt) \o InColor(WHITE)
  /\ pc' = "prompt"
  /\ UNCHANGED <<vga, line, home, exact>>

(* keyboard_readline is called.                                            *)
Ask ==
  /\ pc = "prompt" /\ out = <<>>
  /\ line' = <<>> /\ pc' = "read"
  /\ home' = Index(vga.row, vga.col) /\ exact' = TRUE
  /\ UNCHANGED <<vga, out>>

-----------------------------------------------------------------------------
(* keyboard_readline, with its echo.                                       *)

Echo(ch) ==
  /\ vga' = PutChar(vga, ch)
  /\ home' = IF ~exact' THEN 0
              ELSE IF Scrolls(Wrapped(Typeset(vga, ch))) THEN home - VGA_WIDTH ELSE home
  /\ UNCHANGED out

Enter ==
  /\ pc = "read"
  /\ UNCHANGED <<line, exact>>
  /\ Echo(NL)
  /\ pc' = "execute"

BackspaceUnchecked ==
  /\ pc = "read" /\ BS \in Typeable
  /\ line' = IF line = <<>> THEN line ELSE Front(line)
  /\ exact' = (exact /\ vga.col > 0)
  /\ Echo(BS)
  /\ UNCHANGED pc
Backspace ==
  /\ pc = "read" /\ BS \in Typeable
  /\ line # <<>>
  /\ line' = Front(line)
  /\ exact' = (exact /\ vga.col > 0)
  /\ Echo(BS)
  /\ UNCHANGED pc

Type(ch) ==
  /\ pc = "read" /\ ch # BS
  /\ line' = Append(line, ch)
  /\ exact' = (exact /\ ch \in Glyphs)
  /\ Echo(ch)
  /\ pc' = IF Len(line') < SHELL_BUFFER_SIZE - 1 THEN "read" ELSE "execute"

-----------------------------------------------------------------------------
(* execute_command                                                         *)

Args == Words(line, {SPACE, TAB}, MAX_ARGS)

Says(text) == out' = text /\ pc' = "print" /\ UNCHANGED vga
Runs(handler) == Args # <<>> /\ Args[1] \in DOMAIN commands /\ commands[Args[1]] = handler

ExecuteNothing == Args = <<>> /\ pc' = "next" /\ UNCHANGED <<vga, out>>

ExecuteUnknown ==
  /\ Args # <<>> /\ Args[1] \notin DOMAIN commands
  /\ Says(InColor(RED) \o Chars(Args[1]) \o Message \o InColor(WHITE))

(* The words with a space before each but the first.                       *)
Joined(words) ==
  LET upto[n \in 0 .. Len(words)] ==
        IF n = 0 THEN <<>>
        ELSE upto[n - 1] \o (IF n > 1 THEN <<SPACE>> ELSE <<>>) \o words[n]
  IN  upto[Len(words)]
ExecuteEchoNoEnd == Runs("echo") /\ Says(Chars(Joined(Tail(Args))))
ExecuteEcho == Runs("echo") /\ Says(Chars(Append(Joined(Tail(Args)), NL)))

ExecuteColor ==
  Runs("color") /\ Says(IF Len(Args) > 1 /\ ColorNumber[Args[2]] \in Colors
                        THEN InColor(ColorNumber[Args[2]]) \o Message ELSE Message)

ExecuteClear == Runs("clear") /\ vga' = Clear(vga) /\ pc' = "next" /\ UNCHANGED out

(* The commands that print a message which ends its line, in some colour,  *)
(* and go back to white.                                                   *)
ExecuteReport == Runs("report") /\ Says(InColor(RED) \o Message \o InColor(WHITE))

(* cat prints the file, a message, or, without memory, nothing; if the     *)
(* file lost its contents (ramfs.c:164), what the fresh buffer holds, with *)
(* or without a line end; cd prints a message or nothing.                  *)
ExecuteCat ==
  /\ Runs("cat")
  /\ \/ Says(Message)
     \/ \E text \in Files : Says(Chars(IF Last(text) = NL THEN text ELSE Append(text, NL)))
     \/ \E text \in Files : Says(Chars(text))
     \/ Says(<<>>)

(* nano draws, in white last, or prints a message: it has no file name, or *)
(* no memory.                                                              *)
ExecuteDraw ==
  /\ Runs("draw")
  /\ \/ Len(Args) > 1 /\ vga' = HideCursor(Clear(vga)) /\ pc' = "draw" /\ UNCHANGED out
     \/ Says(Message)

(* The reset may come while the processor is halted, or an interrupt wakes *)
(* it first and the command returns.                                       *)
ExecuteReboot ==
  /\ Runs("reboot")
  /\ out' = Message /\ pc' \in {"print", "stopped"}
  /\ UNCHANGED vga

ExecuteHalt ==
  /\ Runs("halt")
  /\ out' = InColor(RED) \o Message /\ pc' = "stopped"
  /\ UNCHANGED vga

Execute ==
  /\ pc = "execute"
  /\ \/ ExecuteNothing \/ ExecuteUnknown \/ ExecuteEcho \/ ExecuteColor \/ ExecuteClear
     \/ ExecuteReport \/ ExecuteCat \/ ExecuteDraw \/ ExecuteReboot \/ ExecuteHalt
  /\ home' = 0 /\ exact' = TRUE
  /\ UNCHANGED line

Finish ==
  /\ pc = "print" /\ out = <<>>
  /\ pc' = "next"
  /\ UNCHANGED <<vga, out, line, home, exact>>

(* After halt, shutdown or a reset nothing follows.                        *)
Stopped == pc = "stopped" /\ out = <<>> /\ UNCHANGED vars

Next ==
  \/ DrawCursor \/ DrawText \/ DrawAt \/ DrawEnd
  \/ Output \/ Prompt \/ Ask
  \/ Enter \/ Backspace \/ \E ch \in Typeable : Type(ch)
  \/ Execute \/ Finish \/ Stopped

Spec == Init /\ [][Next]_vars
-----------------------------------------------------------------------------
(* Properties                                                              *)

(* Every variable has its type: the cursor is on the screen, whatever the  *)
(* order of tabs, wraps, scrolls and erasures, also in the last place of   *)
(* the last line (vga.c:107, 122-130), and no character is stored outside  *)
(* the cells; the chip shows the cursor where the next character goes.     *)
TypeOK ==
  /\ vga \in Screen /\ vga.cursor = Index(vga.row, vga.col)
  /\ line \in Seq(Typeable) /\ Len(line) < SHELL_BUFFER_SIZE
  /\ out \in Seq([do : {"put"}, what : Glyphs \cup Typeable \cup {NL}] \cup [do : {"color"}, what : Colors])
  /\ pc \in Control
  /\ home \in Int /\ exact \in BOOLEAN

(* What the user sees is what keyboard_readline has stored: the prompt,    *)
(* the line, and the cursor behind it, on as many lines of the screen as   *)
(* it takes and after any scrolling, until a tab or a carriage return is   *)
(* typed or a character is erased whose place is on the line above         *)
(* (vga.c:108-114): there the driver stays in the first column.            *)
Shows(text, color, from) ==
  \A k \in DOMAIN text :
    from + k - 1 \in Cells => vga.buffer[from + k - 1] = Entry(text[k], color)
EchoFaithful ==
  pc = "read" /\ exact =>
    /\ vga.cursor = home + Len(line)
    /\ Shows(shell_prompt, GREEN, home - Len(shell_prompt))
    /\ Shows(line, WHITE, home)

(* Every command ends its output with its line (echo takes care of it,     *)
(* shell.c:219), so that the prompt starts a line of its own.  The         *)
(* exceptions: a line of blanks that readline cut at the limit of its      *)
(* buffer, without an Enter (keyboard.c:216); and cat and cd, for cat      *)
(* looks for a line end at the end of its buffer (shell.c:540), which is   *)
(* not that of the text if the file lost its contents, and cd, and cat     *)
(* without memory, print nothing.                                          *)
OutputEndsLine ==
  pc = "next" => \/ vga.col = 0
                 \/ Runs("cat")
                 \/ Args = <<>> /\ Len(line) = SHELL_BUFFER_SIZE - 1

(* The screen is a terminal: a grid of lines.                              *)
Row(n) == [k \in 1 .. VGA_WIDTH |-> vga.buffer[Index(n - 1, k - 1)]]
TerminalView ==
  INSTANCE Terminal WITH
    Width <- VGA_WIDTH, Height <- VGA_HEIGHT, Space <- SPACE, Pens <- Colors, TabStop <- 4,
    grid <- [n \in 1 .. VGA_HEIGHT |-> Row(n)],
    line <- vga.row + 1, place <- vga.col + 1, pen <- vga.color, visible <- vga.shown
ImplementsTerminal == TerminalView!Spec

-----------------------------------------------------------------------------
(* What the comments say and the code does not do.                         *)

(* "Change text color (0-15)" (shell.c:65): what is typed after the        *)
(* command is in the new colour.                                           *)
ColorStays ==
  [][Ask /\ Runs("color") /\ Len(Args) > 1 /\ ColorNumber[Args[2]] \in Colors
       => vga.color = ColorNumber[Args[2]]]_vars
=============================================================================
