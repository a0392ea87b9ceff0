-------------------------------- MODULE Vga --------------------------------
(***************************************************************************)
(* The text screen, drivers/vga.c: what each function makes of the         *)
(* driver's state.  No interrupt handler draws, so a call is one step of   *)
(* the component that makes it, and the state is a record that component   *)
(* keeps:                                                                  *)
(*   row, col  where the next character goes (vga_row, vga_col)            *)
(*   color     vga_color                                                   *)
(*   buffer    the cells, line after line, at 0xB8000                      *)
(*   cursor    the position the chip shows the cursor at                   *)
(*   shown     whether it does                                             *)
(***************************************************************************)
EXTENDS Integers, Sequences, SequencesExt

CONSTANTS
  VGA_WIDTH, VGA_HEIGHT,
  Colors,           \* values of vga_color
  Glyphs,           \* the characters that putchar stores, SPACE among them
  SPACE, NL, CR, TAB, BS

ASSUME VgaAssumption ==
  /\ VGA_WIDTH \in Nat \ {0} /\ VGA_HEIGHT \in Nat \ {0}
  /\ SPACE \in Glyphs /\ Glyphs \cap {NL, CR, TAB, BS} = {}
  /\ NL \notin {CR, TAB, BS} /\ CR \notin {TAB, BS} /\ TAB # BS

Rows    == 0 .. VGA_HEIGHT - 1
Columns == 0 .. VGA_WIDTH - 1
Cells   == 0 .. VGA_WIDTH * VGA_HEIGHT - 1
Cell    == [char : Glyphs, color : Colors]
Screen  == [row : Rows, col : Columns, color : Colors, buffer : [Cells -> Cell],
            cursor : Cells, shown : BOOLEAN]

Index(row, col) == row * VGA_WIDTH + col
Entry(c, color) == [char |-> c, color |-> color]
Blank(v)        == Entry(SPACE, v.color)

SetColor(v, color) == [v EXCEPT !.color = color]
UpdateCursor(v)    == [v EXCEPT !.cursor = Index(v.row, v.col)]
HideCursor(v)      == [v EXCEPT !.shown = FALSE]
ShowCursor(v)      == [v EXCEPT !.shown = TRUE]

Clear(v) == UpdateCursor([v EXCEPT !.buffer = [i \in Cells |-> Blank(v)],
                                   !.row = 0, !.col = 0])

-----------------------------------------------------------------------------
(* vga_putchar: the character, then the wrap, then the scroll.             *)

Tabbed(col) == (col \div 4 + 1) * 4

TypesetAbove(v, c) ==
  CASE c = NL  -> [v EXCEPT !.row = @ + 1, !.col = 0]
    [] c = CR  -> [v EXCEPT !.col = 0]
    [] c = TAB -> [v EXCEPT !.col = Tabbed(@)]
    [] c = BS /\ Index(v.row, v.col) > 0 ->
         [v EXCEPT !.col = @ - 1, !.buffer[Index(v.row, v.col) - 1] = Blank(v)]
    [] c = BS /\ Index(v.row, v.col) = 0 -> v
    [] OTHER   -> [v EXCEPT !.buffer[Index(v.row, v.col)] = Entry(c, v.color),
                            !.col = @ + 1]
Typeset(v, c) ==
  CASE c = NL  -> [v EXCEPT !.row = @ + 1, !.col = 0]
    [] c = CR  -> [v EXCEPT !.col = 0]
    [] c = TAB -> [v EXCEPT !.col = Tabbed(@)]
    [] c = BS /\ v.col > 0 ->
         [v EXCEPT !.col = @ - 1, !.buffer[Index(v.row, v.col - 1)] = Blank(v)]
    [] c = BS /\ v.col = 0 -> v
    [] OTHER   -> [v EXCEPT !.buffer[Index(v.row, v.col)] = Entry(c, v.color),
                            !.col = @ + 1]

Wrapped(v) ==
  IF v.col >= VGA_WIDTH THEN [v EXCEPT !.row = @ + 1, !.col = 0] ELSE v

(* vga_scroll: every line moves up, and the last one becomes blank.        *)
Lifted(v) ==
  [i \in Cells |-> IF i < Index(VGA_HEIGHT - 1, 0) THEN v.buffer[i + VGA_WIDTH]
                   ELSE Blank(v)]
Scrolls(v) == v.row >= VGA_HEIGHT
ScrolledKeepingLast(v) ==
  IF v.row >= VGA_HEIGHT
  THEN [v EXCEPT !.buffer = [i \in Cells |-> IF i < Index(VGA_HEIGHT - 1, 0)
                                             THEN v.buffer[i + VGA_WIDTH] ELSE v.buffer[i]],
                 !.row = VGA_HEIGHT - 1]
  ELSE v
Scrolled(v) ==
  IF Scrolls(v) THEN [v EXCEPT !.buffer = Lifted(v), !.row = VGA_HEIGHT - 1] ELSE v

PutChar(v, c) == UpdateCursor(Scrolled(Wrapped(Typeset(v, c))))
PrintText(v, str) == FoldLeft(PutChar, v, str)

-----------------------------------------------------------------------------
(* Drawing at a position.                                                  *)

SetCursor(v, row, col) ==
  IF row < VGA_HEIGHT /\ col < VGA_WIDTH
  THEN UpdateCursor([v EXCEPT !.row = row, !.col = col]) ELSE v

PutAt(v, row, col, c) ==
  IF row < VGA_HEIGHT /\ col < VGA_WIDTH
  THEN [v EXCEPT !.buffer[Index(row, col)] = Entry(c, v.color)] ELSE v

(* vga_print_at of a text without a line end.  vga_row and vga_col are put *)
(* back at the end, and the chip is not told in between.                   *)
PrintAt(v, row, col, str) ==
  [v EXCEPT !.buffer = [i \in Cells |->
    IF i \div VGA_WIDTH = row /\ (i % VGA_WIDTH) - col \in 0 .. Len(str) - 1
    THEN Entry(str[(i % VGA_WIDTH) - col + 1], v.color) ELSE v.buffer[i]]]

PrintCentered(v, row, str) ==
  PrintAt(v, row, IF VGA_WIDTH > Len(str) THEN (VGA_WIDTH - Len(str)) \div 2 ELSE 0, str)
=============================================================================
