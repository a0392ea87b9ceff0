--------------------------- MODULE ConsoleProofs ---------------------------
(***************************************************************************)
(* The screen and the line on it, for a screen of any size, any prompt and *)
(* lines of any length: every variable has its type, what                  *)
(* keyboard_readline has stored is what the user sees, the prompt starts a *)
(* line, and the screen is a terminal.                                     *)
(***************************************************************************)
EXTENDS Console, SequenceTheorems, FiniteSetTheorems, Loops, TLAPS

(* The screen has its cells, and the cursor is on it.                      *)
Whole(v) ==
  /\ v = [row |-> v.row, col |-> v.col, color |-> v.color, buffer |-> v.buffer,
          cursor |-> v.cursor, shown |-> v.shown]
  /\ v.row \in Rows /\ v.col \in Columns
  /\ v.buffer = [i \in Cells |-> v.buffer[i]]
  /\ v.cursor = Index(v.row, v.col)

-----------------------------------------------------------------------------
(* Cells in rows                                                           *)

LEMMA Columned == ASSUME NEW r \in Nat, NEW c \in Nat
                  PROVE  Index(r, 0) \in Nat /\ Index(r, c) = Index(r, 0) + c
                         /\ Index(r + 1, 0) = Index(r, 0) + VGA_WIDTH
  BY VgaAssumption DEF Index

LEMMA Below == ASSUME NEW r \in Nat, NEW q \in Nat, r < q
               PROVE  Index(r, 0) + VGA_WIDTH <= Index(q, 0)
<1>1. PICK d \in Nat : q = r + 1 + d
  <2>1. q - r - 1 \in Nat /\ q = r + 1 + (q - r - 1)
    OBVIOUS
  <2> QED BY <2>1
<1>2. d * VGA_WIDTH \in Nat
  BY VgaAssumption
<1>3. q * VGA_WIDTH = r * VGA_WIDTH + VGA_WIDTH + d * VGA_WIDTH
  BY <1>1, VgaAssumption
<1>4. r * VGA_WIDTH \in Nat
  BY VgaAssumption
<1> QED BY <1>2, <1>3, <1>4, VgaAssumption DEF Index

LEMMA AllCells == /\ Cells = 0 .. Index(VGA_HEIGHT - 1, 0) + VGA_WIDTH - 1
                  /\ Index(VGA_HEIGHT - 1, 0) \in Nat
<1>1. VGA_WIDTH * VGA_HEIGHT = (VGA_HEIGHT - 1) * VGA_WIDTH + VGA_WIDTH
  <2>1. \A w \in Nat, h \in Nat : w * (h + 1) = h * w + w
    OBVIOUS
  <2>2. VGA_HEIGHT - 1 \in Nat /\ VGA_HEIGHT - 1 + 1 = VGA_HEIGHT
    BY VgaAssumption
  <2> QED BY <2>1, <2>2, VgaAssumption
<1>2. (VGA_HEIGHT - 1) * VGA_WIDTH \in Nat
  BY VgaAssumption
<1>3. Index(VGA_HEIGHT - 1, 0) = (VGA_HEIGHT - 1) * VGA_WIDTH
  BY <1>2 DEF Index
<1>4. VGA_WIDTH * VGA_HEIGHT = Index(VGA_HEIGHT - 1, 0) + VGA_WIDTH
  BY <1>1, <1>3
<1>5. Cells = 0 .. Index(VGA_HEIGHT - 1, 0) + VGA_WIDTH - 1
  <2>1. Index(VGA_HEIGHT - 1, 0) + (VGA_WIDTH - 1) = VGA_WIDTH * VGA_HEIGHT - 1
    BY <1>2, <1>3, <1>4, VgaAssumption
  <2> QED BY <2>1 DEF Cells
<1> QED BY <1>2, <1>3, <1>5

LEMMA OnScreen == ASSUME NEW r \in Rows, NEW c \in Columns
                  PROVE  Index(r, c) \in Cells /\ Index(r, c) \in Nat
<1>1. r \in Nat /\ c \in Nat /\ c < VGA_WIDTH /\ r <= VGA_HEIGHT - 1 /\ VGA_HEIGHT - 1 \in Nat
  BY VgaAssumption DEF Rows, Columns
<1>2. Index(r, 0) <= Index(VGA_HEIGHT - 1, 0)
  <2>1. CASE r = VGA_HEIGHT - 1
    BY <1>1, <2>1, Columned
  <2>2. CASE r < VGA_HEIGHT - 1
    BY <1>1, <2>2, Columned, Below, VgaAssumption
  <2> QED BY <1>1, <2>1, <2>2
<1>3. Index(r, c) = Index(r, 0) + c /\ Index(r, 0) \in Nat
  BY <1>1, Columned
<1> QED BY <1>1, <1>2, <1>3, AllCells, VgaAssumption

-----------------------------------------------------------------------------
(* vga_putchar                                                             *)

(* The scroll after a character moves what is on the screen by this much.  *)
Lift(v, c) == IF Scrolls(Wrapped(Typeset(v, c))) THEN VGA_WIDTH ELSE 0

(* Every cell of w that has not just come onto the screen is v's, but for  *)
(* one, at i, which is e.                                                  *)
Moved(v, w, by, i, e) ==
  \A k \in Cells : k + by \in Cells =>
    w.buffer[k] = IF k + by = i THEN e ELSE v.buffer[k + by]

(* The wrap, the scroll and the cursor, after a character that left the    *)
(* position in column col, at most one row too low.                        *)
LEMMA Settles ==
  ASSUME NEW v, NEW row \in 0 .. VGA_HEIGHT, NEW col \in Nat, NEW color, NEW buffer,
         NEW cursor, NEW shown, col < VGA_WIDTH \/ row < VGA_HEIGHT,
         v = [row |-> row, col |-> col, color |-> color, buffer |-> buffer,
              cursor |-> cursor, shown |-> shown],
         buffer = [i \in Cells |-> buffer[i]]
  PROVE  LET w == UpdateCursor(Scrolled(Wrapped(v)))
             by == IF Scrolls(Wrapped(v)) THEN VGA_WIDTH ELSE 0
         IN  /\ Whole(w) /\ w.color = color
             /\ col <= VGA_WIDTH => w.cursor = Index(row, col) - by
             /\ \A k \in Cells : k + by \in Cells => w.buffer[k] = buffer[k + by]
<1> DEFINE r == IF col >= VGA_WIDTH THEN row + 1 ELSE row
           c == IF col >= VGA_WIDTH THEN 0 ELSE col
           u == [row |-> r, col |-> c, color |-> color, buffer |-> buffer,
                 cursor |-> cursor, shown |-> shown]
<1>1. Wrapped(v) = u
  BY DEF Wrapped
<1>2. r \in 0 .. VGA_HEIGHT /\ c \in Columns
  BY VgaAssumption DEF Columns
<1>3. col <= VGA_WIDTH => Index(row, col) = Index(r, c)
  <2>1. row \in Nat
    BY VgaAssumption
  <2>2. Index(row, col) = Index(row, 0) + col
        /\ Index(row + 1, 0) = Index(row, 0) + VGA_WIDTH
    BY <2>1, Columned
  <2> QED BY <2>2, VgaAssumption
<1> HIDE DEF r, c
<1>4. CASE r < VGA_HEIGHT
  <2>1. ~Scrolls(u)
    BY <1>4, <1>2, VgaAssumption DEF Scrolls
  <2>2. UpdateCursor(Scrolled(u)) =
          [row |-> r, col |-> c, color |-> color, buffer |-> buffer,
           cursor |-> Index(r, c), shown |-> shown]
    BY <2>1 DEF UpdateCursor, Scrolled
  <2>3. r \in Rows /\ Index(r, c) \in Nat
    BY <1>2, <1>4, OnScreen, VgaAssumption DEF Rows
  <2>4. \A k \in Cells : k + 0 = k
    BY AllCells, VgaAssumption
  <2> QED BY <1>1, <1>2, <1>3, <2>1, <2>2, <2>3, <2>4 DEF Whole
<1>5. CASE r = VGA_HEIGHT
  <2>1. Scrolls(u)
    BY <1>5, VgaAssumption DEF Scrolls
  <2>2. UpdateCursor(Scrolled(u)) =
          [row |-> VGA_HEIGHT - 1, col |-> c, color |-> color, buffer |-> Lifted(u),
           cursor |-> Index(VGA_HEIGHT - 1, c), shown |-> shown]
    <3>1. Scrolled(u) = [row |-> VGA_HEIGHT - 1, col |-> c, color |-> color,
                         buffer |-> Lifted(u), cursor |-> cursor, shown |-> shown]
      BY <2>1 DEF Scrolled
    <3> QED BY <3>1 DEF UpdateCursor
  <2>3. VGA_HEIGHT - 1 \in Rows /\ VGA_HEIGHT - 1 \in Nat /\ VGA_HEIGHT - 1 + 1 = VGA_HEIGHT
    BY VgaAssumption DEF Rows
  <2>4. c \in Nat /\ VGA_HEIGHT \in Nat
    BY <1>2, VgaAssumption DEF Columns
  <2>5. Index(r, c) - VGA_WIDTH = Index(VGA_HEIGHT - 1, c)
    <3>1. Index(r, c) = Index(r, 0) + c
          /\ Index(VGA_HEIGHT - 1, c) = Index(VGA_HEIGHT - 1, 0) + c
      BY <1>5, <2>3, <2>4, Columned
    <3>2. Index(VGA_HEIGHT, 0) = Index(VGA_HEIGHT - 1, 0) + VGA_WIDTH
          /\ Index(VGA_HEIGHT - 1, 0) \in Nat
      BY <2>3, Columned
    <3> QED BY <1>5, <2>4, <3>1, <3>2, VgaAssumption
  <2>6. ASSUME NEW k \in Cells, k + VGA_WIDTH \in Cells
        PROVE  Lifted(u)[k] = buffer[k + VGA_WIDTH]
    <3>1. k < Index(VGA_HEIGHT - 1, 0)
      BY <2>6, AllCells, VgaAssumption
    <3> QED BY <2>6, <3>1 DEF Lifted
  <2>7. Lifted(u) = [i \in Cells |-> Lifted(u)[i]]
    BY DEF Lifted
  <2> QED BY <1>1, <1>2, <1>3, <2>1, <2>2, <2>3, <2>5, <2>6, <2>7 DEF Whole
<1> QED BY <1>2, <1>4, <1>5, VgaAssumption
(* A character, before the wrap.                                           *)
LEMMA StoresGlyph ==
  ASSUME NEW v, NEW c, c \notin {NL, CR, TAB, BS}, Whole(v)
  PROVE  Typeset(v, c) =
           [row |-> v.row, col |-> v.col + 1, color |-> v.color,
            buffer |-> [v.buffer EXCEPT ![v.cursor] = Entry(c, v.color)],
            cursor |-> v.cursor, shown |-> v.shown]
<1>1. Typeset(v, c) = [v EXCEPT !.buffer[Index(v.row, v.col)] = Entry(c, v.color), !.col = @ + 1]
  BY DEF Typeset
<1> QED BY <1>1 DEF Whole

LEMMA StoresBlank ==
  ASSUME NEW v, Whole(v), v.col > 0
  PROVE  Typeset(v, BS) =
           [row |-> v.row, col |-> v.col - 1, color |-> v.color,
            buffer |-> [v.buffer EXCEPT ![Index(v.row, v.col - 1)] = Blank(v)],
            cursor |-> v.cursor, shown |-> v.shown]
<1>1. Typeset(v, BS) = [v EXCEPT !.col = @ - 1, !.buffer[Index(v.row, v.col - 1)] = Blank(v)]
  <2>1. BS \notin {NL, CR, TAB} /\ v.col # 0
    BY VgaAssumption DEF Whole, Columns
  <2> QED BY <2>1 DEF Typeset
<1> QED BY <1>1 DEF Whole

LEMMA StoresNothing ==
  ASSUME NEW v, NEW c \in {NL, CR, TAB, BS}, Whole(v), c = BS => v.col = 0
  PROVE  \E row \in 0 .. VGA_HEIGHT, col \in Nat :
           /\ col < VGA_WIDTH \/ row < VGA_HEIGHT
           /\ Typeset(v, c) = [row |-> row, col |-> col, color |-> v.color, buffer |-> v.buffer,
                               cursor |-> v.cursor, shown |-> v.shown]
<1>1. /\ v.row \in 0 .. VGA_HEIGHT /\ v.row + 1 \in 0 .. VGA_HEIGHT /\ v.row < VGA_HEIGHT
      /\ v.col \in Nat /\ 0 < VGA_WIDTH
  BY VgaAssumption DEF Whole, Rows, Columns
<1>2. Tabbed(v.col) \in Nat
  BY <1>1 DEF Tabbed
<1>3. CASE c = NL
  <2>1. Typeset(v, c) = [v EXCEPT !.row = @ + 1, !.col = 0]
    BY <1>3, VgaAssumption DEF Typeset
  <2>2. Typeset(v, c) = [row |-> v.row + 1, col |-> 0, color |-> v.color, buffer |-> v.buffer,
                         cursor |-> v.cursor, shown |-> v.shown]
    BY <2>1 DEF Whole
  <2> QED BY <1>1, <2>2
<1>4. CASE c = CR
  <2>1. Typeset(v, c) = [v EXCEPT !.col = 0]
    BY <1>4, VgaAssumption DEF Typeset
  <2>2. Typeset(v, c) = [row |-> v.row, col |-> 0, color |-> v.color, buffer |-> v.buffer,
                         cursor |-> v.cursor, shown |-> v.shown]
    BY <2>1 DEF Whole
  <2> QED BY <1>1, <2>2
<1>5. CASE c = TAB
  <2>1. Typeset(v, c) = [v EXCEPT !.col = Tabbed(@)]
    BY <1>5, VgaAssumption DEF Typeset
  <2>2. Typeset(v, c) = [row |-> v.row, col |-> Tabbed(v.col), color |-> v.color,
                         buffer |-> v.buffer, cursor |-> v.cursor, shown |-> v.shown]
    BY <2>1 DEF Whole
  <2> QED BY <1>1, <1>2, <2>2
<1>6. CASE c = BS
  <2>1. Typeset(v, c) = v
    BY <1>6, VgaAssumption DEF Typeset
  <2>2. Typeset(v, c) = [row |-> v.row, col |-> v.col, color |-> v.color, buffer |-> v.buffer,
                         cursor |-> v.cursor, shown |-> v.shown]
    BY <2>1 DEF Whole
  <2> QED BY <1>1, <2>2
<1> QED BY <1>3, <1>4, <1>5, <1>6

(* A store in a cell keeps the row of cells.                               *)
LEMMA StoreKeepsCells ==
  ASSUME NEW b, NEW k, NEW e, b = [i \in Cells |-> b[i]]
  PROVE  [b EXCEPT ![k] = e] = [i \in Cells |-> [b EXCEPT ![k] = e][i]]
  OBVIOUS

LEMMA PutsGlyph ==
  ASSUME NEW v, NEW c, c \notin {NL, CR, TAB, BS}, Whole(v)
  PROVE  LET w == PutChar(v, c) IN
         /\ Whole(w) /\ w.color = v.color /\ w.cursor = (v.cursor + 1) - Lift(v, c)
         /\ Moved(v, w, Lift(v, c), v.cursor, Entry(c, v.color))
<1> DEFINE b == [v.buffer EXCEPT ![v.cursor] = Entry(c, v.color)]
<1>1. Typeset(v, c) = [row |-> v.row, col |-> v.col + 1, color |-> v.color, buffer |-> b,
                       cursor |-> v.cursor, shown |-> v.shown]
  BY StoresGlyph
<1>2. b = [i \in Cells |-> b[i]]
  BY StoreKeepsCells DEF Whole
<1>3. \A i \in Cells : b[i] = IF i = v.cursor THEN Entry(c, v.color) ELSE v.buffer[i]
  BY DEF Whole
<1>4. /\ v.row \in 0 .. VGA_HEIGHT /\ v.row < VGA_HEIGHT /\ v.col + 1 \in Nat
      /\ v.col + 1 <= VGA_WIDTH
  BY VgaAssumption DEF Whole, Rows, Columns
<1>5. Index(v.row, v.col + 1) = v.cursor + 1
  <2>1. v.row \in Nat /\ v.col \in Nat
    BY VgaAssumption DEF Whole, Rows, Columns
  <2>2. /\ Index(v.row, v.col + 1) = Index(v.row, 0) + (v.col + 1)
        /\ Index(v.row, v.col) = Index(v.row, 0) + v.col /\ Index(v.row, 0) \in Nat
    BY <1>4, <2>1, Columned
  <2> QED BY <2>1, <2>2 DEF Whole
<1> HIDE DEF b
<1> DEFINE t == Typeset(v, c)
           w == UpdateCursor(Scrolled(Wrapped(t)))
           by == IF Scrolls(Wrapped(t)) THEN VGA_WIDTH ELSE 0
<1>6. /\ Whole(w) /\ w.color = v.color /\ w.cursor = Index(v.row, v.col + 1) - by
      /\ \A k \in Cells : k + by \in Cells => w.buffer[k] = b[k + by]
  <2> HIDE DEF t
  <2> QED BY <1>1, <1>2, <1>4, Settles DEF t
<1>7. w = PutChar(v, c) /\ by = Lift(v, c)
  BY DEF PutChar, Lift
<1> HIDE DEF w, by
<1>8. Moved(v, w, by, v.cursor, Entry(c, v.color))
  BY <1>3, <1>6 DEF Moved
<1> QED BY <1>5, <1>6, <1>7, <1>8

LEMMA Erases ==
  ASSUME NEW v, Whole(v), v.col > 0
  PROVE  LET w == PutChar(v, BS) IN
         /\ Whole(w) /\ w.color = v.color /\ w.cursor = v.cursor - 1 /\ Lift(v, BS) = 0
         /\ Moved(v, w, 0, v.cursor - 1, Blank(v))
<1> DEFINE b == [v.buffer EXCEPT ![Index(v.row, v.col - 1)] = Blank(v)]
<1>1. Typeset(v, BS) = [row |-> v.row, col |-> v.col - 1, color |-> v.color, buffer |-> b,
                        cursor |-> v.cursor, shown |-> v.shown]
  BY StoresBlank
<1>2. b = [i \in Cells |-> b[i]]
  BY StoreKeepsCells DEF Whole
<1>3. /\ v.row \in 0 .. VGA_HEIGHT /\ v.row < VGA_HEIGHT /\ v.col - 1 \in Nat
      /\ v.col - 1 < VGA_WIDTH /\ v.row \in Nat /\ v.col \in Nat
  BY VgaAssumption DEF Whole, Rows, Columns
<1>4. Index(v.row, v.col - 1) = v.cursor - 1
  <2>1. /\ Index(v.row, v.col - 1) = Index(v.row, 0) + (v.col - 1)
        /\ Index(v.row, v.col) = Index(v.row, 0) + v.col /\ Index(v.row, 0) \in Nat
    BY <1>3, Columned
  <2> QED BY <1>3, <2>1 DEF Whole
<1>5. \A i \in Cells : b[i] = IF i = v.cursor - 1 THEN Blank(v) ELSE v.buffer[i]
  BY <1>4 DEF Whole
<1> HIDE DEF b
<1>6. ~Scrolls(Wrapped(Typeset(v, BS)))
  BY <1>1, <1>3, VgaAssumption DEF Scrolls, Wrapped
<1> DEFINE t == Typeset(v, BS)
           w == UpdateCursor(Scrolled(Wrapped(t)))
           by == IF Scrolls(Wrapped(t)) THEN VGA_WIDTH ELSE 0
<1>7. /\ Whole(w) /\ w.color = v.color /\ w.cursor = Index(v.row, v.col - 1) - by
      /\ \A k \in Cells : k + by \in Cells => w.buffer[k] = b[k + by]
  <2>1. v.col - 1 <= VGA_WIDTH
    BY <1>3, VgaAssumption
  <2> HIDE DEF t
  <2> QED BY <1>1, <1>2, <1>3, <2>1, Settles DEF t
<1>8. w = PutChar(v, BS) /\ by = Lift(v, BS) /\ by = 0
  BY <1>6 DEF PutChar, Lift
<1> HIDE DEF w, by
<1>9. Moved(v, w, 0, v.cursor - 1, Blank(v))
  <2>1. \A k \in Cells : k + 0 = k
    BY AllCells, VgaAssumption
  <2> QED BY <1>5, <1>7, <1>8, <2>1 DEF Moved
<1>10. v.cursor - 1 - 0 = v.cursor - 1
  <2>1. v.cursor \in Nat
    BY OnScreen DEF Whole
  <2> QED BY <2>1
<1> QED BY <1>4, <1>7, <1>8, <1>9, <1>10

LEMMA KeepsWhole ==
  ASSUME NEW v, NEW c, Whole(v)
  PROVE  Whole(PutChar(v, c)) /\ PutChar(v, c).color = v.color
<1>1. CASE c \notin {NL, CR, TAB, BS}
  BY <1>1, PutsGlyph
<1>2. CASE c = BS /\ v.col > 0
  BY <1>2, Erases
<1>3. CASE c \in {NL, CR, TAB, BS} /\ (c = BS => v.col = 0)
  <2>1. PICK row \in 0 .. VGA_HEIGHT, col \in Nat :
           /\ col < VGA_WIDTH \/ row < VGA_HEIGHT
           /\ Typeset(v, c) = [row |-> row, col |-> col, color |-> v.color, buffer |-> v.buffer,
                               cursor |-> v.cursor, shown |-> v.shown]
    BY <1>3, StoresNothing
  <2> DEFINE t == Typeset(v, c)
             w == UpdateCursor(Scrolled(Wrapped(t)))
  <2>2. Whole(w) /\ w.color = v.color
    <3> HIDE DEF t
    <3> QED BY <2>1, Settles DEF t, Whole
  <2> QED BY <2>2 DEF PutChar
<1>4. c = BS => v.col = 0 \/ v.col > 0
  BY VgaAssumption DEF Whole, Columns
<1> QED BY <1>1, <1>2, <1>3, <1>4
-----------------------------------------------------------------------------
(* The other functions                                                     *)

LEMMA DrawsWhole ==
  ASSUME NEW v, Whole(v)
  PROVE  /\ \A n : Whole(SetColor(v, n)) /\ SetColor(v, n).color = n
                   /\ SetColor(v, n).cursor = v.cursor /\ SetColor(v, n).buffer = v.buffer
         /\ Whole(HideCursor(v)) /\ Whole(ShowCursor(v)) /\ Whole(Clear(v))
         /\ \A row, col \in Nat : Whole(SetCursor(v, row, col))
         /\ \A row, col, c : Whole(PutAt(v, row, col, c))
         /\ \A row, str : Whole(PrintCentered(v, row, str))
<1>1. \A n : Whole(SetColor(v, n)) /\ SetColor(v, n).color = n
             /\ SetColor(v, n).cursor = v.cursor /\ SetColor(v, n).buffer = v.buffer
  <2> TAKE n
  <2>1. SetColor(v, n) = [row |-> v.row, col |-> v.col, color |-> n, buffer |-> v.buffer,
                          cursor |-> v.cursor, shown |-> v.shown]
    BY DEF Whole, SetColor
  <2> QED BY <2>1 DEF Whole
<1>2. \A x : Whole([v EXCEPT !.shown = x])
  <2> TAKE x
  <2>1. [v EXCEPT !.shown = x] = [row |-> v.row, col |-> v.col, color |-> v.color,
                                  buffer |-> v.buffer, cursor |-> v.cursor, shown |-> x]
    BY DEF Whole
  <2> QED BY <2>1 DEF Whole
<1>3. Whole(HideCursor(v)) /\ Whole(ShowCursor(v))
  BY <1>2, Zenon DEF HideCursor, ShowCursor
<1>4. Whole(Clear(v))
  <2>1. ASSUME NEW r \in Rows, NEW c \in Columns, NEW b, b = [i \in Cells |-> b[i]]
        PROVE  Whole(UpdateCursor([v EXCEPT !.buffer = b, !.row = r, !.col = c]))
    <3> DEFINE u == [v EXCEPT !.buffer = b]
               w == [row |-> r, col |-> c, color |-> v.color, buffer |-> b,
                     cursor |-> v.cursor, shown |-> v.shown]
    <3>1. u = [row |-> v.row, col |-> v.col, color |-> v.color, buffer |-> b,
               cursor |-> v.cursor, shown |-> v.shown]
      BY DEF Whole
    <3>2. [v EXCEPT !.buffer = b, !.row = r, !.col = c] = [u EXCEPT !.row = r, !.col = c]
      OBVIOUS
    <3> HIDE DEF u
    <3>3. [u EXCEPT !.row = r, !.col = c] = w
      <4> DEFINE x == [row |-> r, col |-> v.col, color |-> v.color, buffer |-> b,
                       cursor |-> v.cursor, shown |-> v.shown]
      <4>1. [u EXCEPT !.row = r] = x
        BY <3>1
      <4>2. [x EXCEPT !.col = c] = w
        OBVIOUS
      <4> HIDE DEF x, w
      <4> QED BY <4>1, <4>2
    <3>4. UpdateCursor(w) = [row |-> r, col |-> c, color |-> v.color, buffer |-> b,
                             cursor |-> Index(r, c), shown |-> v.shown]
      BY DEF UpdateCursor
    <3>5. Whole(UpdateCursor(w))
      BY <2>1, <3>4 DEF Whole
    <3> QED BY <3>2, <3>3, <3>5
  <2>2. 0 \in Rows /\ 0 \in Columns
    BY VgaAssumption DEF Rows, Columns
  <2> DEFINE b == [i \in Cells |-> Blank(v)]
  <2>3. b = [i \in Cells |-> b[i]]
    OBVIOUS
  <2> HIDE DEF b
  <2>4. Whole(UpdateCursor([v EXCEPT !.buffer = b, !.row = 0, !.col = 0]))
    BY <2>1, <2>2, <2>3, Zenon
  <2> QED BY <2>4, Zenon DEF Clear, b
<1>5. ASSUME NEW row \in Nat, NEW col \in Nat
      PROVE  Whole(SetCursor(v, row, col))
  <2>1. CASE row < VGA_HEIGHT /\ col < VGA_WIDTH
    <3>1. SetCursor(v, row, col) = [row |-> row, col |-> col, color |-> v.color, buffer |-> v.buffer,
                                    cursor |-> Index(row, col), shown |-> v.shown]
      BY <2>1 DEF Whole, SetCursor, UpdateCursor
    <3>2. row \in Rows /\ col \in Columns
      BY <2>1, VgaAssumption DEF Rows, Columns
    <3> QED BY <3>1, <3>2 DEF Whole
  <2>2. CASE ~(row < VGA_HEIGHT /\ col < VGA_WIDTH)
    BY <2>2 DEF SetCursor
  <2> QED BY <2>1, <2>2
<1>6. ASSUME NEW b, b = [i \in Cells |-> b[i]]
      PROVE  Whole([v EXCEPT !.buffer = b])
  <2>1. [v EXCEPT !.buffer = b] = [row |-> v.row, col |-> v.col, color |-> v.color, buffer |-> b,
                                   cursor |-> v.cursor, shown |-> v.shown]
    BY DEF Whole
  <2> QED BY <1>6, <2>1 DEF Whole
<1>7. ASSUME NEW row, NEW col, NEW c
      PROVE  Whole(PutAt(v, row, col, c))
  <2> DEFINE b == [v.buffer EXCEPT ![Index(row, col)] = Entry(c, v.color)]
  <2>1. b = [i \in Cells |-> b[i]]
    BY StoreKeepsCells DEF Whole
  <2>2. PutAt(v, row, col, c) = v \/ PutAt(v, row, col, c) = [v EXCEPT !.buffer = b]
    BY DEF PutAt
  <2> HIDE DEF b
  <2> QED BY <1>6, <2>1, <2>2
<1>8. ASSUME NEW row, NEW str
      PROVE  Whole(PrintCentered(v, row, str))
  <2>1. ASSUME NEW col PROVE Whole(PrintAt(v, row, col, str))
    <3> DEFINE b == [i \in Cells |->
                       IF i \div VGA_WIDTH = row /\ (i % VGA_WIDTH) - col \in 0 .. Len(str) - 1
                       THEN Entry(str[(i % VGA_WIDTH) - col + 1], v.color) ELSE v.buffer[i]]
    <3>1. b = [i \in Cells |-> b[i]]
      OBVIOUS
    <3>2. PrintAt(v, row, col, str) = [v EXCEPT !.buffer = b]
      BY DEF PrintAt
    <3> HIDE DEF b
    <3> QED BY <1>6, <3>1, <3>2
  <2> QED BY <2>1 DEF PrintCentered
<1> QED BY <1>1, <1>3, <1>4, <1>5, <1>7, <1>8

-----------------------------------------------------------------------------
(* Text on the screen                                                      *)

(* The first m characters of text are on the screen from cell from on; the *)
(* scrolling may have taken some of them away.                             *)
ShownIn(v, text, m, color, from) ==
  \A k \in 1 .. m : from + (k - 1) \in Cells => v.buffer[from + (k - 1)] = Entry(text[k], color)

LEMMA TextMoves ==
  ASSUME NEW v, NEW w, NEW by \in Nat, NEW i \in Cells, NEW e,
         NEW text, NEW m \in Nat, NEW color, NEW from \in Int,
         Moved(v, w, by, i, e), from + m <= i, ShownIn(v, text, m, color, from)
  PROVE  ShownIn(w, text, m, color, from - by)
<1> SUFFICES ASSUME NEW k \in 1 .. m, (from - by) + (k - 1) \in Cells
             PROVE  w.buffer[(from - by) + (k - 1)] = Entry(text[k], color)
  BY DEF ShownIn
<1> DEFINE j == (from - by) + (k - 1)
<1>1. j \in Int /\ i \in Int /\ j + by = from + (k - 1) /\ j + by < i /\ j + by >= j
  BY AllCells, VgaAssumption
<1>2. j + by \in Cells
  BY <1>1, AllCells, VgaAssumption
<1>3. w.buffer[j] = v.buffer[j + by]
  BY <1>1, <1>2 DEF Moved
<1> QED BY <1>1, <1>2, <1>3 DEF ShownIn

(* A character behind the text makes it longer by one.                     *)
LEMMA TextGrows ==
  ASSUME NEW v, NEW w, NEW by \in Nat, NEW i \in Cells, NEW c,
         NEW text, NEW longer, NEW m \in Nat, NEW color, NEW from \in Int,
         Moved(v, w, by, i, Entry(c, color)), from + m = i, ShownIn(v, text, m, color, from),
         \A k \in 1 .. m : longer[k] = text[k], longer[m + 1] = c
  PROVE  ShownIn(w, longer, m + 1, color, from - by)
<1>1. ShownIn(w, text, m, color, from - by)
  BY TextMoves, AllCells, VgaAssumption
<1> SUFFICES ASSUME NEW k \in 1 .. m + 1, (from - by) + (k - 1) \in Cells
             PROVE  w.buffer[(from - by) + (k - 1)] = Entry(longer[k], color)
  BY DEF ShownIn
<1>2. CASE k \in 1 .. m
  BY <1>1, <1>2 DEF ShownIn
<1>3. CASE k = m + 1
  <2>1. ((from - by) + (k - 1)) + by = i
    BY <1>3, AllCells, VgaAssumption
  <2> QED BY <1>3, <2>1 DEF Moved
<1> QED BY <1>2, <1>3
-----------------------------------------------------------------------------
(* The prompt                                                              *)

PromptOut == InColor(GREEN) \o Chars(shell_prompt) \o InColor(WHITE)
PromptLen == Len(shell_prompt)

(* What is left of it when n of its parts have been printed.               *)
Rest(n) == [k \in 1 .. (PromptLen + 2) - n |-> PromptOut[n + k]]

LEMMA FunctionIsSequence ==
  ASSUME NEW S, NEW m \in Nat, NEW f \in [1 .. m -> S]
  PROVE  f \in Seq(S) /\ Len(f) = m
  OBVIOUS

LEMMA PromptParts ==
  /\ PromptLen \in Nat /\ Rest(0) = PromptOut
  /\ PromptOut[1] = [do |-> "color", what |-> GREEN]
  /\ \A k \in 1 .. PromptLen : PromptOut[k + 1] = [do |-> "put", what |-> shell_prompt[k]]
  /\ PromptOut[PromptLen + 2] = [do |-> "color", what |-> WHITE]
<1> DEFINE Part == [do : {"put", "color"}, what : Glyphs \cup Colors]
<1>1. shell_prompt \in Seq(Glyphs) /\ PromptLen \in Nat
  BY ConsoleAssumption DEF PromptLen
<1>2. Chars(shell_prompt) \in Seq(Part) /\ Len(Chars(shell_prompt)) = PromptLen
      /\ \A k \in 1 .. PromptLen : Chars(shell_prompt)[k] = [do |-> "put", what |-> shell_prompt[k]]
  <2>1. DOMAIN shell_prompt = 1 .. PromptLen /\ \A k \in 1 .. PromptLen : shell_prompt[k] \in Glyphs
    BY <1>1 DEF PromptLen
  <2>2. Chars(shell_prompt) = [k \in 1 .. PromptLen |-> [do |-> "put", what |-> shell_prompt[k]]]
    BY <2>1 DEF Chars
  <2>3. Chars(shell_prompt) \in [1 .. PromptLen -> Part]
    BY <2>1, <2>2
  <2> HIDE DEF Part
  <2> QED BY <1>1, <2>2, <2>3, FunctionIsSequence
<1>3. ASSUME NEW n \in Colors
      PROVE  InColor(n) \in Seq(Part) /\ Len(InColor(n)) = 1
             /\ InColor(n)[1] = [do |-> "color", what |-> n]
  BY DEF InColor
<1>4. GREEN \in Colors /\ WHITE \in Colors
  BY ConsoleAssumption
<1> DEFINE a == InColor(GREEN)
           b == Chars(shell_prompt)
           c == InColor(WHITE)
<1>5. /\ a \in Seq(Part) /\ Len(a) = 1 /\ a[1] = [do |-> "color", what |-> GREEN]
      /\ b \in Seq(Part) /\ Len(b) = PromptLen
      /\ \A k \in 1 .. PromptLen : b[k] = [do |-> "put", what |-> shell_prompt[k]]
      /\ c \in Seq(Part) /\ Len(c) = 1 /\ c[1] = [do |-> "color", what |-> WHITE]
  BY <1>2, <1>3, <1>4
<1>6. PromptOut = a \o b \o c
  BY DEF PromptOut
<1> HIDE DEF a, b, c, Part
<1>7. /\ PromptOut \in Seq(Part) /\ Len(PromptOut) = PromptLen + 2
      /\ PromptOut[1] = a[1]
      /\ \A k \in 1 .. PromptLen : PromptOut[k + 1] = b[k]
      /\ PromptOut[PromptLen + 2] = c[1]
  <2> DEFINE ab == a \o b
  <2>1. ab \in Seq(Part) /\ Len(ab) = 1 + PromptLen /\ ab[1] = a[1]
        /\ \A k \in 1 .. PromptLen : ab[k + 1] = b[k]
    <3>1. /\ a \o b \in Seq(Part) /\ Len(a \o b) = Len(a) + Len(b)
          /\ \A i \in 1 .. Len(a) + Len(b) :
               (a \o b)[i] = IF i <= Len(a) THEN a[i] ELSE b[i - Len(a)]
      BY <1>5, ConcatProperties
    <3> HIDE DEF ab
    <3>2. ab \in Seq(Part) /\ Len(ab) = 1 + PromptLen
          /\ \A i \in 1 .. 1 + PromptLen : ab[i] = IF i <= 1 THEN a[i] ELSE b[i - 1]
      BY <1>5, <3>1 DEF ab
    <3> QED BY <1>1, <3>2
  <2> HIDE DEF ab
  <2>2. ab \o c \in Seq(Part) /\ Len(ab \o c) = PromptLen + 2 /\ (ab \o c)[PromptLen + 2] = c[1]
        /\ \A k \in 1 .. PromptLen + 1 : (ab \o c)[k] = ab[k]
    <3>1. /\ ab \o c \in Seq(Part) /\ Len(ab \o c) = Len(ab) + Len(c)
          /\ \A i \in 1 .. Len(ab) + Len(c) :
               (ab \o c)[i] = IF i <= Len(ab) THEN ab[i] ELSE c[i - Len(ab)]
      BY <1>5, <2>1, ConcatProperties
    <3> DEFINE abc == ab \o c
    <3> HIDE DEF abc
    <3>2. abc \in Seq(Part) /\ Len(abc) = PromptLen + 2
          /\ \A i \in 1 .. PromptLen + 2 :
               abc[i] = IF i <= PromptLen + 1 THEN ab[i] ELSE c[i - (PromptLen + 1)]
      BY <1>1, <1>5, <2>1, <3>1 DEF abc
    <3>3. abc[PromptLen + 2] = c[1] /\ \A k \in 1 .. PromptLen + 1 : abc[k] = ab[k]
      BY <1>1, <3>2
    <3> QED BY <3>2, <3>3 DEF abc
  <2>3. PromptOut = ab \o c
    BY <1>6 DEF ab
  <2>4. 1 \in 1 .. PromptLen + 1 /\ \A k \in 1 .. PromptLen : k + 1 \in 1 .. PromptLen + 1
    BY <1>1
  <2> QED BY <2>1, <2>2, <2>3, <2>4
<1>8. Rest(0) = PromptOut
  BY <1>1, <1>7 DEF Rest
<1> QED BY <1>1, <1>5, <1>7, <1>8

LEMMA RestShrinks ==
  ASSUME NEW n \in 0 .. PromptLen + 2
  PROVE  /\ Rest(n) = <<>> <=> n = PromptLen + 2
         /\ n < PromptLen + 2 => Head(Rest(n)) = PromptOut[n + 1] /\ Tail(Rest(n)) = Rest(n + 1)
<1>1. PromptLen \in Nat
  BY PromptParts
<1>2. Rest(n) \in Seq({PromptOut[n + k] : k \in 1 .. (PromptLen + 2) - n})
      /\ Len(Rest(n)) = (PromptLen + 2) - n
  <2> DEFINE S == {PromptOut[n + k] : k \in 1 .. (PromptLen + 2) - n}
  <2>1. (PromptLen + 2) - n \in Nat
    BY <1>1
  <2>2. Rest(n) \in [1 .. (PromptLen + 2) - n -> S]
    BY DEF Rest
  <2> HIDE DEF S
  <2>3. Rest(n) \in Seq(S) /\ Len(Rest(n)) = (PromptLen + 2) - n
    BY <2>1, <2>2, FunctionIsSequence
  <2> QED BY <2>3 DEF S
<1>3. Rest(n) = <<>> <=> n = PromptLen + 2
  BY <1>1, <1>2
<1>4. ASSUME n < PromptLen + 2
      PROVE  Head(Rest(n)) = PromptOut[n + 1] /\ Tail(Rest(n)) = Rest(n + 1)
  <2>1. Head(Rest(n)) = PromptOut[n + 1]
    BY <1>1, <1>2, <1>4 DEF Rest
  <2>2. Tail(Rest(n)) = [k \in 1 .. ((PromptLen + 2) - n) - 1 |-> Rest(n)[k + 1]]
    <3> DEFINE S == {PromptOut[n + k] : k \in 1 .. (PromptLen + 2) - n}
               s == Rest(n)
               m == ((PromptLen + 2) - n) - 1
               t == Tail(s)
    <3>1. s \in Seq(S) /\ Len(s) - 1 = m /\ s # <<>>
      BY <1>1, <1>2, <1>4
    <3> HIDE DEF S, s, m
    <3>2. t \in Seq(S) /\ Len(t) = m /\ \A i \in 1 .. m : t[i] = s[i + 1]
      BY <3>1, HeadTailProperties
    <3> HIDE DEF t
    <3>3. t = [k \in 1 .. m |-> s[k + 1]]
      BY <3>2
    <3> QED BY <3>3 DEF s, t, m
  <2>3. \A k \in 1 .. ((PromptLen + 2) - n) - 1 : Rest(n)[k + 1] = PromptOut[(n + 1) + k]
    BY <1>1 DEF Rest
  <2>4. ((PromptLen + 2) - n) - 1 = (PromptLen + 2) - (n + 1)
    BY <1>1
  <2> QED BY <2>1, <2>2, <2>3, <2>4 DEF Rest
<1> QED BY <1>3, <1>4

-----------------------------------------------------------------------------
(* The invariant: how far the prompt is printed when n of its parts have   *)
(* been, and, while the line is read, that nothing else prints and the     *)
(* colour stays.                                                           *)

Prompting(n) ==
  /\ out = Rest(n)
  /\ n \in 1 .. PromptLen + 1 =>
       /\ vga.color = GREEN
       /\ ShownIn(vga, shell_prompt, n - 1, GREEN, vga.cursor - (n - 1))
  /\ n = PromptLen + 2 =>
       /\ vga.color = WHITE
       /\ ShownIn(vga, shell_prompt, PromptLen, GREEN, vga.cursor - PromptLen)

Reading ==
  exact =>
    /\ vga.cursor = home + Len(line)
    /\ ShownIn(vga, shell_prompt, PromptLen, GREEN, home - PromptLen)
    /\ ShownIn(vga, line, Len(line), WHITE, home)

IInv ==
  /\ Whole(vga)
  /\ line \in Seq(Typeable) /\ home \in Int /\ exact \in BOOLEAN
  /\ pc = "prompt" => \E n \in 0 .. PromptLen + 2 : Prompting(n)
  /\ pc = "read" => out = <<>> /\ vga.color = WHITE /\ Reading

(* A part of the prompt is printed.                                        *)
LEMMA PromptStep ==
  ASSUME Whole(vga), NEW n \in 0 .. PromptLen + 2, Prompting(n), Output
  PROVE  n + 1 \in 0 .. PromptLen + 2 /\ Prompting(n + 1)'
<1>1. PromptLen \in Nat
  BY PromptParts
<1>2. n < PromptLen + 2
  BY <1>1, RestShrinks DEF Prompting, Output
<1>3. out' = Rest(n + 1) /\ Head(out) = PromptOut[n + 1]
  BY <1>2, RestShrinks DEF Prompting, Output
<1>4. CASE n = 0
  <2>1. vga' = SetColor(vga, GREEN)
    BY <1>3, <1>4, PromptParts DEF Output
  <2>2. vga'.color = GREEN
    BY <2>1, DrawsWhole
  <2>3. ShownIn(vga', shell_prompt, (n + 1) - 1, GREEN, vga'.cursor - ((n + 1) - 1))
    BY <1>4 DEF ShownIn
  <2> QED BY <1>1, <1>2, <1>3, <1>4, <2>2, <2>3 DEF Prompting
<1>5. CASE n \in 1 .. PromptLen
  <2> DEFINE c == shell_prompt[n]
             by == Lift(vga, c)
  <2>1. PromptOut[n + 1] = [do |-> "put", what |-> c]
    BY <1>5, PromptParts
  <2>2. vga' = PutChar(vga, c)
    BY <1>3, <2>1 DEF Output
  <2>3. c \notin {NL, CR, TAB, BS}
    BY <1>5, ConsoleAssumption, VgaAssumption DEF PromptLen
  <2>4. /\ vga'.color = vga.color /\ vga'.cursor = (vga.cursor + 1) - by
        /\ Moved(vga, vga', by, vga.cursor, Entry(c, vga.color))
    BY <2>2, <2>3, PutsGlyph
  <2>5. vga.cursor \in Cells /\ vga.cursor \in Nat /\ by \in Nat
    BY OnScreen, VgaAssumption DEF Whole, Lift
  <2>6. vga.color = GREEN /\ ShownIn(vga, shell_prompt, n - 1, GREEN, vga.cursor - (n - 1))
    BY <1>1, <1>5 DEF Prompting
  <2>7. (n - 1) + 1 = n /\ n - 1 \in Nat /\ (vga.cursor - (n - 1)) + (n - 1) = vga.cursor
    BY <1>1, <1>5, <2>5
  <2> HIDE DEF c, by
  <2>8. ShownIn(vga', shell_prompt, n, GREEN, (vga.cursor - (n - 1)) - by)
    <3>1. shell_prompt[(n - 1) + 1] = c
      BY <2>7 DEF c
    <3>2. vga.cursor - (n - 1) \in Int
      BY <2>5, <2>7
    <3>3. Moved(vga, vga', by, vga.cursor, Entry(c, GREEN))
      BY <2>4, <2>6
    <3>4. ShownIn(vga', shell_prompt, (n - 1) + 1, GREEN, (vga.cursor - (n - 1)) - by)
      BY <2>5, <2>6, <2>7, <3>1, <3>2, <3>3, TextGrows
    <3> QED BY <2>7, <3>4
  <2>9. (vga.cursor - (n - 1)) - by = vga'.cursor - n /\ (n + 1) - 1 = n
    BY <2>4, <2>5, <2>7
  <2>10. ShownIn(vga', shell_prompt, (n + 1) - 1, GREEN, vga'.cursor - ((n + 1) - 1))
    BY <2>8, <2>9
  <2> QED BY <1>1, <1>2, <1>3, <1>5, <2>4, <2>6, <2>10 DEF Prompting
<1>6. CASE n = PromptLen + 1
  <2>1. vga' = SetColor(vga, WHITE)
    BY <1>1, <1>3, <1>6, PromptParts DEF Output
  <2>2. vga'.color = WHITE /\ vga'.cursor = vga.cursor /\ vga'.buffer = vga.buffer
    BY <2>1, DrawsWhole
  <2>3. ShownIn(vga, shell_prompt, n - 1, GREEN, vga.cursor - (n - 1)) /\ n - 1 = PromptLen
    BY <1>1, <1>6 DEF Prompting
  <2>4. ShownIn(vga', shell_prompt, PromptLen, GREEN, vga'.cursor - PromptLen)
    BY <2>2, <2>3 DEF ShownIn
  <2> QED BY <1>1, <1>2, <1>3, <1>6, <2>2, <2>4 DEF Prompting
<1> QED BY <1>1, <1>2, <1>4, <1>5, <1>6
-----------------------------------------------------------------------------
(* Keys                                                                    *)

LEMMA EchoStep ==
  ASSUME Whole(vga), home \in Int, exact' \in BOOLEAN, NEW ch, Echo(ch)
  PROVE  /\ Whole(vga') /\ vga'.color = vga.color /\ out' = out /\ home' \in Int
         /\ exact' => home' = home - Lift(vga, ch)
<1>1. Whole(vga') /\ vga'.color = vga.color /\ out' = out
  BY KeepsWhole DEF Echo
<1>2. home' \in Int /\ (exact' => home' = home - Lift(vga, ch))
  BY VgaAssumption DEF Echo, Lift
<1> QED BY <1>1, <1>2

LEMMA TypeStep ==
  ASSUME IInv, NEW ch \in Typeable, Type(ch)
  PROVE  IInv'
<1>1. /\ pc = "read" /\ line' = Append(line, ch) /\ exact' = (exact /\ ch \in Glyphs)
      /\ Echo(ch) /\ pc' \in {"read", "execute"}
  BY DEF Type
<1>2. Whole(vga) /\ line \in Seq(Typeable) /\ home \in Int /\ exact \in BOOLEAN
      /\ out = <<>> /\ vga.color = WHITE /\ Reading
  BY <1>1 DEF IInv
<1>3. exact' \in BOOLEAN
  BY <1>1
<1>4. /\ Whole(vga') /\ vga'.color = WHITE /\ out' = <<>> /\ home' \in Int
      /\ exact' => home' = home - Lift(vga, ch)
  BY <1>1, <1>2, <1>3, EchoStep
<1>5. line' \in Seq(Typeable)
  BY <1>1, <1>2
<1>6. ASSUME exact' PROVE Reading'
  <2>1. exact /\ ch \in Glyphs /\ ch \notin {NL, CR, TAB, BS}
    BY <1>1, <1>6, VgaAssumption
  <2> DEFINE by == Lift(vga, ch)
             n == Len(line)
  <2>2. /\ vga'.cursor = (vga.cursor + 1) - by
        /\ Moved(vga, vga', by, vga.cursor, Entry(ch, WHITE))
    BY <1>1, <1>2, <2>1, PutsGlyph DEF Echo
  <2>3. vga.cursor \in Cells /\ vga.cursor \in Nat /\ by \in Nat
    BY <1>2, OnScreen, VgaAssumption DEF Whole, Lift
  <2>4. vga.cursor = home + n /\ ShownIn(vga, shell_prompt, PromptLen, GREEN, home - PromptLen)
        /\ ShownIn(vga, line, n, WHITE, home)
    BY <1>2, <2>1 DEF Reading
  <2>5. /\ Len(line') = n + 1 /\ n \in Nat /\ line'[n + 1] = ch
        /\ \A k \in 1 .. n : line'[k] = line[k]
    BY <1>1, <1>2
  <2>6. home' = home - by
    BY <1>4, <1>6
  <2> HIDE DEF by, n
  <2>7. ShownIn(vga', line', n + 1, WHITE, home - by)
    BY <1>2, <2>2, <2>3, <2>4, <2>5, TextGrows
  <2>8. ShownIn(vga', shell_prompt, PromptLen, GREEN, (home - PromptLen) - by)
    <3>1. PromptLen \in Nat /\ home - PromptLen \in Int
          /\ (home - PromptLen) + PromptLen <= vga.cursor
      BY <1>2, <2>4, <2>5, PromptParts
    <3> QED BY <2>2, <2>3, <2>4, <3>1, TextMoves
  <2>9. /\ vga'.cursor = (home - by) + (n + 1)
        /\ (home - PromptLen) - by = (home - by) - PromptLen
    <3>1. PromptLen \in Nat
      BY PromptParts
    <3>2. home \in Int /\ by \in Nat /\ n \in Nat /\ vga'.cursor = ((home + n) + 1) - by
      BY <1>2, <2>2, <2>3, <2>4, <2>5
    <3> QED BY <3>1, <3>2
  <2> QED BY <2>5, <2>6, <2>7, <2>8, <2>9 DEF Reading
<1>7. Reading'
  BY <1>6 DEF Reading
<1> QED BY <1>1, <1>3, <1>4, <1>5, <1>7 DEF IInv

LEMMA BackspaceStep ==
  ASSUME IInv, Backspace
  PROVE  IInv'
<1>1. /\ pc = "read" /\ line # <<>> /\ line' = Front(line) /\ exact' = (exact /\ vga.col > 0)
      /\ Echo(BS) /\ pc' = "read"
  BY DEF Backspace
<1>2. Whole(vga) /\ line \in Seq(Typeable) /\ home \in Int /\ exact \in BOOLEAN
      /\ out = <<>> /\ vga.color = WHITE /\ Reading
  BY <1>1 DEF IInv
<1>3. exact' \in BOOLEAN
  BY <1>1
<1>4. /\ Whole(vga') /\ vga'.color = WHITE /\ out' = <<>> /\ home' \in Int
      /\ exact' => home' = home - Lift(vga, BS)
  BY <1>1, <1>2, <1>3, EchoStep
<1> DEFINE n == Len(line) - 1
<1>5. /\ line' \in Seq(Typeable) /\ n \in Nat /\ Len(line') = n /\ Len(line) = n + 1
      /\ \A k \in 1 .. n : line'[k] = line[k]
  <2>1. n \in Nat /\ n + 1 = Len(line)
    BY <1>1, <1>2
  <2>2. line' = SubSeq(line, 1, n)
    BY <1>1 DEF Front
  <2> QED BY <1>2, <2>1, <2>2
<1> HIDE DEF n
<1>6. ASSUME exact' PROVE Reading'
  <2>1. exact /\ vga.col > 0
    BY <1>1, <1>6
  <2>2. /\ vga'.cursor = vga.cursor - 1 /\ Lift(vga, BS) = 0
        /\ Moved(vga, vga', 0, vga.cursor - 1, Blank(vga))
    BY <1>1, <1>2, <2>1, Erases DEF Echo
  <2>3. vga.cursor = home + (n + 1) /\ ShownIn(vga, shell_prompt, PromptLen, GREEN, home - PromptLen)
        /\ ShownIn(vga, line, n + 1, WHITE, home)
    BY <1>2, <1>5, <2>1 DEF Reading
  <2>4. vga.cursor - 1 \in Cells
    <3>1. vga'.cursor \in Cells
      BY <1>4, OnScreen DEF Whole
    <3> QED BY <2>2, <3>1
  <2>5. ShownIn(vga, line', n, WHITE, home)
    BY <1>5, <2>3 DEF ShownIn
  <2>6. home + n <= vga.cursor - 1 /\ PromptLen \in Nat /\ home - PromptLen \in Int
        /\ (home - PromptLen) + PromptLen <= vga.cursor - 1 /\ vga.cursor - 1 = home + n
    BY <1>2, <1>5, <2>3, PromptParts
  <2> DEFINE by == Lift(vga, BS)
             i == vga.cursor - 1
             e == Blank(vga)
  <2>7. by \in Nat /\ by = 0 /\ Moved(vga, vga', by, i, e) /\ i \in Cells
    BY <2>2, <2>4
  <2>8. home + n <= i /\ (home - PromptLen) + PromptLen <= i
    BY <2>6
  <2> HIDE DEF by, i, e
  <2>9. ShownIn(vga', line', n, WHITE, home - by)
    BY <1>2, <1>5, <2>5, <2>7, <2>8, TextMoves
  <2>10. ShownIn(vga', shell_prompt, PromptLen, GREEN, (home - PromptLen) - by)
    BY <2>3, <2>6, <2>7, <2>8, TextMoves
  <2>11. home' = home /\ home - by = home /\ (home - PromptLen) - by = home - PromptLen
    BY <1>2, <1>4, <1>6, <2>2, <2>6, <2>7
  <2> QED BY <1>5, <2>2, <2>6, <2>9, <2>10, <2>11 DEF Reading
<1>7. Reading'
  BY <1>6 DEF Reading
<1> QED BY <1>1, <1>3, <1>4, <1>5, <1>7 DEF IInv

-----------------------------------------------------------------------------
(* All steps                                                               *)

LEMMA InvariantInit == Init => IInv
<1> SUFFICES ASSUME Init PROVE IInv
  OBVIOUS
<1> DEFINE v == [row |-> 0, col |-> 0, color |-> WHITE, cursor |-> 0, shown |-> TRUE,
                 buffer |-> [i \in Cells |-> Entry(SPACE, WHITE)]]
<1>1. 0 \in Rows /\ 0 \in Columns /\ Index(0, 0) = 0
  BY VgaAssumption DEF Rows, Columns, Index
<1>2. Whole(v)
  BY <1>1 DEF Whole
<1>3. vga = HideCursor(Clear(v))
  BY DEF Init
<1> HIDE DEF v
<1>4. Whole(vga)
  BY <1>2, <1>3, DrawsWhole
<1> QED BY <1>4 DEF Init, IInv

LEMMA ScreenStep == Whole(vga) /\ home \in Int /\ exact \in BOOLEAN /\ Next => Whole(vga')
<1> SUFFICES ASSUME Whole(vga), home \in Int, exact \in BOOLEAN, Next PROVE Whole(vga')
  OBVIOUS
<1>1. CASE DrawCursor
  <2>1. PICK spot \in Spots : vga' = SetCursor(vga, spot[1], spot[2])
    BY <1>1 DEF DrawCursor
  <2>2. spot[1] \in Nat /\ spot[2] \in Nat
    BY ConsoleAssumption
  <2> QED BY <2>1, <2>2, DrawsWhole
<1>2. CASE DrawText
  BY <1>2, DrawsWhole DEF DrawText
<1>3. CASE DrawAt
  BY <1>3, DrawsWhole DEF DrawAt
<1>4. CASE DrawEnd
  BY <1>4, DrawsWhole DEF DrawEnd
<1>5. CASE Output
  BY <1>5, DrawsWhole, KeepsWhole DEF Output
<1>6. CASE Enter \/ Backspace \/ \E ch \in Typeable : Type(ch)
  BY <1>6, KeepsWhole DEF Enter, Backspace, Type, Echo
<1>7. CASE Execute
  <2>1. vga' = vga \/ vga' = Clear(vga) \/ vga' = HideCursor(Clear(vga))
    BY <1>7 DEF Execute, ExecuteNothing, ExecuteUnknown, ExecuteEcho, ExecuteColor, ExecuteClear,
                ExecuteReport, ExecuteCat, ExecuteDraw, ExecuteReboot, ExecuteHalt, Says
  <2> QED BY <2>1, DrawsWhole
<1>8. CASE Prompt \/ Ask \/ Finish \/ Stopped
  BY <1>8 DEF Prompt, Ask, Finish, Stopped, vars
<1> QED BY <1>1, <1>2, <1>3, <1>4, <1>5, <1>6, <1>7, <1>8 DEF Next

LEMMA InvariantStep == IInv /\ [Next]_vars => IInv'
<1> SUFFICES ASSUME IInv, [Next]_vars PROVE IInv'
  OBVIOUS
<1>1. CASE DrawCursor \/ DrawText \/ DrawAt
  <2>1. Whole(vga')
    BY <1>1, ScreenStep DEF IInv, Next
  <2> QED BY <1>1, <2>1 DEF IInv, DrawCursor, DrawText, DrawAt, Drawing
<1>2. CASE DrawEnd
  <2>1. Whole(vga')
    BY <1>2, ScreenStep DEF IInv, Next
  <2> QED BY <1>2, <2>1 DEF IInv, DrawEnd
<1>3. CASE Output
  <2>1. Whole(vga')
    BY <1>3, ScreenStep DEF IInv, Next
  <2>2. pc # "read"
    BY <1>3 DEF IInv, Output
  <2>3. pc = "prompt" => \E n \in 0 .. PromptLen + 2 : Prompting(n)'
    BY <1>3, PromptStep DEF IInv
  <2> QED BY <1>3, <2>1, <2>2, <2>3 DEF IInv, Output
<1>4. CASE Prompt
  <2>1. out' = Rest(0) /\ PromptLen \in Nat
    BY <1>4, PromptParts DEF Prompt, PromptOut
  <2>2. Prompting(0)'
    BY <2>1 DEF Prompting
  <2>3. 0 \in 0 .. PromptLen + 2
    BY <2>1
  <2> QED BY <1>4, <2>2, <2>3 DEF IInv, Prompt
<1>5. CASE Ask
  <2>1. PICK n \in 0 .. PromptLen + 2 : Prompting(n)
    BY <1>5 DEF IInv, Ask
  <2>2. n = PromptLen + 2
    BY <1>5, <2>1, RestShrinks DEF Ask, Prompting
  <2>3. vga.color = WHITE /\ ShownIn(vga, shell_prompt, PromptLen, GREEN, vga.cursor - PromptLen)
    BY <2>1, <2>2 DEF Prompting
  <2>4. vga' = vga /\ line' = <<>> /\ out' = <<>> /\ exact' = TRUE /\ home' = vga.cursor
        /\ pc' = "read"
    BY <1>5 DEF Ask, IInv, Whole
  <2>5. home' \in Int /\ vga'.cursor = home' + 0
    BY <2>4, OnScreen DEF IInv, Whole
  <2>6. ShownIn(vga', line', 0, WHITE, home')
    BY DEF ShownIn
  <2>7. Len(line') = 0 /\ line' \in Seq(Typeable)
    BY <2>4
  <2>8. Reading'
    BY <2>3, <2>4, <2>5, <2>6, <2>7 DEF Reading
  <2> QED BY <2>3, <2>4, <2>5, <2>7, <2>8 DEF IInv
<1>6. CASE Enter
  <2>1. Whole(vga') /\ home' \in Int
    BY <1>6, EchoStep DEF IInv, Enter
  <2> QED BY <1>6, <2>1 DEF IInv, Enter
<1>7. CASE Backspace
  BY <1>7, BackspaceStep
<1>8. CASE \E ch \in Typeable : Type(ch)
  BY <1>8, TypeStep
<1>9. CASE Execute
  <2>1. Whole(vga')
    BY <1>9, ScreenStep DEF IInv, Next
  <2>2. pc' \notin {"prompt", "read"}
    BY <1>9 DEF Execute, ExecuteNothing, ExecuteUnknown, ExecuteEcho, ExecuteColor, ExecuteClear,
                ExecuteReport, ExecuteCat, ExecuteDraw, ExecuteReboot, ExecuteHalt, Says
  <2> QED BY <1>9, <2>1, <2>2 DEF IInv, Execute
<1>10. CASE Finish
  BY <1>10 DEF IInv, Finish
<1>11. CASE Stopped \/ UNCHANGED vars
  BY <1>11 DEF IInv, Stopped, vars, Prompting, Reading
<1> QED BY <1>1, <1>2, <1>3, <1>4, <1>5, <1>6, <1>7, <1>8, <1>9, <1>10, <1>11 DEF Next

(* The position of the next character is on the screen and is where the    *)
(* chip shows the cursor, and nothing is stored outside the cells, for a   *)
(* screen of any size and whatever is printed (vga.c:87-135).              *)
CursorIsOnScreen ==
  /\ vga.row \in Rows /\ vga.col \in Columns
  /\ vga.cursor = Index(vga.row, vga.col) /\ vga.cursor \in Cells
  /\ DOMAIN vga.buffer = Cells
THEOREM CursorStaysOnScreen == Spec => []CursorIsOnScreen
<1>1. IInv => CursorIsOnScreen
  BY OnScreen DEF IInv, Whole, CursorIsOnScreen
<1> QED BY <1>1, InvariantInit, InvariantStep, PTL DEF Spec

(* While a line is read and every key has moved the cursor by one, the     *)
(* prompt and the line that keyboard_readline has stored are on the        *)
(* screen, with the cursor behind them (keyboard.c:210-236).               *)
THEOREM LineIsShown == Spec => []EchoFaithful
<1>1. IInv => EchoFaithful
  <2> SUFFICES ASSUME IInv, pc = "read", exact
               PROVE  /\ vga.cursor = home + Len(line)
                      /\ Shows(shell_prompt, GREEN, home - Len(shell_prompt))
                      /\ Shows(line, WHITE, home)
    BY DEF EchoFaithful
  <2>1. Reading
    BY DEF IInv
  <2>2. DOMAIN shell_prompt = 1 .. PromptLen /\ DOMAIN line = 1 .. Len(line)
        /\ PromptLen \in Nat /\ Len(line) \in Nat /\ home \in Int
    BY ConsoleAssumption DEF IInv, PromptLen
  <2>3. \A from \in Int, k \in Nat : from + k - 1 = from + (k - 1)
    OBVIOUS
  <2>4. Shows(shell_prompt, GREEN, home - PromptLen)
    BY <2>1, <2>2, <2>3 DEF Reading, Shows, ShownIn
  <2>5. Shows(line, WHITE, home)
    BY <2>1, <2>2, <2>3 DEF Reading, Shows, ShownIn
  <2> QED BY <2>1, <2>4, <2>5 DEF Reading, PromptLen
<1> QED BY <1>1, InvariantInit, InvariantStep, PTL DEF Spec

-----------------------------------------------------------------------------
(* Words                                                                   *)

LEMMA WordTyped ==
  ASSUME NEW S, NEW text \in Seq(S), NEW blanks, NEW i \in 1 .. Len(text), text[i] \notin blanks
  PROVE  WordAt(text, blanks, i) \in Seq(S)
<1> DEFINE J == {j \in i .. Len(text) : \A k \in i .. j : text[k] \notin blanks}
           D == {d \in 0 .. Len(text) : Len(text) - d \in J}
<1>1. Len(text) \in Nat
  OBVIOUS
<1>2. i \in J
  BY <1>1
<1>3. PICK d \in D : \A e \in D : d <= e
  <2>1. D \subseteq Nat
    BY <1>1
  <2>2. Len(text) - i \in D
    <3>1. Len(text) - (Len(text) - i) = i /\ Len(text) - i \in 0 .. Len(text)
      BY <1>1
    <3> HIDE DEF J
    <3> QED BY <1>2, <3>1
  <2> HIDE DEF D
  <2> QED BY <2>1, <2>2, LeastOne
<1>4. ASSUME NEW j \in J PROVE Len(text) - j \in D
  <2>1. j \in i .. Len(text)
    OBVIOUS
  <2>2. Len(text) - (Len(text) - j) = j /\ Len(text) - j \in 0 .. Len(text)
    BY <1>1, <2>1
  <2> HIDE DEF J
  <2> QED BY <2>2
<1>5. Len(text) - d \in J /\ d \in 0 .. Len(text)
  OBVIOUS
<1>6. \A j \in J : j <= Len(text) - d
  <2> TAKE j \in J
  <2>1. d <= Len(text) - j
    BY <1>3, <1>4
  <2>2. j \in i .. Len(text)
    OBVIOUS
  <2> HIDE DEF J, D
  <2> QED BY <1>1, <1>5, <2>1, <2>2
<1>7. Max(J) \in J
  <2> HIDE DEF J
  <2> QED BY <1>5, <1>6 DEF Max
<1>8. Max(J) \in 1 .. Len(text)
  <2>1. \A j \in J : j \in 1 .. Len(text)
    BY <1>1
  <2> HIDE DEF J
  <2> QED BY <1>7, <2>1
<1>9. WordAt(text, blanks, i) = SubSeq(text, i, Max(J))
  BY DEF WordAt
<1> HIDE DEF J
<1> QED BY <1>8, <1>9, SubSeqProperties

LEMMA WordsTyped ==
  ASSUME NEW S, NEW text \in Seq(S), NEW blanks, NEW max \in Nat
  PROVE  Words(text, blanks, max) \in Seq(Seq(S))
<1> DEFINE at == Starts(text, blanks)
           n == Min({Cardinality(at), max})
<1>1. Len(text) \in Nat /\ DOMAIN text = 1 .. Len(text)
  OBVIOUS
<1>2. at \subseteq 1 .. Len(text) /\ \A i \in at : text[i] \notin blanks
  BY <1>1 DEF Starts
<1> HIDE DEF at
<1>3. Cardinality(at) \in Nat
  <2>1. IsFiniteSet(1 .. Len(text))
    BY <1>1, FS_Interval
  <2> QED BY <1>2, <2>1, FS_Subset, FS_CardinalityType
<1>4. n \in Nat /\ n <= Cardinality(at)
  <2>1. ASSUME NEW a \in Nat, NEW b \in Nat PROVE Min({a, b}) \in Nat /\ Min({a, b}) <= a
    <3>1. \E x \in {a, b} : \A y \in {a, b} : x <= y
      <4>1. a <= b \/ b <= a
        OBVIOUS
      <4> QED BY <4>1
    <3>2. Min({a, b}) \in {a, b} /\ \A y \in {a, b} : Min({a, b}) <= y
      BY <3>1 DEF Min
    <3> QED BY <3>2
  <2> QED BY <1>3, <2>1
<1> HIDE DEF n
<1>5. ASSUME NEW k \in 1 .. n
      PROVE  WordAt(text, blanks, Start(text, blanks, k)) \in Seq(S)
  <2>1. k \in 1 .. Cardinality(at)
    BY <1>3, <1>4
  <2>2. \E i : IsNth(i, at, k)
    <3> DEFINE m == Len(text)
    <3>1. m \in Nat /\ at \subseteq 1 .. m
      BY <1>1, <1>2
    <3> HIDE DEF m
    <3> QED BY <2>1, <3>1, NthExists
  <2>3. Start(text, blanks, k) \in at
    BY <2>2 DEF Start, at, IsNth
  <2> QED BY <1>2, <2>3, WordTyped
<1>6. Words(text, blanks, max) =
        [k \in 1 .. n |-> WordAt(text, blanks, Start(text, blanks, k))]
  BY DEF Words, n, at
<1> QED BY <1>4, <1>5, <1>6, FunctionIsSequence

LEMMA JoinedTyped ==
  ASSUME NEW S, SPACE \in S, NEW words \in Seq(Seq(S))
  PROVE  Joined(words) \in Seq(S)
<1> DEFINE n == Len(words)
           gap(k) == IF k > 1 THEN <<SPACE>> ELSE <<>>
           Is(f) == f = [k \in 0 .. n |-> IF k = 0 THEN <<>> ELSE f[k - 1] \o gap(k) \o words[k]]
           step == [p \in (1 .. n) \X Seq(S) |-> p[2] \o gap(p[1]) \o words[p[1]]]
<1>1. n \in Nat /\ \A k \in 1 .. n : words[k] \in Seq(S)
  OBVIOUS
<1>2. \A k : gap(k) \in Seq(S)
  OBVIOUS
<1>3. step \in [(1 .. n) \X Seq(S) -> Seq(S)]
  <2> HIDE DEF gap, n
  <2> QED BY <1>1, <1>2
<1>4. <<>> \in Seq(S)
  OBVIOUS
<1>5. PICK f : Computes(f, n, Seq(S), <<>>, step)
  <2> DEFINE P == Seq(S)
             b == <<>>
  <2>1. n \in Nat /\ b \in P /\ step \in [(1 .. n) \X P -> P]
    BY <1>1, <1>3, <1>4
  <2> HIDE DEF step, n, P, b
  <2>2. \E f : Computes(f, n, P, b, step)
    BY <2>1, LoopExists
  <2> QED BY <2>2 DEF P, b
<1>6. Is(f)
  <2>1. ASSUME NEW k \in 1 .. n PROVE f[k] = f[k - 1] \o gap(k) \o words[k]
    <3>1. f[k - 1] \in Seq(S)
      <4>1. k - 1 \in 0 .. n
        BY <1>1
      <4> HIDE DEF n
      <4> QED BY <1>5, <4>1 DEF Computes
    <3>2. <<k, f[k - 1]>> \in (1 .. n) \X Seq(S)
      BY <3>1
    <3> HIDE DEF gap, n
    <3> QED BY <1>5, <3>2 DEF Computes
  <2>2. \A k \in 0 .. n : k = 0 \/ k \in 1 .. n
    BY <1>1
  <2>3. \A k \in 0 .. n : f[k] = IF k = 0 THEN <<>> ELSE f[k - 1] \o gap(k) \o words[k]
    <3> HIDE DEF gap, n, step
    <3> QED BY <1>5, <2>1, <2>2 DEF Computes
  <2>4. f = [k \in 0 .. n |-> f[k]]
    BY <1>5 DEF Computes
  <2> HIDE DEF gap, n, step
  <2> QED BY <2>3, <2>4
<1> DEFINE F == CHOOSE g : Is(g)
<1>7. Joined(words) = F[n]
  BY DEF Joined
<1>8. Is(F)
  <2> HIDE DEF Is
  <2> QED BY <1>6
<1> HIDE DEF F
<1>9. F[0] = <<>>
  <2>1. 0 \in 0 .. n
    BY <1>1
  <2> HIDE DEF n
  <2> QED BY <1>8, <2>1
<1>10. ASSUME NEW k \in 0 .. n - 1, F[k] \in Seq(S)
       PROVE  F[k + 1] \in Seq(S)
  <2> DEFINE c == k + 1
  <2>1. c \in 1 .. n /\ c \in 0 .. n /\ c # 0 /\ c - 1 = k
    BY <1>1
  <2>2. gap(c) \in Seq(S) /\ words[c] \in Seq(S)
    <3> HIDE DEF c, gap, n
    <3> QED BY <1>1, <1>2, <2>1
  <2>3. F[c] = F[c - 1] \o gap(c) \o words[c]
    <3> HIDE DEF c, gap, n
    <3> QED BY <1>8, <2>1
  <2>4. ASSUME NEW x \in Seq(S), NEW y \in Seq(S), NEW z \in Seq(S)
        PROVE  x \o y \o z \in Seq(S)
    OBVIOUS
  <2> HIDE DEF gap
  <2> QED BY <1>10, <2>1, <2>2, <2>3, <2>4
<1>11. \A k \in 0 .. n : F[k] \in Seq(S)
  <2> DEFINE T == {k \in 0 .. n : F[k] \in Seq(S)}
  <2>1. 0 \in T
    <3>1. 0 \in 0 .. n
      BY <1>1
    <3> HIDE DEF n
    <3> QED BY <1>4, <1>9, <3>1
  <2>2. ASSUME NEW k \in 0 .. n - 1, k \in T PROVE k + 1 \in T
    <3>1. k + 1 \in 0 .. n
      BY <1>1
    <3> HIDE DEF n
    <3> QED BY <1>10, <2>2, <3>1
  <2> HIDE DEF T, n
  <2>3. \A k \in 0 .. n : k \in T
    BY <1>1, <2>1, <2>2, EveryRound
  <2> QED BY <2>3 DEF T
<1>12. n \in 0 .. n
  BY <1>1
<1> HIDE DEF n
<1> QED BY <1>7, <1>11, <1>12

-----------------------------------------------------------------------------
(* What is on the screen                                                   *)

(* The colour is one, the cells hold characters in a colour.               *)
Inked(v) ==
  /\ v.color \in Colors /\ v.shown \in BOOLEAN
  /\ \A i \in Cells : v.buffer[i] \in Cell

LEMMA SettlesTo ==
  ASSUME NEW v, NEW row \in 0 .. VGA_HEIGHT, NEW col \in Nat, NEW color, NEW buffer,
         NEW cursor, NEW shown, col < VGA_WIDTH \/ row < VGA_HEIGHT,
         v = [row |-> row, col |-> col, color |-> color, buffer |-> buffer,
              cursor |-> cursor, shown |-> shown]
  PROVE  LET low == IF col >= VGA_WIDTH THEN row + 1 ELSE row
             at  == IF col >= VGA_WIDTH THEN 0 ELSE col
             r   == IF low = VGA_HEIGHT THEN VGA_HEIGHT - 1 ELSE low
         IN  /\ UpdateCursor(Scrolled(Wrapped(v))) =
                  [row |-> r, col |-> at, color |-> color,
                   buffer |-> IF low = VGA_HEIGHT THEN Lifted(v) ELSE buffer,
                   cursor |-> Index(r, at), shown |-> shown]
             /\ r \in Rows /\ at \in Columns
<1> DEFINE low == IF col >= VGA_WIDTH THEN row + 1 ELSE row
           at  == IF col >= VGA_WIDTH THEN 0 ELSE col
           u == [row |-> low, col |-> at, color |-> color, buffer |-> buffer,
                 cursor |-> cursor, shown |-> shown]
<1>1. Wrapped(v) = u
  BY DEF Wrapped
<1>2. low \in 0 .. VGA_HEIGHT /\ at \in Columns
  BY VgaAssumption DEF Columns
<1>3. Lifted(u) = Lifted(v)
  BY DEF Lifted, Blank
<1> HIDE DEF low, at
<1>4. CASE low < VGA_HEIGHT
  <2>1. ~Scrolls(u) /\ low # VGA_HEIGHT
    BY <1>2, <1>4, VgaAssumption DEF Scrolls
  <2>2. UpdateCursor(Scrolled(u)) =
          [row |-> low, col |-> at, color |-> color, buffer |-> buffer,
           cursor |-> Index(low, at), shown |-> shown]
    BY <2>1 DEF UpdateCursor, Scrolled
  <2>3. low \in Rows
    BY <1>2, <1>4, VgaAssumption DEF Rows
  <2> QED BY <1>1, <1>2, <2>1, <2>2, <2>3 DEF low, at
<1>5. CASE low = VGA_HEIGHT
  <2>1. Scrolls(u)
    BY <1>5, VgaAssumption DEF Scrolls
  <2>2. UpdateCursor(Scrolled(u)) =
          [row |-> VGA_HEIGHT - 1, col |-> at, color |-> color, buffer |-> Lifted(v),
           cursor |-> Index(VGA_HEIGHT - 1, at), shown |-> shown]
    <3>1. Scrolled(u) = [row |-> VGA_HEIGHT - 1, col |-> at, color |-> color,
                         buffer |-> Lifted(v), cursor |-> cursor, shown |-> shown]
      BY <1>3, <2>1 DEF Scrolled
    <3> QED BY <3>1 DEF UpdateCursor
  <2>3. VGA_HEIGHT - 1 \in Rows
    BY VgaAssumption DEF Rows
  <2> QED BY <1>1, <1>2, <1>5, <2>2, <2>3 DEF low, at
<1> QED BY <1>2, <1>4, <1>5, VgaAssumption

(* A character, before the wrap, whichever it is.                          *)
LEMMA Stores ==
  ASSUME NEW v, NEW c, Whole(v)
  PROVE  \E buffer : \E row \in 0 .. VGA_HEIGHT, col \in Nat :
           /\ col < VGA_WIDTH \/ row < VGA_HEIGHT
           /\ Typeset(v, c) = [row |-> row, col |-> col, color |-> v.color, buffer |-> buffer,
                               cursor |-> v.cursor, shown |-> v.shown]
           /\ \A i \in Cells : \/ buffer[i] = v.buffer[i] \/ buffer[i] = Entry(SPACE, v.color)
                               \/ c \notin {NL, CR, TAB, BS} /\ buffer[i] = Entry(c, v.color)
<1> DEFINE Goal(buffer, row, col) ==
      /\ col < VGA_WIDTH \/ row < VGA_HEIGHT
      /\ Typeset(v, c) = [row |-> row, col |-> col, color |-> v.color, buffer |-> buffer,
                          cursor |-> v.cursor, shown |-> v.shown]
      /\ \A i \in Cells : \/ buffer[i] = v.buffer[i] \/ buffer[i] = Entry(SPACE, v.color)
                          \/ c \notin {NL, CR, TAB, BS} /\ buffer[i] = Entry(c, v.color)
<1>1. /\ v.row \in 0 .. VGA_HEIGHT /\ v.row < VGA_HEIGHT
      /\ v.col \in Nat /\ v.col + 1 \in Nat
  BY VgaAssumption DEF Whole, Rows, Columns
<1>2. CASE c \notin {NL, CR, TAB, BS}
  <2> DEFINE b == [v.buffer EXCEPT ![v.cursor] = Entry(c, v.color)]
  <2>1. Typeset(v, c) = [row |-> v.row, col |-> v.col + 1, color |-> v.color, buffer |-> b,
                         cursor |-> v.cursor, shown |-> v.shown]
    BY <1>2, StoresGlyph
  <2>2. \A i \in Cells : b[i] = v.buffer[i] \/ b[i] = Entry(c, v.color)
    BY DEF Whole
  <2> HIDE DEF b
  <2>3. Goal(b, v.row, v.col + 1)
    BY <1>1, <1>2, <2>1, <2>2
  <2> HIDE DEF Goal
  <2>4. \E buffer : \E row \in 0 .. VGA_HEIGHT, col \in Nat : Goal(buffer, row, col)
    BY <1>1, <2>3
  <2> QED BY <2>4 DEF Goal
<1>3. CASE c = BS /\ v.col > 0
  <2> DEFINE b == [v.buffer EXCEPT ![Index(v.row, v.col - 1)] = Blank(v)]
  <2>1. Typeset(v, c) = [row |-> v.row, col |-> v.col - 1, color |-> v.color, buffer |-> b,
                         cursor |-> v.cursor, shown |-> v.shown]
    BY <1>3, StoresBlank
  <2>2. \A i \in Cells : b[i] = v.buffer[i] \/ b[i] = Entry(SPACE, v.color)
    BY DEF Whole, Blank
  <2>3. v.col - 1 \in Nat
    BY <1>1, <1>3
  <2> HIDE DEF b
  <2>4. Goal(b, v.row, v.col - 1)
    BY <1>1, <2>1, <2>2
  <2> HIDE DEF Goal
  <2>5. \E buffer : \E row \in 0 .. VGA_HEIGHT, col \in Nat : Goal(buffer, row, col)
    BY <1>1, <2>3, <2>4
  <2> QED BY <2>5 DEF Goal
<1>4. CASE c \in {NL, CR, TAB, BS} /\ (c = BS => v.col = 0)
  BY <1>4, StoresNothing
<1> QED BY <1>1, <1>2, <1>3, <1>4

LEMMA PutsInk ==
  ASSUME NEW v, NEW c, Whole(v), Inked(v), c \in Glyphs \cup {NL, CR, TAB, BS}
  PROVE  Inked(PutChar(v, c)) /\ PutChar(v, c).shown = v.shown
<1>1. PICK buffer : \E row \in 0 .. VGA_HEIGHT, col \in Nat :
           /\ col < VGA_WIDTH \/ row < VGA_HEIGHT
           /\ Typeset(v, c) = [row |-> row, col |-> col, color |-> v.color, buffer |-> buffer,
                               cursor |-> v.cursor, shown |-> v.shown]
           /\ \A i \in Cells : \/ buffer[i] = v.buffer[i] \/ buffer[i] = Entry(SPACE, v.color)
                               \/ c \notin {NL, CR, TAB, BS} /\ buffer[i] = Entry(c, v.color)
  BY Stores
<1>2. PICK row \in 0 .. VGA_HEIGHT, col \in Nat :
        /\ col < VGA_WIDTH \/ row < VGA_HEIGHT
        /\ Typeset(v, c) = [row |-> row, col |-> col, color |-> v.color, buffer |-> buffer,
                            cursor |-> v.cursor, shown |-> v.shown]
  BY <1>1
<1> DEFINE t == Typeset(v, c)
<1>3. v.color \in Colors /\ v.shown \in BOOLEAN
  BY DEF Inked
<1>4. \A i \in Cells : buffer[i] \in Cell
  <2>1. \A g \in Glyphs : Entry(g, v.color) \in Cell
    BY <1>3 DEF Entry, Cell
  <2> QED BY <1>1, <2>1, VgaAssumption DEF Inked
<1>5. \A i \in Cells : Lifted(t)[i] \in Cell
  <2> TAKE i \in Cells
  <2>1. Blank(t) \in Cell
    <3>1. t.color = v.color
      BY <1>2
    <3> QED BY <1>3, <3>1, VgaAssumption DEF Blank, Entry, Cell
  <2>2. i < Index(VGA_HEIGHT - 1, 0) => i + VGA_WIDTH \in Cells
    BY AllCells, VgaAssumption
  <2>3. Lifted(t)[i] = IF i < Index(VGA_HEIGHT - 1, 0) THEN t.buffer[i + VGA_WIDTH] ELSE Blank(t)
    BY DEF Lifted
  <2>4. t.buffer = buffer
    BY <1>2
  <2> HIDE DEF t
  <2> QED BY <1>4, <2>1, <2>2, <2>3, <2>4
<1> DEFINE w == UpdateCursor(Scrolled(Wrapped(t)))
<1>6. w.color = v.color /\ w.shown = v.shown /\ (w.buffer = Lifted(t) \/ w.buffer = buffer)
  <2>1. t = [row |-> row, col |-> col, color |-> v.color, buffer |-> buffer,
             cursor |-> v.cursor, shown |-> v.shown]
    BY <1>2
  <2> HIDE DEF t
  <2> QED BY <1>2, <2>1, SettlesTo
<1>7. PutChar(v, c) = w
  BY DEF PutChar
<1> HIDE DEF w, t
<1> QED BY <1>3, <1>4, <1>5, <1>6, <1>7 DEF Inked

LEMMA DrawsInk ==
  ASSUME NEW v, Whole(v), Inked(v)
  PROVE  /\ \A n \in Colors : Inked(SetColor(v, n))
         /\ Inked(HideCursor(v)) /\ Inked(ShowCursor(v)) /\ Inked(Clear(v))
         /\ \A row, col : Inked(SetCursor(v, row, col))
         /\ \A row, col : \A c \in Glyphs : Inked(PutAt(v, row, col, c))
         /\ \A row : \A str \in Seq(Glyphs) : Inked(PrintCentered(v, row, str))
<1>1. ASSUME NEW c \in Glyphs PROVE Entry(c, v.color) \in Cell
  BY DEF Inked, Entry, Cell
<1>2. /\ \A n \in Colors : Inked(SetColor(v, n))
      /\ Inked(HideCursor(v)) /\ Inked(ShowCursor(v))
      /\ \A row, col : Inked(SetCursor(v, row, col))
  BY DEF Inked, Whole, SetColor, HideCursor, ShowCursor, SetCursor, UpdateCursor
<1>3. Inked(Clear(v))
  <2>1. Clear(v).color = v.color /\ Clear(v).shown = v.shown
        /\ Clear(v).buffer = [i \in Cells |-> Blank(v)]
    BY DEF Whole, Clear, UpdateCursor
  <2>2. Blank(v) \in Cell
    BY <1>1, VgaAssumption DEF Blank
  <2> QED BY <2>1, <2>2 DEF Inked
<1>4. ASSUME NEW row, NEW col, NEW c \in Glyphs PROVE Inked(PutAt(v, row, col, c))
  <2>1. PutAt(v, row, col, c).color = v.color /\ PutAt(v, row, col, c).shown = v.shown
    BY DEF Whole, PutAt
  <2>2. \A i \in Cells : PutAt(v, row, col, c).buffer[i] \in {v.buffer[i], Entry(c, v.color)}
    BY DEF Whole, PutAt
  <2> QED BY <1>1, <2>1, <2>2 DEF Inked
<1>5. ASSUME NEW row, NEW str \in Seq(Glyphs) PROVE Inked(PrintCentered(v, row, str))
  <2>1. ASSUME NEW col \in Nat PROVE Inked(PrintAt(v, row, col, str))
    <3>1. /\ PrintAt(v, row, col, str).color = v.color /\ PrintAt(v, row, col, str).shown = v.shown
          /\ \A i \in Cells :
               PrintAt(v, row, col, str).buffer[i] =
                 IF i \div VGA_WIDTH = row /\ (i % VGA_WIDTH) - col \in 0 .. Len(str) - 1
                 THEN Entry(str[(i % VGA_WIDTH) - col + 1], v.color) ELSE v.buffer[i]
      BY DEF Whole, PrintAt
    <3>2. ASSUME NEW i \in Cells, (i % VGA_WIDTH) - col \in 0 .. Len(str) - 1
          PROVE  str[(i % VGA_WIDTH) - col + 1] \in Glyphs
      <4>1. Len(str) \in Nat
        OBVIOUS
      <4>2. (i % VGA_WIDTH) - col + 1 \in 1 .. Len(str)
        BY <3>2, <4>1
      <4> QED BY <4>2
    <3> QED BY <1>1, <3>1, <3>2 DEF Inked
  <2>2. (IF VGA_WIDTH > Len(str) THEN (VGA_WIDTH - Len(str)) \div 2 ELSE 0) \in Nat
    BY VgaAssumption
  <2> QED BY <2>1, <2>2 DEF PrintCentered
<1> QED BY <1>2, <1>3, <1>4, <1>5

-----------------------------------------------------------------------------
(* What is printed                                                         *)

Letter == Glyphs \cup Typeable \cup {NL}
Part   == [do : {"put"}, what : Letter] \cup [do : {"color"}, what : Colors]

LEMMA CharsParts ==
  ASSUME NEW str \in Seq(Letter)
  PROVE  /\ Chars(str) \in Seq(Part) /\ Len(Chars(str)) = Len(str)
         /\ \A k \in 1 .. Len(str) : Chars(str)[k] = [do |-> "put", what |-> str[k]]
<1>1. Len(str) \in Nat /\ DOMAIN str = 1 .. Len(str) /\ \A k \in 1 .. Len(str) : str[k] \in Letter
  OBVIOUS
<1>2. Chars(str) = [k \in 1 .. Len(str) |-> [do |-> "put", what |-> str[k]]]
  BY <1>1 DEF Chars
<1>3. \A k \in 1 .. Len(str) : [do |-> "put", what |-> str[k]] \in Part
  BY <1>1 DEF Part
<1>4. Chars(str) \in [1 .. Len(str) -> Part]
  BY <1>2, <1>3
<1> QED BY <1>1, <1>2, <1>4, FunctionIsSequence

LEMMA ColorPart ==
  ASSUME NEW n \in Colors
  PROVE  InColor(n) \in Seq(Part) /\ Len(InColor(n)) = 1 /\ InColor(n)[1].do = "color"
<1>1. [do |-> "color", what |-> n] \in Part
  BY DEF Part
<1> QED BY <1>1 DEF InColor

LEMMA MessageParts ==
  /\ Message \in Seq(Part) /\ Len(Message) = 2
  /\ Message[2] = [do |-> "put", what |-> NL]
<1> DEFINE m == <<"!", NL>>
<1>1. m \in Seq(Letter) /\ Len(m) = 2 /\ m[2] = NL
  BY ConsoleAssumption DEF Letter
<1>2. Message = Chars(m)
  BY DEF Message
<1> HIDE DEF m
<1> QED BY <1>1, <1>2, CharsParts

(* When o is printed, the cursor ends in the first column: o has a line    *)
(* end, or the cursor is there, and then nothing but colours follows.      *)
EndsLine(v, o) ==
  \E k \in 0 .. Len(o) :
    /\ \A j \in k + 1 .. Len(o) : o[j].do = "color"
    /\ IF k = 0 THEN v.col = 0 ELSE o[k] = [do |-> "put", what |-> NL]

LEMMA NothingEnds == ASSUME NEW v, v.col = 0 PROVE EndsLine(v, <<>>)
<1>1. Len(<<>>) = 0 /\ 0 \in 0 .. 0
  OBVIOUS
<1> QED BY <1>1 DEF EndsLine

LEMMA LineEndEnds ==
  ASSUME NEW v, NEW o \in Seq(Part), Len(o) > 0, o[Len(o)] = [do |-> "put", what |-> NL]
  PROVE  EndsLine(v, o)
<1>1. Len(o) \in 0 .. Len(o) /\ Len(o) # 0 /\ \A j \in Len(o) + 1 .. Len(o) : FALSE
  OBVIOUS
<1> QED BY <1>1 DEF EndsLine

LEMMA MessageEnds ==
  ASSUME NEW v, NEW o \in Seq(Part)
  PROVE  o \o Message \in Seq(Part) /\ EndsLine(v, o \o Message)
<1> DEFINE p == o \o Message
<1>1. p \in Seq(Part) /\ Len(p) = Len(o) + 2 /\ p[Len(o) + 2] = Message[2] /\ Len(o) \in Nat
  <2> DEFINE m == Message
  <2>1. m \in Seq(Part) /\ Len(m) = 2
    BY MessageParts
  <2> HIDE DEF m
  <2>2. /\ o \o m \in Seq(Part) /\ Len(o \o m) = Len(o) + Len(m)
        /\ \A i \in 1 .. Len(o) + Len(m) :
             (o \o m)[i] = IF i <= Len(o) THEN o[i] ELSE m[i - Len(o)]
    BY <2>1, ConcatProperties
  <2>3. Len(o) \in Nat /\ Len(o) + 2 \in 1 .. Len(o) + Len(m) /\ ~ (Len(o) + 2 <= Len(o))
        /\ (Len(o) + 2) - Len(o) = 2
    BY <2>1
  <2> QED BY <2>1, <2>2, <2>3 DEF m
<1> HIDE DEF p
<1>2. EndsLine(v, p)
  BY <1>1, MessageParts, LineEndEnds
<1> QED BY <1>1, <1>2 DEF p

LEMMA ColorKeepsEnd ==
  ASSUME NEW v, NEW o \in Seq(Part), EndsLine(v, o), NEW n \in Colors
  PROVE  o \o InColor(n) \in Seq(Part) /\ EndsLine(v, o \o InColor(n))
<1> DEFINE p == o \o InColor(n)
<1>1. /\ p \in Seq(Part) /\ Len(p) = Len(o) + 1 /\ Len(o) \in Nat
      /\ \A j \in 1 .. Len(o) : p[j] = o[j]
      /\ p[Len(o) + 1].do = "color"
  BY ColorPart, ConcatProperties
<1> HIDE DEF p
<1>2. PICK k \in 0 .. Len(o) :
        /\ \A j \in k + 1 .. Len(o) : o[j].do = "color"
        /\ IF k = 0 THEN v.col = 0 ELSE o[k] = [do |-> "put", what |-> NL]
  BY DEF EndsLine
<1>3. ASSUME NEW j \in k + 1 .. Len(p) PROVE p[j].do = "color"
  <2>1. j = Len(o) + 1 \/ (j \in k + 1 .. Len(o) /\ j \in 1 .. Len(o))
    BY <1>1
  <2> QED BY <1>1, <1>2, <2>1
<1>4. k \in 0 .. Len(p) /\ (k # 0 => k \in 1 .. Len(o))
  BY <1>1
<1>5. IF k = 0 THEN v.col = 0 ELSE p[k] = [do |-> "put", what |-> NL]
  BY <1>1, <1>2, <1>4
<1>6. EndsLine(v, p)
  BY <1>3, <1>4, <1>5 DEF EndsLine
<1> QED BY <1>1, <1>6 DEF p

(* One part is printed.                                                    *)
LEMMA EndRemains ==
  ASSUME NEW v, NEW w, NEW o \in Seq(Part), o # <<>>, EndsLine(v, o),
         o[1].do = "color" => w.col = v.col, o[1] = [do |-> "put", what |-> NL] => w.col = 0
  PROVE  EndsLine(w, Tail(o))
<1> DEFINE t == Tail(o)
<1>1. Len(o) \in Nat \ {0} /\ Len(t) = Len(o) - 1 /\ \A j \in 1 .. Len(o) - 1 : t[j] = o[j + 1]
  BY HeadTailProperties
<1> HIDE DEF t
<1>2. PICK k \in 0 .. Len(o) :
        /\ \A j \in k + 1 .. Len(o) : o[j].do = "color"
        /\ IF k = 0 THEN v.col = 0 ELSE o[k] = [do |-> "put", what |-> NL]
  BY DEF EndsLine
<1>3. CASE k <= 1
  <2>1. w.col = 0
    <3>1. CASE k = 0
      <4>1. 1 \in k + 1 .. Len(o)
        BY <1>1, <3>1
      <4> QED BY <1>2, <3>1, <4>1
    <3>2. CASE k = 1
      BY <1>2, <3>2
    <3> QED BY <1>3, <3>1, <3>2
  <2>2. ASSUME NEW j \in 0 + 1 .. Len(t) PROVE t[j].do = "color"
    <3>1. j \in 1 .. Len(o) - 1 /\ j + 1 \in k + 1 .. Len(o)
      BY <1>1, <1>3
    <3> QED BY <1>1, <1>2, <3>1
  <2>3. 0 \in 0 .. Len(t)
    BY <1>1
  <2> QED BY <2>1, <2>2, <2>3 DEF EndsLine, t
<1>4. CASE k > 1
  <2>1. k - 1 \in 0 .. Len(t) /\ k - 1 # 0 /\ k - 1 \in 1 .. Len(o) - 1 /\ k - 1 + 1 = k
    BY <1>1, <1>4
  <2>2. t[k - 1] = [do |-> "put", what |-> NL]
    BY <1>1, <1>2, <1>4, <2>1
  <2>3. ASSUME NEW j \in (k - 1) + 1 .. Len(t) PROVE t[j].do = "color"
    <3>1. j \in 1 .. Len(o) - 1 /\ j + 1 \in k + 1 .. Len(o)
      BY <1>1, <1>4
    <3> QED BY <1>1, <1>2, <3>1
  <2> QED BY <2>1, <2>2, <2>3 DEF EndsLine, t
<1> QED BY <1>3, <1>4

-----------------------------------------------------------------------------
(* Types and ends of lines: nothing is left to print while the shell draws *)
(* or waits, a command is executed behind its Enter, and what a command    *)
(* has still to print ends a line.                                         *)

TInv ==
  /\ IInv
  /\ Inked(vga) /\ out \in Seq(Part) /\ pc \in Control
  /\ Len(line) < SHELL_BUFFER_SIZE
  /\ pc = "read" => Len(line) < SHELL_BUFFER_SIZE - 1
  /\ pc \in {"draw", "next", "read", "execute"} => out = <<>>
  /\ pc = "execute" => vga.col = 0 \/ Len(line) = SHELL_BUFFER_SIZE - 1
  /\ pc = "print" => Runs("cat") \/ EndsLine(vga, out)
  /\ OutputEndsLine

LEMMA NewLineStarts == ASSUME NEW v, Whole(v) PROVE PutChar(v, NL).col = 0
<1>1. v.row + 1 \in 0 .. VGA_HEIGHT /\ 0 < VGA_WIDTH /\ 0 \in Nat /\ ~ (0 >= VGA_WIDTH)
  BY VgaAssumption DEF Whole, Rows
<1> DEFINE t == Typeset(v, NL)
<1>2. t = [row |-> v.row + 1, col |-> 0, color |-> v.color, buffer |-> v.buffer,
           cursor |-> v.cursor, shown |-> v.shown]
  <2>1. Typeset(v, NL) = [v EXCEPT !.row = @ + 1, !.col = 0]
    BY VgaAssumption DEF Typeset
  <2> QED BY <2>1 DEF Whole
<1> HIDE DEF t
<1>3. UpdateCursor(Scrolled(Wrapped(t))).col = 0
  BY <1>1, <1>2, SettlesTo
<1> QED BY <1>3 DEF PutChar, t

LEMMA ClearStarts == ASSUME NEW v, Whole(v) PROVE Clear(v).col = 0 /\ ShowCursor(Clear(v)).col = 0
<1>1. Clear(v).col = 0
  BY DEF Whole, Clear, UpdateCursor
<1>2. Whole(Clear(v))
  BY DrawsWhole
<1>3. ASSUME NEW w, Whole(w) PROVE ShowCursor(w).col = w.col
  BY <1>3 DEF Whole, ShowCursor
<1> HIDE DEF Clear
<1> QED BY <1>1, <1>2, <1>3

LEMMA ColorMovesNothing == ASSUME NEW v, NEW n, Whole(v) PROVE SetColor(v, n).col = v.col
  BY DEF Whole, SetColor

LEMMA ArgsTyped ==
  ASSUME line \in Seq(Typeable)
  PROVE  Args \in Seq(Seq(Typeable)) /\ \A k \in 1 .. Len(Args) : Args[k] \in Seq(Letter)
<1>1. Args \in Seq(Seq(Typeable))
  BY WordsTyped, ConsoleAssumption DEF Args
<1>2. Typeable \subseteq Letter
  BY DEF Letter
<1> HIDE DEF Args, Letter
<1> QED BY <1>1, <1>2

LEMMA InkStep ==
  ASSUME IInv, Inked(vga), out \in Seq(Part), Next
  PROVE  Inked(vga')
<1>0. Whole(vga)
  BY DEF IInv
<1>1. CASE DrawCursor
  BY <1>0, <1>1, DrawsInk DEF DrawCursor
<1>2. CASE DrawText
  BY <1>0, <1>2, DrawsInk, ConsoleAssumption DEF DrawText
<1>3. CASE DrawAt
  BY <1>0, <1>3, DrawsInk DEF DrawAt
<1>4. CASE DrawEnd
  BY <1>0, <1>4, DrawsInk, DrawsWhole DEF DrawEnd
<1>5. CASE Output
  <2>1. out # <<>> /\ Head(out) = out[1] /\ out[1] \in Part
    BY <1>5 DEF Output
  <2>2. CASE out[1].do = "color"
    <3>1. out[1].what \in Colors
      BY <2>1, <2>2 DEF Part
    <3>2. vga' = SetColor(vga, out[1].what)
      BY <1>5, <2>1, <2>2 DEF Output
    <3> QED BY <1>0, <3>1, <3>2, DrawsInk
  <2>3. CASE out[1].do # "color"
    <3>1. out[1].what \in Letter
      BY <2>1, <2>3 DEF Part
    <3>2. vga' = PutChar(vga, out[1].what)
      BY <1>5, <2>1, <2>3 DEF Output
    <3>3. out[1].what \in Glyphs \cup {NL, CR, TAB, BS}
      BY <3>1, ConsoleAssumption DEF Letter
    <3> QED BY <1>0, <3>2, <3>3, PutsInk
  <2> QED BY <2>2, <2>3
<1>6. CASE Enter \/ Backspace \/ \E ch \in Typeable : Type(ch)
  <2>1. PICK ch \in Glyphs \cup {NL, CR, TAB, BS} : vga' = PutChar(vga, ch)
    BY <1>6, ConsoleAssumption DEF Enter, Backspace, Type, Echo
  <2> QED BY <1>0, <2>1, PutsInk
<1>7. CASE Execute
  <2>1. vga' = vga \/ vga' = Clear(vga) \/ vga' = HideCursor(Clear(vga))
    BY <1>7 DEF Execute, ExecuteNothing, ExecuteUnknown, ExecuteEcho, ExecuteColor, ExecuteClear,
                ExecuteReport, ExecuteCat, ExecuteDraw, ExecuteReboot, ExecuteHalt, Says
  <2>2. Inked(Clear(vga)) /\ Whole(Clear(vga))
    BY <1>0, DrawsInk, DrawsWhole
  <2> QED BY <1>0, <2>1, <2>2, DrawsInk
<1>8. CASE Prompt \/ Ask \/ Finish \/ Stopped
  BY <1>8 DEF Prompt, Ask, Finish, Stopped, vars
<1> QED BY <1>1, <1>2, <1>3, <1>4, <1>5, <1>6, <1>7, <1>8 DEF Next

(* A command: what it has to print, and that it ends a line.               *)
LEMMA ExecuteStep ==
  ASSUME TInv, Execute
  PROVE  /\ out' \in Seq(Part) /\ pc' \in Control \ {"prompt", "read", "execute"}
         /\ pc' \in {"draw", "next"} => out' = <<>>
         /\ pc' = "print" => Runs("cat") \/ EndsLine(vga', out')
         /\ pc' = "next" => vga'.col = 0 \/ (Args = <<>> /\ Len(line) = SHELL_BUFFER_SIZE - 1)
<1> USE DEF Control
<1>1. /\ out = <<>> /\ line \in Seq(Typeable) /\ Whole(vga) /\ <<>> \in Seq(Part)
      /\ vga.col = 0 \/ Len(line) = SHELL_BUFFER_SIZE - 1
  BY DEF TInv, IInv, Execute
<1>2. ASSUME NEW n \in Colors
      PROVE  InColor(n) \in Seq(Part)
  BY ColorPart
<1>3. GREEN \in Colors /\ WHITE \in Colors /\ RED \in Colors
  BY ConsoleAssumption
<1>4. Args \in Seq(Seq(Typeable)) /\ \A k \in 1 .. Len(Args) : Args[k] \in Seq(Letter)
  BY <1>1, ArgsTyped
<1>5. Message \in Seq(Part) /\ \A v : EndsLine(v, Message)
  <2> DEFINE m == Message
  <2>1. m \in Seq(Part) /\ Len(m) > 0 /\ m[Len(m)] = [do |-> "put", what |-> NL]
    BY MessageParts
  <2> HIDE DEF m
  <2>2. \A v : EndsLine(v, m)
    BY <2>1, LineEndEnds
  <2> QED BY <2>1, <2>2 DEF m
<1>6. CASE ExecuteNothing
  BY <1>1, <1>6 DEF ExecuteNothing
<1>7. CASE ExecuteUnknown
  <2> DEFINE o == InColor(RED) \o Chars(Args[1])
  <2>1. Args[1] \in Seq(Letter)
    BY <1>4, <1>7 DEF ExecuteUnknown
  <2>2. o \in Seq(Part)
    BY <1>2, <1>3, <2>1, CharsParts
  <2>3. out' = o \o Message \o InColor(WHITE) /\ pc' = "print"
    BY <1>7 DEF ExecuteUnknown, Says
  <2> HIDE DEF o
  <2>4. o \o Message \in Seq(Part) /\ EndsLine(vga', o \o Message)
    <3>1. \A v : o \o Message \in Seq(Part) /\ EndsLine(v, o \o Message)
      BY <2>2, MessageEnds
    <3> QED BY <3>1
  <2>5. out' \in Seq(Part) /\ EndsLine(vga', out')
    <3> DEFINE p == o \o Message
    <3>1. p \in Seq(Part) /\ EndsLine(vga', p)
      BY <2>4
    <3> HIDE DEF p
    <3>2. \A v : EndsLine(v, p) => p \o InColor(WHITE) \in Seq(Part)
                                   /\ EndsLine(v, p \o InColor(WHITE))
      BY <1>3, <3>1, ColorKeepsEnd
    <3> QED BY <2>3, <3>1, <3>2 DEF p
  <2> QED BY <2>3, <2>5
<1>8. CASE ExecuteEcho
  <2> DEFINE text == Joined(Tail(Args))
             o == Chars(Append(text, NL))
  <2>1. Tail(Args) \in Seq(Seq(Letter))
    <3>1. Args \in Seq(Seq(Letter))
      BY <1>4
    <3>2. Args # <<>>
      BY <1>8 DEF ExecuteEcho, Runs
    <3> QED BY <3>1, <3>2
  <2>2. text \in Seq(Letter)
    <3>1. SPACE \in Letter
      BY VgaAssumption DEF Letter
    <3> QED BY <2>1, <3>1, JoinedTyped
  <2> HIDE DEF text
  <2>3. Append(text, NL) \in Seq(Letter) /\ Len(Append(text, NL)) = Len(text) + 1
        /\ Append(text, NL)[Len(text) + 1] = NL /\ Len(text) \in Nat
    BY <2>2 DEF Letter
  <2>4. o \in Seq(Part) /\ Len(o) = Len(text) + 1 /\ o[Len(o)] = [do |-> "put", what |-> NL]
    <3> DEFINE s == Append(text, NL)
    <3>1. s \in Seq(Letter) /\ Len(s) \in 1 .. Len(s) /\ Len(s) = Len(text) + 1 /\ s[Len(s)] = NL
      BY <2>3
    <3>2. o = Chars(s)
      OBVIOUS
    <3> HIDE DEF s, o
    <3> QED BY <3>1, <3>2, CharsParts
  <2>5. out' = o /\ pc' = "print"
    BY <1>8 DEF ExecuteEcho, Says, text
  <2> HIDE DEF o
  <2>6. \A v : EndsLine(v, o)
    BY <2>3, <2>4, LineEndEnds
  <2> QED BY <2>4, <2>5, <2>6
<1>9. CASE ExecuteColor
  <2>1. pc' = "print" /\ \/ out' = Message
                         \/ \E n \in Colors : out' = InColor(n) \o Message
    BY <1>9 DEF ExecuteColor, Says
  <2>2. \A n \in Colors : \A v : InColor(n) \o Message \in Seq(Part)
                                 /\ EndsLine(v, InColor(n) \o Message)
    BY <1>2, MessageEnds
  <2> QED BY <1>5, <2>1, <2>2
<1>10. CASE ExecuteClear
  BY <1>1, <1>10, ClearStarts DEF ExecuteClear
<1>11. CASE ExecuteReport
  <2> DEFINE p == InColor(RED) \o Message
  <2>1. p \in Seq(Part) /\ \A v : EndsLine(v, p)
    BY <1>2, <1>3, MessageEnds
  <2>2. out' = p \o InColor(WHITE) /\ pc' = "print"
    BY <1>11 DEF ExecuteReport, Says
  <2> HIDE DEF p
  <2>3. \A v : p \o InColor(WHITE) \in Seq(Part) /\ EndsLine(v, p \o InColor(WHITE))
    BY <1>3, <2>1, ColorKeepsEnd
  <2> QED BY <2>2, <2>3
<1>12. CASE ExecuteCat
  <2>1. Runs("cat") /\ pc' = "print"
    BY <1>12 DEF ExecuteCat, Says
  <2>2. ASSUME NEW text \in Files
        PROVE  Chars(text) \in Seq(Part) /\ Chars(Append(text, NL)) \in Seq(Part)
    <3>1. text \in Seq(Letter)
      BY ConsoleAssumption DEF Letter
    <3>2. Append(text, NL) \in Seq(Letter)
      BY <3>1 DEF Letter
    <3> QED BY <3>1, <3>2, CharsParts
  <2>3. \/ out' = Message \/ out' = <<>>
        \/ \E text \in Files : out' = Chars(text) \/ out' = Chars(Append(text, NL))
    BY <1>12 DEF ExecuteCat, Says
  <2> QED BY <1>1, <1>5, <2>1, <2>2, <2>3
<1>13. CASE ExecuteDraw
  BY <1>1, <1>5, <1>13 DEF ExecuteDraw, Says
<1>14. CASE ExecuteReboot
  BY <1>5, <1>14 DEF ExecuteReboot
<1>15. CASE ExecuteHalt
  BY <1>2, <1>3, <1>15, MessageEnds DEF ExecuteHalt
<1> QED BY <1>6, <1>7, <1>8, <1>9, <1>10, <1>11, <1>12, <1>13, <1>14, <1>15 DEF Execute

LEMMA TInvInit == Init => TInv
<1> SUFFICES ASSUME Init PROVE TInv
  OBVIOUS
<1> DEFINE v == [row |-> 0, col |-> 0, color |-> WHITE, cursor |-> 0, shown |-> TRUE,
                 buffer |-> [i \in Cells |-> Entry(SPACE, WHITE)]]
<1>1. 0 \in Rows /\ 0 \in Columns /\ Index(0, 0) = 0
  BY VgaAssumption DEF Rows, Columns, Index
<1>2. Whole(v)
  BY <1>1 DEF Whole
<1>3. Inked(v)
  BY ConsoleAssumption, VgaAssumption DEF Inked, Entry, Cell
<1>4. vga = HideCursor(Clear(v))
  BY DEF Init
<1> HIDE DEF v
<1>5. Inked(vga)
  <2>1. Inked(Clear(v)) /\ Whole(Clear(v))
    BY <1>2, <1>3, DrawsInk, DrawsWhole
  <2> QED BY <1>4, <2>1, DrawsInk
<1>6. Len(<<>>) = 0 /\ <<>> \in Seq(Part) /\ 0 < SHELL_BUFFER_SIZE
  BY ConsoleAssumption
<1> QED BY <1>5, <1>6, InvariantInit DEF Init, TInv, Control, OutputEndsLine

LEMMA TInvStep == TInv /\ [Next]_vars => TInv'
<1> SUFFICES ASSUME TInv, [Next]_vars PROVE TInv'
  OBVIOUS
<1>1. IInv'
  BY InvariantStep DEF TInv
<1>2. Inked(vga')
  BY InkStep DEF TInv, vars
<1>3. /\ Whole(vga) /\ line \in Seq(Typeable) /\ SHELL_BUFFER_SIZE \in Nat \ {0, 1} /\ Len(line) \in Nat
      /\ <<>> \in Seq(Part) /\ Len(<<>>) = 0 /\ out \in Seq(Part) /\ Len(line) < SHELL_BUFFER_SIZE
  BY ConsoleAssumption DEF TInv, IInv
<1>4. GREEN \in Colors /\ WHITE \in Colors /\ RED \in Colors
  BY ConsoleAssumption
<1>5. CASE DrawCursor \/ DrawText \/ DrawAt
  <2>1. pc = "draw" /\ UNCHANGED <<out, line, pc>>
    BY <1>5 DEF DrawCursor, DrawText, DrawAt, Drawing
  <2> QED BY <1>1, <1>2, <2>1 DEF TInv, OutputEndsLine
<1>6. CASE DrawEnd
  <2>1. vga'.col = 0
    BY <1>3, <1>6, ClearStarts DEF DrawEnd
  <2>2. pc' = "print" /\ line' = line
        /\ out' \in {InColor(GREEN) \o Message \o InColor(WHITE), <<>> \o InColor(WHITE)}
    BY <1>6 DEF DrawEnd
  <2> DEFINE m == InColor(GREEN) \o Message
             w == vga'
  <2>3. m \in Seq(Part) /\ \A v : EndsLine(v, m)
    BY <1>4, ColorPart, MessageEnds
  <2> HIDE DEF m, w
  <2>4. m \o InColor(WHITE) \in Seq(Part) /\ EndsLine(w, m \o InColor(WHITE))
    BY <1>4, <2>3, ColorKeepsEnd
  <2>5. <<>> \o InColor(WHITE) \in Seq(Part) /\ EndsLine(w, <<>> \o InColor(WHITE))
    <3> DEFINE e == <<>>
    <3>1. e \in Seq(Part) /\ EndsLine(w, e)
      BY <1>3, <2>1, NothingEnds DEF w
    <3> HIDE DEF e
    <3>2. e \o InColor(WHITE) \in Seq(Part) /\ EndsLine(w, e \o InColor(WHITE))
      BY <1>4, <3>1, ColorKeepsEnd
    <3> QED BY <3>2 DEF e
  <2>6. out' \in Seq(Part) /\ EndsLine(vga', out')
    BY <2>2, <2>4, <2>5 DEF m, w
  <2> QED BY <1>1, <1>2, <1>3, <2>2, <2>6 DEF TInv, Control, OutputEndsLine
<1>7. CASE Output
  <2>1. out # <<>> /\ out' = Tail(out) /\ UNCHANGED <<line, pc>> /\ Head(out) = out[1]
        /\ out[1] \in Part
    BY <1>3, <1>7 DEF Output
  <2>2. out' \in Seq(Part) /\ pc \notin {"draw", "next", "read", "execute"}
    BY <1>3, <2>1 DEF TInv
  <2>3. out[1].do = "color" => vga'.col = vga.col
    BY <1>3, <1>7, <2>1, ColorMovesNothing DEF Output
  <2>4. out[1] = [do |-> "put", what |-> NL] => vga'.col = 0
    BY <1>3, <1>7, <2>1, NewLineStarts DEF Output
  <2>5. EndsLine(vga, out) => EndsLine(vga', out')
    <3> DEFINE o == out
               v == vga
               w == vga'
    <3>1. o \in Seq(Part) /\ o # <<>> /\ (o[1].do = "color" => w.col = v.col)
          /\ (o[1] = [do |-> "put", what |-> NL] => w.col = 0)
      BY <1>3, <2>1, <2>3, <2>4
    <3> HIDE DEF o, v, w
    <3>2. EndsLine(v, o) => EndsLine(w, Tail(o))
      BY <3>1, EndRemains
    <3> QED BY <2>1, <3>2 DEF o, v, w
  <2>6. pc = "print" => Runs("cat")' \/ EndsLine(vga', out')
    BY <2>1, <2>5 DEF TInv, Runs, Args
  <2> QED BY <1>1, <1>2, <1>3, <2>1, <2>2, <2>6 DEF TInv, OutputEndsLine
<1>8. CASE Prompt
  <2>1. out' = InColor(GREEN) \o Chars(shell_prompt) \o InColor(WHITE)
        /\ pc' = "prompt" /\ line' = line
    BY <1>8 DEF Prompt
  <2>2. InColor(GREEN) \in Seq(Part) /\ InColor(WHITE) \in Seq(Part) /\ Chars(shell_prompt) \in Seq(Part)
    <3>1. shell_prompt \in Seq(Letter)
      BY ConsoleAssumption DEF Letter
    <3> QED BY <1>4, <3>1, ColorPart, CharsParts
  <2>3. out' \in Seq(Part)
    BY <2>1, <2>2
  <2> QED BY <1>1, <1>2, <1>3, <2>1, <2>3 DEF TInv, Control, OutputEndsLine
<1>9. CASE Ask
  <2>1. out = <<>> /\ out' = out /\ line' = <<>> /\ pc' = "read"
    BY <1>9 DEF Ask
  <2> QED BY <1>1, <1>2, <1>3, <2>1 DEF TInv, Control, OutputEndsLine
<1>10. CASE Enter
  <2>1. pc = "read" /\ vga' = PutChar(vga, NL) /\ out' = out /\ line' = line /\ pc' = "execute"
    BY <1>10 DEF Enter, Echo
  <2>2. vga'.col = 0
    BY <1>3, <2>1, NewLineStarts
  <2> QED BY <1>1, <1>2, <1>3, <2>1, <2>2 DEF TInv, Control, OutputEndsLine
<1>11. CASE Backspace
  <2>1. pc = "read" /\ line # <<>> /\ line' = Front(line) /\ out' = out /\ pc' = pc
    BY <1>11 DEF Backspace, Echo
  <2>2. Len(line') = Len(line) - 1
    <3> DEFINE n == Len(line) - 1
    <3>1. n \in Nat /\ n + 1 = Len(line)
      BY <1>3, <2>1
    <3>2. line' = SubSeq(line, 1, n)
      BY <2>1 DEF Front
    <3> HIDE DEF n
    <3>3. Len(line') = n
      BY <1>3, <3>1, <3>2
    <3> QED BY <3>3 DEF n
  <2> QED BY <1>1, <1>2, <1>3, <2>1, <2>2 DEF TInv, Control, OutputEndsLine
<1>12. CASE \E ch \in Typeable : Type(ch)
  <2>1. PICK ch \in Typeable : Type(ch)
    BY <1>12
  <2>2. pc = "read" /\ line' = Append(line, ch) /\ out' = out
        /\ pc' = IF Len(line') < SHELL_BUFFER_SIZE - 1 THEN "read" ELSE "execute"
    BY <2>1 DEF Type, Echo
  <2>3. Len(line') = Len(line) + 1
    BY <1>3, <2>2
  <2>4. Len(line) < SHELL_BUFFER_SIZE - 1 /\ out = <<>>
    BY <2>2 DEF TInv
  <2>5. Len(line') < SHELL_BUFFER_SIZE
        /\ (~ (Len(line') < SHELL_BUFFER_SIZE - 1) => Len(line') = SHELL_BUFFER_SIZE - 1)
    BY <1>3, <2>3, <2>4
  <2> QED BY <1>1, <1>2, <1>3, <2>2, <2>4, <2>5 DEF TInv, Control, OutputEndsLine
<1>13. CASE Execute
  <2>1. line' = line
    BY <1>13 DEF Execute
  <2>2. /\ out' \in Seq(Part) /\ pc' \in Control \ {"prompt", "read", "execute"}
        /\ pc' \in {"draw", "next"} => out' = <<>>
        /\ pc' = "print" => Runs("cat") \/ EndsLine(vga', out')
        /\ pc' = "next" => vga'.col = 0 \/ (Args = <<>> /\ Len(line) = SHELL_BUFFER_SIZE - 1)
    BY <1>13, ExecuteStep
  <2>3. Runs("cat")' = Runs("cat") /\ Args' = Args
    BY <2>1 DEF Runs, Args
  <2> HIDE DEF Runs, Args
  <2>4. OutputEndsLine'
    BY <2>1, <2>2, <2>3 DEF OutputEndsLine
  <2> QED BY <1>1, <1>2, <1>3, <2>1, <2>2, <2>3, <2>4 DEF TInv
<1>14. CASE Finish
  <2>1. pc = "print" /\ out = <<>> /\ pc' = "next" /\ UNCHANGED <<vga, out, line>>
    BY <1>14 DEF Finish
  <2>2. EndsLine(vga, out) => vga.col = 0
    <3>1. Len(out) = 0
      BY <2>1
    <3> QED BY <3>1 DEF EndsLine
  <2>3. Runs("cat")' = Runs("cat")
    BY <2>1 DEF Runs, Args
  <2>4. OutputEndsLine'
    BY <2>1, <2>2, <2>3 DEF TInv, OutputEndsLine
  <2> QED BY <1>1, <1>2, <1>3, <2>1, <2>4 DEF TInv, Control
<1>15. CASE Stopped \/ UNCHANGED vars
  <2>1. UNCHANGED <<vga, out, line, pc>>
    BY <1>15 DEF Stopped, vars
  <2>2. Runs("cat")' = Runs("cat") /\ OutputEndsLine' = OutputEndsLine
    BY <2>1 DEF Runs, Args, OutputEndsLine
  <2> QED BY <1>1, <2>1, <2>2 DEF TInv
<1> QED BY <1>5, <1>6, <1>7, <1>8, <1>9, <1>10, <1>11, <1>12, <1>13, <1>14, <1>15 DEF Next

(* Every variable has its type: whatever is typed and printed, the cells   *)
(* hold characters in a colour and the line fits into the shell's buffer   *)
(* (keyboard.c:215, 226).                                                  *)
THEOREM TypeCorrect == Spec => []TypeOK
<1>1. TInv => TypeOK
  <2> SUFFICES ASSUME TInv PROVE TypeOK
    OBVIOUS
  <2>1. Whole(vga) /\ line \in Seq(Typeable) /\ home \in Int /\ exact \in BOOLEAN
    BY DEF TInv, IInv
  <2>2. vga.cursor \in Cells
    BY <2>1, OnScreen DEF Whole
  <2>3. vga \in Screen
    <3> DEFINE b == vga.buffer
    <3>1. b \in [Cells -> Cell]
      BY <2>1 DEF Whole, TInv, Inked
    <3>2. vga = [row |-> vga.row, col |-> vga.col, color |-> vga.color, buffer |-> b,
                 cursor |-> vga.cursor, shown |-> vga.shown]
      BY <2>1 DEF Whole
    <3>3. vga.row \in Rows /\ vga.col \in Columns /\ vga.color \in Colors /\ vga.shown \in BOOLEAN
      BY <2>1 DEF Whole, TInv, Inked
    <3> HIDE DEF b
    <3> QED BY <2>2, <3>1, <3>2, <3>3 DEF Screen
  <2>4. out \in Seq([do : {"put"}, what : Glyphs \cup Typeable \cup {NL}] \cup [do : {"color"}, what : Colors])
    BY DEF TInv, Part, Letter
  <2> QED BY <2>1, <2>3, <2>4 DEF TInv, TypeOK, Whole
<1> QED BY <1>1, TInvInit, TInvStep, PTL DEF Spec

(* Whatever a command prints, the prompt that follows starts a line of its *)
(* own, but for the cases named in the property.                           *)
THEOREM PromptStartsLine == Spec => []OutputEndsLine
<1>1. TInv => OutputEndsLine
  BY DEF TInv
<1> QED BY <1>1, TInvInit, TInvStep, PTL DEF Spec

-----------------------------------------------------------------------------
(* The cells as a grid                                                     *)

GridOf(b) == [n \in 1 .. VGA_HEIGHT |-> [k \in 1 .. VGA_WIDTH |-> b[Index(n - 1, k - 1)]]]
EmptyLine(color) == [k \in 1 .. VGA_WIDTH |-> Entry(SPACE, color)]

LEMMA GridPlaces ==
  /\ \A n \in 1 .. VGA_HEIGHT : n - 1 \in Rows /\ n - 1 \in Nat
  /\ \A k \in 1 .. VGA_WIDTH : k - 1 \in Columns /\ k - 1 \in Nat
  /\ \A r \in Rows : r \in Nat /\ r + 1 \in 1 .. VGA_HEIGHT /\ r + 1 - 1 = r
  /\ \A c \in Columns : c \in Nat /\ c + 1 \in 1 .. VGA_WIDTH /\ c + 1 - 1 = c
  BY VgaAssumption DEF Rows, Columns

LEMMA OneCell ==
  ASSUME NEW r \in Rows, NEW c \in Columns, NEW q \in Rows, NEW d \in Columns,
         Index(r, c) = Index(q, d)
  PROVE  r = q /\ c = d
<1>1. r \in Nat /\ q \in Nat /\ c \in Nat /\ d \in Nat /\ c < VGA_WIDTH /\ d < VGA_WIDTH
      /\ VGA_WIDTH \in Nat
  BY VgaAssumption DEF Rows, Columns
<1>2. /\ Index(r, c) = Index(r, 0) + c /\ Index(q, d) = Index(q, 0) + d
      /\ Index(r, 0) \in Nat /\ Index(q, 0) \in Nat
  BY <1>1, Columned
<1> DEFINE x == Index(r, 0)
           y == Index(q, 0)
<1>3. x + c = y + d /\ x \in Nat /\ y \in Nat
  BY <1>2
<1>4. /\ r < q => x + VGA_WIDTH <= y
      /\ q < r => y + VGA_WIDTH <= x
      /\ r = q => x = y
  BY <1>1, Below
<1> HIDE DEF x, y
<1>5. ~ (r < q) /\ ~ (q < r)
  BY <1>1, <1>3, <1>4
<1>6. r = q
  BY <1>1, <1>5
<1> QED BY <1>1, <1>3, <1>4, <1>6

LEMMA GridStore ==
  ASSUME NEW b, b = [i \in Cells |-> b[i]], NEW r \in Rows, NEW c \in Columns, NEW e
  PROVE  GridOf([b EXCEPT ![Index(r, c)] = e]) = [GridOf(b) EXCEPT ![r + 1][c + 1] = e]
<1> DEFINE m == [b EXCEPT ![Index(r, c)] = e]
           g == [GridOf(b) EXCEPT ![r + 1][c + 1] = e]
<1>1. /\ r + 1 \in 1 .. VGA_HEIGHT /\ c + 1 \in 1 .. VGA_WIDTH /\ r + 1 - 1 = r /\ c + 1 - 1 = c
      /\ r \in Nat /\ c \in Nat
  BY GridPlaces
<1>2. \A i \in Cells : m[i] = IF i = Index(r, c) THEN e ELSE b[i]
  OBVIOUS
<1> HIDE DEF m
<1>3. ASSUME NEW n \in 1 .. VGA_HEIGHT, NEW k \in 1 .. VGA_WIDTH
      PROVE  m[Index(n - 1, k - 1)] =
               IF n = r + 1 /\ k = c + 1 THEN e ELSE b[Index(n - 1, k - 1)]
  <2>1. n - 1 \in Rows /\ k - 1 \in Columns
    BY GridPlaces
  <2>2. Index(n - 1, k - 1) \in Cells
    BY <2>1, OnScreen
  <2>3. Index(n - 1, k - 1) = Index(r, c) => n - 1 = r /\ k - 1 = c
    BY <2>1, OneCell
  <2>4. n = r + 1 <=> n - 1 = r
    BY <1>1, VgaAssumption
  <2>5. k = c + 1 <=> k - 1 = c
    BY <1>1, VgaAssumption
  <2> QED BY <1>2, <2>2, <2>3, <2>4, <2>5
<1>4. GridOf(m) = [n \in 1 .. VGA_HEIGHT |-> [k \in 1 .. VGA_WIDTH |->
                     IF n = r + 1 /\ k = c + 1 THEN e ELSE b[Index(n - 1, k - 1)]]]
  BY <1>3 DEF GridOf
<1>5. g = [n \in 1 .. VGA_HEIGHT |->
             IF n = r + 1 THEN [GridOf(b)[n] EXCEPT ![c + 1] = e] ELSE GridOf(b)[n]]
  BY DEF GridOf
<1>6. \A n \in 1 .. VGA_HEIGHT : GridOf(b)[n] = [k \in 1 .. VGA_WIDTH |-> b[Index(n - 1, k - 1)]]
  BY DEF GridOf
<1>7. ASSUME NEW n \in 1 .. VGA_HEIGHT
      PROVE  [GridOf(b)[n] EXCEPT ![c + 1] = e] =
               [k \in 1 .. VGA_WIDTH |-> IF k = c + 1 THEN e ELSE b[Index(n - 1, k - 1)]]
  <2> DEFINE f == [k \in 1 .. VGA_WIDTH |-> b[Index(n - 1, k - 1)]]
  <2>1. GridOf(b)[n] = f
    BY <1>6
  <2>2. [f EXCEPT ![c + 1] = e] =
          [k \in 1 .. VGA_WIDTH |-> IF k = c + 1 THEN e ELSE b[Index(n - 1, k - 1)]]
    OBVIOUS
  <2> HIDE DEF f
  <2> QED BY <2>1, <2>2
<1>8. g = [n \in 1 .. VGA_HEIGHT |-> [k \in 1 .. VGA_WIDTH |->
             IF n = r + 1 /\ k = c + 1 THEN e ELSE b[Index(n - 1, k - 1)]]]
  <2>1. \A n \in 1 .. VGA_HEIGHT :
          (IF n = r + 1 THEN [GridOf(b)[n] EXCEPT ![c + 1] = e] ELSE GridOf(b)[n]) =
          [k \in 1 .. VGA_WIDTH |->
             IF n = r + 1 /\ k = c + 1 THEN e ELSE b[Index(n - 1, k - 1)]]
    <3> TAKE n \in 1 .. VGA_HEIGHT
    <3>1. CASE n = r + 1
      BY <1>7, <3>1
    <3>2. CASE n # r + 1
      BY <1>6, <3>2
    <3> QED BY <3>1, <3>2
  <2> HIDE DEF g
  <2> QED BY <1>5, <2>1
<1> QED BY <1>4, <1>8 DEF m

LEMMA GridIsLines ==
  ASSUME NEW b
  PROVE  /\ GridOf(b) \in Seq({GridOf(b)[n] : n \in 1 .. VGA_HEIGHT})
         /\ Len(GridOf(b)) = VGA_HEIGHT /\ GridOf(b) # <<>>
<1> DEFINE g == GridOf(b)
           S == {g[n] : n \in 1 .. VGA_HEIGHT}
<1>1. g \in [1 .. VGA_HEIGHT -> S]
  BY DEF GridOf
<1> HIDE DEF g, S
<1>2. VGA_HEIGHT \in Nat /\ VGA_HEIGHT # 0
  BY VgaAssumption
<1>3. g \in Seq(S) /\ Len(g) = VGA_HEIGHT
  BY <1>1, <1>2, FunctionIsSequence
<1>4. g # <<>>
  BY <1>2, <1>3
<1> QED BY <1>3, <1>4 DEF g, S

LEMMA GridLift ==
  ASSUME NEW v
  PROVE  GridOf(Lifted(v)) = Append(Tail(GridOf(v.buffer)), EmptyLine(v.color))
<1> DEFINE g == GridOf(v.buffer)
           e == EmptyLine(v.color)
           S == {g[n] : n \in 1 .. VGA_HEIGHT} \cup {e}
           t == Tail(g)
           m == VGA_HEIGHT - 1
<1>1. m \in Nat /\ m + 1 = VGA_HEIGHT
  BY VgaAssumption
<1>2. g \in Seq(S) /\ Len(g) = VGA_HEIGHT /\ g # <<>>
  <2>1. g \in Seq({g[n] : n \in 1 .. VGA_HEIGHT})
    BY GridIsLines
  <2>2. Len(g) = VGA_HEIGHT /\ g # <<>>
    BY GridIsLines
  <2> HIDE DEF g, e
  <2> QED BY <2>1, <2>2
<1>3. e \in S
  OBVIOUS
<1> HIDE DEF g, e, S
<1>4. t \in Seq(S) /\ Len(t) = m /\ \A n \in 1 .. m : t[n] = g[n + 1]
  <2> HIDE DEF m
  <2> QED BY <1>1, <1>2, HeadTailProperties
<1> HIDE DEF t
<1>5. Append(t, e) = [n \in 1 .. m + 1 |-> IF n = m + 1 THEN e ELSE g[n + 1]]
  <2> DEFINE a == Append(t, e)
  <2>1. a \in Seq(S) /\ Len(a) = m + 1 /\ a[m + 1] = e /\ \A n \in 1 .. m : a[n] = t[n]
    BY <1>1, <1>3, <1>4, AppendProperties
  <2> HIDE DEF a, m
  <2>2. a = [n \in 1 .. m + 1 |-> a[n]]
    BY <2>1
  <2>3. \A n \in 1 .. m + 1 : a[n] = IF n = m + 1 THEN e ELSE g[n + 1]
    <3>1. \A n \in 1 .. m + 1 : n = m + 1 \/ n \in 1 .. m
      BY <1>1
    <3> QED BY <1>4, <2>1, <3>1
  <2>4. a = [n \in 1 .. m + 1 |-> IF n = m + 1 THEN e ELSE g[n + 1]]
    BY <2>2, <2>3
  <2> QED BY <2>4 DEF a
<1>6. ASSUME NEW n \in 1 .. VGA_HEIGHT
      PROVE  [k \in 1 .. VGA_WIDTH |-> Lifted(v)[Index(n - 1, k - 1)]] =
               IF n = m + 1 THEN e ELSE g[n + 1]
  <2>1. n - 1 \in Rows /\ n - 1 \in Nat /\ n \in Nat
    BY GridPlaces, VgaAssumption
  <2>2. \A k \in 1 .. VGA_WIDTH :
          /\ k - 1 \in Columns /\ k - 1 \in Nat /\ k - 1 < VGA_WIDTH
          /\ Index(n - 1, k - 1) \in Cells
          /\ Index(n - 1, k - 1) = Index(n - 1, 0) + (k - 1) /\ Index(n - 1, 0) \in Nat
    <3> TAKE k \in 1 .. VGA_WIDTH
    <3>1. k - 1 \in Columns /\ k - 1 \in Nat /\ k - 1 < VGA_WIDTH
      BY GridPlaces, VgaAssumption DEF Columns
    <3>2. Index(n - 1, k - 1) \in Cells
      BY <2>1, <3>1, OnScreen
    <3>3. Index(n - 1, k - 1) = Index(n - 1, 0) + (k - 1) /\ Index(n - 1, 0) \in Nat
      BY <2>1, <3>1, Columned
    <3> QED BY <3>1, <3>2, <3>3
  <2>3. CASE n = m + 1
    <3>1. \A k \in 1 .. VGA_WIDTH : Lifted(v)[Index(n - 1, k - 1)] = Entry(SPACE, v.color)
      <4> TAKE k \in 1 .. VGA_WIDTH
      <4>1. n - 1 = VGA_HEIGHT - 1
        BY <1>1, <2>3
      <4>2. ~ (Index(n - 1, k - 1) < Index(VGA_HEIGHT - 1, 0))
        <5>1. Index(n - 1, 0) = Index(VGA_HEIGHT - 1, 0)
          BY <4>1
        <5> QED BY <2>2, <5>1
      <4> QED BY <2>2, <4>2 DEF Lifted, Blank
    <3> QED BY <2>3, <3>1 DEF e, EmptyLine
  <2>4. CASE n # m + 1
    <3>1. n - 1 < VGA_HEIGHT - 1 /\ n + 1 \in 1 .. VGA_HEIGHT /\ n + 1 - 1 = n /\ n - 1 + 1 = n
          /\ VGA_HEIGHT - 1 \in Nat
      BY <1>1, <2>1, <2>4, VgaAssumption
    <3>2. Index(n - 1, 0) + VGA_WIDTH <= Index(VGA_HEIGHT - 1, 0)
      BY <2>1, <3>1, Below
    <3>3. Index(n, 0) = Index(n - 1, 0) + VGA_WIDTH
      BY <2>1, <3>1, Columned
    <3>4. \A k \in 1 .. VGA_WIDTH : Index(n, k - 1) = Index(n, 0) + (k - 1)
      BY <2>1, <2>2, Columned
    <3>5. \A k \in 1 .. VGA_WIDTH :
            /\ Index(n - 1, k - 1) < Index(VGA_HEIGHT - 1, 0)
            /\ Index(n - 1, k - 1) + VGA_WIDTH = Index(n, k - 1)
      BY <2>2, <3>2, <3>3, <3>4, AllCells, VgaAssumption
    <3>6. \A k \in 1 .. VGA_WIDTH : Lifted(v)[Index(n - 1, k - 1)] = v.buffer[Index(n, k - 1)]
      <4> TAKE k \in 1 .. VGA_WIDTH
      <4>1. Index(n - 1, k - 1) \in Cells /\ Index(n - 1, k - 1) < Index(VGA_HEIGHT - 1, 0)
            /\ Index(n - 1, k - 1) + VGA_WIDTH = Index(n, k - 1)
        BY <2>2, <3>5
      <4>2. Lifted(v)[Index(n - 1, k - 1)] = v.buffer[Index(n - 1, k - 1) + VGA_WIDTH]
        BY <4>1 DEF Lifted
      <4> QED BY <4>1, <4>2
    <3>7. g[n + 1] = [k \in 1 .. VGA_WIDTH |-> v.buffer[Index(n, k - 1)]]
      BY <3>1 DEF g, GridOf
    <3> QED BY <2>4, <3>6, <3>7
  <2> QED BY <2>3, <2>4
<1>7. GridOf(Lifted(v)) = [n \in 1 .. VGA_HEIGHT |-> IF n = m + 1 THEN e ELSE g[n + 1]]
  BY <1>6 DEF GridOf
<1> QED BY <1>1, <1>5, <1>7 DEF t, g, e

-----------------------------------------------------------------------------
(* A character on the grid                                                 *)

(* From v to w the cursor goes to place k of line n of g, where n may be   *)
(* one too many.                                                           *)
Goes(v, w, g, n, k) ==
  /\ GridOf(w.buffer) = IF n > VGA_HEIGHT THEN Append(Tail(g), EmptyLine(v.color)) ELSE g
  /\ w.row + 1 = IF n > VGA_HEIGHT THEN VGA_HEIGHT ELSE n
  /\ w.col + 1 = k
  /\ w.color = v.color /\ w.shown = v.shown
Advances(v, w, g, k) ==
  IF k > VGA_WIDTH THEN Goes(v, w, g, v.row + 2, 1) ELSE Goes(v, w, g, v.row + 1, k)

LEMMA Lands ==
  ASSUME NEW v, NEW c, NEW row \in 0 .. VGA_HEIGHT, NEW col \in Nat, NEW buffer,
         col < VGA_WIDTH \/ row < VGA_HEIGHT,
         Typeset(v, c) = [row |-> row, col |-> col, color |-> v.color, buffer |-> buffer,
                          cursor |-> v.cursor, shown |-> v.shown]
  PROVE  IF col >= VGA_WIDTH THEN Goes(v, PutChar(v, c), GridOf(buffer), row + 2, 1)
                             ELSE Goes(v, PutChar(v, c), GridOf(buffer), row + 1, col + 1)
<1> DEFINE t   == Typeset(v, c)
           w   == UpdateCursor(Scrolled(Wrapped(t)))
           low == IF col >= VGA_WIDTH THEN row + 1 ELSE row
           at  == IF col >= VGA_WIDTH THEN 0 ELSE col
           r   == IF low = VGA_HEIGHT THEN VGA_HEIGHT - 1 ELSE low
<1>1. /\ w = [row |-> r, col |-> at, color |-> v.color,
              buffer |-> IF low = VGA_HEIGHT THEN Lifted(t) ELSE buffer,
              cursor |-> Index(r, at), shown |-> v.shown]
      /\ r \in Rows /\ at \in Columns
  <2>1. t = [row |-> row, col |-> col, color |-> v.color, buffer |-> buffer,
             cursor |-> v.cursor, shown |-> v.shown]
    OBVIOUS
  <2> HIDE DEF t
  <2> QED BY <2>1, SettlesTo
<1>2. t.buffer = buffer /\ t.color = v.color
  OBVIOUS
<1>3. PutChar(v, c) = w
  BY DEF PutChar
<1> HIDE DEF t, w
<1>4. GridOf(Lifted(t)) = Append(Tail(GridOf(buffer)), EmptyLine(v.color))
  BY <1>2, GridLift
<1>5. low \in 0 .. VGA_HEIGHT /\ (low + 1 > VGA_HEIGHT <=> low = VGA_HEIGHT) /\ VGA_HEIGHT \in Nat
  BY VgaAssumption
<1>6. Goes(v, w, GridOf(buffer), low + 1, at + 1)
  <2> HIDE DEF low, at
  <2>1. GridOf(w.buffer) = IF low + 1 > VGA_HEIGHT THEN Append(Tail(GridOf(buffer)), EmptyLine(v.color))
                                                   ELSE GridOf(buffer)
    BY <1>1, <1>4, <1>5
  <2>2. w.row + 1 = IF low + 1 > VGA_HEIGHT THEN VGA_HEIGHT ELSE low + 1
    BY <1>1, <1>5
  <2>3. w.col + 1 = at + 1 /\ w.color = v.color /\ w.shown = v.shown
    BY <1>1
  <2> QED BY <2>1, <2>2, <2>3 DEF Goes
<1>7. CASE col >= VGA_WIDTH
  <2>1. low + 1 = row + 2 /\ at + 1 = 1
    BY <1>7, VgaAssumption
  <2> HIDE DEF low, at
  <2> QED BY <1>3, <1>6, <1>7, <2>1
<1>8. CASE ~ (col >= VGA_WIDTH)
  BY <1>3, <1>6, <1>8
<1> QED BY <1>7, <1>8

(* What a character does to the grid.                                      *)
Writes(v, w, c) ==
  Advances(v, w, [GridOf(v.buffer) EXCEPT ![v.row + 1][v.col + 1] = Entry(c, v.color)], v.col + 2)
Tabulates(v, w) ==
  \E k \in v.col + 2 .. v.col + 5 : (k - 1) % 4 = 0 /\ Advances(v, w, GridOf(v.buffer), k)
RubsOut(v, w) ==
  /\ v.col > 0
  /\ Goes(v, w, [GridOf(v.buffer) EXCEPT ![v.row + 1][v.col] = Entry(SPACE, v.color)],
          v.row + 1, v.col)

LEMMA CharGoes ==
  ASSUME NEW v, NEW c, Whole(v)
  PROVE  LET w == PutChar(v, c) IN
         /\ c \notin {NL, CR, TAB, BS} => Writes(v, w, c)
         /\ c = NL => Goes(v, w, GridOf(v.buffer), v.row + 2, 1)
         /\ c = CR => Goes(v, w, GridOf(v.buffer), v.row + 1, 1)
         /\ c = TAB => Tabulates(v, w)
         /\ c = BS => RubsOut(v, w) \/ Goes(v, w, GridOf(v.buffer), v.row + 1, v.col + 1)
<1>1. /\ v.row \in 0 .. VGA_HEIGHT /\ v.row + 1 \in 0 .. VGA_HEIGHT /\ v.row < VGA_HEIGHT
      /\ v.row \in Rows /\ v.col \in Columns /\ v.row \in Nat /\ v.col \in Nat /\ v.col < VGA_WIDTH
      /\ 0 < VGA_WIDTH /\ VGA_WIDTH \in Nat /\ 0 \in Nat /\ v.col + 1 \in Nat
  BY VgaAssumption DEF Whole, Rows, Columns
<1>2. v.buffer = [i \in Cells |-> v.buffer[i]] /\ v.cursor = Index(v.row, v.col)
  BY DEF Whole
<1>3. CASE c \notin {NL, CR, TAB, BS}
  <2> DEFINE b == [v.buffer EXCEPT ![v.cursor] = Entry(c, v.color)]
             g == [GridOf(v.buffer) EXCEPT ![v.row + 1][v.col + 1] = Entry(c, v.color)]
  <2>1. Typeset(v, c) = [row |-> v.row, col |-> v.col + 1, color |-> v.color, buffer |-> b,
                         cursor |-> v.cursor, shown |-> v.shown]
    BY <1>3, StoresGlyph
  <2>2. GridOf(b) = g
    BY <1>1, <1>2, GridStore
  <2> HIDE DEF b, g
  <2>3. IF v.col + 1 >= VGA_WIDTH THEN Goes(v, PutChar(v, c), GridOf(b), v.row + 2, 1)
                                  ELSE Goes(v, PutChar(v, c), GridOf(b), v.row + 1, v.col + 1 + 1)
    BY <1>1, <2>1, Lands
  <2>4. (v.col + 1 >= VGA_WIDTH <=> v.col + 2 > VGA_WIDTH) /\ v.col + 1 + 1 = v.col + 2
    BY <1>1
  <2>5. Advances(v, PutChar(v, c), g, v.col + 2)
    BY <2>2, <2>3, <2>4 DEF Advances
  <2> QED BY <1>3, <2>5 DEF Writes, g
<1>4. CASE c = NL
  <2>1. Typeset(v, c) = [v EXCEPT !.row = @ + 1, !.col = 0]
    BY <1>4, VgaAssumption DEF Typeset
  <2>2. Typeset(v, c) = [row |-> v.row + 1, col |-> 0, color |-> v.color, buffer |-> v.buffer,
                         cursor |-> v.cursor, shown |-> v.shown]
    BY <2>1 DEF Whole
  <2>3. IF 0 >= VGA_WIDTH THEN Goes(v, PutChar(v, c), GridOf(v.buffer), v.row + 1 + 2, 1)
                          ELSE Goes(v, PutChar(v, c), GridOf(v.buffer), v.row + 1 + 1, 0 + 1)
    BY <1>1, <2>2, Lands
  <2>4. ~ (0 >= VGA_WIDTH) /\ v.row + 1 + 1 = v.row + 2 /\ 0 + 1 = 1
    BY <1>1
  <2>5. Goes(v, PutChar(v, c), GridOf(v.buffer), v.row + 2, 1)
    BY <2>3, <2>4
  <2> QED BY <1>4, <2>5, VgaAssumption
<1>5. CASE c = CR
  <2>1. Typeset(v, c) = [v EXCEPT !.col = 0]
    BY <1>5, VgaAssumption DEF Typeset
  <2>2. Typeset(v, c) = [row |-> v.row, col |-> 0, color |-> v.color, buffer |-> v.buffer,
                         cursor |-> v.cursor, shown |-> v.shown]
    BY <2>1 DEF Whole
  <2>3. IF 0 >= VGA_WIDTH THEN Goes(v, PutChar(v, c), GridOf(v.buffer), v.row + 2, 1)
                          ELSE Goes(v, PutChar(v, c), GridOf(v.buffer), v.row + 1, 0 + 1)
    BY <1>1, <2>2, Lands
  <2>4. ~ (0 >= VGA_WIDTH) /\ 0 + 1 = 1
    BY <1>1
  <2>5. Goes(v, PutChar(v, c), GridOf(v.buffer), v.row + 1, 1)
    BY <2>3, <2>4
  <2> QED BY <1>5, <2>5, VgaAssumption
<1>6. CASE c = TAB
  <2> DEFINE x == Tabbed(v.col)
  <2>1. x \in Nat /\ x \in v.col + 1 .. v.col + 4 /\ x % 4 = 0
    BY <1>1 DEF Tabbed
  <2>2. Typeset(v, c) = [v EXCEPT !.col = Tabbed(@)]
    BY <1>6, VgaAssumption DEF Typeset
  <2>3. Typeset(v, c) = [row |-> v.row, col |-> x, color |-> v.color, buffer |-> v.buffer,
                         cursor |-> v.cursor, shown |-> v.shown]
    BY <2>2 DEF Whole
  <2> HIDE DEF x
  <2>4. IF x >= VGA_WIDTH THEN Goes(v, PutChar(v, c), GridOf(v.buffer), v.row + 2, 1)
                          ELSE Goes(v, PutChar(v, c), GridOf(v.buffer), v.row + 1, x + 1)
    BY <1>1, <2>1, <2>3, Lands
  <2>5. /\ x >= VGA_WIDTH <=> x + 1 > VGA_WIDTH
        /\ x + 1 \in v.col + 2 .. v.col + 5 /\ x + 1 - 1 = x
    BY <1>1, <2>1
  <2>6. Advances(v, PutChar(v, c), GridOf(v.buffer), x + 1)
    BY <2>4, <2>5 DEF Advances
  <2>7. Tabulates(v, PutChar(v, c))
    BY <2>1, <2>5, <2>6 DEF Tabulates
  <2> QED BY <1>6, <2>7, VgaAssumption
<1>7. CASE c = BS /\ v.col > 0
  <2> DEFINE b == [v.buffer EXCEPT ![Index(v.row, v.col - 1)] = Blank(v)]
             g == [GridOf(v.buffer) EXCEPT ![v.row + 1][v.col] = Entry(SPACE, v.color)]
  <2>1. Typeset(v, c) = [row |-> v.row, col |-> v.col - 1, color |-> v.color, buffer |-> b,
                         cursor |-> v.cursor, shown |-> v.shown]
    BY <1>7, StoresBlank
  <2>2. v.col - 1 \in Columns /\ v.col - 1 \in Nat /\ v.col - 1 + 1 = v.col
        /\ ~ (v.col - 1 >= VGA_WIDTH)
    BY <1>1, <1>7 DEF Columns
  <2>3. GridOf(b) = g
    <3>1. GridOf(b) = [GridOf(v.buffer) EXCEPT ![v.row + 1][v.col - 1 + 1] = Blank(v)]
      <4> DEFINE d == v.col - 1
                 e == Blank(v)
                 m == v.buffer
                 r == v.row
      <4>1. d \in Columns /\ r \in Rows /\ m = [i \in Cells |-> m[i]]
        BY <1>1, <1>2, <2>2
      <4> HIDE DEF d, e, m, r
      <4>2. GridOf([m EXCEPT ![Index(r, d)] = e]) = [GridOf(m) EXCEPT ![r + 1][d + 1] = e]
        BY <4>1, GridStore
      <4> QED BY <4>2 DEF d, e, m, r
    <3> QED BY <2>2, <3>1 DEF Blank
  <2> HIDE DEF b, g
  <2>4. IF v.col - 1 >= VGA_WIDTH THEN Goes(v, PutChar(v, c), GridOf(b), v.row + 2, 1)
                                  ELSE Goes(v, PutChar(v, c), GridOf(b), v.row + 1, v.col - 1 + 1)
    BY <1>1, <2>1, <2>2, Lands
  <2>5. Goes(v, PutChar(v, c), g, v.row + 1, v.col)
    BY <2>2, <2>3, <2>4
  <2> QED BY <1>7, <2>5, VgaAssumption DEF RubsOut, g
<1>8. CASE c = BS /\ ~ (v.col > 0)
  <2>1. Typeset(v, c) = v
    BY <1>1, <1>8, VgaAssumption DEF Typeset
  <2>2. Typeset(v, c) = [row |-> v.row, col |-> v.col, color |-> v.color, buffer |-> v.buffer,
                         cursor |-> v.cursor, shown |-> v.shown]
    BY <2>1 DEF Whole
  <2>3. IF v.col >= VGA_WIDTH THEN Goes(v, PutChar(v, c), GridOf(v.buffer), v.row + 2, 1)
                              ELSE Goes(v, PutChar(v, c), GridOf(v.buffer), v.row + 1, v.col + 1)
    BY <1>1, <2>2, Lands
  <2>4. Goes(v, PutChar(v, c), GridOf(v.buffer), v.row + 1, v.col + 1)
    BY <1>1, <2>3
  <2> QED BY <1>8, <2>4, VgaAssumption
<1> QED BY <1>3, <1>4, <1>5, <1>6, <1>7, <1>8

-----------------------------------------------------------------------------
(* The screen is a terminal.                                               *)

LEMMA GridView ==
  /\ [n \in 1 .. VGA_HEIGHT |-> Row(n)] = GridOf(vga.buffer)
  /\ [n \in 1 .. VGA_HEIGHT |-> Row(n)]' = GridOf(vga'.buffer)
  BY DEF Row, GridOf

LEMMA GoesView ==
  ASSUME NEW w, w = vga', NEW g, NEW n, NEW k, Goes(vga, w, g, n, k)
  PROVE  /\ TerminalView!Goto(g, n, k)
         /\ vga'.color = vga.color /\ vga'.shown = vga.shown
<1>1. [i \in 1 .. VGA_HEIGHT |-> Row(i)]' =
        IF n > VGA_HEIGHT THEN Append(Tail(g), EmptyLine(vga.color)) ELSE g
  BY GridView DEF Goes
<1>2. EmptyLine(vga.color) = TerminalView!Empty(vga.color)
  BY DEF EmptyLine, Entry, TerminalView!Empty, TerminalView!Ink
<1>3. /\ vga'.row + 1 = IF n > VGA_HEIGHT THEN VGA_HEIGHT ELSE n
      /\ vga'.col + 1 = k /\ vga'.color = vga.color /\ vga'.shown = vga.shown
  BY DEF Goes
<1>4. TerminalView!Goto(g, n, k)
  BY <1>1, <1>2, <1>3 DEF TerminalView!Goto
<1> QED BY <1>3, <1>4

LEMMA AdvancesView ==
  ASSUME Whole(vga), NEW w, w = vga', NEW g, NEW k, Advances(vga, w, g, k)
  PROVE  /\ TerminalView!Advance(g, k)
         /\ vga'.color = vga.color /\ vga'.shown = vga.shown
<1>1. vga.row + 1 + 1 = vga.row + 2
  BY VgaAssumption DEF Whole, Rows
<1>2. CASE k > VGA_WIDTH
  <2>1. Goes(vga, w, g, vga.row + 1 + 1, 1)
    BY <1>1, <1>2 DEF Advances
  <2> DEFINE n == vga.row + 1 + 1
  <2>2. TerminalView!Goto(g, n, 1) /\ vga'.color = vga.color /\ vga'.shown = vga.shown
    <3> HIDE DEF n
    <3> QED BY <2>1, GoesView DEF n
  <2> QED BY <1>2, <2>2 DEF TerminalView!Advance
<1>3. CASE ~ (k > VGA_WIDTH)
  <2>1. Goes(vga, w, g, vga.row + 1, k)
    BY <1>3 DEF Advances
  <2> DEFINE n == vga.row + 1
  <2>2. TerminalView!Goto(g, n, k) /\ vga'.color = vga.color /\ vga'.shown = vga.shown
    <3> HIDE DEF n
    <3> QED BY <2>1, GoesView DEF n
  <2> QED BY <1>3, <2>2 DEF TerminalView!Advance
<1> QED BY <1>2, <1>3

LEMMA CharView ==
  ASSUME Whole(vga), NEW c \in Glyphs \cup {NL, CR, TAB, BS}, vga' = PutChar(vga, c)
  PROVE  [TerminalView!Next]_(TerminalView!vars)
<1> PICK w : w = vga'
  OBVIOUS
<1> DEFINE G == [n \in 1 .. VGA_HEIGHT |-> Row(n)]
<1>1. G = GridOf(vga.buffer) /\ G' = GridOf(w.buffer)
  BY GridView
<1>2. /\ c \notin {NL, CR, TAB, BS} => Writes(vga, w, c)
      /\ c = NL => Goes(vga, w, GridOf(vga.buffer), vga.row + 2, 1)
      /\ c = CR => Goes(vga, w, GridOf(vga.buffer), vga.row + 1, 1)
      /\ c = TAB => Tabulates(vga, w)
      /\ c = BS => RubsOut(vga, w) \/ Goes(vga, w, GridOf(vga.buffer), vga.row + 1, vga.col + 1)
  BY CharGoes
<1>3. /\ vga.row \in Nat /\ vga.col \in Nat /\ vga.row < VGA_HEIGHT
      /\ vga.row + 1 + 1 = vga.row + 2 /\ vga.col + 1 + 1 = vga.col + 2
      /\ (vga.col + 1) - 1 = vga.col /\ vga.col + 1 + 4 = vga.col + 5
  BY VgaAssumption DEF Whole, Rows, Columns
<1>4. CASE c \notin {NL, CR, TAB, BS}
  <2>1. Advances(vga, w, [G EXCEPT ![vga.row + 1][vga.col + 1] = Entry(c, vga.color)], vga.col + 1 + 1)
    BY <1>1, <1>2, <1>3, <1>4 DEF Writes
  <2> DEFINE g == [G EXCEPT ![vga.row + 1][vga.col + 1] = Entry(c, vga.color)]
             k == vga.col + 1 + 1
  <2>2. TerminalView!Advance(g, k) /\ vga'.color = vga.color /\ vga'.shown = vga.shown
    <3> HIDE DEF g, k
    <3> QED BY <2>1, AdvancesView DEF g, k
  <2>3. TerminalView!Write(c)
    BY <2>2 DEF TerminalView!Write, TerminalView!Ink, Entry
  <2> QED BY <1>4, <2>2, <2>3 DEF TerminalView!Next
<1>5. CASE c = NL
  <2> DEFINE g == G
             n == vga.row + 1 + 1
  <2>1. Goes(vga, w, g, n, 1)
    BY <1>1, <1>2, <1>3, <1>5
  <2>2. TerminalView!Goto(g, n, 1) /\ vga'.color = vga.color /\ vga'.shown = vga.shown
    <3> HIDE DEF g, n
    <3> QED BY <2>1, GoesView
  <2>3. TerminalView!NewLine
    BY <2>2 DEF TerminalView!NewLine
  <2> QED BY <2>2, <2>3 DEF TerminalView!Next
<1>6. CASE c = CR
  <2> DEFINE g == G
             n == vga.row + 1
  <2>1. Goes(vga, w, g, n, 1)
    BY <1>1, <1>2, <1>6
  <2>2. TerminalView!Goto(g, n, 1) /\ vga'.color = vga.color /\ vga'.shown = vga.shown
    <3> HIDE DEF g, n
    <3> QED BY <2>1, GoesView
  <2>3. TerminalView!Return
    BY <2>2 DEF TerminalView!Return
  <2> QED BY <2>2, <2>3 DEF TerminalView!Next
<1>7. CASE c = TAB
  <2>1. PICK k \in vga.col + 2 .. vga.col + 5 : (k - 1) % 4 = 0 /\ Advances(vga, w, GridOf(vga.buffer), k)
    BY <1>2, <1>7 DEF Tabulates
  <2> DEFINE g == G
  <2>2. Advances(vga, w, g, k)
    BY <1>1, <2>1
  <2>3. TerminalView!Advance(g, k) /\ vga'.color = vga.color /\ vga'.shown = vga.shown
    <3> HIDE DEF g
    <3> QED BY <2>2, AdvancesView
  <2>4. k \in vga.col + 1 + 1 .. vga.col + 1 + 4
    BY <1>3
  <2>5. TerminalView!Tabulate
    BY <2>1, <2>3, <2>4 DEF TerminalView!Tabulate
  <2> QED BY <2>3, <2>5 DEF TerminalView!Next
<1>8. CASE c = BS /\ RubsOut(vga, w)
  <2> DEFINE g == [G EXCEPT ![vga.row + 1][(vga.col + 1) - 1] = Entry(SPACE, vga.color)]
             n == vga.row + 1
             k == (vga.col + 1) - 1
  <2>0. g = [GridOf(vga.buffer) EXCEPT ![vga.row + 1][vga.col] = Entry(SPACE, vga.color)]
        /\ k = vga.col
    BY <1>1, <1>3
  <2>1. Goes(vga, w, g, n, k)
    <3> HIDE DEF g, k
    <3> QED BY <1>8, <2>0 DEF RubsOut
  <2>2. TerminalView!Goto(g, n, k) /\ vga'.color = vga.color /\ vga'.shown = vga.shown
    <3> HIDE DEF g, n, k
    <3> QED BY <2>1, GoesView
  <2>3. vga.col + 1 > 1
    BY <1>3, <1>8 DEF RubsOut
  <2>4. TerminalView!RubOut
    BY <2>2, <2>3 DEF TerminalView!RubOut, TerminalView!Ink, Entry
  <2> QED BY <2>2, <2>4 DEF TerminalView!Next
<1>9. CASE c = BS /\ Goes(vga, w, GridOf(vga.buffer), vga.row + 1, vga.col + 1)
  <2>1. /\ GridOf(w.buffer) = GridOf(vga.buffer) /\ w.row + 1 = vga.row + 1
        /\ w.col + 1 = vga.col + 1 /\ w.color = vga.color /\ w.shown = vga.shown
    BY <1>3, <1>9, VgaAssumption DEF Goes
  <2> HIDE DEF G
  <2>2. UNCHANGED TerminalView!vars
    BY <1>1, <2>1 DEF TerminalView!vars, G
  <2> QED BY <2>2
<1> QED BY <1>2, <1>4, <1>5, <1>6, <1>7, <1>8, <1>9

LEMMA DivMod ==
  ASSUME NEW r \in Rows, NEW c \in Columns
  PROVE  Index(r, c) \div VGA_WIDTH = r /\ Index(r, c) % VGA_WIDTH = c
<1>1. /\ r \in Nat /\ c \in Nat /\ c < VGA_WIDTH /\ VGA_WIDTH \in Nat /\ VGA_WIDTH > 0
      /\ Index(r, c) \in Nat /\ Index(r, c) = Index(r, 0) + c
  BY OnScreen, Columned, VgaAssumption DEF Rows, Columns
<1> DEFINE x == Index(r, c)
           q == x \div VGA_WIDTH
           m == x % VGA_WIDTH
<1>2. q \in Nat /\ m \in Nat /\ m < VGA_WIDTH /\ x = q * VGA_WIDTH + m
  <2> HIDE DEF x
  <2>1. x \in Nat /\ VGA_WIDTH \in Nat /\ VGA_WIDTH > 0
    BY <1>1 DEF x
  <2> QED BY <2>1
<1>3. q * VGA_WIDTH = Index(q, 0)
  <2> HIDE DEF q
  <2>1. q * VGA_WIDTH \in Nat
    BY <1>1, <1>2
  <2> QED BY <2>1 DEF Index
<1> DEFINE s == Index(r, 0)
           t == Index(q, 0)
<1>4. s + c = t + m /\ s \in Nat /\ t \in Nat
  <2>1. s \in Nat
    BY <1>1, Columned
  <2>2. t \in Nat
    <3> HIDE DEF q
    <3> QED BY <1>2, Columned
  <2> HIDE DEF q, m
  <2> QED BY <1>1, <1>2, <1>3, <2>1, <2>2
<1> HIDE DEF q, m
<1>5. /\ r < q => s + VGA_WIDTH <= t
      /\ q < r => t + VGA_WIDTH <= s
      /\ r = q => s = t
  BY <1>1, <1>2, Below
<1> HIDE DEF s, t
<1>6. r = q
  BY <1>1, <1>2, <1>4, <1>5
<1>7. c = m
  BY <1>1, <1>2, <1>4, <1>5, <1>6
<1> QED BY <1>6, <1>7 DEF q, m

(* The screen w is v with glyphs of v's pen in the places from .. to of a  *)
(* line.                                                                   *)
Labelled(v, w, row, from, to) ==
  /\ w.row = v.row /\ w.col = v.col /\ w.color = v.color /\ w.shown = v.shown
  /\ \A n \in 1 .. VGA_HEIGHT, k \in 1 .. VGA_WIDTH :
       IF n = row + 1 /\ k \in from .. to
       THEN \E g \in Glyphs : w.buffer[Index(n - 1, k - 1)] = Entry(g, v.color)
       ELSE w.buffer[Index(n - 1, k - 1)] = v.buffer[Index(n - 1, k - 1)]

LEMMA LabelView ==
  ASSUME Whole(vga), NEW w, w = vga', NEW row \in Rows,
         NEW from \in 1 .. VGA_WIDTH, NEW to \in 1 .. VGA_WIDTH,
         Labelled(vga, w, row, from, to)
  PROVE  TerminalView!Next
<1> DEFINE G == [n \in 1 .. VGA_HEIGHT |-> Row(n)]
           g == GridOf(vga.buffer)
           h == GridOf(w.buffer)
           l == row + 1
<1>1. G = g /\ G' = h
  BY GridView
<1>2. l \in 1 .. VGA_HEIGHT
  BY GridPlaces
<1>3. /\ g = [n \in 1 .. VGA_HEIGHT |-> g[n]] /\ h = [n \in 1 .. VGA_HEIGHT |-> h[n]]
      /\ \A n \in 1 .. VGA_HEIGHT : /\ g[n] = [k \in 1 .. VGA_WIDTH |-> g[n][k]]
                                    /\ h[n] = [k \in 1 .. VGA_WIDTH |-> h[n][k]]
  BY DEF GridOf
<1>4. \A n \in 1 .. VGA_HEIGHT, k \in 1 .. VGA_WIDTH :
        IF n = l /\ k \in from .. to THEN \E c \in Glyphs : h[n][k] = Entry(c, vga.color)
                                     ELSE h[n][k] = g[n][k]
  BY DEF GridOf, Labelled
<1>5. \A k \in from .. to : k \in 1 .. VGA_WIDTH
  BY VgaAssumption
<1> HIDE DEF g, h, l
<1>6. \A k \in from .. to : \E c \in Glyphs : h[l][k] = Entry(c, vga.color)
  BY <1>2, <1>4, <1>5
<1>7. h = [g EXCEPT ![l] = [k \in 1 .. VGA_WIDTH |-> IF k \in from .. to THEN h[l][k] ELSE @[k]]]
  <2> DEFINE f == [k \in 1 .. VGA_WIDTH |-> IF k \in from .. to THEN h[l][k] ELSE g[l][k]]
  <2>1. h[l] = f
    <3>1. \A k \in 1 .. VGA_WIDTH : h[l][k] = IF k \in from .. to THEN h[l][k] ELSE g[l][k]
      BY <1>2, <1>4
    <3> QED BY <1>2, <1>3, <3>1
  <2>2. \A n \in 1 .. VGA_HEIGHT : n # l => h[n] = g[n]
    <3> TAKE n \in 1 .. VGA_HEIGHT
    <3> HAVE n # l
    <3>1. \A k \in 1 .. VGA_WIDTH : h[n][k] = g[n][k]
      BY <1>4
    <3>2. h[n] = [k \in 1 .. VGA_WIDTH |-> h[n][k]] /\ g[n] = [k \in 1 .. VGA_WIDTH |-> g[n][k]]
      BY <1>3
    <3> QED BY <3>1, <3>2
  <2>3. [g EXCEPT ![l] = f] = [n \in 1 .. VGA_HEIGHT |-> IF n = l THEN f ELSE g[n]]
    <3> HIDE DEF f
    <3> QED BY <1>3
  <2>4. h = [g EXCEPT ![l] = f]
    <3> HIDE DEF f
    <3> QED BY <1>3, <2>1, <2>2, <2>3
  <2> QED BY <2>4
<1>8. TerminalView!Label
  <2>1. \A k \in from .. to : \E c \in Glyphs : G'[l][k] = TerminalView!Ink(c, vga.color)
    BY <1>1, <1>6 DEF Entry, TerminalView!Ink
  <2>2. G' = [G EXCEPT ![l] = [k \in 1 .. VGA_WIDTH |-> IF k \in from .. to THEN G'[l][k] ELSE @[k]]]
    <3> HIDE DEF G
    <3> QED BY <1>1, <1>7
  <2>3. UNCHANGED <<vga.row + 1, vga.col + 1>>
    BY DEF Labelled
  <2> DEFINE Labels(n, a, b) ==
        /\ \A k \in a .. b : \E c \in Glyphs : G'[n][k] = TerminalView!Ink(c, vga.color)
        /\ G' = [G EXCEPT ![n] = [k \in 1 .. VGA_WIDTH |-> IF k \in a .. b THEN G'[n][k] ELSE @[k]]]
  <2>4. Labels(l, from, to)
    BY <2>1, <2>2
  <2> HIDE DEF Labels
  <2>5. \E n \in 1 .. VGA_HEIGHT, a, b \in 1 .. VGA_WIDTH : Labels(n, a, b)
    BY <1>2, <2>4
  <2> QED BY <2>3, <2>5, Zenon DEF TerminalView!Label, Labels
<1>9. UNCHANGED <<vga.color, vga.shown>>
  BY DEF Labelled
<1> QED BY <1>8, <1>9 DEF TerminalView!Next

LEMMA CursorView ==
  ASSUME Whole(vga), NEW row \in Nat, NEW col \in Nat, vga' = SetCursor(vga, row, col)
  PROVE  [TerminalView!Next]_(TerminalView!vars)
<1> PICK w : w = vga'
  OBVIOUS
<1>1. CASE row < VGA_HEIGHT /\ col < VGA_WIDTH
  <2>1. w = [row |-> row, col |-> col, color |-> vga.color, buffer |-> vga.buffer,
             cursor |-> Index(row, col), shown |-> vga.shown]
    BY <1>1 DEF Whole, SetCursor, UpdateCursor
  <2>2. row + 1 \in 1 .. VGA_HEIGHT /\ col + 1 \in 1 .. VGA_WIDTH /\ ~ (row + 1 > VGA_HEIGHT)
    BY <1>1, VgaAssumption
  <2> DEFINE G == [n \in 1 .. VGA_HEIGHT |-> Row(n)]
             g == G
             m == row + 1
             k == col + 1
  <2>3. Goes(vga, w, g, m, k)
    <3>1. G = GridOf(vga.buffer)
      BY GridView
    <3> HIDE DEF G
    <3> QED BY <2>1, <2>2, <3>1 DEF Goes
  <2>4. TerminalView!Goto(g, m, k) /\ vga'.color = vga.color /\ vga'.shown = vga.shown
    <3> HIDE DEF g, m, k
    <3> QED BY <2>3, GoesView
  <2>5. TerminalView!MoveTo
    BY <2>2, <2>4 DEF TerminalView!MoveTo
  <2> QED BY <2>4, <2>5 DEF TerminalView!Next
<1>2. CASE ~ (row < VGA_HEIGHT /\ col < VGA_WIDTH)
  <2>1. vga' = vga
    BY <1>2 DEF SetCursor
  <2> QED BY <2>1 DEF TerminalView!vars, Row
<1> QED BY <1>1, <1>2

LEMMA PutAtView ==
  ASSUME Whole(vga), NEW row \in Nat, NEW col \in Nat, NEW c \in Glyphs,
         vga' = PutAt(vga, row, col, c)
  PROVE  [TerminalView!Next]_(TerminalView!vars)
<1> PICK w : w = vga'
  OBVIOUS
<1>1. CASE row < VGA_HEIGHT /\ col < VGA_WIDTH
  <2>1. row \in Rows /\ col \in Columns /\ col + 1 \in 1 .. VGA_WIDTH
    BY <1>1, VgaAssumption DEF Rows, Columns
  <2>2. /\ w.row = vga.row /\ w.col = vga.col /\ w.color = vga.color /\ w.shown = vga.shown
        /\ w.buffer = [vga.buffer EXCEPT ![Index(row, col)] = Entry(c, vga.color)]
    BY <1>1 DEF Whole, PutAt
  <2>3. ASSUME NEW n \in 1 .. VGA_HEIGHT, NEW k \in 1 .. VGA_WIDTH
        PROVE  IF n = row + 1 /\ k \in col + 1 .. col + 1
               THEN \E g \in Glyphs : w.buffer[Index(n - 1, k - 1)] = Entry(g, vga.color)
               ELSE w.buffer[Index(n - 1, k - 1)] = vga.buffer[Index(n - 1, k - 1)]
    <3>1. n - 1 \in Rows /\ k - 1 \in Columns
      BY GridPlaces
    <3>2. Index(n - 1, k - 1) \in Cells
      BY <3>1, OnScreen
    <3>3. w.buffer[Index(n - 1, k - 1)] =
            IF Index(n - 1, k - 1) = Index(row, col) THEN Entry(c, vga.color)
            ELSE vga.buffer[Index(n - 1, k - 1)]
      BY <2>2, <3>2 DEF Whole
    <3>4. Index(n - 1, k - 1) = Index(row, col) => n - 1 = row /\ k - 1 = col
      BY <2>1, <3>1, OneCell
    <3>5. (n = row + 1 <=> n - 1 = row) /\ (k \in col + 1 .. col + 1 <=> k - 1 = col)
      BY VgaAssumption
    <3> QED BY <3>3, <3>4, <3>5
  <2> DEFINE at == col + 1
  <2>4. at \in 1 .. VGA_WIDTH
    BY <2>1
  <2>5. \A n \in 1 .. VGA_HEIGHT, k \in 1 .. VGA_WIDTH :
          IF n = row + 1 /\ k \in at .. at
          THEN \E g \in Glyphs : w.buffer[Index(n - 1, k - 1)] = Entry(g, vga.color)
          ELSE w.buffer[Index(n - 1, k - 1)] = vga.buffer[Index(n - 1, k - 1)]
    BY <2>3
  <2> HIDE DEF at
  <2>6. Labelled(vga, w, row, at, at)
    BY <2>2, <2>5 DEF Labelled
  <2>7. TerminalView!Next
    BY <2>1, <2>4, <2>6, LabelView
  <2> QED BY <2>7
<1>2. CASE ~ (row < VGA_HEIGHT /\ col < VGA_WIDTH)
  <2>1. vga' = vga
    BY <1>2 DEF PutAt
  <2> QED BY <2>1 DEF TerminalView!vars, Row
<1> QED BY <1>1, <1>2

LEMMA TextView ==
  ASSUME Whole(vga), NEW row \in Rows, NEW str \in Seq(Glyphs),
         vga' = PrintCentered(vga, row, str)
  PROVE  [TerminalView!Next]_(TerminalView!vars)
<1> PICK w : w = vga'
  OBVIOUS
<1> DEFINE col == IF VGA_WIDTH > Len(str) THEN (VGA_WIDTH - Len(str)) \div 2 ELSE 0
           len == Len(str)
           from == col + 1
           to == IF col + len > VGA_WIDTH THEN VGA_WIDTH ELSE col + len
<1>1. len \in Nat /\ VGA_WIDTH \in Nat /\ VGA_WIDTH > 0
  BY VgaAssumption
<1>2. col \in Nat /\ col < VGA_WIDTH
  <2>1. CASE VGA_WIDTH > len
    <3>1. (VGA_WIDTH - len) \in Nat /\ VGA_WIDTH - len > 0 /\ VGA_WIDTH - len <= VGA_WIDTH
      BY <1>1, <2>1
    <3>2. \A x \in Nat : x > 0 => x \div 2 \in Nat /\ x \div 2 < x
      OBVIOUS
    <3>3. (VGA_WIDTH - len) \div 2 \in Nat /\ (VGA_WIDTH - len) \div 2 < VGA_WIDTH - len
      BY <3>1, <3>2
    <3> QED BY <1>1, <2>1, <3>1, <3>3
  <2>2. CASE ~ (VGA_WIDTH > len)
    BY <1>1, <2>2
  <2> QED BY <2>1, <2>2
<1>3. w = PrintAt(vga, row, col, str)
  BY DEF PrintCentered
<1> HIDE DEF col
<1>4. /\ w.row = vga.row /\ w.col = vga.col /\ w.color = vga.color /\ w.shown = vga.shown
      /\ w.buffer = [i \in Cells |->
           IF i \div VGA_WIDTH = row /\ (i % VGA_WIDTH) - col \in 0 .. Len(str) - 1
           THEN Entry(str[(i % VGA_WIDTH) - col + 1], vga.color) ELSE vga.buffer[i]]
  BY <1>3 DEF Whole, PrintAt
<1>5. ASSUME NEW n \in 1 .. VGA_HEIGHT, NEW k \in 1 .. VGA_WIDTH
      PROVE  w.buffer[Index(n - 1, k - 1)] =
               IF n - 1 = row /\ (k - 1) - col \in 0 .. Len(str) - 1
               THEN Entry(str[(k - 1) - col + 1], vga.color)
               ELSE vga.buffer[Index(n - 1, k - 1)]
  <2> DEFINE i == Index(n - 1, k - 1)
  <2>1. n - 1 \in Rows /\ k - 1 \in Columns
    BY GridPlaces
  <2>2. i \in Cells
    BY <2>1, OnScreen
  <2>3. i \div VGA_WIDTH = n - 1 /\ i % VGA_WIDTH = k - 1
    BY <2>1, DivMod
  <2> HIDE DEF i
  <2>4. w.buffer[i] = IF i \div VGA_WIDTH = row /\ (i % VGA_WIDTH) - col \in 0 .. Len(str) - 1
                      THEN Entry(str[(i % VGA_WIDTH) - col + 1], vga.color) ELSE vga.buffer[i]
    BY <1>4, <2>2
  <2>5. w.buffer[i] = IF n - 1 = row /\ (k - 1) - col \in 0 .. Len(str) - 1
                      THEN Entry(str[(k - 1) - col + 1], vga.color) ELSE vga.buffer[i]
    BY <2>3, <2>4
  <2> QED BY <2>5 DEF i
<1>6. CASE len = 0
  <2>1. \A n \in 1 .. VGA_HEIGHT, k \in 1 .. VGA_WIDTH :
          w.buffer[Index(n - 1, k - 1)] = vga.buffer[Index(n - 1, k - 1)]
    <3> TAKE n \in 1 .. VGA_HEIGHT, k \in 1 .. VGA_WIDTH
    <3>1. ~ ((k - 1) - col \in 0 .. Len(str) - 1)
      BY <1>1, <1>6
    <3> QED BY <1>5, <3>1
  <2>2. GridOf(w.buffer) = GridOf(vga.buffer)
    BY <2>1 DEF GridOf
  <2> DEFINE G == [n \in 1 .. VGA_HEIGHT |-> Row(n)]
  <2>3. G' = G
    BY <2>2, GridView
  <2> HIDE DEF G
  <2> QED BY <1>4, <2>3 DEF TerminalView!vars, G
<1>7. CASE len # 0
  <2>1. from \in 1 .. VGA_WIDTH /\ to \in 1 .. VGA_WIDTH
    BY <1>1, <1>2, <1>7
  <2>2. ASSUME NEW n \in 1 .. VGA_HEIGHT, NEW k \in 1 .. VGA_WIDTH
        PROVE  IF n = row + 1 /\ k \in from .. to
               THEN \E g \in Glyphs : w.buffer[Index(n - 1, k - 1)] = Entry(g, vga.color)
               ELSE w.buffer[Index(n - 1, k - 1)] = vga.buffer[Index(n - 1, k - 1)]
    <3>1. n = row + 1 <=> n - 1 = row
      BY GridPlaces, VgaAssumption
    <3>2. k \in from .. to <=> (k - 1) - col \in 0 .. Len(str) - 1
      BY <1>1, <1>2, <1>7
    <3>3. (k - 1) - col \in 0 .. Len(str) - 1 => str[(k - 1) - col + 1] \in Glyphs
      <4>1. (k - 1) - col \in 0 .. Len(str) - 1 => (k - 1) - col + 1 \in 1 .. Len(str)
        BY <1>1, <1>2
      <4> QED BY <4>1
    <3> HIDE DEF from, to
    <3> QED BY <1>5, <3>1, <3>2, <3>3
  <2> HIDE DEF from, to
  <2>3. \A n \in 1 .. VGA_HEIGHT, k \in 1 .. VGA_WIDTH :
               IF n = row + 1 /\ k \in from .. to
               THEN \E g \in Glyphs : w.buffer[Index(n - 1, k - 1)] = Entry(g, vga.color)
               ELSE w.buffer[Index(n - 1, k - 1)] = vga.buffer[Index(n - 1, k - 1)]
    BY <2>2
  <2>4. Labelled(vga, w, row, from, to)
    BY <1>4, <2>3 DEF Labelled
  <2>5. TerminalView!Next
    BY <2>1, <2>4, LabelView
  <2> QED BY <2>5
<1> QED BY <1>6, <1>7

(* The screen is cleared, and the cursor is shown, hidden or left alone.   *)
LEMMA WipeView ==
  ASSUME Whole(vga), Inked(vga), NEW x \in BOOLEAN, NEW w, w = vga',
         w = [Clear(vga) EXCEPT !.shown = x]
  PROVE  TerminalView!Next
<1> DEFINE z == Clear(vga)
           cells == [i \in Cells |-> Blank(vga)]
<1>1. /\ z.row = 0 /\ z.col = 0 /\ z.color = vga.color /\ z.buffer = cells
      /\ DOMAIN z = {"row", "col", "color", "buffer", "cursor", "shown"}
  <2> HIDE DEF cells
  <2>1. vga = [row |-> vga.row, col |-> vga.col, color |-> vga.color, buffer |-> vga.buffer,
               cursor |-> vga.cursor, shown |-> vga.shown]
    BY DEF Whole
  <2> QED BY <2>1 DEF Clear, UpdateCursor, cells
<1>2. w.row = 0 /\ w.col = 0 /\ w.color = vga.color /\ w.shown = x
      /\ w.buffer = [i \in Cells |-> Blank(vga)]
  <2>1. w = [z EXCEPT !.shown = x]
    OBVIOUS
  <2> HIDE DEF z, cells
  <2> QED BY <1>1, <2>1 DEF cells
<1>3. GridOf(w.buffer) = [n \in 1 .. VGA_HEIGHT |-> EmptyLine(vga.color)]
  <2>1. \A n \in 1 .. VGA_HEIGHT, k \in 1 .. VGA_WIDTH :
          w.buffer[Index(n - 1, k - 1)] = Entry(SPACE, vga.color)
    BY <1>2, GridPlaces, OnScreen DEF Blank
  <2> QED BY <2>1 DEF GridOf, EmptyLine
<1>4. TerminalView!Wiped = [n \in 1 .. VGA_HEIGHT |-> EmptyLine(vga.color)]
  BY DEF TerminalView!Wiped, TerminalView!Empty, TerminalView!Ink, EmptyLine, Entry
<1>5. [n \in 1 .. VGA_HEIGHT |-> Row(n)]' = TerminalView!Wiped
  BY <1>3, <1>4, GridView
<1>6. vga'.row + 1 = 1 /\ vga'.col + 1 = 1
  BY <1>2
<1>7. TerminalView!Wipe
  BY <1>5, <1>6 DEF TerminalView!Wipe
<1>8. vga'.color \in Colors /\ vga'.shown \in BOOLEAN
  BY <1>2 DEF Inked
<1> QED BY <1>7, <1>8 DEF TerminalView!Next

LEMMA StillView ==
  ASSUME vga' = vga
  PROVE  [TerminalView!Next]_(TerminalView!vars)
  BY DEF TerminalView!vars, Row

LEMMA ColorView ==
  ASSUME Whole(vga), Inked(vga), NEW n \in Colors, vga' = SetColor(vga, n)
  PROVE  [TerminalView!Next]_(TerminalView!vars)
<1> PICK w : w = vga'
  OBVIOUS
<1> DEFINE G == [i \in 1 .. VGA_HEIGHT |-> Row(i)]
<1>1. w.row = vga.row /\ w.col = vga.col /\ w.color = n /\ w.shown = vga.shown
      /\ w.buffer = vga.buffer
  BY DEF Whole, SetColor
<1>2. G' = G
  BY <1>1, GridView
<1>3. vga'.color \in Colors /\ vga'.shown \in BOOLEAN
  BY <1>1 DEF Inked
<1> HIDE DEF G
<1>4. UNCHANGED <<G, vga.row + 1, vga.col + 1>>
  BY <1>1, <1>2
<1> QED BY <1>3, <1>4 DEF TerminalView!Next, G

(* What the screen looks like when it has been cleared, and the cursor     *)
(* shown or hidden.                                                        *)
LEMMA ClearedScreens ==
  ASSUME NEW v, Whole(v), Inked(v)
  PROVE  /\ Clear(v) = [Clear(v) EXCEPT !.shown = v.shown] /\ v.shown \in BOOLEAN
         /\ ShowCursor(Clear(v)) = [Clear(v) EXCEPT !.shown = TRUE]
         /\ HideCursor(Clear(v)) = [Clear(v) EXCEPT !.shown = FALSE]
<1>1. Clear(v).shown = v.shown
  <2>1. v = [row |-> v.row, col |-> v.col, color |-> v.color, buffer |-> v.buffer,
             cursor |-> v.cursor, shown |-> v.shown]
    BY DEF Whole
  <2> DEFINE cells == [i \in Cells |-> Blank(v)]
  <2> HIDE DEF cells
  <2> QED BY <2>1 DEF Clear, UpdateCursor, cells
<1>2. Whole(Clear(v))
  BY DrawsWhole
<1>3. ASSUME NEW z, Whole(z) PROVE z = [z EXCEPT !.shown = z.shown]
  BY <1>3 DEF Whole
<1>4. Clear(v) = [Clear(v) EXCEPT !.shown = Clear(v).shown]
  BY <1>2, <1>3
<1> QED BY <1>1, <1>4 DEF ShowCursor, HideCursor, Inked

LEMMA TerminalStep == TInv /\ [Next]_vars => [TerminalView!Next]_(TerminalView!vars)
<1> SUFFICES ASSUME TInv, [Next]_vars PROVE [TerminalView!Next]_(TerminalView!vars)
  OBVIOUS
<1> DEFINE Goal == [TerminalView!Next]_(TerminalView!vars)
<1>1. Whole(vga) /\ Inked(vga) /\ out \in Seq(Part)
  BY DEF TInv, IInv
<1>2. CASE DrawCursor
  <2>1. PICK spot \in Spots : vga' = SetCursor(vga, spot[1], spot[2])
    BY <1>2 DEF DrawCursor
  <2>2. spot[1] \in Nat /\ spot[2] \in Nat
    BY ConsoleAssumption
  <2> QED BY <1>1, <2>1, <2>2, CursorView
<1>3. CASE DrawText
  <2>1. PICK row \in Rows, str \in Figures : vga' = PrintCentered(vga, row, str)
    BY <1>3 DEF DrawText
  <2>2. str \in Seq(Glyphs)
    BY ConsoleAssumption
  <2> QED BY <1>1, <2>1, <2>2, TextView
<1>4. CASE DrawAt
  <2>1. PICK spot \in Spots, c \in Glyphs : vga' = PutAt(vga, spot[1], spot[2], c)
    BY <1>4 DEF DrawAt
  <2>2. spot[1] \in Nat /\ spot[2] \in Nat
    BY ConsoleAssumption
  <2> QED BY <1>1, <2>1, <2>2, PutAtView
<1>5. ASSUME NEW x \in BOOLEAN, vga' = [Clear(vga) EXCEPT !.shown = x] PROVE Goal
  BY <1>1, <1>5, WipeView
<1>6. CASE DrawEnd
  <2>1. vga' = [Clear(vga) EXCEPT !.shown = TRUE]
    BY <1>1, <1>6, ClearedScreens DEF DrawEnd
  <2> HIDE DEF Goal
  <2>2. Goal
    BY <1>5, <2>1
  <2> QED BY <2>2 DEF Goal
<1>7. CASE Output
  <2>1. out[1] \in Part /\ Head(out) = out[1]
    BY <1>1, <1>7 DEF Output
  <2>2. CASE out[1].do = "color"
    <3>1. out[1].what \in Colors
      BY <2>1, <2>2 DEF Part
    <3>2. vga' = SetColor(vga, out[1].what)
      BY <1>7, <2>1, <2>2 DEF Output
    <3> QED BY <1>1, <3>1, <3>2, ColorView
  <2>3. CASE out[1].do # "color"
    <3>1. out[1].what \in Glyphs \cup {NL, CR, TAB, BS}
      BY <2>1, <2>3, ConsoleAssumption DEF Part, Letter
    <3>2. vga' = PutChar(vga, out[1].what)
      BY <1>7, <2>1, <2>3 DEF Output
    <3> QED BY <1>1, <3>1, <3>2, CharView
  <2> QED BY <2>2, <2>3
<1>8. CASE Prompt \/ Ask \/ Finish \/ Stopped \/ UNCHANGED vars
  <2>1. vga' = vga
    BY <1>8 DEF Prompt, Ask, Finish, Stopped, vars
  <2> QED BY <2>1, StillView
<1>9. CASE Enter \/ Backspace \/ \E ch \in Typeable : Type(ch)
  <2>1. PICK ch \in Typeable \cup {NL, BS} : vga' = PutChar(vga, ch)
    BY <1>9 DEF Enter, Backspace, Type, Echo
  <2>2. ch \in Glyphs \cup {NL, CR, TAB, BS}
    BY <2>1, ConsoleAssumption
  <2> QED BY <1>1, <2>1, <2>2, CharView
<1>10. CASE Execute
  <2>1. \/ vga' = vga
        \/ vga' = Clear(vga)
        \/ vga' = HideCursor(Clear(vga))
    BY <1>10 DEF Execute, ExecuteNothing, ExecuteUnknown, ExecuteEcho, ExecuteColor, ExecuteClear,
                 ExecuteReport, ExecuteCat, ExecuteDraw, ExecuteReboot, ExecuteHalt, Says
  <2>2. CASE vga' = vga
    BY <2>2, StillView
  <2>3. CASE vga' # vga
    <3>1. vga.shown \in BOOLEAN
      BY <1>1 DEF Inked
    <3>2. \/ vga' = [Clear(vga) EXCEPT !.shown = vga.shown]
          \/ vga' = [Clear(vga) EXCEPT !.shown = FALSE]
      BY <1>1, <2>1, <2>3, ClearedScreens
    <3> HIDE DEF Goal
    <3>3. Goal
      BY <1>5, <3>1, <3>2
    <3> QED BY <3>3 DEF Goal
  <2> QED BY <2>2, <2>3
<1> QED BY <1>2, <1>3, <1>4, <1>6, <1>7, <1>8, <1>9, <1>10 DEF Next

LEMMA TerminalStart == Init => TerminalView!Init
<1> SUFFICES ASSUME Init PROVE TerminalView!Init
  OBVIOUS
<1> DEFINE v == [row |-> 0, col |-> 0, color |-> WHITE, cursor |-> 0, shown |-> TRUE,
                 buffer |-> [i \in Cells |-> Entry(SPACE, WHITE)]]
           z == Clear(v)
<1>1. vga = HideCursor(z)
  BY DEF Init
<1>2. z.row = 0 /\ z.col = 0 /\ z.color = WHITE /\ z.buffer = [i \in Cells |-> Entry(SPACE, WHITE)]
      /\ DOMAIN z = {"row", "col", "color", "buffer", "cursor", "shown"}
  <2> DEFINE cells == [i \in Cells |-> Blank(v)]
  <2>1. v.color = WHITE /\ cells = [i \in Cells |-> Entry(SPACE, WHITE)]
        /\ v = [row |-> v.row, col |-> v.col, color |-> v.color, buffer |-> v.buffer,
                cursor |-> v.cursor, shown |-> v.shown]
    BY DEF Blank
  <2> HIDE DEF v
  <2>2. z.row = 0 /\ z.col = 0 /\ z.color = WHITE /\ z.buffer = cells
        /\ DOMAIN z = {"row", "col", "color", "buffer", "cursor", "shown"}
    <3> HIDE DEF cells
    <3> QED BY <2>1 DEF Clear, UpdateCursor, cells
  <2> QED BY <2>1, <2>2
<1> HIDE DEF z
<1>3. /\ vga.row = 0 /\ vga.col = 0 /\ vga.color = WHITE /\ vga.shown = FALSE
      /\ vga.buffer = [i \in Cells |-> Entry(SPACE, WHITE)]
  BY <1>1, <1>2 DEF HideCursor
<1>4. [n \in 1 .. VGA_HEIGHT |-> Row(n)] = [n \in 1 .. VGA_HEIGHT |-> EmptyLine(WHITE)]
  <2>1. \A n \in 1 .. VGA_HEIGHT, k \in 1 .. VGA_WIDTH :
          vga.buffer[Index(n - 1, k - 1)] = Entry(SPACE, WHITE)
    BY <1>3, GridPlaces, OnScreen
  <2> QED BY <2>1 DEF Row, EmptyLine
<1>5. TerminalView!Wiped = [n \in 1 .. VGA_HEIGHT |-> EmptyLine(WHITE)]
  BY <1>3 DEF TerminalView!Wiped, TerminalView!Empty, TerminalView!Ink, EmptyLine, Entry
<1>6. WHITE \in Colors
  BY ConsoleAssumption
<1>7. vga.row + 1 = 1 /\ vga.col + 1 = 1
  BY <1>3
<1>9. vga.color \in Colors /\ vga.shown \in BOOLEAN
  BY <1>3, <1>6, Zenon
<1>8. [n \in 1 .. VGA_HEIGHT |-> Row(n)] = TerminalView!Wiped
  BY <1>4, <1>5
<1> QED BY <1>7, <1>8, <1>9, Zenon DEF TerminalView!Init

(* The screen is a terminal: every call of the driver, of whatever         *)
(* component, writes, moves, wipes or labels as the abstract terminal may, *)
(* the wrap, the scroll and the erasure in place included                  *)
(* (vga.c:64-140).                                                         *)
THEOREM ScreenIsTerminal == Spec => ImplementsTerminal
<1>1. Init => TerminalView!Init
  BY TerminalStart
<1>2. TInv /\ [Next]_vars => [TerminalView!Next]_(TerminalView!vars)
  BY TerminalStep
<1> QED BY <1>1, <1>2, TInvInit, TInvStep, PTL DEF Spec, ImplementsTerminal, TerminalView!Spec
=============================================================================
