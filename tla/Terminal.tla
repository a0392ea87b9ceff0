------------------------------ MODULE Terminal ------------------------------
(***************************************************************************)
(* What the screen promises: a grid with a cursor on it.  A character goes *)
(* to the cursor's place, and the cursor to the next; at the end of a line *)
(* it goes to the next line, and at the end of the last one the grid moves *)
(* up.                                                                     *)
(***************************************************************************)
EXTENDS Integers, Sequences

CONSTANTS Width, Height, Glyphs, Space, Pens, TabStop

VARIABLES
  grid,        \* the lines from top to bottom, each a sequence of cells
  line,        \* the cursor is on this line of the grid,
  place,       \* at this place
  pen,         \* the colour of what is written next
  visible      \* whether the user sees the cursor

vars == <<grid, line, place, pen, visible>>

Ink(g, p)  == [char |-> g, color |-> p]
Empty(p)   == [k \in 1 .. Width |-> Ink(Space, p)]
Wiped      == [k \in 1 .. Height |-> Empty(pen)]

(* The cursor goes to place k of line n of g, where n may be one too many. *)
Goto(g, n, k) ==
  /\ grid' = IF n > Height THEN Append(Tail(g), Empty(pen)) ELSE g
  /\ line' = IF n > Height THEN Height ELSE n
  /\ place' = k

Advance(g, k) == IF k > Width THEN Goto(g, line + 1, 1) ELSE Goto(g, line, k)

Write(g)  == Advance([grid EXCEPT ![line][place] = Ink(g, pen)], place + 1)
NewLine   == Goto(grid, line + 1, 1)
Return    == Goto(grid, line, 1)
Tabulate  == \E k \in place + 1 .. place + TabStop :
               (k - 1) % TabStop = 0 /\ Advance(grid, k)
RubOut    == /\ place > 1
             /\ Goto([grid EXCEPT ![line][place - 1] = Ink(Space, pen)], line, place - 1)
Wipe      == grid' = Wiped /\ line' = 1 /\ place' = 1
MoveTo    == \E n \in 1 .. Height, k \in 1 .. Width : Goto(grid, n, k)

(* A label is written on a part of a line, wherever the cursor is.         *)
Label ==
  /\ UNCHANGED <<line, place>>
  /\ \E n \in 1 .. Height, from, to \in 1 .. Width :
       /\ \A k \in from .. to : \E g \in Glyphs : grid'[n][k] = Ink(g, pen)
       /\ grid' = [grid EXCEPT ![n] = [k \in 1 .. Width |->
                      IF k \in from .. to THEN grid'[n][k] ELSE @[k]]]

Init ==
  /\ pen \in Pens /\ grid = Wiped /\ line = 1 /\ place = 1
  /\ visible \in BOOLEAN

Next ==
  \/ /\ UNCHANGED <<pen, visible>>
     /\ \/ \E g \in Glyphs : Write(g)
        \/ NewLine \/ Return \/ Tabulate \/ RubOut \/ MoveTo \/ Label
  \/ (Wipe \/ UNCHANGED <<grid, line, place>>) /\ pen' \in Pens /\ visible' \in BOOLEAN

Spec == Init /\ [][Next]_vars
=============================================================================
