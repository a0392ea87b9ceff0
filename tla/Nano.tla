-------------------------------- MODULE Nano --------------------------------
(***************************************************************************)
(* The editor, cmd_nano in kernel/shell.c, over the RAM file system: an    *)
(* array of line buffers, the line and column of the cursor, and the file  *)
(* of module RamFS that is loaded and saved.                               *)
(*                                                                         *)
(* Each turn of the editor's loop is a step: it draws the screen, waits    *)
(* for a key and handles it.  The drawing, Draw, changes nothing but the   *)
(* screen, which it clears first; so the screen is not a variable.  The    *)
(* NANO_MAX_LINES line buffers are taken as allocated.                     *)
(***************************************************************************)
EXTENDS Integers, Sequences, SequencesExt

CONSTANTS
  NANO_MAX_LINES, NANO_LINE_LEN,
  Typed,           \* printable characters of the keyboard
  Chars,           \* all that memory and names can hold, Typed and NL among them
  NL,
  Stale,           \* what a fresh buffer may hold in front of its first NUL
  VGA_WIDTH, VGA_HEIGHT, VISIBLE,   \* the screen, and the rows for the text
  SPACE, Title, Mark, Status,       \* the texts of the two bars
  NameText,        \* the characters of each name
  NameRoom,        \* the columns the title bar keeps for it
  Before,          \* what the screen may show before it is drawn
  FS_MAX_FILES, FS_MAX_FILESIZE, Names, TooLong, Junk, Pointers, NULL

ASSUME NanoAssumption ==
  /\ NANO_MAX_LINES \in Nat \ {0}
  /\ NANO_LINE_LEN \in Nat \ {0}
  /\ Typed \subseteq Chars /\ NL \in Chars \ Typed
  /\ Stale \subseteq Seq(Chars)
  /\ FS_MAX_FILES \in Nat /\ FS_MAX_FILESIZE \in Nat /\ NULL \notin Pointers
  /\ NANO_MAX_LINES * NANO_LINE_LEN <= FS_MAX_FILESIZE

VARIABLES
  lines, num_lines, cur_line, cur_col, modified, running,
  filename,                                   \* argv[1] of the command
  file_table, current_dir, heap, result       \* see module RamFS

fs     == <<file_table, current_dir, heap, result>>
editor == <<lines, num_lines, cur_line, cur_col, modified, running, filename>>
vars   == <<editor, fs>>

FS == INSTANCE RamFS WITH
        Data <- {}, NameLength <- [n \in Names |-> 1], BufferSize <- 1

WHITE  == "white"
Glyphs == (Chars \ {NL, "CR", "TAB", "BS"}) \cup {SPACE}
Scr == INSTANCE Vga WITH
         Colors <- {WHITE, "black on white", "black on grey"},
         CR <- "CR", TAB <- "TAB", BS <- "BS"

(* The two rows below the text are the status bar and one that is not used *)
(* (shell.c:684, 693).  A name that the file system takes leaves room in   *)
(* its row for the rest of the title (FS_MAX_FILENAME); one that it does   *)
(* not is as long as the shell's line allows, a fraction of the screen     *)
(* (SHELL_BUFFER_SIZE).  Of the control characters the line can have a CR  *)
(* in an argument: its end and erased characters are not in it, and a TAB  *)
(* ends the argument.                                                      *)
ASSUME ScreenAssumption ==
  /\ VGA_WIDTH \in Nat /\ NANO_LINE_LEN <= VGA_WIDTH
  /\ VISIBLE \in Nat /\ VISIBLE + 3 = VGA_HEIGHT
  /\ SPACE \notin {NL, "CR", "TAB", "BS"} /\ NL \notin {"CR", "TAB", "BS"}
  /\ Title \in Seq(Glyphs) /\ Mark \in Seq(Glyphs) /\ Status \in Seq(Glyphs)
  /\ NameText \in [Names \cup {TooLong} -> Seq(Glyphs \cup {"CR"})] /\ NameRoom \in Nat
  /\ Len(Title) + NameRoom + Len(Mark) <= VGA_WIDTH
  /\ \A n \in Names : Len(Title) + Len(NameText[n]) + Len(Mark) <= VGA_WIDTH
  /\ Len(Title) + Len(NameText[TooLong]) + Len(Mark) < VGA_WIDTH * VGA_HEIGHT
  /\ Len(Status) < VGA_WIDTH
  /\ Before \subseteq Scr!Screen

LineIndex == 0 .. NANO_MAX_LINES - 1
Empty     == [i \in LineIndex |-> <<>>]

Init ==
  /\ FS!Init
  /\ lines = Empty /\ num_lines = 1
  /\ cur_line = 0 /\ cur_col = 0
  /\ modified = FALSE /\ running = FALSE
  /\ filename = FS!BLANK

Least(m, n)  == IF m < n THEN m ELSE n
Cut(text, n) == SubSeq(text, 1, Least(Len(text), n))

-----------------------------------------------------------------------------
(* Loading                                                                 *)

(* The line a byte of the file is on, its line end being on it too.        *)
LineOf(bytes, j) == Cardinality({i \in 1 .. j - 1 : bytes[i] = NL})

(* How many lines the file has; a last one needs no end.                   *)
Count(bytes) ==
  IF bytes = <<>> THEN 0
  ELSE LineOf(bytes, Len(bytes) + 1) + (IF Last(bytes) = NL THEN 0 ELSE 1)

(* The first NANO_LINE_LEN - 1 bytes of line n.                            *)
LineText(bytes, n) ==
  LET at == {j \in DOMAIN bytes : LineOf(bytes, j) = n /\ bytes[j] # NL}
  IN  IF at = {} THEN <<>> ELSE Cut(SubSeq(bytes, Min(at), Max(at)), NANO_LINE_LEN - 1)

Parsed(bytes) == [i \in LineIndex |-> LineText(bytes, i)]

ParsedLinesZero(bytes) == Least(Count(bytes), NANO_MAX_LINES)
ParsedLines(bytes) ==
  IF Count(bytes) = 0 THEN 1 ELSE Least(Count(bytes), NANO_MAX_LINES)

(* The bytes cmd_nano finds in its buffer, up to the first NUL, after      *)
(* fs_read: those of the file, or, when the file has lost its region,      *)
(* whatever the buffer held before.                                        *)
MayRead(s) ==
  LET f == file_table[s]
  IN  IF f.data # NULL THEN {FS!Copied(s, f.size, 0)}
      ELSE {Cut(bytes, f.size) : bytes \in Stale}

Start(n, ls, count) ==
  /\ ~running /\ running' = TRUE
  /\ filename' = n
  /\ lines' = ls /\ num_lines' = count
  /\ cur_line' = 0 /\ cur_col' = 0
  /\ modified' = FALSE

(* fs_create's result is ignored: there may be no file afterwards.         *)
OpenNew(n) ==
  /\ ~FS!Exists(n)
  /\ FS!Create(n)
  /\ Start(n, Empty, 1)

(* A file is not read when it is empty, and not when there is no memory.   *)
OpenUnread(n) ==
  /\ FS!Exists(n)
  /\ Start(n, Empty, 1)
  /\ UNCHANGED fs

OpenRead(n) ==
  /\ FS!Exists(n) /\ file_table[FS!Find(n)].size > 0
  /\ \E bytes \in MayRead(FS!Find(n)) : Start(n, Parsed(bytes), ParsedLines(bytes))
  /\ result' = file_table[FS!Find(n)].size
  /\ UNCHANGED <<file_table, current_dir, heap>>

-----------------------------------------------------------------------------
(* Keys.  The bounds checks at the end of the loop are part of each.       *)

Within(x, m) == IF x < 0 THEN 0 ELSE IF x > m THEN m ELSE x
Cursor(line, col) ==
  /\ cur_line' = Within(line, num_lines' - 1)
  /\ cur_col' = Within(col, Len(lines'[cur_line']))

line       == lines[cur_line]
LineBefore == SubSeq(line, 1, cur_col)
LineAfter  == SubSeq(line, cur_col + 1, Len(line))

Edited == running /\ modified' = TRUE /\ UNCHANGED <<running, filename, fs>>

Backspace ==
  /\ cur_col > 0
  /\ lines' = [lines EXCEPT ![cur_line] = Front(LineBefore) \o LineAfter]
  /\ num_lines' = num_lines
  /\ Cursor(cur_line, cur_col - 1)
  /\ Edited

(* Backspace in the first column: the line is appended to the one above,   *)
(* and those below move up.                                                *)
Joined == [i \in LineIndex |->
  IF i = cur_line - 1 THEN lines[i] \o lines[i + 1]
  ELSE IF i >= cur_line /\ i < num_lines - 1 THEN lines[i + 1]
  ELSE IF i = num_lines - 1 THEN <<>>
  ELSE lines[i]]
Merge ==
  /\ cur_col = 0 /\ cur_line > 0
  /\ lines' = Joined
  /\ num_lines' = num_lines - 1
  /\ Cursor(cur_line - 1, Len(lines[cur_line - 1]))
  /\ Edited

(* Enter: the line is split at the cursor, and those below move down.      *)
SplitOverwriting == [i \in LineIndex |->
  IF i = cur_line THEN LineBefore
  ELSE IF i = cur_line + 1 THEN LineAfter
  ELSE lines[i]]
Split == [i \in LineIndex |->
  IF i = cur_line THEN LineBefore
  ELSE IF i = cur_line + 1 THEN LineAfter
  ELSE IF i > cur_line + 1 /\ i <= num_lines THEN lines[i - 1]
  ELSE lines[i]]
Enter ==
  /\ num_lines < NANO_MAX_LINES
  /\ lines' = Split
  /\ num_lines' = num_lines + 1
  /\ Cursor(cur_line + 1, 0)
  /\ Edited

InsertAtColumn(ch) ==
  /\ cur_col < NANO_LINE_LEN - 1
  /\ lines' = [lines EXCEPT ![cur_line] = Append(LineBefore, ch) \o LineAfter]
  /\ num_lines' = num_lines
  /\ Cursor(cur_line, cur_col + 1)
  /\ Edited
Insert(ch) ==
  /\ Len(line) < NANO_LINE_LEN - 1
  /\ lines' = [lines EXCEPT ![cur_line] = Append(LineBefore, ch) \o LineAfter]
  /\ num_lines' = num_lines
  /\ Cursor(cur_line, cur_col + 1)
  /\ Edited

(* What a save writes: every line with its end.                            *)
TextBetween(ls, n) ==
  FlattenSeq([k \in 1 .. n |-> IF k < n THEN Append(ls[k - 1], NL) ELSE ls[k - 1]])
Text(ls, n) == FlattenSeq([k \in 1 .. n |-> Append(ls[k - 1], NL)])
Content == Text(lines, num_lines)

(* A save without memory for its content, or without a file, does nothing; *)
(* otherwise modified is cleared, whatever fs_write returned.              *)
Save ==
  /\ running /\ FS!Exists(filename)
  /\ FS!Write(FS!Find(filename), Content)
  /\ modified' = FALSE
  /\ UNCHANGED <<lines, num_lines, running, filename>>
  /\ Cursor(cur_line, cur_col)

Exit ==
  /\ running /\ running' = FALSE
  /\ UNCHANGED <<lines, num_lines, modified, filename, fs>>
  /\ Cursor(cur_line, cur_col)

-----------------------------------------------------------------------------
(* The screen at the beginning of a turn: the title, the first lines, the  *)
(* status and the cursor.                                                  *)
TitleBar ==
  LET name == NameText[filename]
  IN  Title \o name \o (IF modified THEN Mark ELSE <<>>)
        \o [i \in 1 .. NameRoom - Least(NameRoom, Len(name)) |-> SPACE]

DrawFromTop(v) ==
  LET bars  == Scr!PrintText(Scr!SetColor(Scr!HideCursor(Scr!Clear(v)), "black on white"),
                             TitleBar)
      text  == FoldLeft(LAMBDA w, k : Scr!PrintText(Scr!SetCursor(w, k - 1, 0), lines[k - 1]),
                        Scr!SetColor(bars, WHITE),
                        [k \in 1 .. Least(VISIBLE, num_lines) |-> k])
      below == Scr!PrintText(Scr!SetColor(Scr!SetCursor(text, VISIBLE + 1, 0), "black on grey"),
                             Status)
  IN  Scr!ShowCursor(Scr!SetCursor(Scr!SetColor(below, WHITE), cur_line + 1, cur_col))
Draw(v) ==
  LET bars  == Scr!PrintText(Scr!SetColor(Scr!HideCursor(Scr!Clear(v)), "black on white"),
                             TitleBar)
      text  == FoldLeft(LAMBDA w, k : Scr!PrintText(Scr!SetCursor(w, k, 0), lines[k - 1]),
                        Scr!SetColor(bars, WHITE),
                        [k \in 1 .. Least(VISIBLE, num_lines) |-> k])
      below == Scr!PrintText(Scr!SetColor(Scr!SetCursor(text, VISIBLE + 1, 0), "black on grey"),
                             Status)
  IN  Scr!ShowCursor(Scr!SetCursor(Scr!SetColor(below, WHITE), cur_line + 1, cur_col))

-----------------------------------------------------------------------------
(* While the editor is closed the shell's commands touch and rm use the    *)
(* file; nothing but the editor writes it.  Touch is also what is left of  *)
(* a nano that had no memory for its lines.  To the editor a directory is  *)
(* a file.                                                                 *)
Shell(n) == ~running /\ (FS!Create(n) \/ FS!Delete(n)) /\ UNCHANGED editor

Next ==
  \/ \E n \in Names \cup {TooLong} : OpenNew(n) \/ OpenUnread(n) \/ OpenRead(n) \/ Shell(n)
  \/ Backspace \/ Merge \/ Enter \/ Save \/ Exit
  \/ \E ch \in Typed : Insert(ch)

Spec == Init /\ [][Next]_vars
-----------------------------------------------------------------------------
(* Properties                                                              *)

(* Every variable has its type, and the cursor is on a character of the    *)
(* text or behind the last one of its line.                                *)
TypeOK ==
  /\ lines \in [LineIndex -> Seq(Chars \ {NL})]
  /\ num_lines \in 1 .. NANO_MAX_LINES
  /\ cur_line \in 0 .. num_lines - 1
  /\ cur_col \in 0 .. Len(lines[cur_line])
  /\ modified \in BOOLEAN /\ running \in BOOLEAN
  /\ filename \in Names \cup {TooLong, FS!BLANK}
  /\ running => filename \in Names \cup {TooLong}

(* No line outgrows its buffer of NANO_LINE_LEN bytes.  A merge appends    *)
(* one line to another without a check (shell.c:747): it fits because the  *)
(* two were one line once, no key having moved the cursor since.           *)
LinesFit == \A i \in LineIndex : Len(lines[i]) < NANO_LINE_LEN

(* Loading and saving are each other's inverse (shell.c:650-664, 720-724). *)
(* Loading what a save writes gives the text that was saved, empty lines   *)
(* and an empty last line included; hence also the buffers behind the last *)
(* line are empty, and the shifting of lines brings no old text back.      *)
(* Saving what was loaded gives the file: all files were written by the    *)
(* editor, so that no line is cut and none left out (shell.c:652, 657).    *)
SavesLoad ==
  /\ running => Parsed(Content) = lines /\ ParsedLines(Content) = num_lines
  /\ \A p \in DOMAIN heap : Text(Parsed(heap[p]), ParsedLines(heap[p])) = heap[p]

(* What the title bar may have left in cell i of the rows below its own:   *)
(* nothing if the file can exist.  The name of one that cannot, which      *)
(* opens the editor all the same (shell.c:617-619), makes a title that     *)
(* wraps onto the rows of the text, from the 63rd character of the name    *)
(* on, and from the 52nd once the text is modified (shell.c:679-682).      *)
Left(i) ==
  IF filename \in Names \/ i >= Len(TitleBar) THEN {SPACE} ELSE Range(TitleBar) \cup {SPACE}

(* The user sees the text: each of its first VISIBLE lines on a row of its *)
(* own, behind it nothing of what was there before and nothing but what a  *)
(* title too long for its row has left, and the cursor on its place as     *)
(* long as its line is one of them (shell.c:673-705).  Further down the    *)
(* lines are not shown; the cursor is drawn over the status bar and the    *)
(* last row and then stays behind the status.  All this as long as no line *)
(* has a control character: none can be typed into one, but a buffer that  *)
(* fs_read has not filled may have held some.                              *)
TextIsDrawn ==
  running /\ (\A i \in LineIndex : lines[i] \in Seq(Glyphs)) => \A v \in Before :
    LET w == Draw(v)
        shown(k) == IF k < num_lines THEN lines[k] ELSE <<>>
    IN  /\ \A k \in 0 .. VISIBLE - 1, col \in 0 .. VGA_WIDTH - 1 :
             w.buffer[Scr!Index(k + 1, col)].char \in
               IF col < Len(shown(k)) THEN {shown(k)[col + 1]} ELSE Left(Scr!Index(k + 1, col))
        /\ w.shown
        /\ w.cursor = IF cur_line + 1 < VGA_HEIGHT THEN Scr!Index(cur_line + 1, cur_col)
                      ELSE Scr!Index(VISIBLE + 1, Len(Status))

(* The text is two sequences with the cursor between them.                 *)
Stored == IF FS!Exists(filename) THEN FS!Contents(FS!Find(filename)) ELSE <<>>
TextBefore ==
  FlattenSeq([k \in 1 .. cur_line |-> Append(lines[k - 1], NL)]) \o LineBefore
TextAfter ==
  LineAfter \o FlattenSeq([k \in 1 .. num_lines - 1 - cur_line |->
                             <<NL>> \o lines[cur_line + k]])
TextView ==
  INSTANCE TextBuffer WITH
    open <- running, before <- TextBefore, after <- TextAfter, stored <- Stored
ImplementsTextBuffer == TextView!Spec

-----------------------------------------------------------------------------
(* What the comments say and the code does not do.                         *)

(* "Ctrl+S = Save" (shell.c:711): when the mark of an unsaved text goes    *)
(* away, the text is in the file.                                          *)
SavedWhenUnmarked ==
  [][running /\ running' /\ modified /\ ~modified' => Stored' = Content']_vars
=============================================================================
