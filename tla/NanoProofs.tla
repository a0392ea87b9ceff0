----------------------------- MODULE NanoProofs -----------------------------
(***************************************************************************)
(* Proofs about module Nano, for any number of lines of any length, files  *)
(* of any content and a heap that may refuse a save: no line outgrows its  *)
(* buffer, the cursor stays in the text, loading undoes saving, the editor *)
(* is a text with a cursor in it, and the user sees that text.             *)
(***************************************************************************)
EXTENDS Nano, SequenceTheorems, FiniteSetTheorems, Loops, TLAPS

IsText(l) == l \in Seq(Range(l))

(* The table of the files: what is needed of it is that sizes are numbers. *)
FilesTyped ==
  file_table \in [FS!Slots -> [name : Names \cup {FS!BLANK}, data : Pointers \cup {NULL},
                               size : Nat, used : BOOLEAN, dir : BOOLEAN]]

LinesTyped == /\ lines = [i \in LineIndex |-> lines[i]]
              /\ \A i \in LineIndex : IsText(lines[i])

(* The cursor is on a line of the text, on a character or behind the last. *)
CursorInText ==
  /\ num_lines \in 1 .. NANO_MAX_LINES
  /\ cur_line \in 0 .. num_lines - 1
  /\ cur_col \in 0 .. Len(lines[cur_line])

(* What is behind the cursor on its line fits behind each of the lines     *)
(* above: it came from there, and no key has made it longer.               *)
Rest     == Len(lines[cur_line]) - cur_col
RestFits == \A j \in 0 .. cur_line - 1 : Len(lines[j]) + Rest < NANO_LINE_LEN

(* The inductive invariant.                                                *)
IInv == FilesTyped /\ LinesTyped /\ CursorInText /\ LinesFit /\ RestFits

-----------------------------------------------------------------------------
(* Sequences.                                                              *)

LEMMA SeqIsText ==
  ASSUME NEW S, NEW l \in Seq(S)
  PROVE  IsText(l) /\ Len(l) \in Nat /\ DOMAIN l = 1 .. Len(l)
<1>1. Len(l) \in Nat /\ l \in [1 .. Len(l) -> S] /\ DOMAIN l = 1 .. Len(l)
  BY LenProperties
<1>2. l \in [1 .. Len(l) -> Range(l)]
  BY <1>1 DEF Range
<1>3. l \in Seq(Range(l))
  BY <1>1, <1>2
<1> QED
  BY <1>1, <1>3 DEF IsText

LEMMA EmptyIsText == IsText(<<>>) /\ Len(<<>>) = 0
BY EmptySeq DEF IsText

LEMMA TextLength ==
  ASSUME NEW l, IsText(l)
  PROVE  Len(l) \in Nat /\ DOMAIN l = 1 .. Len(l)
BY LenProperties DEF IsText

LEMMA ConcatIsText ==
  ASSUME NEW a, NEW b, IsText(a), IsText(b)
  PROVE  IsText(a \o b) /\ Len(a \o b) = Len(a) + Len(b)
<1> DEFINE S == Range(a) \cup Range(b)
<1>1. a \in Seq(S) /\ b \in Seq(S)
  BY SeqMonotonic DEF IsText
<1> HIDE DEF S
<1>2. a \o b \in Seq(S) /\ Len(a \o b) = Len(a) + Len(b)
  BY <1>1, ConcatProperties
<1> QED
  BY <1>2, SeqIsText

LEMMA AppendIsText ==
  ASSUME NEW a, NEW e, IsText(a)
  PROVE  IsText(Append(a, e)) /\ Len(Append(a, e)) = Len(a) + 1
<1> DEFINE S == Range(a) \cup {e}
<1>1. a \in Seq(S) /\ e \in S
  BY SeqMonotonic DEF IsText
<1> HIDE DEF S
<1>2. Append(a, e) \in Seq(S) /\ Len(Append(a, e)) = Len(a) + 1
  BY <1>1, AppendProperties
<1> QED
  BY <1>2, SeqIsText

LEMMA SubSeqIsText ==
  ASSUME NEW s, NEW m \in Int, NEW n \in Int
  PROVE  /\ IsText(SubSeq(s, m, n))
         /\ Len(SubSeq(s, m, n)) = IF m <= n THEN n - m + 1 ELSE 0
<1> DEFINE S == {s[i] : i \in m .. n}
<1>1. \A i \in m .. n : s[i] \in S
  OBVIOUS
<1> HIDE DEF S
<1>2. /\ SubSeq(s, m, n) \in Seq(S)
      /\ Len(SubSeq(s, m, n)) = IF m <= n THEN n - m + 1 ELSE 0
  BY <1>1, SubSeqProperties
<1> QED
  BY <1>2, SeqIsText

LEMMA CutIsText ==
  ASSUME NEW text, IsText(text), NEW n \in Nat
  PROVE  IsText(Cut(text, n)) /\ Len(Cut(text, n)) <= n
<1>1. Least(Len(text), n) \in Nat /\ Least(Len(text), n) <= n
  BY TextLength DEF Least
<1>2. /\ IsText(SubSeq(text, 1, Least(Len(text), n)))
      /\ Len(SubSeq(text, 1, Least(Len(text), n))) <= n
  BY <1>1, SubSeqIsText
<1> QED
  BY <1>2 DEF Cut

-----------------------------------------------------------------------------
(* Loading.                                                                *)

LEMMA MinMaxIn ==
  ASSUME NEW n \in Nat, NEW T, T \subseteq 1 .. n, T # {}
  PROVE  /\ Min(T) \in T /\ Max(T) \in T
         /\ \A x \in T : Min(T) <= x /\ x <= Max(T)
<1>1. \E x \in T : \A y \in T : x <= y
  <2>1. T \subseteq Nat
    OBVIOUS
  <2> QED BY <2>1, LeastOne
<1>2. \E x \in T : \A y \in T : x >= y
  <2> DEFINE D == {n - x : x \in T}
  <2>0. \A x \in T : x \in Int /\ n - x \in Nat
    OBVIOUS
  <2>1. D \subseteq Nat /\ D # {}
    BY <2>0
  <2>2. PICK d \in D : \A e \in D : d <= e
    <3> HIDE DEF D
    <3> QED BY <2>1, LeastOne
  <2>3. PICK x \in T : d = n - x
    OBVIOUS
  <2>4. \A y \in T : n - x <= n - y
    BY <2>2, <2>3
  <2>5. \A y \in T : x >= y
    BY <2>0, <2>4
  <2> QED BY <2>5
<1>3. Min(T) \in T /\ \A x \in T : Min(T) <= x
  BY <1>1 DEF Min
<1>4. Max(T) \in T /\ \A x \in T : Max(T) >= x
  BY <1>2 DEF Max
<1>5. \A x \in T : x \in Int
  OBVIOUS
<1> HIDE DEF Min, Max
<1> QED BY <1>3, <1>4, <1>5

LEMMA LineTextFits ==
  ASSUME NEW bytes, IsText(bytes), NEW n
  PROVE  IsText(LineText(bytes, n)) /\ Len(LineText(bytes, n)) < NANO_LINE_LEN
<1> DEFINE at == {j \in DOMAIN bytes : LineOf(bytes, j) = n /\ bytes[j] # NL}
           text == SubSeq(bytes, Min(at), Max(at))
<1>1. NANO_LINE_LEN - 1 \in Nat /\ NANO_LINE_LEN \in Nat
  BY NanoAssumption
<1>2. CASE at = {}
  BY <1>1, <1>2, EmptyIsText DEF LineText
<1>3. CASE at # {}
  <2>1. at \subseteq 1 .. Len(bytes) /\ Len(bytes) \in Nat
    BY TextLength
  <2>2. Min(at) \in Int /\ Max(at) \in Int
    <3>1. Min(at) \in at /\ Max(at) \in at
      <4> HIDE DEF at
      <4> QED
        BY <1>3, <2>1, MinMaxIn
    <3>2. \A j \in 1 .. Len(bytes) : j \in Int
      OBVIOUS
    <3> HIDE DEF at
    <3> QED
      BY <2>1, <3>1, <3>2
  <2>3. IsText(text)
    <3> HIDE DEF at
    <3> QED
      BY <2>2, SubSeqIsText
  <2>4. LineText(bytes, n) = Cut(text, NANO_LINE_LEN - 1)
    BY <1>3 DEF LineText
  <2>5. Len(Cut(text, NANO_LINE_LEN - 1)) \in Nat
        /\ IsText(Cut(text, NANO_LINE_LEN - 1))
        /\ Len(Cut(text, NANO_LINE_LEN - 1)) <= NANO_LINE_LEN - 1
    <3> HIDE DEF text
    <3> QED
      BY <1>1, <2>3, CutIsText, TextLength
  <2> QED
    BY <1>1, <2>4, <2>5
<1> QED
  BY <1>2, <1>3

LEMMA CountIsNat ==
  ASSUME NEW bytes, IsText(bytes)
  PROVE  Count(bytes) \in Nat
<1> DEFINE n == Len(bytes)
           ends == {i \in 1 .. (n + 1) - 1 : bytes[i] = NL}
<1>1. n \in Nat
  BY TextLength
<1>2. IsFiniteSet(1 .. n) /\ ends \in SUBSET (1 .. n)
  BY <1>1, FS_Interval
<1>3. Cardinality(ends) \in Nat
  <2> HIDE DEF ends, n
  <2> QED
    BY <1>2, FS_Subset, FS_CardinalityType
<1> QED
  BY <1>3 DEF Count, LineOf

LEMMA ParsedLinesInRange ==
  ASSUME NEW bytes, IsText(bytes)
  PROVE  ParsedLines(bytes) \in 1 .. NANO_MAX_LINES
BY CountIsNat, NanoAssumption DEF ParsedLines, Least

LEMMA Found ==
  ASSUME NEW n, FS!Exists(n)
  PROVE  FS!Find(n) \in FS!Slots /\ FS!Find(n) \in FS!Named(n)
<1>1. FS!Named(n) \subseteq FS!Slots /\ FS!Named(n) \subseteq Nat /\ FS!Named(n) # {}
  BY NanoAssumption DEF FS!Named, FS!Used, FS!Slots, FS!Exists
<1>2. \E x \in FS!Named(n) : \A y \in FS!Named(n) : x <= y
  BY <1>1, LeastOne
<1>3. FS!Find(n) \in FS!Named(n)
  BY <1>2 DEF FS!Find, FS!First
<1> QED BY <1>1, <1>3

(* What is read from a file of the table is a text.                        *)
LEMMA ReadIsText ==
  ASSUME FilesTyped, NEW n, FS!Exists(n), NEW bytes \in MayRead(FS!Find(n))
  PROVE  IsText(bytes)
<1> DEFINE s == FS!Find(n)
           f == file_table[s]
<1>1. s \in FS!Slots
  BY Found
<1>2. f.size \in Nat
  BY <1>1 DEF FilesTyped
<1> HIDE DEF s
<1>3. CASE f.data = NULL
  <2>1. PICK junk \in Stale : bytes = Cut(junk, f.size)
    BY <1>3 DEF MayRead, s
  <2>2. IsText(junk)
    BY NanoAssumption, SeqIsText
  <2> QED
    BY <1>2, <2>1, <2>2, CutIsText
<1>4. CASE f.data # NULL
  <2>1. bytes = FS!Copied(s, f.size, 0)
    BY <1>4 DEF MayRead, s
  <2>2. bytes = <<>> \/ bytes = SubSeq(heap[f.data], 1, f.size)
    BY <1>2, <2>1 DEF FS!Copied
  <2>3. f.size \in Int /\ 1 \in Int
    BY <1>2
  <2> HIDE DEF f
  <2> QED
    BY <2>2, <2>3, SubSeqIsText, EmptyIsText
<1> QED
  BY <1>3, <1>4

-----------------------------------------------------------------------------
(* The files.                                                              *)

LEMMA CreateStep ==
  ASSUME FilesTyped, NEW n, FS!Create(n)
  PROVE  FilesTyped'
<1>1. CASE UNCHANGED file_table
  BY <1>1 DEF FilesTyped, FS!Slots
<1>2. CASE /\ n \in Names
           /\ file_table' = [file_table EXCEPT ![FS!First(FS!Slots \ FS!Used)]
                                               = FS!Entry(n, TRUE, FALSE)]
  <2>1. FS!Entry(n, TRUE, FALSE)
          \in [name : Names \cup {FS!BLANK}, data : Pointers \cup {NULL},
              size : Nat, used : BOOLEAN, dir : BOOLEAN]
    BY <1>2 DEF FS!Entry
  <2> QED
    BY <1>2, <2>1 DEF FilesTyped, FS!Slots
<1> QED
  BY <1>1, <1>2 DEF FS!Create, FS!Make, FS!Nothing

LEMMA DeleteStep ==
  ASSUME FilesTyped, NEW n, FS!Delete(n)
  PROVE  FilesTyped'
<1>1. CASE UNCHANGED file_table
  BY <1>1 DEF FilesTyped, FS!Slots
<1>2. CASE file_table' = [file_table EXCEPT ![FS!Find(n)] = FS!FREE]
  <2>1. FS!FREE \in [name : Names \cup {FS!BLANK}, data : Pointers \cup {NULL},
                    size : Nat, used : BOOLEAN, dir : BOOLEAN]
    BY DEF FS!FREE, FS!Entry
  <2> QED
    BY <1>2, <2>1 DEF FilesTyped, FS!Slots
<1> QED
  BY <1>1, <1>2 DEF FS!Delete, FS!Nothing

LEMMA WriteStep ==
  ASSUME FilesTyped, NEW s, NEW d, FS!Write(s, d)
  PROVE  FilesTyped'
<1>1. CASE UNCHANGED file_table
  BY <1>1 DEF FilesTyped, FS!Slots
<1>2. CASE file_table' = [file_table EXCEPT ![s].data = NULL]
  BY <1>2 DEF FilesTyped, FS!Slots
<1>3. ASSUME NEW p \in Pointers \cup {NULL}, NEW n \in Nat, FS!SetFile(s, p, n)
      PROVE  FilesTyped'
  BY <1>3 DEF FilesTyped, FS!SetFile, FS!Slots
<1>4. ASSUME Len(d) \in 1 .. FS_MAX_FILESIZE PROVE Len(d) \in Nat
  BY <1>4, NanoAssumption
<1> QED
  BY <1>1, <1>2, <1>3, <1>4 DEF FS!Write, FS!WriteNoMemory, FS!Nothing

-----------------------------------------------------------------------------
(* The keys.                                                               *)

LEMMA LineIsText ==
  ASSUME IInv
  PROVE  /\ cur_line \in LineIndex /\ IsText(line) /\ line = lines[cur_line]
         /\ Len(line) \in Nat /\ Len(line) < NANO_LINE_LEN
         /\ cur_col \in Nat /\ cur_col <= Len(line) /\ Rest = Len(line) - cur_col
<1>1. cur_line \in LineIndex
  BY NanoAssumption DEF IInv, CursorInText, LineIndex
<1>2. IsText(line) /\ Len(line) < NANO_LINE_LEN
  BY <1>1 DEF IInv, LinesTyped, LinesFit, line
<1>3. Len(line) \in Nat
  BY <1>2, TextLength
<1> QED
  BY <1>1, <1>2, <1>3 DEF IInv, CursorInText, line, Rest

LEMMA Halves ==
  ASSUME IInv
  PROVE  /\ IsText(LineBefore) /\ Len(LineBefore) = cur_col
         /\ IsText(LineAfter) /\ Len(LineAfter) = Rest
<1>1. cur_col \in Int /\ Len(line) \in Int /\ cur_col + 1 \in Int
  BY LineIsText
<1>2. /\ IsText(LineBefore) /\ Len(LineBefore) = (IF 1 <= cur_col THEN cur_col - 1 + 1 ELSE 0)
      /\ IsText(LineAfter)
      /\ Len(LineAfter) = IF cur_col + 1 <= Len(line) THEN Len(line) - (cur_col + 1) + 1 ELSE 0
  BY <1>1, SubSeqIsText DEF LineBefore, LineAfter
<1> QED
  BY <1>2, LineIsText

LEMMA WithinRange == ASSUME NEW m \in Int, NEW x \in 0 .. m PROVE Within(x, m) = x
BY DEF Within

(* The cursor goes where the key says, if that is in the text.             *)
LEMMA CursorGoes ==
  ASSUME num_lines' \in Nat, NEW n \in 0 .. num_lines' - 1,
         Len(lines'[n]) \in Nat, NEW c \in 0 .. Len(lines'[n]), Cursor(n, c)
  PROVE  cur_line' = n /\ cur_col' = c
<1>1. cur_line' = Within(n, num_lines' - 1) /\ num_lines' - 1 \in Int
  BY DEF Cursor
<1>2. cur_line' = n
  BY <1>1, WithinRange
<1>3. cur_col' = Within(c, Len(lines'[n])) /\ Len(lines'[n]) \in Int
  BY <1>2 DEF Cursor
<1>4. cur_col' = c
  BY <1>3, WithinRange
<1> QED
  BY <1>2, <1>4

(* The line of the cursor is replaced by one with the same rest.           *)
LEMMA LineStep ==
  ASSUME IInv, FilesTyped', NEW l, IsText(l), Len(l) < NANO_LINE_LEN,
         lines' = [lines EXCEPT ![cur_line] = l], num_lines' = num_lines,
         NEW c \in 0 .. Len(l), Cursor(cur_line, c), Len(l) - c = Rest
  PROVE  IInv'
<1>1. /\ num_lines \in 1 .. NANO_MAX_LINES /\ num_lines \in Nat
      /\ cur_line \in 0 .. num_lines - 1 /\ cur_line \in LineIndex
  BY LineIsText, NanoAssumption DEF IInv, CursorInText
<1>2. /\ lines' = [i \in LineIndex |-> lines'[i]] /\ lines'[cur_line] = l
      /\ \A i \in LineIndex \ {cur_line} : lines'[i] = lines[i]
  BY <1>1 DEF IInv, LinesTyped
<1>3. Len(l) \in Nat
  BY TextLength
<1>4. cur_line' = cur_line /\ cur_col' = c
  BY <1>1, <1>2, <1>3, CursorGoes
<1>5. LinesTyped'
  BY <1>2 DEF IInv, LinesTyped, LineIndex
<1>6. LinesFit'
  BY <1>2 DEF IInv, LinesFit, LineIndex
<1>7. CursorInText'
  BY <1>1, <1>2, <1>4 DEF CursorInText
<1>8. RestFits'
  <2>1. Rest' = Rest
    BY <1>2, <1>4 DEF Rest
  <2>2. \A j \in 0 .. cur_line - 1 : j \in LineIndex /\ j # cur_line
    BY <1>1, NanoAssumption DEF LineIndex
  <2>3. \A j \in 0 .. cur_line - 1 : Len(lines'[j]) + Rest < NANO_LINE_LEN
    BY <1>2, <2>2 DEF IInv, RestFits
  <2> QED
    BY <1>4, <2>1, <2>3 DEF RestFits
<1> QED
  BY <1>5, <1>6, <1>7, <1>8 DEF IInv

LEMMA EditKeepsFiles == ASSUME FilesTyped, UNCHANGED file_table PROVE FilesTyped'
BY DEF FilesTyped, FS!Slots

LEMMA BackspaceStep == ASSUME IInv, Backspace PROVE IInv'
<1> DEFINE l == Front(LineBefore) \o LineAfter
<1>1. cur_col - 1 \in Nat /\ cur_col \in Nat /\ Rest \in Nat /\ cur_col + Rest < NANO_LINE_LEN
  BY LineIsText, NanoAssumption DEF Backspace
<1>2. IsText(Front(LineBefore)) /\ Len(Front(LineBefore)) = cur_col - 1
  <2>1. Front(LineBefore) = SubSeq(LineBefore, 1, cur_col - 1)
    BY Halves DEF Front
  <2> QED
    BY <1>1, <2>1, SubSeqIsText
<1>3. IsText(l) /\ Len(l) = cur_col - 1 + Rest
  BY <1>2, Halves, ConcatIsText
<1>4. /\ lines' = [lines EXCEPT ![cur_line] = l] /\ num_lines' = num_lines
      /\ Cursor(cur_line, cur_col - 1) /\ UNCHANGED file_table
  BY DEF Backspace, Edited, fs
<1> HIDE DEF l
<1>5. /\ cur_col - 1 \in 0 .. Len(l) /\ Len(l) - (cur_col - 1) = Rest
      /\ Len(l) < NANO_LINE_LEN
  BY <1>1, <1>3, NanoAssumption
<1> QED
  BY <1>3, <1>4, <1>5, LineStep, EditKeepsFiles DEF IInv

LEMMA InsertStep == ASSUME IInv, NEW ch, Insert(ch) PROVE IInv'
<1> DEFINE l == Append(LineBefore, ch) \o LineAfter
<1>1. cur_col \in Nat /\ Rest \in Nat /\ cur_col + Rest < NANO_LINE_LEN - 1
  BY LineIsText, NanoAssumption DEF Insert
<1>2. IsText(l) /\ Len(l) = cur_col + 1 + Rest
  BY Halves, AppendIsText, ConcatIsText
<1>3. /\ lines' = [lines EXCEPT ![cur_line] = l] /\ num_lines' = num_lines
      /\ Cursor(cur_line, cur_col + 1) /\ UNCHANGED file_table
  BY DEF Insert, Edited, fs
<1> HIDE DEF l
<1>4. /\ cur_col + 1 \in 0 .. Len(l) /\ Len(l) - (cur_col + 1) = Rest
      /\ Len(l) < NANO_LINE_LEN
  BY <1>1, <1>2, NanoAssumption
<1> QED
  BY <1>2, <1>3, <1>4, LineStep, EditKeepsFiles DEF IInv

LEMMA MergeStep == ASSUME IInv, Merge PROVE IInv'
<1> DEFINE k == cur_line - 1
           l == lines[k] \o lines[cur_line]
<1>1. /\ num_lines \in 1 .. NANO_MAX_LINES /\ num_lines \in Nat /\ NANO_MAX_LINES \in Nat
      /\ cur_line \in 1 .. num_lines - 1
      /\ cur_line \in LineIndex /\ k \in LineIndex /\ k \in 0 .. num_lines - 2
      /\ k \in Nat /\ k + 1 = cur_line /\ k = cur_line - 1
  BY LineIsText, NanoAssumption DEF Merge, IInv, CursorInText, LineIndex
<1>2. /\ cur_col = 0 /\ Rest = Len(lines[cur_line]) /\ Rest \in Nat
      /\ IsText(lines[k]) /\ IsText(lines[cur_line]) /\ Len(lines[k]) \in Nat
  BY <1>1, LineIsText, TextLength DEF Merge, IInv, LinesTyped
<1>3. IsText(l) /\ Len(l) = Len(lines[k]) + Rest /\ Len(l) < NANO_LINE_LEN /\ Len(l) \in Nat
  <2>1. IsText(l) /\ Len(l) = Len(lines[k]) + Rest
    BY <1>2, ConcatIsText
  <2>2. k \in 0 .. cur_line - 1
    BY <1>1
  <2>3. Len(lines[k]) + Rest < NANO_LINE_LEN
    BY <2>2 DEF IInv, RestFits
  <2> HIDE DEF l, k
  <2>4. Len(l) \in Nat
    BY <2>1, TextLength
  <2> QED
    BY <2>1, <2>3, <2>4
<1>4. /\ lines' = Joined /\ num_lines' = num_lines - 1 /\ UNCHANGED file_table
      /\ Cursor(k, Len(lines[k]))
  BY DEF Merge, Edited, fs
<1>5. /\ lines' = [i \in LineIndex |-> lines'[i]]
      /\ lines'[k] = l
      /\ \A i \in LineIndex : i < k => lines'[i] = lines[i]
      /\ \A i \in LineIndex : \/ lines'[i] \in {l, <<>>}
                              \/ \E j \in LineIndex : lines'[i] = lines[j]
  <2>1. lines'[k] = l
    <3>1. lines'[k] = lines[k] \o lines[k + 1]
      BY <1>1, <1>4 DEF Joined
    <3> QED
      BY <1>1, <3>1
  <2>2. ASSUME NEW i \in LineIndex, i < k PROVE lines'[i] = lines[i]
    <3>1. i # cur_line - 1 /\ ~(i >= cur_line) /\ i # num_lines - 1
      BY <1>1, <2>2 DEF LineIndex
    <3> QED
      BY <1>4, <3>1 DEF Joined
  <2>3. ASSUME NEW i \in LineIndex
        PROVE  \/ lines'[i] \in {l, <<>>}
               \/ \E j \in LineIndex : lines'[i] = lines[j]
    <3>1. i < num_lines - 1 => i + 1 \in LineIndex
      BY <1>1 DEF LineIndex
    <3>2. \/ i = k
          \/ i # k /\ lines'[i] = <<>>
          \/ i < num_lines - 1 /\ lines'[i] = lines[i + 1]
          \/ lines'[i] = lines[i]
      BY <1>4 DEF Joined
    <3> QED
      BY <2>1, <3>1, <3>2
  <2>4. lines' = [i \in LineIndex |-> lines'[i]]
    BY <1>4 DEF Joined
  <2> QED
    BY <2>1, <2>2, <2>3, <2>4
<1> HIDE DEF l, k
<1>6. /\ Len(lines'[k]) = Len(lines[k]) + Rest
       /\ Len(lines[k]) \in Nat /\ Rest \in Nat
  <2>1. lines'[k] = l
    BY <1>5
  <2>2. Len(lines'[k]) = Len(l)
    BY <2>1
  <2> QED
    BY <1>2, <1>3, <2>2
<1>7. cur_line' = k /\ cur_col' = Len(lines[k])
  <2>1. num_lines' \in Nat /\ k \in 0 .. num_lines' - 1
    BY <1>1, <1>4
  <2>2. Len(lines'[k]) \in Nat /\ Len(lines[k]) \in 0 .. Len(lines'[k])
    BY <1>6
  <2> QED
    BY <1>4, <2>1, <2>2, CursorGoes
<1>8. LinesTyped' /\ LinesFit'
  <2>1. ASSUME NEW i \in LineIndex
        PROVE  IsText(lines'[i]) /\ Len(lines'[i]) < NANO_LINE_LEN
    BY <1>3, <1>5, EmptyIsText, NanoAssumption DEF IInv, LinesTyped, LinesFit
  <2> QED
    BY <1>5, <2>1 DEF LinesTyped, LinesFit, LineIndex
<1>9. CursorInText'
  <2>1. num_lines' \in 1 .. NANO_MAX_LINES /\ cur_line' \in 0 .. num_lines' - 1
    BY <1>1, <1>4, <1>7
  <2>2. cur_col' \in 0 .. Len(lines'[cur_line'])
    BY <1>7, <1>6
  <2> QED
    BY <2>1, <2>2 DEF CursorInText
<1>10. RestFits'
  <2>1. Rest' = Rest
    <3>1. Rest' = (Len(lines[k]) + Rest) - Len(lines[k])
      BY <1>7, <1>6 DEF Rest
    <3> QED
      BY <1>6, <3>1
  <2>2. ASSUME NEW j \in 0 .. k - 1 PROVE Len(lines'[j]) + Rest < NANO_LINE_LEN
    <3>1. j \in LineIndex /\ j < k /\ j \in 0 .. cur_line - 1
      BY <1>1, NanoAssumption DEF LineIndex
    <3> QED
      BY <1>5, <3>1 DEF IInv, RestFits
  <2> QED
    BY <1>7, <2>1, <2>2 DEF RestFits
<1> QED
  BY <1>4, <1>8, <1>9, <1>10, EditKeepsFiles DEF IInv

LEMMA EnterStep == ASSUME IInv, Enter PROVE IInv'
<1> DEFINE k == cur_line + 1
<1>1. /\ num_lines \in 1 .. NANO_MAX_LINES - 1 /\ num_lines \in Nat /\ NANO_MAX_LINES \in Nat
      /\ cur_line \in 0 .. num_lines - 1
      /\ cur_line \in LineIndex /\ k \in LineIndex /\ k \in 0 .. num_lines
  BY LineIsText, NanoAssumption DEF Enter, IInv, CursorInText, LineIndex
<1>2. /\ Rest \in Nat /\ cur_col \in Nat /\ cur_col + Rest < NANO_LINE_LEN
      /\ NANO_LINE_LEN \in Nat
  BY LineIsText, NanoAssumption
<1>3. /\ lines' = Split /\ num_lines' = num_lines + 1 /\ UNCHANGED file_table
      /\ Cursor(k, 0)
  BY DEF Enter, Edited, fs
<1>4. /\ lines' = [i \in LineIndex |-> lines'[i]]
      /\ lines'[cur_line] = LineBefore /\ lines'[k] = LineAfter
      /\ \A i \in LineIndex : i < cur_line => lines'[i] = lines[i]
      /\ \A i \in LineIndex : \/ lines'[i] \in {LineBefore, LineAfter}
                              \/ \E j \in LineIndex : lines'[i] = lines[j]
  <2>1. lines'[cur_line] = LineBefore
    BY <1>1, <1>3 DEF Split
  <2>2. lines'[k] = LineAfter
    <3>1. k # cur_line
      BY <1>1
    <3> QED
      BY <1>1, <1>3, <3>1 DEF Split
  <2>3. ASSUME NEW i \in LineIndex, i < cur_line PROVE lines'[i] = lines[i]
    <3>1. i # cur_line /\ i # cur_line + 1 /\ ~(i > cur_line + 1)
      BY <1>1, <2>3 DEF LineIndex
    <3> QED
      BY <1>3, <3>1 DEF Split
  <2>4. ASSUME NEW i \in LineIndex
        PROVE  \/ lines'[i] \in {LineBefore, LineAfter}
               \/ \E j \in LineIndex : lines'[i] = lines[j]
    <3>1. i > cur_line + 1 => i - 1 \in LineIndex
      BY <1>1 DEF LineIndex
    <3>2. \/ lines'[i] \in {LineBefore, LineAfter}
          \/ i > cur_line + 1 /\ lines'[i] = lines[i - 1]
          \/ lines'[i] = lines[i]
      BY <1>3 DEF Split
    <3> QED
      BY <3>1, <3>2
  <2>5. lines' = [i \in LineIndex |-> lines'[i]]
    BY <1>3 DEF Split
  <2> QED
    BY <2>1, <2>2, <2>3, <2>4, <2>5
<1>5. cur_line' = k /\ cur_col' = 0
  <2>1. num_lines' \in Nat /\ k \in 0 .. num_lines' - 1
    BY <1>1, <1>3
  <2>2. Len(lines'[k]) \in Nat /\ 0 \in 0 .. Len(lines'[k])
    BY <1>2, <1>4, Halves
  <2> HIDE DEF k
  <2> QED
    BY <1>3, <2>1, <2>2, CursorGoes
<1>6. LinesTyped' /\ LinesFit'
  <2>1. ASSUME NEW i \in LineIndex
        PROVE  IsText(lines'[i]) /\ Len(lines'[i]) < NANO_LINE_LEN
    <3>1. CASE lines'[i] \in {LineBefore, LineAfter}
      BY <1>2, <3>1, Halves
    <3>2. CASE \E j \in LineIndex : lines'[i] = lines[j]
      BY <3>2 DEF IInv, LinesTyped, LinesFit
    <3> QED
      BY <1>4, <3>1, <3>2
  <2> QED
    BY <1>4, <2>1 DEF LinesTyped, LinesFit, LineIndex
<1>7. CursorInText'
  <2>1. num_lines' \in 1 .. NANO_MAX_LINES /\ cur_line' \in 0 .. num_lines' - 1
    BY <1>1, <1>3, <1>5
  <2>2. cur_col' \in 0 .. Len(lines'[cur_line'])
    BY <1>2, <1>4, <1>5, Halves
  <2> QED
    BY <2>1, <2>2 DEF CursorInText
<1>8. RestFits'
  <2>1. Rest' = Rest
    BY <1>2, <1>4, <1>5, Halves DEF Rest
  <2>2. ASSUME NEW j \in 0 .. k - 1 PROVE Len(lines'[j]) + Rest < NANO_LINE_LEN
    <3>1. j \in LineIndex /\ (j = cur_line \/ (j < cur_line /\ j \in 0 .. cur_line - 1))
      <4>1. k - 1 = cur_line /\ cur_line \in Int /\ j \in 0 .. cur_line
        BY <1>1
      <4>2. j \in Int /\ 0 <= j /\ j <= cur_line /\ cur_line <= NANO_MAX_LINES - 1
        BY <1>1, <4>1 DEF LineIndex
      <4>3. j \in LineIndex
        BY <1>1, <4>1, <4>2 DEF LineIndex
      <4>4. j = cur_line \/ (j < cur_line /\ j \in 0 .. cur_line - 1)
        BY <4>1, <4>2
      <4> QED
        BY <4>3, <4>4
    <3>2. CASE j = cur_line
      BY <1>2, <1>4, <3>2, Halves
    <3>3. CASE j < cur_line /\ j \in 0 .. cur_line - 1
      BY <1>4, <3>1, <3>3 DEF IInv, RestFits
    <3> QED
      BY <3>1, <3>2, <3>3
  <2> QED
    BY <1>5, <2>1, <2>2 DEF RestFits
<1> QED
  BY <1>3, <1>6, <1>7, <1>8, EditKeepsFiles DEF IInv

-----------------------------------------------------------------------------
(* The rest.                                                               *)

LEMMA StartStep ==
  ASSUME FilesTyped', NEW n, NEW ls, NEW count \in 1 .. NANO_MAX_LINES,
         ls = [i \in LineIndex |-> ls[i]],
         \A i \in LineIndex : IsText(ls[i]) /\ Len(ls[i]) < NANO_LINE_LEN,
         Start(n, ls, count)
  PROVE  IInv'
<1>1. lines' = ls /\ num_lines' = count /\ cur_line' = 0 /\ cur_col' = 0
  BY DEF Start
<1>2. LinesTyped' /\ LinesFit'
  BY <1>1 DEF LinesTyped, LinesFit, LineIndex
<1>3. 0 \in LineIndex
  BY NanoAssumption DEF LineIndex
<1>4. Len(ls[0]) \in Nat
  BY <1>3, TextLength
<1>5. CursorInText'
  BY <1>1, <1>4, NanoAssumption DEF CursorInText
<1>6. RestFits'
  BY <1>1 DEF RestFits
<1> QED
  BY <1>2, <1>5, <1>6 DEF IInv

LEMMA EmptyFits ==
  /\ Empty = [i \in LineIndex |-> Empty[i]]
  /\ \A i \in LineIndex : IsText(Empty[i]) /\ Len(Empty[i]) < NANO_LINE_LEN
  /\ 1 \in 1 .. NANO_MAX_LINES
BY EmptyIsText, NanoAssumption DEF Empty

LEMMA OpenStep ==
  ASSUME IInv, NEW n, OpenNew(n) \/ OpenUnread(n) \/ OpenRead(n)
  PROVE  IInv'
<1>1. CASE OpenNew(n)
  <2>1. FilesTyped'
    BY <1>1, CreateStep DEF OpenNew, IInv
  <2> QED
    BY <1>1, <2>1, EmptyFits, StartStep DEF OpenNew
<1>2. CASE OpenUnread(n)
  <2>1. FilesTyped'
    BY <1>2, EditKeepsFiles DEF OpenUnread, IInv, fs
  <2> QED
    BY <1>2, <2>1, EmptyFits, StartStep DEF OpenUnread
<1>3. CASE OpenRead(n)
  <2>1. FilesTyped'
    BY <1>3, EditKeepsFiles DEF OpenRead, IInv
  <2>2. PICK bytes \in MayRead(FS!Find(n)) : Start(n, Parsed(bytes), ParsedLines(bytes))
    BY <1>3 DEF OpenRead
  <2>3. IsText(bytes)
    BY <1>3, ReadIsText DEF OpenRead, IInv
  <2>4. /\ Parsed(bytes) = [i \in LineIndex |-> Parsed(bytes)[i]]
        /\ \A i \in LineIndex : IsText(Parsed(bytes)[i]) /\ Len(Parsed(bytes)[i]) < NANO_LINE_LEN
    BY <2>3, LineTextFits DEF Parsed
  <2> QED
    BY <2>1, <2>2, <2>3, <2>4, ParsedLinesInRange, StartStep
<1> QED
  BY <1>1, <1>2, <1>3

(* Saving and leaving put the cursor where it is.                          *)
LEMMA TextStays ==
  ASSUME IInv, FilesTyped', UNCHANGED <<lines, num_lines>>,
         UNCHANGED <<cur_line, cur_col>> \/ Cursor(cur_line, cur_col)
  PROVE  IInv'
<1>1. UNCHANGED <<cur_line, cur_col>>
  <2>1. /\ num_lines' \in Nat /\ cur_line \in 0 .. num_lines' - 1
        /\ Len(lines'[cur_line]) \in Nat /\ cur_col \in 0 .. Len(lines'[cur_line])
    BY LineIsText, NanoAssumption DEF IInv, CursorInText
  <2> QED
    BY <2>1, CursorGoes
<1> QED
  BY <1>1 DEF IInv, LinesTyped, CursorInText, LinesFit, RestFits, Rest, LineIndex

LEMMA InitIInv == Init => IInv
<1> SUFFICES ASSUME Init PROVE IInv
  OBVIOUS
<1>1. FilesTyped
  BY DEF Init, FS!Init, FilesTyped, FS!FREE, FS!Entry
<1>2. 0 \in LineIndex /\ NANO_MAX_LINES \in Nat /\ NANO_MAX_LINES # 0
  BY NanoAssumption DEF LineIndex
<1>3. LinesTyped /\ LinesFit /\ lines[0] = <<>>
  BY <1>2, EmptyFits DEF Init, LinesTyped, LinesFit, Empty
<1>4. CursorInText /\ RestFits
  BY <1>2, <1>3, EmptyIsText DEF Init, CursorInText, RestFits
<1> QED
  BY <1>1, <1>3, <1>4 DEF IInv

LEMMA NextIInv == IInv /\ [Next]_vars => IInv'
<1> SUFFICES ASSUME IInv, [Next]_vars PROVE IInv'
  OBVIOUS
<1>1. ASSUME NEW n, OpenNew(n) \/ OpenUnread(n) \/ OpenRead(n) PROVE IInv'
  BY <1>1, OpenStep
<1>2. ASSUME NEW n, Shell(n) PROVE IInv'
  <2>1. FilesTyped'
    BY <1>2, CreateStep, DeleteStep DEF Shell, IInv
  <2> QED
    BY <1>2, <2>1, TextStays DEF Shell, editor
<1>3. CASE Save
  <2>1. FilesTyped'
    BY <1>3, WriteStep DEF Save, IInv
  <2> QED
    BY <1>3, <2>1, TextStays DEF Save
<1>4. CASE Exit
  <2>1. FilesTyped'
    BY <1>4, EditKeepsFiles DEF Exit, fs, IInv
  <2> QED
    BY <1>4, <2>1, TextStays DEF Exit
<1>5. CASE UNCHANGED vars
  <2>1. UNCHANGED <<lines, num_lines, cur_line, cur_col, file_table>>
    BY <1>5 DEF vars, editor, fs
  <2>2. FilesTyped'
    BY <2>1, EditKeepsFiles DEF IInv
  <2> QED
    BY <2>1, <2>2, TextStays
<1> QED
  BY <1>1, <1>2, <1>3, <1>4, <1>5, BackspaceStep, MergeStep, EnterStep, InsertStep DEF Next

-----------------------------------------------------------------------------
(* The theorems.                                                           *)

(* No line outgrows its buffer of NANO_LINE_LEN bytes, though a merge      *)
(* appends one line to another without a check (shell.c:747).              *)
THEOREM LinesStayInBuffers == Spec => []LinesFit
<1>1. IInv => LinesFit
  BY DEF IInv
<1> QED
  BY <1>1, InitIInv, NextIInv, PTL DEF Spec

(* The cursor is in the text after every key, so that the bounds checks at *)
(* the end of the loop (shell.c:786-792) never have to move it.            *)
THEOREM CursorStaysInText == Spec => []CursorInText
<1>1. IInv => CursorInText
  BY DEF IInv
<1> QED
  BY <1>1, InitIInv, NextIInv, PTL DEF Spec

-----------------------------------------------------------------------------
(* Concatenations.  FlattenSeq is a recursive function: with one more      *)
(* piece it has that piece more at the end.                                *)

Pieces(E, n) == [k \in 1 .. n |-> E[k]]

LEMMA PiecesLength == ASSUME NEW n \in Nat, NEW E PROVE Len(Pieces(E, n)) = n
<1>1. Pieces(E, n) \in Seq({E[k] : k \in 1 .. n})
  BY DEF Pieces
<1>2. DOMAIN Pieces(E, n) = 1 .. n /\ DOMAIN Pieces(E, n) = 1 .. Len(Pieces(E, n))
        /\ Len(Pieces(E, n)) \in Nat
  <2>1. DOMAIN Pieces(E, n) = 1 .. n
    BY DEF Pieces
  <2> QED BY <1>1, <2>1, LenProperties
<1> QED BY <1>2

LEMMA FlatIs ==
  ASSUME NEW S, NEW n \in Nat, NEW E, \A k \in 1 .. n : E[k] \in Seq(S), NEW f,
         Computes(f, n, Seq(S), <<>>, [p \in (1 .. n) \X Seq(S) |-> p[2] \o E[p[1]]])
  PROVE  \A m \in 0 .. n : FlattenSeq(Pieces(E, m)) = f[m] /\ f[m] \in Seq(S)
<1>1. /\ \A m \in 0 .. n : f[m] \in Seq(S)
      /\ f[0] = <<>>
  BY DEF Computes
<1>2. ASSUME NEW k \in 1 .. n PROVE f[k] = f[k - 1] \o E[k]
  <2>1. f[k - 1] \in Seq(S) /\ k \in 1 .. n
    BY <1>1
  <2>2. <<k, f[k - 1]>> \in (1 .. n) \X Seq(S)
    BY <2>1
  <2> QED BY <2>2 DEF Computes
<1>3. n >= 1 => f[1] = E[1]
  <2> HAVE n >= 1
  <2>1. 1 \in 1 .. n /\ 1 - 1 = 0
    OBVIOUS
  <2>2. f[1] = <<>> \o E[1] /\ E[1] \in Seq(S)
    BY <1>1, <1>2, <2>1
  <2> QED BY <2>2, ConcatEmptySeq
<1>4. FlattenSeq(Pieces(E, 0)) = f[0]
  <2>1. Len(Pieces(E, 0)) = 0
    BY PiecesLength
  <2>2. Pieces(E, 0) = <<>>
    BY DEF Pieces
  <2> QED BY <1>1, <2>1, <2>2 DEF FlattenSeq
<1>5. ASSUME NEW m \in 1 .. n PROVE FlattenSeq(Pieces(E, m)) = f[m]
  <2> DEFINE Is(g) == g = [i \in 1 .. m |-> IF i = 1 THEN E[i] ELSE g[i - 1] \o E[i]]
             h == [i \in 1 .. m |-> f[i]]
  <2>1. Is(h)
    <3>1. ASSUME NEW i \in 1 .. m PROVE f[i] = IF i = 1 THEN E[i] ELSE h[i - 1] \o E[i]
      <4>1. CASE i = 1
        BY <1>3, <4>1
      <4>2. CASE i # 1
        <5>1. i - 1 \in 1 .. m /\ i \in 1 .. n
          BY <4>2
        <5> QED BY <1>2, <4>2, <5>1
      <4> QED BY <4>1, <4>2
    <3> QED BY <3>1
  <2>2. ASSUME NEW g, Is(g) PROVE g[m] = f[m]
    <3> DEFINE T == {k \in 0 .. m - 1 : g[k + 1] = f[k + 1]}
    <3>1. \A i \in 1 .. m : g[i] = IF i = 1 THEN E[i] ELSE g[i - 1] \o E[i]
      BY <2>2
    <3>2. 0 \in T
      <4>1. 1 \in 1 .. m /\ 0 \in 0 .. m - 1 /\ n >= 1
        OBVIOUS
      <4>2. g[1] = f[1]
        BY <1>3, <3>1, <4>1
      <4> QED BY <4>1, <4>2
    <3>3. ASSUME NEW k \in 0 .. m - 1 - 1, k \in T PROVE k + 1 \in T
      <4>1. k + 1 \in 0 .. m - 1 /\ k + 2 \in 1 .. m /\ k + 2 \in 1 .. n /\ k + 2 # 1
            /\ (k + 2) - 1 = k + 1 /\ (k + 1) + 1 = k + 2
        OBVIOUS
      <4>2. g[k + 1] = f[k + 1]
        BY <3>3
      <4>3. g[k + 2] = g[k + 1] \o E[k + 2]
        BY <3>1, <4>1
      <4>4. f[k + 2] = f[k + 1] \o E[k + 2]
        BY <1>2, <4>1
      <4> QED BY <4>1, <4>2, <4>3, <4>4
    <3>4. m - 1 \in Nat
      OBVIOUS
    <3>5. \A k \in 0 .. m - 1 : k \in T
      <4> DEFINE q == m - 1
      <4>1. q \in Nat /\ 0 \in T /\ \A k \in 0 .. q - 1 : k \in T => k + 1 \in T
        BY <3>2, <3>3, <3>4
      <4> HIDE DEF T, q
      <4>2. \A k \in 0 .. q : k \in T
        BY <4>1, EveryRound
      <4> QED BY <4>2 DEF q
    <3>6. m - 1 \in T /\ (m - 1) + 1 = m
      BY <3>4, <3>5
    <3> QED BY <3>6
  <2>3. Len(Pieces(E, m)) = m /\ m # 0
    BY PiecesLength
  <2>4. FlattenSeq(Pieces(E, m)) = (CHOOSE g : Is(g))[m]
    <3>1. \A i \in 1 .. m : Pieces(E, m)[i] = E[i]
      BY DEF Pieces
    <3>2. FlattenSeq(Pieces(E, m)) =
            (CHOOSE g : g = [i \in 1 .. m |-> IF i = 1 THEN Pieces(E, m)[i]
                                              ELSE g[i - 1] \o Pieces(E, m)[i]])[m]
      BY <2>3 DEF FlattenSeq
    <3>3. \A g : [i \in 1 .. m |-> IF i = 1 THEN Pieces(E, m)[i]
                                   ELSE g[i - 1] \o Pieces(E, m)[i]]
                 = [i \in 1 .. m |-> IF i = 1 THEN E[i] ELSE g[i - 1] \o E[i]]
      BY <3>1
    <3> QED BY <3>2, <3>3
  <2>5. Is(CHOOSE g : Is(g))
    <3> HIDE DEF h
    <3> QED BY <2>1
  <2> HIDE DEF Is
  <2> QED BY <2>2, <2>4, <2>5
<1>6. \A m \in 0 .. n : m = 0 \/ m \in 1 .. n
  OBVIOUS
<1> QED BY <1>1, <1>4, <1>5, <1>6

LEMMA FlatGrows ==
  ASSUME NEW S, NEW n \in Nat, NEW E, \A k \in 1 .. n + 1 : E[k] \in Seq(S)
  PROVE  /\ FlattenSeq(Pieces(E, 0)) = <<>>
         /\ FlattenSeq(Pieces(E, n)) \in Seq(S)
         /\ FlattenSeq(Pieces(E, n + 1)) = FlattenSeq(Pieces(E, n)) \o E[n + 1]
         /\ FlattenSeq(Pieces(E, n + 1)) \in Seq(S)
<1> DEFINE N == n + 1
           P == Seq(S)
           b == <<>>
           step == [p \in (1 .. N) \X P |-> p[2] \o E[p[1]]]
<1>1. N \in Nat /\ b \in P /\ \A k \in 1 .. N : E[k] \in P
  OBVIOUS
<1>2. step \in [(1 .. N) \X P -> P]
  <2> HIDE DEF N
  <2>1. \A p \in (1 .. N) \X P : p[2] \o E[p[1]] \in P
    BY <1>1
  <2> QED BY <2>1
<1>3. PICK f : Computes(f, N, P, b, step)
  <2> HIDE DEF N, P, b, step
  <2> QED BY <1>1, <1>2, LoopExists
<1>4. \A m \in 0 .. N : FlattenSeq(Pieces(E, m)) = f[m] /\ f[m] \in Seq(S)
  <2> HIDE DEF N
  <2> QED BY <1>1, <1>3, FlatIs
<1>5. f[N] = f[n] \o E[N] /\ f[0] = <<>>
  <2>1. n \in 0 .. N /\ N \in 1 .. N /\ N - 1 = n
    OBVIOUS
  <2>2. <<N, f[N - 1]>> \in (1 .. N) \X P
    BY <1>4, <2>1
  <2> HIDE DEF N, P
  <2>3. f[N] = step[<<N, f[N - 1]>>] /\ f[0] = <<>>
    BY <1>3, <2>1 DEF Computes
  <2>4. step[<<N, f[N - 1]>>] = f[N - 1] \o E[N]
    <3> HIDE DEF b
    <3> QED BY <2>2
  <2> QED BY <2>1, <2>3, <2>4
<1>6. n \in 0 .. N /\ N \in 0 .. N /\ 0 \in 0 .. N
  OBVIOUS
<1> HIDE DEF P, step
<1> QED BY <1>4, <1>5, <1>6 DEF P

(* The lines of a text have no line end in them.                           *)
Lines == Seq(Chars \ {NL})

LEMMA LineTypes ==
  ASSUME NEW l \in Lines
  PROVE  /\ l \in Seq(Chars) /\ Append(l, NL) \in Seq(Chars)
         /\ Append(l, NL) = l \o <<NL>> /\ Len(Append(l, NL)) = Len(l) + 1
         /\ <<NL>> \in Seq(Chars) /\ <<NL>> \o l \in Seq(Chars)
         /\ Len(l) \in Nat /\ IsText(l)
<1>1. NL \in Chars /\ Chars \ {NL} \subseteq Chars
  BY NanoAssumption
<1>2. l \in Seq(Chars)
  BY <1>1, SeqMonotonic DEF Lines
<1>3. <<NL>> \in Seq(Chars)
  BY <1>1
<1> QED BY <1>1, <1>2, <1>3, AppendProperties, AppendIsConcat, ConcatProperties, SeqIsText

LEMMA TextGrows ==
  ASSUME NEW n \in Nat, NEW ls, \A i \in 0 .. n : ls[i] \in Lines
  PROVE  /\ Text(ls, 0) = <<>>
         /\ Text(ls, n) \in Seq(Chars)
         /\ Text(ls, n + 1) = Text(ls, n) \o Append(ls[n], NL)
         /\ Text(ls, n + 1) \in Seq(Chars)
<1> DEFINE E == [k \in 1 .. n + 1 |-> Append(ls[k - 1], NL)]
<1>1. \A k \in 1 .. n + 1 : E[k] \in Seq(Chars)
  <2>1. \A k \in 1 .. n + 1 : k - 1 \in 0 .. n
    OBVIOUS
  <2> QED BY <2>1, LineTypes
<1>2. \A m \in 0 .. n + 1 : Text(ls, m) = FlattenSeq(Pieces(E, m))
  <2>1. ASSUME NEW m \in 0 .. n + 1
        PROVE  Pieces(E, m) = [k \in 1 .. m |-> Append(ls[k - 1], NL)]
    <3>1. \A k \in 1 .. m : k \in 1 .. n + 1
      OBVIOUS
    <3> QED BY <3>1 DEF Pieces
  <2> HIDE DEF E
  <2> QED BY <2>1 DEF Text
<1>3. n \in 0 .. n + 1 /\ n + 1 \in 0 .. n + 1 /\ 0 \in 0 .. n + 1 /\ n + 1 \in 1 .. n + 1
      /\ (n + 1) - 1 = n
  OBVIOUS
<1>4. E[n + 1] = Append(ls[n], NL)
  BY <1>3
<1> HIDE DEF E
<1>5. /\ FlattenSeq(Pieces(E, 0)) = <<>>
      /\ FlattenSeq(Pieces(E, n)) \in Seq(Chars)
      /\ FlattenSeq(Pieces(E, n + 1)) = FlattenSeq(Pieces(E, n)) \o E[n + 1]
      /\ FlattenSeq(Pieces(E, n + 1)) \in Seq(Chars)
  BY <1>1, FlatGrows
<1> QED BY <1>2, <1>3, <1>4, <1>5

(* Texts of the same lines are the same.                                   *)
LEMMA SameText ==
  ASSUME NEW n \in Nat, NEW ls, NEW ms, \A i \in 0 .. n - 1 : ls[i] = ms[i]
  PROVE  Text(ls, n) = Text(ms, n)
<1>1. \A k \in 1 .. n : k - 1 \in 0 .. n - 1
  OBVIOUS
<1>2. [k \in 1 .. n |-> Append(ls[k - 1], NL)] = [k \in 1 .. n |-> Append(ms[k - 1], NL)]
  BY <1>1
<1> QED BY <1>2 DEF Text

(* The n lines behind line c, each with the line end in front of it.       *)
Behind(ls, c, n) == FlattenSeq([k \in 1 .. n |-> <<NL>> \o ls[c + k]])

LEMMA BehindGrows ==
  ASSUME NEW c \in Int, NEW n \in Nat, NEW ls, \A k \in 1 .. n + 1 : ls[c + k] \in Lines
  PROVE  /\ Behind(ls, c, 0) = <<>>
         /\ Behind(ls, c, n) \in Seq(Chars)
         /\ Behind(ls, c, n + 1) = Behind(ls, c, n) \o (<<NL>> \o ls[c + (n + 1)])
         /\ Behind(ls, c, n + 1) \in Seq(Chars)
<1> DEFINE E == [k \in 1 .. n + 1 |-> <<NL>> \o ls[c + k]]
<1>1. \A k \in 1 .. n + 1 : E[k] \in Seq(Chars)
  BY LineTypes
<1>2. \A m \in 0 .. n + 1 : Behind(ls, c, m) = FlattenSeq(Pieces(E, m))
  <2>1. ASSUME NEW m \in 0 .. n + 1
        PROVE  Pieces(E, m) = [k \in 1 .. m |-> <<NL>> \o ls[c + k]]
    <3>1. \A k \in 1 .. m : k \in 1 .. n + 1
      OBVIOUS
    <3> QED BY <3>1 DEF Pieces
  <2> HIDE DEF E
  <2> QED BY <2>1 DEF Behind
<1>3. n \in 0 .. n + 1 /\ n + 1 \in 0 .. n + 1 /\ 0 \in 0 .. n + 1 /\ n + 1 \in 1 .. n + 1
  OBVIOUS
<1>4. E[n + 1] = <<NL>> \o ls[c + (n + 1)]
  BY <1>3
<1> HIDE DEF E
<1>5. /\ FlattenSeq(Pieces(E, 0)) = <<>>
      /\ FlattenSeq(Pieces(E, n)) \in Seq(Chars)
      /\ FlattenSeq(Pieces(E, n + 1)) = FlattenSeq(Pieces(E, n)) \o E[n + 1]
      /\ FlattenSeq(Pieces(E, n + 1)) \in Seq(Chars)
  BY <1>1, FlatGrows
<1> QED BY <1>2, <1>3, <1>4, <1>5

LEMMA SameBehind ==
  ASSUME NEW n \in Nat, NEW ls, NEW ms, NEW c \in Int, NEW d \in Int,
         \A k \in 1 .. n : ls[c + k] = ms[d + k]
  PROVE  Behind(ls, c, n) = Behind(ms, d, n)
<1>1. [k \in 1 .. n |-> <<NL>> \o ls[c + k]] = [k \in 1 .. n |-> <<NL>> \o ms[d + k]]
  OBVIOUS
<1> QED BY <1>1 DEF Behind

(* Both are texts, however many lines they have.                           *)
LEMMA TextIsText ==
  ASSUME NEW n \in Nat, NEW ls, \A i \in 0 .. n - 1 : ls[i] \in Lines
  PROVE  Text(ls, n) \in Seq(Chars) /\ Text(ls, 0) = <<>>
<1>0. <<>> \in Seq(Chars)
  OBVIOUS
<1>1. CASE n = 0
  <2> DEFINE e == [i \in 0 .. 0 |-> <<>>]
  <2>1. \A i \in 0 .. 0 : e[i] \in Lines
    BY DEF Lines
  <2>2. Text(e, 0) = <<>>
    <3> HIDE DEF e
    <3> QED BY <2>1, TextGrows
  <2>3. Text(ls, 0) = Text(e, 0)
    <3> HIDE DEF e
    <3> QED BY SameText
  <2> QED BY <1>0, <1>1, <2>2, <2>3
<1>2. CASE n # 0
  <2> DEFINE m == n - 1
  <2>1. m \in Nat /\ m + 1 = n
    BY <1>2
  <2> HIDE DEF m
  <2> QED BY <2>1, TextGrows DEF m
<1> QED BY <1>1, <1>2

LEMMA BehindIsText ==
  ASSUME NEW c \in Int, NEW n \in Nat, NEW ls, \A k \in 1 .. n : ls[c + k] \in Lines
  PROVE  Behind(ls, c, n) \in Seq(Chars) /\ Behind(ls, c, 0) = <<>>
<1>0. <<>> \in Seq(Chars)
  OBVIOUS
<1>1. CASE n = 0
  <2> DEFINE e == [i \in 1 .. 1 |-> <<>>]
  <2>1. \A k \in 1 .. 0 + 1 : e[0 + k] \in Lines
    BY DEF Lines
  <2>2. Behind(e, 0, 0) = <<>>
    <3> HIDE DEF e
    <3> QED BY <2>1, BehindGrows
  <2>3. Behind(ls, c, 0) = Behind(e, 0, 0)
    <3> HIDE DEF e
    <3> QED BY SameBehind
  <2> QED BY <1>0, <1>1, <2>2, <2>3
<1>2. CASE n # 0
  <2> DEFINE m == n - 1
  <2>1. m \in Nat /\ m + 1 = n
    BY <1>2
  <2> HIDE DEF m
  <2> QED BY <2>1, BehindGrows
<1> QED BY <1>1, <1>2

-----------------------------------------------------------------------------
(* Loading what was saved.                                                 *)

LEMMA LineOfGrows ==
  ASSUME NEW b, NEW j \in Nat \ {0}
  PROVE  /\ LineOf(b, j) \in Nat
         /\ LineOf(b, 1) = 0
         /\ LineOf(b, j + 1) = LineOf(b, j) + (IF b[j] = NL THEN 1 ELSE 0)
<1> DEFINE Ends(m) == {i \in 1 .. m : b[i] = NL}
<1>1. \A m \in Nat : IsFiniteSet(Ends(m))
  <2> SUFFICES ASSUME NEW m \in Nat PROVE IsFiniteSet(Ends(m))
    OBVIOUS
  <2>1. IsFiniteSet(1 .. m) /\ Ends(m) \in SUBSET (1 .. m)
    BY FS_Interval
  <2> HIDE DEF Ends
  <2> QED BY <2>1, FS_Subset
<1>2. (j - 1 \in Nat) /\ ((j + 1) - 1 = j) /\ (1 - 1 = 0)
  OBVIOUS
<1>3. \A m : LineOf(b, m) = Cardinality(Ends(m - 1))
  BY DEF LineOf
<1>4. Cardinality(Ends(0)) = 0
  <2>1. Ends(0) = {}
    OBVIOUS
  <2> QED BY <2>1, FS_EmptySet
<1>5. CASE b[j] = NL
  <2>1. Ends(j) = Ends(j - 1) \cup {j} /\ j \notin Ends(j - 1)
    BY <1>5
  <2> HIDE DEF Ends
  <2>2. Cardinality(Ends(j)) = Cardinality(Ends(j - 1)) + 1 /\ Cardinality(Ends(j - 1)) \in Nat
    BY <1>1, <1>2, <2>1, FS_AddElement, FS_CardinalityType
  <2> QED BY <1>2, <1>3, <1>4, <1>5, <2>2
<1>6. CASE b[j] # NL
  <2>1. Ends(j) = Ends(j - 1)
    BY <1>6
  <2> HIDE DEF Ends
  <2>2. Cardinality(Ends(j - 1)) \in Nat
    BY <1>1, <1>2, FS_CardinalityType
  <2> QED BY <1>2, <1>3, <1>4, <1>6, <2>1, <2>2
<1> QED BY <1>5, <1>6

LEMMA LineOfSame ==
  ASSUME NEW b, NEW c, NEW j, \A i \in 1 .. j - 1 : b[i] = c[i]
  PROVE  LineOf(b, j) = LineOf(c, j)
<1>1. {i \in 1 .. j - 1 : b[i] = NL} = {i \in 1 .. j - 1 : c[i] = NL}
  OBVIOUS
<1> QED BY <1>1 DEF LineOf

(* Where no line end is, the line stays the same.                          *)
LEMMA LineOfStays ==
  ASSUME NEW b, NEW p \in Nat \ {0}, NEW n \in Nat, \A i \in p .. p + n - 1 : b[i] # NL
  PROVE  \A k \in 0 .. n : LineOf(b, p + k) = LineOf(b, p)
<1> DEFINE T == {k \in 0 .. n : LineOf(b, p + k) = LineOf(b, p)}
<1>1. 0 \in T
  OBVIOUS
<1>2. ASSUME NEW k \in 0 .. n - 1, k \in T PROVE k + 1 \in T
  <2>1. /\ k + 1 \in 0 .. n /\ p + k \in Nat \ {0} /\ p + k \in p .. p + n - 1
        /\ (p + k) + 1 = p + (k + 1)
    OBVIOUS
  <2>2. LineOf(b, (p + k) + 1) = LineOf(b, p + k) /\ LineOf(b, p + k) = LineOf(b, p)
    <3>1. b[p + k] # NL
      BY <2>1
    <3>2. /\ LineOf(b, p + k) \in Nat
          /\ LineOf(b, (p + k) + 1) = LineOf(b, p + k) + (IF b[p + k] = NL THEN 1 ELSE 0)
      <4> DEFINE j == p + k
      <4>1. j \in Nat \ {0}
        BY <2>1
      <4> HIDE DEF j
      <4>2. LineOf(b, j) \in Nat /\ LineOf(b, j + 1) = LineOf(b, j) + (IF b[j] = NL THEN 1 ELSE 0)
        BY <4>1, LineOfGrows
      <4> QED BY <4>2 DEF j
    <3> QED BY <1>2, <3>1, <3>2
  <2> QED BY <2>1, <2>2
<1>3. \A k \in 0 .. n : k \in T
  <2> HIDE DEF T
  <2> QED BY <1>1, <1>2, EveryRound
<1> QED BY <1>3

(* Lines are counted upwards.                                              *)
LEMMA LineOfRises ==
  ASSUME NEW b, NEW n \in Nat, NEW j \in 1 .. n
  PROVE  LineOf(b, j) <= LineOf(b, n) /\ LineOf(b, j) \in Nat /\ LineOf(b, n) \in Nat
<1> DEFINE A == {i \in 1 .. j - 1 : b[i] = NL}
           B == {i \in 1 .. n - 1 : b[i] = NL}
<1>1. A \subseteq B /\ B \in SUBSET (1 .. n - 1) /\ IsFiniteSet(1 .. n - 1)
  <2>1. A \subseteq B
    OBVIOUS
  <2>2. IsFiniteSet(1 .. n - 1)
    BY FS_Interval
  <2> QED BY <2>1, <2>2
<1> HIDE DEF A, B
<1>2. IsFiniteSet(B)
  BY <1>1, FS_Subset
<1>3. Cardinality(A) <= Cardinality(B) /\ Cardinality(B) \in Nat /\ Cardinality(A) \in Nat
  BY <1>1, <1>2, FS_Subset, FS_CardinalityType
<1> QED BY <1>3 DEF LineOf, A, B

(* The places of a set of places, from its least to its greatest.          *)
LEMMA MinMaxOf ==
  ASSUME NEW T, NEW lo \in Int, NEW hi \in Int, lo \in T, hi \in T,
         \A x \in T : x \in Int /\ lo <= x /\ x <= hi
  PROVE  Min(T) = lo /\ Max(T) = hi
<1>1. Min(T) \in T /\ \A y \in T : Min(T) <= y
  <2>1. \E x \in T : \A y \in T : x <= y
    OBVIOUS
  <2> QED BY <2>1 DEF Min
<1>2. Max(T) \in T /\ \A y \in T : Max(T) >= y
  <2>1. \E x \in T : \A y \in T : x >= y
    OBVIOUS
  <2> QED BY <2>1 DEF Max
<1>3. lo <= Min(T) /\ Min(T) <= lo /\ Min(T) \in Int
  BY <1>1
<1>4. hi <= Max(T) /\ Max(T) <= hi /\ Max(T) \in Int
  BY <1>2
<1> HIDE DEF Min, Max
<1> QED BY <1>3, <1>4

(* What a file with one line more is loaded as.                            *)
Loads(b, ls, n) ==
  /\ b \in Seq(Chars)
  /\ LineOf(b, Len(b) + 1) = n
  /\ \A j \in 1 .. Len(b) : LineOf(b, j) < n
  /\ \A i \in Nat : LineText(b, i) = IF i < n THEN ls[i] ELSE <<>>
  /\ n > 0 => b # <<>> /\ Last(b) = NL

At(b, i) == {j \in DOMAIN b : LineOf(b, j) = i /\ b[j] # NL}

LEMMA LoadsOneMore ==
  ASSUME NEW b, NEW ls, NEW n \in Nat, Loads(b, ls, n),
         ls[n] \in Lines, Len(ls[n]) < NANO_LINE_LEN
  PROVE  Loads(b \o Append(ls[n], NL), ls, n + 1)
<1> DEFINE l == ls[n]
           e == Append(l, NL)
           c == b \o e
           p == Len(b)
           q == Len(l)
<1>1. /\ b \in Seq(Chars) /\ e \in Seq(Chars) /\ l \in Seq(Chars) /\ l \in Lines
      /\ c \in Seq(Chars) /\ p \in Nat /\ q \in Nat /\ Len(e) = q + 1 /\ Len(c) = p + (q + 1)
      /\ DOMAIN c = 1 .. Len(c) /\ DOMAIN b = 1 .. p
  <2>1. /\ b \in Seq(Chars) /\ e \in Seq(Chars) /\ l \in Seq(Chars) /\ l \in Lines
        /\ q \in Nat /\ Len(e) = q + 1
    BY LineTypes DEF Loads
  <2> HIDE DEF e, l
  <2>2. c \in Seq(Chars) /\ p \in Nat /\ Len(c) = p + (q + 1)
    <3>1. b \o e \in Seq(Chars) /\ Len(b \o e) = Len(b) + Len(e) /\ Len(b) \in Nat
      BY <2>1, ConcatProperties, LenProperties
    <3> QED BY <2>1, <3>1
  <2> HIDE DEF c
  <2> QED BY <2>1, <2>2, LenProperties
<1>2. /\ \A j \in 1 .. p : c[j] = b[j]
      /\ \A j \in p + 1 .. p + q : c[j] = l[j - p] /\ c[j] # NL
      /\ c[p + (q + 1)] = NL
  <2>1. /\ \A i \in 1 .. q : e[i] = l[i]
        /\ e[q + 1] = NL
    BY <1>1
  <2>2. \A i \in 1 .. q : l[i] # NL
    BY <1>1 DEF Lines
  <2> HIDE DEF e, l
  <2>3. \A j \in 1 .. p + (q + 1) : c[j] = IF j <= p THEN b[j] ELSE e[j - p]
    BY <1>1, ConcatProperties
  <2> HIDE DEF c, p, q
  <2>4. \A j \in 1 .. p : c[j] = b[j]
    BY <1>1, <2>3
  <2>5. \A j \in p + 1 .. p + q : j \in 1 .. p + (q + 1) /\ ~(j <= p) /\ j - p \in 1 .. q
    BY <1>1
  <2>6. p + (q + 1) \in 1 .. p + (q + 1) /\ ~(p + (q + 1) <= p) /\ (p + (q + 1)) - p = q + 1
    BY <1>1
  <2> QED BY <2>1, <2>2, <2>3, <2>4, <2>5, <2>6
<1>3. c \in Seq(Chars) /\ c # <<>> /\ Last(c) = NL
  <2> HIDE DEF c, p, q
  <2>1. Len(c) > 0
    BY <1>1
  <2>2. Last(c) = NL
    BY <1>1, <1>2 DEF Last
  <2> QED BY <1>1, <2>1, <2>2, EmptySeq
<1>4. /\ \A j \in 1 .. p + 1 : LineOf(c, j) = LineOf(b, j)
      /\ LineOf(c, p + 1) = n
  <2> HIDE DEF c, p
  <2>1. ASSUME NEW j \in 1 .. p + 1 PROVE LineOf(c, j) = LineOf(b, j)
    <3>1. \A i \in 1 .. j - 1 : i \in 1 .. p
      BY <1>1
    <3> QED BY <1>2, <3>1, LineOfSame
  <2>2. LineOf(b, p + 1) = n /\ p + 1 \in 1 .. p + 1
    BY <1>1 DEF Loads, p
  <2> QED BY <2>1, <2>2
<1>5. /\ \A j \in p + 1 .. p + (q + 1) : LineOf(c, j) = n
      /\ LineOf(c, Len(c) + 1) = n + 1
  <2> DEFINE s == p + 1
             t == p + (q + 1)
  <2>1. s \in Nat \ {0} /\ \A i \in s .. s + q - 1 : c[i] # NL
    <3> HIDE DEF c, p, q
    <3>1. \A i \in (p + 1) .. (p + 1) + q - 1 : i \in p + 1 .. p + q
      BY <1>1
    <3> QED BY <1>1, <1>2, <3>1
  <2>2. \A k \in 0 .. q : LineOf(c, s + k) = LineOf(c, s)
    <3> HIDE DEF s, c, q
    <3> QED BY <1>1, <2>1, LineOfStays
  <2> HIDE DEF c, p, q
  <2>3. \A j \in p + 1 .. t : j - (p + 1) \in 0 .. q /\ (p + 1) + (j - (p + 1)) = j
    BY <1>1
  <2>4. \A j \in p + 1 .. t : LineOf(c, j) = n
    BY <1>4, <2>2, <2>3
  <2>5. t \in Nat \ {0} /\ t \in p + 1 .. t /\ c[t] = NL /\ Len(c) = t
    BY <1>1, <1>2
  <2>6. LineOf(c, t + 1) = LineOf(c, t) + 1
    <3> HIDE DEF t
    <3> QED BY <2>5, LineOfGrows
  <2> QED BY <2>4, <2>5, <2>6
<1>6. \A j \in 1 .. Len(c) : LineOf(c, j) < n + 1
  <2> HIDE DEF c, q
  <2>1. \A j \in 1 .. p : LineOf(b, j) < n /\ LineOf(b, j) \in Nat /\ j \in 1 .. p + 1
    <3>1. \A j \in 1 .. p : LineOf(b, j) < n
      BY DEF Loads
    <3>2. \A j \in 1 .. p : j \in Nat \ {0} /\ j \in 1 .. p + 1
      BY <1>1
    <3> QED BY <3>1, <3>2, LineOfGrows
  <2> HIDE DEF p
  <2>2. \A j \in 1 .. Len(c) : j \in 1 .. p \/ j \in p + 1 .. p + (q + 1)
    BY <1>1
  <2>3. ASSUME NEW j \in 1 .. Len(c) PROVE LineOf(c, j) < n + 1
    <3>1. CASE j \in 1 .. p
      BY <1>4, <2>1, <3>1
    <3>2. CASE j \in p + 1 .. p + (q + 1)
      BY <1>5, <3>2
    <3> QED BY <2>2, <3>1, <3>2
  <2> QED BY <2>3
<1> HIDE DEF l, e, c, p, q
<1>7. ASSUME NEW i \in Nat PROVE LineText(c, i) = IF i < n + 1 THEN ls[i] ELSE <<>>
  <2>0. NANO_LINE_LEN - 1 \in Nat /\ NANO_LINE_LEN \in Nat
    BY NanoAssumption
  <2>1. \A d : LineText(d, i) = IF At(d, i) = {} THEN <<>>
                                ELSE Cut(SubSeq(d, Min(At(d, i)), Max(At(d, i))), NANO_LINE_LEN - 1)
    BY DEF LineText, At
  <2>2. ASSUME i < n PROVE At(c, i) = At(b, i)
    <3>1. ASSUME NEW j \in 1 .. Len(c), LineOf(c, j) = i PROVE j \in 1 .. p
      <4>1. j \in 1 .. p \/ j \in p + 1 .. p + (q + 1)
        BY <1>1
      <4> QED BY <1>5, <2>2, <3>1, <4>1
    <3>2. \A j \in 1 .. p : j \in 1 .. Len(c) /\ j \in 1 .. p + 1 /\ LineOf(c, j) = LineOf(b, j)
                            /\ c[j] = b[j]
      BY <1>1, <1>2, <1>4
    <3> QED BY <1>1, <3>1, <3>2 DEF At
  <2>3. ASSUME i > n PROVE At(c, i) = {}
    <3>1. \A j \in 1 .. Len(c) : LineOf(c, j) # i
      <4>1. \A j \in 1 .. Len(c) : LineOf(c, j) < n + 1
        BY <1>6
      <4> QED BY <2>3, <4>1
    <3> QED BY <1>1, <3>1 DEF At
  <2>4. At(c, n) = p + 1 .. p + q
    <3>1. ASSUME NEW j \in 1 .. Len(c), LineOf(c, j) = n, c[j] # NL PROVE j \in p + 1 .. p + q
      <4>1. j \notin 1 .. p
        <5>1. \A k \in 1 .. p : LineOf(b, k) < n /\ LineOf(c, k) = LineOf(b, k)
          BY <1>1, <1>4 DEF Loads, p
        <5> QED BY <3>1, <5>1
      <4>2. j # p + (q + 1)
        BY <1>2, <3>1
      <4> QED BY <1>1, <4>1, <4>2
    <3>2. \A j \in p + 1 .. p + q : j \in 1 .. Len(c) /\ j \in p + 1 .. p + (q + 1)
      BY <1>1
    <3>3. \A j \in p + 1 .. p + q : j \in 1 .. Len(c) /\ LineOf(c, j) = n /\ c[j] # NL
      BY <1>2, <1>5, <3>2
    <3> QED BY <1>1, <3>1, <3>3 DEF At
  <2>5. CASE i < n
    <3>1. LineText(b, i) = ls[i]
      BY <2>5 DEF Loads
    <3>2. CASE At(b, i) = {}
      BY <2>1, <2>2, <2>5, <3>1, <3>2
    <3>3. CASE At(b, i) # {}
      <4> DEFINE T == At(b, i)
      <4>1. T \subseteq 1 .. p /\ T # {}
        BY <1>1, <3>3 DEF At
      <4>2. Min(T) \in 1 .. p /\ Max(T) \in 1 .. p
        <5> HIDE DEF T
        <5> QED BY <1>1, <4>1, MinMaxIn
      <4>3. SubSeq(c, Min(T), Max(T)) = SubSeq(b, Min(T), Max(T))
        <5> DEFINE lo == Min(T)
                   hi == Max(T)
        <5>1. lo \in 1 .. Len(b) /\ hi \in 1 .. Len(b)
          BY <4>2 DEF p
        <5> HIDE DEF lo, hi, T
        <5>2. SubSeq(b \o e, lo, hi) = SubSeq(b, lo, hi)
          BY <1>1, <5>1, SubSeqOfConcat1
        <5> QED BY <5>2 DEF lo, hi, c
      <4>4. LineText(c, i) = LineText(b, i)
        BY <2>1, <2>2, <2>5, <3>3, <4>3
      <4> QED BY <2>5, <3>1, <4>4
    <3> QED BY <3>2, <3>3
  <2>6. CASE i = n
    <3>1. CASE q = 0
      <4>1. At(c, n) = {}
        BY <1>1, <2>4, <3>1
      <4>2. l = <<>>
        BY <1>1, <3>1, EmptySeq DEF q
      <4> QED BY <2>1, <2>6, <4>1, <4>2 DEF l
    <3>2. CASE q # 0
      <4> DEFINE T == p + 1 .. p + q
      <4>1. Min(T) = p + 1 /\ Max(T) = p + q /\ T # {}
        <5> DEFINE lo == p + 1
                   hi == p + q
        <5>1. /\ lo \in Int /\ hi \in Int /\ lo \in T /\ hi \in T
              /\ \A x \in T : x \in Int /\ lo <= x /\ x <= hi
          BY <1>1, <3>2
        <5> HIDE DEF T, lo, hi
        <5>2. Min(T) = lo /\ Max(T) = hi
          BY <5>1, MinMaxOf
        <5> QED BY <5>1, <5>2 DEF lo, hi
      <4> HIDE DEF T
      <4>2. SubSeq(c, p + 1, p + q) = l
        <5>1. \A j \in p + 1 .. p + q : c[j] \in Chars
          <6>1. \A j \in p + 1 .. p + q : j \in 1 .. Len(c)
            BY <1>1
          <6> QED BY <1>1, <6>1, ElementOfSeq
        <5> DEFINE lo == p + 1
                   hi == p + q
                   s == SubSeq(c, lo, hi)
        <5>2. lo \in Int /\ hi \in Int /\ \A j \in lo .. hi : c[j] \in Chars
          BY <1>1, <5>1
        <5>3. /\ s \in Seq(Chars)
              /\ Len(s) = IF lo <= hi THEN hi - lo + 1 ELSE 0
              /\ \A j \in 1 .. hi - lo + 1 : s[j] = c[lo + j - 1]
          <6> HIDE DEF lo, hi
          <6> QED BY <5>2, SubSeqProperties
        <5> HIDE DEF s
        <5>4. /\ Len(s) = q
              /\ \A j \in 1 .. q : s[j] = c[lo + j - 1] /\ lo + j - 1 = p + j
                                   /\ p + j \in p + 1 .. p + q /\ (p + j) - p = j
          BY <1>1, <3>2, <5>3
        <5>5. \A j \in 1 .. q : s[j] = l[j]
          BY <1>2, <5>4
        <5> HIDE DEF lo, hi
        <5>6. Len(s) = Len(l)
          BY <5>4 DEF q
        <5>7. s = l
          BY <1>1, <5>3, <5>4, <5>5, <5>6, SeqEqual
        <5> QED BY <5>7 DEF s, lo, hi
      <4>3. Cut(l, NANO_LINE_LEN - 1) = l
        <5>1. Least(Len(l), NANO_LINE_LEN - 1) = Len(l)
          BY <1>1, <2>0 DEF Least, l, q
        <5> QED BY <1>1, <5>1, SubSeqFull DEF Cut
      <4>4. At(c, n) = T
        BY <2>4 DEF T
      <4>5. LineText(c, n) = l
        BY <2>1, <2>6, <4>1, <4>2, <4>3, <4>4
      <4> QED BY <2>6, <4>5 DEF l
    <3> QED BY <3>1, <3>2
  <2>7. CASE i > n
    BY <2>1, <2>3, <2>7
  <2> QED BY <2>5, <2>6, <2>7
<1>8. n + 1 > 0 => c # <<>> /\ Last(c) = NL
  BY <1>3
<1> QED BY <1>3, <1>5, <1>6, <1>7, <1>8 DEF Loads, c, e, l

(* Lines that fit into their buffers.                                      *)
Good(ls, n) == \A i \in 0 .. n - 1 : ls[i] \in Lines /\ Len(ls[i]) < NANO_LINE_LEN

LEMMA SavedLoads ==
  ASSUME NEW n \in Nat, NEW ls, Good(ls, n)
  PROVE  Loads(Text(ls, n), ls, n)
<1> DEFINE T == {k \in 0 .. n : Loads(Text(ls, k), ls, k)}
<1>1. 0 \in T
  <2>1. Text(ls, 0) = <<>>
    <3>1. \A i \in 0 .. 0 - 1 : ls[i] \in Lines
      OBVIOUS
    <3> QED BY <3>1, TextIsText
  <2>2. LineOf(<<>>, 1) = 0
    BY LineOfGrows
  <2>3. \A i \in Nat : LineText(<<>>, i) = <<>>
    <3>1. \A i \in Nat : {j \in DOMAIN <<>> : LineOf(<<>>, j) = i /\ <<>>[j] # NL} = {}
      OBVIOUS
    <3> QED BY <3>1 DEF LineText
  <2>4. <<>> \in Seq(Chars) /\ Len(<<>>) = 0
    OBVIOUS
  <2>5. Loads(<<>>, ls, 0)
    BY <2>2, <2>3, <2>4 DEF Loads
  <2> QED BY <2>1, <2>5
<1>2. ASSUME NEW k \in 0 .. n - 1, k \in T PROVE k + 1 \in T
  <2>1. /\ k \in Nat /\ k + 1 \in 0 .. n /\ ls[k] \in Lines /\ Len(ls[k]) < NANO_LINE_LEN
        /\ \A i \in 0 .. k : ls[i] \in Lines
    <3>1. k \in Nat /\ k + 1 \in 0 .. n /\ k \in 0 .. n - 1 /\ \A i \in 0 .. k : i \in 0 .. n - 1
      OBVIOUS
    <3> QED BY <3>1 DEF Good
  <2>2. Loads(Text(ls, k), ls, k)
    BY <1>2
  <2>3. Loads(Text(ls, k) \o Append(ls[k], NL), ls, k + 1)
    BY <2>1, <2>2, LoadsOneMore
  <2>4. Text(ls, k + 1) = Text(ls, k) \o Append(ls[k], NL)
    BY <2>1, TextGrows
  <2> QED BY <2>1, <2>3, <2>4
<1>3. \A k \in 0 .. n : k \in T
  <2> HIDE DEF T
  <2> QED BY <1>1, <1>2, EveryRound
<1>4. n \in 0 .. n
  OBVIOUS
<1> QED BY <1>3, <1>4

(* Loading what a save wrote, and saving what was loaded.                  *)
LEMMA SaveAndLoad ==
  ASSUME NEW n \in 1 .. NANO_MAX_LINES, NEW ls, Good(ls, n)
  PROVE  /\ ParsedLines(Text(ls, n)) = n
         /\ \A i \in LineIndex : Parsed(Text(ls, n))[i] = IF i < n THEN ls[i] ELSE <<>>
         /\ Text(Parsed(Text(ls, n)), n) = Text(ls, n)
         /\ Text(ls, n) \in Seq(Chars) /\ Text(ls, n) # <<>>
<1> DEFINE b == Text(ls, n)
<1>1. n \in Nat /\ n > 0 /\ n <= NANO_MAX_LINES /\ NANO_MAX_LINES \in Nat
  BY NanoAssumption
<1>2. Loads(b, ls, n)
  BY <1>1, SavedLoads
<1> HIDE DEF b
<1>3. b # <<>> /\ Last(b) = NL /\ LineOf(b, Len(b) + 1) = n /\ b \in Seq(Chars)
  BY <1>1, <1>2 DEF Loads
<1>4. Count(b) = n
  BY <1>1, <1>3 DEF Count
<1>5. ParsedLines(b) = n
  BY <1>1, <1>4 DEF ParsedLines, Least
<1>6. \A i \in LineIndex : Parsed(b)[i] = IF i < n THEN ls[i] ELSE <<>>
  <2>1. \A i \in LineIndex : i \in Nat
    BY DEF LineIndex
  <2> QED BY <1>2, <2>1 DEF Parsed, Loads
<1>7. Text(Parsed(b), n) = Text(ls, n)
  <2>1. \A i \in 0 .. n - 1 : i \in LineIndex /\ i < n
    BY <1>1 DEF LineIndex
  <2>2. \A i \in 0 .. n - 1 : Parsed(b)[i] = ls[i]
    BY <1>6, <2>1
  <2> DEFINE m == Parsed(b)
  <2> HIDE DEF m
  <2>3. \A i \in 0 .. n - 1 : m[i] = ls[i]
    BY <2>2 DEF m
  <2>4. Text(m, n) = Text(ls, n)
    BY <1>1, <2>3, SameText
  <2> QED BY <2>4 DEF m
<1> QED BY <1>3, <1>5, <1>6, <1>7 DEF b

(* Whatever is loaded, a line has no line end in it, and behind the last   *)
(* line there is nothing.                                                  *)
LEMMA LoadedLine ==
  ASSUME NEW b \in Seq(Chars), NEW n
  PROVE  LineText(b, n) \in Lines
<1> DEFINE T == At(b, n)
<1>0. NANO_LINE_LEN - 1 \in Nat
  BY NanoAssumption
<1>1. LineText(b, n) = IF T = {} THEN <<>>
                       ELSE Cut(SubSeq(b, Min(T), Max(T)), NANO_LINE_LEN - 1)
  BY DEF LineText, At
<1>2. Len(b) \in Nat /\ DOMAIN b = 1 .. Len(b) /\ T \subseteq 1 .. Len(b)
  BY LenProperties DEF At
<1>3. CASE T = {}
  BY <1>1, <1>3 DEF Lines
<1>4. CASE T # {}
  <2> DEFINE lo == Min(T)
             hi == Max(T)
  <2>1. lo \in T /\ hi \in T
    <3> HIDE DEF T
    <3> QED BY <1>2, <1>4, MinMaxIn
  <2>2. /\ lo \in 1 .. Len(b) /\ hi \in 1 .. Len(b) /\ b[hi] # NL
        /\ LineOf(b, lo) = n /\ LineOf(b, hi) = n
    BY <1>2, <2>1 DEF At
  <2> HIDE DEF lo, hi, T
  <2>3. ASSUME NEW j \in lo .. hi PROVE b[j] \in Chars \ {NL}
    <3>1. j \in 1 .. Len(b) /\ lo \in 1 .. j /\ j \in Nat \ {0} /\ hi \in Nat
      BY <1>2, <2>2
    <3>2. b[j] \in Chars
      BY <3>1, ElementOfSeq
    <3>3. b[j] # NL
      <4> SUFFICES ASSUME b[j] = NL PROVE FALSE
        OBVIOUS
      <4> DEFINE k == j + 1
      <4>1. j # hi /\ k \in 1 .. hi
        BY <2>2, <3>1
      <4>2. LineOf(b, k) = LineOf(b, j) + 1
        BY <3>1, LineOfGrows
      <4> HIDE DEF k
      <4>3. LineOf(b, lo) <= LineOf(b, j) /\ LineOf(b, lo) \in Nat /\ LineOf(b, j) \in Nat
        BY <3>1, LineOfRises
      <4>4. LineOf(b, k) <= LineOf(b, hi)
        BY <3>1, <4>1, LineOfRises
      <4> QED BY <2>2, <4>2, <4>3, <4>4
    <3> QED BY <3>2, <3>3
  <2> DEFINE s == SubSeq(b, lo, hi)
  <2>4. lo \in Int /\ hi \in Int
    BY <2>2
  <2>5. s \in Lines
    BY <2>3, <2>4, SubSeqProperties DEF Lines
  <2> HIDE DEF s
  <2>6. Cut(s, NANO_LINE_LEN - 1) \in Lines
    <3> DEFINE m == Least(Len(s), NANO_LINE_LEN - 1)
    <3>1. m \in Int /\ m <= Len(s) /\ Len(s) \in Nat
      BY <1>0, <2>5, LenProperties DEF Least, Lines
    <3> HIDE DEF m
    <3>2. \A i \in 1 .. m : i \in 1 .. Len(s)
      BY <3>1
    <3>3. \A i \in 1 .. m : s[i] \in Chars \ {NL}
      BY <2>5, <3>2, ElementOfSeq DEF Lines
    <3>4. SubSeq(s, 1, m) \in Lines
      BY <3>1, <3>3, SubSeqProperties DEF Lines
    <3> QED BY <3>4 DEF Cut, m
  <2> QED BY <1>1, <1>4, <2>6 DEF s, lo, hi
<1> QED BY <1>3, <1>4

LEMMA LoadedEnd ==
  ASSUME NEW b \in Seq(Chars), NEW i \in LineIndex, i >= ParsedLines(b)
  PROVE  LineText(b, i) = <<>>
<1>1. Len(b) \in Nat /\ DOMAIN b = 1 .. Len(b) /\ NANO_MAX_LINES \in Nat
      /\ i \in Nat /\ i < NANO_MAX_LINES
  BY LenProperties, NanoAssumption DEF LineIndex
<1>2. LineText(b, i) = IF At(b, i) = {} THEN <<>>
                       ELSE Cut(SubSeq(b, Min(At(b, i)), Max(At(b, i))), NANO_LINE_LEN - 1)
  BY DEF LineText, At
<1>3. CASE b = <<>>
  <2>1. At(b, i) = {}
    BY <1>3 DEF At
  <2> QED BY <1>2, <2>1
<1>4. CASE b # <<>>
  <2> DEFINE p == Len(b)
  <2>1. p \in Nat \ {0} /\ p \in 1 .. p
    BY <1>1, <1>4, EmptySeq
  <2>2. /\ LineOf(b, p) \in Nat
        /\ LineOf(b, p + 1) = LineOf(b, p) + (IF b[p] = NL THEN 1 ELSE 0)
    <3> HIDE DEF p
    <3> QED BY <2>1, LineOfGrows
  <2>3. Count(b) = LineOf(b, p) + 1
    <3>1. Count(b) = LineOf(b, p + 1) + (IF b[p] = NL THEN 0 ELSE 1)
      BY <1>4 DEF Count, Last
    <3> HIDE DEF p
    <3> QED BY <2>2, <3>1
  <2>4. i >= Count(b)
    <3>1. Count(b) \in Nat /\ Count(b) # 0
      BY <2>2, <2>3
    <3>2. i >= Least(Count(b), NANO_MAX_LINES)
      BY <3>1 DEF ParsedLines
    <3> QED BY <1>1, <3>1, <3>2 DEF Least
  <2>5. ASSUME NEW j \in 1 .. p PROVE LineOf(b, j) # i
    <3>1. LineOf(b, j) <= LineOf(b, p) /\ LineOf(b, j) \in Nat
      <4> HIDE DEF p
      <4> QED BY <2>1, LineOfRises
    <3> HIDE DEF p
    <3> QED BY <1>1, <2>2, <2>3, <2>4, <3>1
  <2>6. At(b, i) = {}
    BY <1>1, <2>5 DEF At
  <2> QED BY <1>2, <2>6
<1> QED BY <1>3, <1>4

-----------------------------------------------------------------------------
(* The files hold what was saved, each in a region of its own.             *)

Saved(b) == \E n \in 1 .. NANO_MAX_LINES, ls \in [LineIndex -> Lines] :
              Good(ls, n) /\ b = Text(ls, n)

HeapSaved == \A p \in DOMAIN heap : Saved(heap[p])

Data(s) == file_table[s].data

OwnRegions ==
  /\ \A s \in FS!Slots : Data(s) # NULL =>
       Data(s) \in DOMAIN heap /\ file_table[s].size = Len(heap[Data(s)])
  /\ \A s, t \in FS!Slots : Data(s) = Data(t) /\ Data(s) # NULL => s = t

Disk == FilesTyped /\ HeapSaved /\ OwnRegions

LEMMA SavedIsText ==
  ASSUME NEW b, Saved(b)
  PROVE  /\ b \in Seq(Chars) /\ b # <<>> /\ Len(b) \in Nat \ {0}
         /\ Text(Parsed(b), ParsedLines(b)) = b
<1>1. PICK n \in 1 .. NANO_MAX_LINES, ls \in [LineIndex -> Lines] :
        Good(ls, n) /\ b = Text(ls, n)
  BY DEF Saved
<1>2. b \in Seq(Chars) /\ b # <<>> /\ ParsedLines(b) = n /\ Text(Parsed(b), n) = b
  BY <1>1, SaveAndLoad
<1> QED BY <1>2, EmptySeq

LEMMA DiskStays == ASSUME Disk, UNCHANGED <<file_table, heap>> PROVE Disk'
BY DEF Disk, FilesTyped, HeapSaved, OwnRegions, Data, FS!Slots

LEMMA DiskCreates == ASSUME Disk, NEW n, FS!Create(n) PROVE Disk'
<1>1. FilesTyped' /\ heap' = heap
  BY CreateStep DEF Disk, FS!Create, FS!Make, FS!Nothing
<1>2. HeapSaved'
  BY <1>1 DEF Disk, HeapSaved
<1>3. CASE UNCHANGED file_table
  BY <1>1, <1>3, DiskStays
<1>4. CASE \E x : file_table' = [file_table EXCEPT ![x] = FS!Entry(n, TRUE, FALSE)]
  <2>1. PICK x : file_table' = [file_table EXCEPT ![x] = FS!Entry(n, TRUE, FALSE)]
    BY <1>4
  <2>2. \A s \in FS!Slots : file_table'[s] = file_table[s] \/ Data(s)' = NULL
    BY <2>1 DEF Disk, FilesTyped, FS!Entry, Data
  <2>3. OwnRegions'
    BY <1>1, <2>2 DEF Disk, OwnRegions, Data, FS!Slots
  <2> QED BY <1>1, <1>2, <2>3 DEF Disk
<1> QED BY <1>3, <1>4 DEF FS!Create, FS!Make, FS!Nothing

(* A region is freed, and the file that had it has none or another one.    *)
LEMMA DiskFrees ==
  ASSUME Disk, FilesTyped', NEW s \in FS!Slots,
         heap' = FS!Freed(heap, Data(s)), Data(s)' = NULL,
         \A t \in FS!Slots \ {s} : file_table'[t] = file_table[t]
  PROVE  Disk'
<1>1. /\ DOMAIN heap' = DOMAIN heap \ {Data(s)}
      /\ \A p \in DOMAIN heap' : heap'[p] = heap[p]
  BY DEF FS!Freed
<1>2. HeapSaved'
  BY <1>1 DEF Disk, HeapSaved
<1>3. OwnRegions'
  BY <1>1 DEF Disk, OwnRegions, Data, FS!Slots
<1> QED BY <1>2, <1>3 DEF Disk

LEMMA DiskDeletes == ASSUME Disk, NEW n, FS!Delete(n) PROVE Disk'
<1>1. FilesTyped'
  BY DeleteStep DEF Disk
<1>2. CASE FS!Exists(n) /\ file_table' = [file_table EXCEPT ![FS!Find(n)] = FS!FREE]
           /\ heap' = FS!Freed(heap, file_table[FS!Find(n)].data)
  <2>1. PICK s \in FS!Slots : s = FS!Find(n)
    BY <1>2, Found
  <2>2. /\ heap' = FS!Freed(heap, Data(s)) /\ file_table' = [file_table EXCEPT ![s] = FS!FREE]
        /\ FS!FREE.data = NULL
    BY <1>2, <2>1 DEF Data, FS!FREE, FS!Entry
  <2>3. /\ file_table'[s].data = NULL
        /\ \A t \in FS!Slots \ {s} : file_table'[t] = file_table[t]
    BY <2>1, <2>2 DEF Disk, FilesTyped
  <2>4. Data(s)' = NULL
    BY <2>3 DEF Data
  <2> QED BY <1>1, <2>1, <2>2, <2>3, <2>4, DiskFrees
<1> QED BY <1>2, DiskStays DEF FS!Delete, FS!Nothing

LEMMA DiskFills ==
  ASSUME Disk, FilesTyped', NEW s \in FS!Slots, NEW b, Saved(b),
         NEW p \in Pointers, p \notin DOMAIN FS!Freed(heap, Data(s)),
         heap' = FS!Filled(FS!Freed(heap, Data(s)), p, b),
         file_table'[s].data = p, file_table'[s].size = Len(b),
         \A t \in FS!Slots \ {s} : file_table'[t] = file_table[t]
  PROVE  Disk'
<1> DEFINE kept == FS!Freed(heap, Data(s))
<1>1. /\ DOMAIN kept = DOMAIN heap \ {Data(s)}
      /\ \A q \in DOMAIN kept : kept[q] = heap[q]
  BY DEF FS!Freed
<1>2. p \notin DOMAIN kept /\ heap' = FS!Filled(kept, p, b)
  OBVIOUS
<1> HIDE DEF kept
<1>3. /\ DOMAIN heap' = DOMAIN kept \cup {p} /\ heap'[p] = b
      /\ \A q \in DOMAIN kept : heap'[q] = heap[q]
  BY <1>1, <1>2 DEF FS!Filled
<1>4. HeapSaved'
  BY <1>1, <1>3 DEF Disk, HeapSaved
<1>5. \A t \in FS!Slots \ {s} : Data(t) # NULL =>
        /\ Data(t) \in DOMAIN kept /\ Data(t) # p
        /\ file_table[t].size = Len(heap[Data(t)])
  BY <1>1, <1>2 DEF Disk, OwnRegions
<1>6. OwnRegions'
  <2>1. \A t \in FS!Slots : Data(t)' = IF t = s THEN p ELSE Data(t)
    BY DEF Data
  <2>2. ASSUME NEW t \in FS!Slots, Data(t)' # NULL
        PROVE  Data(t)' \in DOMAIN heap' /\ file_table'[t].size = Len(heap'[Data(t)'])
    <3>1. CASE t = s
      BY <1>3, <2>1, <3>1
    <3>2. CASE t # s
      BY <1>3, <1>5, <2>1, <2>2, <3>2
    <3> QED BY <3>1, <3>2
  <2>3. ASSUME NEW t \in FS!Slots, NEW u \in FS!Slots, Data(t)' = Data(u)', Data(t)' # NULL
        PROVE  t = u
    BY <1>5, <2>1, <2>3 DEF Disk, OwnRegions
  <2> QED BY <2>2, <2>3 DEF OwnRegions, Data, FS!Slots
<1> QED BY <1>4, <1>6 DEF Disk

LEMMA DiskWrites ==
  ASSUME Disk, NEW s \in FS!Slots, NEW b, Saved(b), FS!Write(s, b)
  PROVE  Disk'
<1>1. FilesTyped'
  BY WriteStep DEF Disk
<1>2. b # <<>>
  BY SavedIsText
<1>3. CASE UNCHANGED <<file_table, heap>>
  BY <1>3, DiskStays
<1>4. CASE FS!WriteNoMemory(s, b)
  <2>1. /\ heap' = FS!Freed(heap, Data(s))
        /\ file_table' = [file_table EXCEPT ![s].data = NULL]
    BY <1>4 DEF FS!WriteNoMemory, Data
  <2>2. /\ file_table'[s].data = NULL
        /\ \A t \in FS!Slots \ {s} : file_table'[t] = file_table[t]
    BY <2>1 DEF Disk, FilesTyped
  <2>3. Data(s)' = NULL
    BY <2>2 DEF Data
  <2> QED BY <1>1, <2>1, <2>2, <2>3, DiskFrees
<1>5. ASSUME NEW p \in Pointers \ DOMAIN FS!Freed(heap, Data(s)),
             heap' = FS!Filled(FS!Freed(heap, Data(s)), p, b), FS!SetFile(s, p, Len(b))
      PROVE  Disk'
  <2>1. /\ file_table'[s].data = p /\ file_table'[s].size = Len(b)
        /\ \A t \in FS!Slots \ {s} : file_table'[t] = file_table[t]
    BY <1>5 DEF FS!SetFile, Disk, FilesTyped
  <2> QED BY <1>1, <1>5, <2>1, DiskFills
<1> QED BY <1>2, <1>3, <1>4, <1>5 DEF FS!Write, FS!Nothing, Data

LEMMA DiskReads ==
  ASSUME Disk, NEW n, FS!Exists(n), file_table[FS!Find(n)].size > 0,
         NEW b \in MayRead(FS!Find(n))
  PROVE  b \in Seq(Chars)
<1> DEFINE s == FS!Find(n)
           f == file_table[s]
<1>1. s \in FS!Slots /\ f.size \in Nat /\ f.size > 0 /\ f.data = Data(s)
  BY Found DEF Disk, FilesTyped, Data
<1>2. CASE f.data = NULL
  <2>1. PICK junk \in Stale : b = Cut(junk, f.size)
    BY <1>2 DEF MayRead
  <2>2. junk \in Seq(Chars) /\ Len(junk) \in Nat
    BY NanoAssumption, LenProperties
  <2> DEFINE m == Least(Len(junk), f.size)
  <2>3. m \in Int /\ m <= Len(junk)
    BY <1>1, <2>2 DEF Least
  <2> HIDE DEF m
  <2>4. \A i \in 1 .. m : i \in 1 .. Len(junk)
    BY <2>2, <2>3
  <2>5. \A i \in 1 .. m : junk[i] \in Chars
    BY <2>2, <2>4, ElementOfSeq
  <2>6. SubSeq(junk, 1, m) \in Seq(Chars)
    BY <2>3, <2>5, SubSeqProperties
  <2> QED BY <2>1, <2>6 DEF Cut, m
<1>3. CASE f.data # NULL
  <2>1. b = FS!Copied(s, f.size, 0)
    BY <1>3 DEF MayRead
  <2>2. b = SubSeq(heap[Data(s)], 1, f.size)
    <3>1. ~(0 >= f.size) /\ 0 + 1 = 1 /\ f.size - 0 = f.size /\ 0 + f.size = f.size
      BY <1>1
    <3> HIDE DEF s
    <3> QED BY <1>3, <2>1, <3>1 DEF FS!Copied, Data
  <2>3. Data(s) \in DOMAIN heap /\ f.size = Len(heap[Data(s)])
    BY <1>1, <1>3 DEF Disk, OwnRegions
  <2>4. heap[Data(s)] \in Seq(Chars)
    BY <2>3, SavedIsText DEF Disk, HeapSaved
  <2> QED BY <2>2, <2>3, <2>4, SubSeqFull
<1> QED BY <1>2, <1>3

-----------------------------------------------------------------------------
(* Types, and what is behind the last line.                                *)

LinesAre == /\ lines \in [LineIndex -> Lines]
            /\ \A i \in LineIndex : i >= num_lines => lines[i] = <<>>

Flags == /\ modified \in BOOLEAN /\ running \in BOOLEAN
         /\ filename \in Names \cup {TooLong, FS!BLANK}
         /\ running => filename \in Names \cup {TooLong}

SInv == IInv /\ Disk /\ LinesAre /\ Flags

LEMMA Places ==
  ASSUME IInv
  PROVE  /\ NANO_MAX_LINES \in Nat /\ num_lines \in Nat
         /\ num_lines >= 1 /\ num_lines <= NANO_MAX_LINES
         /\ cur_line \in Nat /\ cur_line < num_lines /\ cur_line \in LineIndex
         /\ \A i : i \in LineIndex <=> i \in Nat /\ i < NANO_MAX_LINES
BY NanoAssumption DEF IInv, CursorInText, LineIndex

LEMMA EmptyIsLine == <<>> \in Lines
BY DEF Lines

LEMMA HalvesAreLines ==
  ASSUME SInv
  PROVE  /\ line \in Lines /\ LineBefore \in Lines /\ LineAfter \in Lines
         /\ line = LineBefore \o LineAfter
         /\ Len(LineBefore) = cur_col /\ Len(LineAfter) = Len(line) - cur_col
         /\ cur_col \in Nat /\ cur_col <= Len(line) /\ Len(line) \in Nat
<1>1. line \in Lines
  BY LineIsText DEF SInv, LinesAre
<1>2. /\ cur_col \in Nat /\ cur_col <= Len(line) /\ Len(line) \in Nat
      /\ Len(LineBefore) = cur_col /\ Len(LineAfter) = Len(line) - cur_col
  BY LineIsText, Halves DEF SInv
<1>3. \A i \in 1 .. Len(line) : line[i] \in Chars \ {NL}
  BY <1>1, ElementOfSeq DEF Lines
<1>4. LineBefore \in Lines
  <2>1. \A i \in 1 .. cur_col : line[i] \in Chars \ {NL}
    BY <1>2, <1>3
  <2> QED BY <1>2, <2>1, SubSeqProperties DEF Lines, LineBefore
<1>5. LineAfter \in Lines
  <2>1. \A i \in cur_col + 1 .. Len(line) : line[i] \in Chars \ {NL}
    BY <1>2, <1>3
  <2>2. cur_col + 1 \in Int /\ Len(line) \in Int
    BY <1>2
  <2> QED BY <2>1, <2>2, SubSeqProperties DEF Lines, LineAfter
<1>6. line = LineBefore \o LineAfter
  <2>1. /\ 1 \in 1 .. Len(line) + 1 /\ cur_col \in 1 - 1 .. Len(line)
        /\ Len(line) \in cur_col .. Len(line)
    BY <1>2
  <2>2. SubSeq(line, 1, cur_col) \o SubSeq(line, cur_col + 1, Len(line))
        = SubSeq(line, 1, Len(line))
    BY <1>1, <2>1, ConcatAdjacentSubSeq DEF Lines
  <2>3. SubSeq(line, 1, Len(line)) = line
    BY <1>1, SubSeqFull DEF Lines
  <2> QED BY <2>2, <2>3 DEF LineBefore, LineAfter
<1> QED BY <1>1, <1>2, <1>4, <1>5, <1>6

LEMMA LineReplaced ==
  ASSUME SInv, NEW l \in Lines, lines' = [lines EXCEPT ![cur_line] = l],
         num_lines' = num_lines
  PROVE  LinesAre'
<1>1. /\ lines' \in [LineIndex -> Lines]
      /\ \A i \in LineIndex : i # cur_line => lines'[i] = lines[i]
  BY DEF SInv, LinesAre
<1>2. \A i \in LineIndex : i >= num_lines => i # cur_line
  BY Places DEF SInv
<1> QED BY <1>1, <1>2 DEF SInv, LinesAre, LineIndex

LEMMA BackspaceLines == ASSUME SInv, Backspace PROVE LinesAre'
<1>1. Front(LineBefore) \in Lines
  <2>1. Front(LineBefore) = SubSeq(LineBefore, 1, cur_col - 1)
    BY HalvesAreLines DEF Front
  <2>2. \A i \in 1 .. cur_col - 1 : LineBefore[i] \in Chars \ {NL}
    <3>1. \A i \in 1 .. cur_col - 1 : i \in 1 .. Len(LineBefore)
      BY HalvesAreLines
    <3> QED BY <3>1, HalvesAreLines, ElementOfSeq DEF Lines
  <2>3. cur_col - 1 \in Int
    BY HalvesAreLines
  <2> QED BY <2>1, <2>2, <2>3, SubSeqProperties DEF Lines
<1>2. Front(LineBefore) \o LineAfter \in Lines
  BY <1>1, HalvesAreLines, ConcatProperties DEF Lines
<1> QED BY <1>2, LineReplaced DEF Backspace

LEMMA InsertLines == ASSUME SInv, NEW ch \in Typed, Insert(ch) PROVE LinesAre'
<1>1. ch \in Chars \ {NL}
  BY NanoAssumption
<1>2. Append(LineBefore, ch) \in Lines
  BY <1>1, HalvesAreLines, AppendProperties DEF Lines
<1>3. Append(LineBefore, ch) \o LineAfter \in Lines
  BY <1>2, HalvesAreLines, ConcatProperties DEF Lines
<1> QED BY <1>3, LineReplaced DEF Insert

LEMMA MergeLines == ASSUME SInv, Merge PROVE LinesAre'
<1>1. IInv /\ lines \in [LineIndex -> Lines]
      /\ \A i \in LineIndex : i >= num_lines => lines[i] = <<>>
  BY DEF SInv, LinesAre
<1>2. lines' = Joined /\ num_lines' = num_lines - 1 /\ cur_line > 0
  BY DEF Merge
<1>3. ASSUME NEW i \in LineIndex PROVE lines'[i] \in Lines
  <2>1. lines'[i] = IF i = cur_line - 1 THEN lines[i] \o lines[i + 1]
                    ELSE IF i >= cur_line /\ i < num_lines - 1 THEN lines[i + 1]
                    ELSE IF i = num_lines - 1 THEN <<>>
                    ELSE lines[i]
    BY <1>2 DEF Joined
  <2>2. i = cur_line - 1 \/ i < num_lines - 1 => i + 1 \in LineIndex
    BY <1>1, Places
  <2>3. i = cur_line - 1 => lines[i] \o lines[i + 1] \in Lines
    BY <1>1, <2>2, ConcatProperties DEF Lines
  <2> QED BY <1>1, <2>1, <2>2, <2>3, EmptyIsLine
<1>4. ASSUME NEW i \in LineIndex, i >= num_lines' PROVE lines'[i] = <<>>
  <2>1. i >= num_lines - 1 /\ i \in Nat
    BY <1>1, <1>2, <1>4, Places
  <2>2. i # cur_line - 1 /\ ~(i < num_lines - 1) /\ (i = num_lines - 1 \/ i >= num_lines)
    BY <1>1, <1>2, <2>1, Places
  <2> QED BY <1>1, <1>2, <2>2 DEF Joined
<1>5. lines' \in [LineIndex -> Lines]
  <2>1. lines' = [i \in LineIndex |-> lines'[i]]
    BY <1>2 DEF Joined
  <2> QED BY <1>3, <2>1
<1> QED BY <1>4, <1>5 DEF LinesAre, LineIndex

LEMMA EnterLines == ASSUME SInv, Enter PROVE LinesAre'
<1>1. IInv /\ lines \in [LineIndex -> Lines]
      /\ \A i \in LineIndex : i >= num_lines => lines[i] = <<>>
  BY DEF SInv, LinesAre
<1>2. lines' = Split /\ num_lines' = num_lines + 1
  BY DEF Enter
<1>3. ASSUME NEW i \in LineIndex PROVE lines'[i] \in Lines
  <2>1. lines'[i] = IF i = cur_line THEN LineBefore
                    ELSE IF i = cur_line + 1 THEN LineAfter
                    ELSE IF i > cur_line + 1 /\ i <= num_lines THEN lines[i - 1]
                    ELSE lines[i]
    BY <1>2 DEF Split
  <2>2. i > cur_line + 1 => i - 1 \in LineIndex
    BY <1>1, Places
  <2> QED BY <1>1, <2>1, <2>2, HalvesAreLines
<1>4. ASSUME NEW i \in LineIndex, i >= num_lines' PROVE lines'[i] = <<>>
  <2>1. i >= num_lines + 1 /\ i \in Nat
    BY <1>1, <1>2, <1>4, Places
  <2>2. i # cur_line /\ i # cur_line + 1 /\ ~(i <= num_lines) /\ i >= num_lines
    BY <1>1, <2>1, Places
  <2> QED BY <1>1, <1>2, <2>2 DEF Split
<1>5. lines' \in [LineIndex -> Lines]
  <2>1. lines' = [i \in LineIndex |-> lines'[i]]
    BY <1>2 DEF Split
  <2> QED BY <1>3, <2>1
<1> QED BY <1>4, <1>5 DEF LinesAre, LineIndex

LEMMA StartLines ==
  ASSUME NEW n, NEW ls \in [LineIndex -> Lines], NEW count,
         \A i \in LineIndex : i >= count => ls[i] = <<>>, Start(n, ls, count)
  PROVE  LinesAre'
BY DEF Start, LinesAre, LineIndex

LEMMA OpenLines ==
  ASSUME SInv, NEW n, OpenNew(n) \/ OpenUnread(n) \/ OpenRead(n)
  PROVE  LinesAre'
<1>1. Empty \in [LineIndex -> Lines] /\ \A i \in LineIndex : i >= 1 => Empty[i] = <<>>
  BY EmptyIsLine DEF Empty
<1>2. CASE OpenNew(n) \/ OpenUnread(n)
  BY <1>1, <1>2, StartLines DEF OpenNew, OpenUnread
<1>3. CASE OpenRead(n)
  <2>1. PICK b \in MayRead(FS!Find(n)) : Start(n, Parsed(b), ParsedLines(b))
    BY <1>3 DEF OpenRead
  <2>2. b \in Seq(Chars)
    BY <1>3, DiskReads DEF OpenRead, SInv
  <2>3. Parsed(b) \in [LineIndex -> Lines]
    BY <2>2, LoadedLine DEF Parsed
  <2>4. \A i \in LineIndex : i >= ParsedLines(b) => Parsed(b)[i] = <<>>
    BY <2>2, LoadedEnd DEF Parsed
  <2> QED BY <2>1, <2>3, <2>4, StartLines
<1> QED BY <1>2, <1>3

(* What is saved is the text, of lines that fit.                           *)
LEMMA ContentIsSaved ==
  ASSUME SInv
  PROVE  num_lines \in 1 .. NANO_MAX_LINES /\ Good(lines, num_lines) /\ Saved(Content)
<1>1. \A i \in 0 .. num_lines - 1 : i \in LineIndex
  BY Places DEF SInv
<1>2. num_lines \in 1 .. NANO_MAX_LINES
  BY Places DEF SInv
<1>3. Good(lines, num_lines)
  BY <1>1 DEF Good, SInv, LinesAre, IInv, LinesFit
<1> QED BY <1>2, <1>3 DEF Saved, Content, SInv, LinesAre

LEMMA SInvInit == Init => SInv
<1> SUFFICES ASSUME Init PROVE SInv
  OBVIOUS
<1>1. IInv
  BY InitIInv
<1>2. Disk
  <2>1. DOMAIN heap = {} /\ \A s \in FS!Slots : Data(s) = NULL
    BY DEF Init, FS!Init, FS!FREE, FS!Entry, Data
  <2> QED BY <1>1, <2>1 DEF Disk, HeapSaved, OwnRegions, IInv
<1>3. LinesAre
  BY EmptyIsLine DEF Init, Empty, LinesAre
<1> QED BY <1>1, <1>2, <1>3 DEF Init, SInv, Flags

LEMMA SInvStep == SInv /\ [Next]_vars => SInv'
<1> SUFFICES ASSUME SInv, [Next]_vars PROVE SInv'
  OBVIOUS
<1>1. IInv'
  BY NextIInv DEF SInv
<1>2. ASSUME UNCHANGED <<file_table, heap>> PROVE Disk'
  BY <1>2, DiskStays DEF SInv
<1>3. ASSUME UNCHANGED <<lines, num_lines>> PROVE LinesAre'
  BY <1>3 DEF SInv, LinesAre, LineIndex
<1>4. ASSUME Edited PROVE Disk' /\ Flags'
  <2>1. Disk'
    BY <1>2, <1>4 DEF Edited, fs
  <2> QED BY <1>4, <2>1 DEF Edited, SInv, Flags
<1>5. ASSUME NEW n \in Names \cup {TooLong}, OpenNew(n) \/ OpenUnread(n) \/ OpenRead(n)
      PROVE  SInv'
  <2>1. Disk'
    BY <1>2, <1>5, DiskCreates DEF OpenNew, OpenUnread, OpenRead, fs, SInv
  <2>2. Flags'
    <3>1. \E ls, count : Start(n, ls, count)
      BY <1>5 DEF OpenNew, OpenUnread, OpenRead
    <3> QED BY <3>1 DEF Start, Flags
  <2> QED BY <1>1, <1>5, <2>1, <2>2, OpenLines DEF SInv
<1>6. ASSUME NEW n, Shell(n) PROVE SInv'
  <2>1. Disk'
    BY <1>6, DiskCreates, DiskDeletes DEF Shell, SInv
  <2>2. LinesAre' /\ Flags'
    BY <1>3, <1>6 DEF Shell, editor, SInv, Flags
  <2> QED BY <1>1, <2>1, <2>2 DEF SInv
<1>7. CASE Save
  <2>1. PICK s \in FS!Slots : FS!Write(s, Content)
    BY <1>7, Found DEF Save
  <2>2. Disk'
    BY <2>1, ContentIsSaved, DiskWrites DEF SInv
  <2>3. LinesAre' /\ Flags'
    BY <1>3, <1>7 DEF Save, SInv, Flags
  <2> QED BY <1>1, <2>2, <2>3 DEF SInv
<1>8. CASE Exit
  <2>1. Disk' /\ LinesAre' /\ Flags'
    BY <1>2, <1>3, <1>8 DEF Exit, fs, SInv, Flags
  <2> QED BY <1>1, <2>1 DEF SInv
<1>9. CASE UNCHANGED vars
  <2>1. Disk' /\ LinesAre' /\ Flags'
    BY <1>2, <1>3, <1>9 DEF vars, editor, fs, SInv, Flags
  <2> QED BY <1>1, <2>1 DEF SInv
<1>10. CASE Backspace
  BY <1>1, <1>4, <1>10, BackspaceLines DEF Backspace, SInv
<1>11. CASE Merge
  BY <1>1, <1>4, <1>11, MergeLines DEF Merge, SInv
<1>12. CASE Enter
  BY <1>1, <1>4, <1>12, EnterLines DEF Enter, SInv
<1>13. ASSUME NEW ch \in Typed, Insert(ch) PROVE SInv'
  BY <1>1, <1>4, <1>13, InsertLines DEF Insert, SInv
<1> QED BY <1>5, <1>6, <1>7, <1>8, <1>9, <1>10, <1>11, <1>12, <1>13 DEF Next

(* Every variable has its type: no line has a line end in it, whatever the *)
(* file that was loaded holds, and the cursor is in the text.              *)
THEOREM TypeCorrect == Spec => []TypeOK
<1>1. SInv => TypeOK
  <2> SUFFICES ASSUME SInv PROVE TypeOK
    OBVIOUS
  <2> QED BY DEF SInv, IInv, CursorInText, LinesAre, Lines, Flags, TypeOK
<1> QED BY <1>1, SInvInit, SInvStep, PTL DEF Spec

(* Loading what a save writes gives the text that was saved, and saving    *)
(* what was loaded gives the file (shell.c:650-664, 720-724).              *)
THEOREM LoadingUndoesSaving == Spec => []SavesLoad
<1>1. SInv => SavesLoad
  <2> SUFFICES ASSUME SInv PROVE SavesLoad
    OBVIOUS
  <2>1. ParsedLines(Content) = num_lines
    BY ContentIsSaved, SaveAndLoad DEF Content
  <2>2. Parsed(Content) = lines
    <3>1. \A i \in LineIndex : Parsed(Content)[i] = IF i < num_lines THEN lines[i] ELSE <<>>
      BY ContentIsSaved, SaveAndLoad DEF Content
    <3>2. \A i \in LineIndex : i < num_lines \/ i >= num_lines
      BY Places DEF SInv
    <3>3. \A i \in LineIndex : Parsed(Content)[i] = lines[i]
      BY <3>1, <3>2 DEF SInv, LinesAre
    <3>4. Parsed(Content) = [i \in LineIndex |-> Parsed(Content)[i]]
      BY DEF Parsed
    <3> QED BY <3>3, <3>4 DEF SInv, LinesAre
  <2>3. \A p \in DOMAIN heap : Text(Parsed(heap[p]), ParsedLines(heap[p])) = heap[p]
    BY SavedIsText DEF SInv, Disk, HeapSaved
  <2> QED BY <2>1, <2>2, <2>3 DEF SavesLoad
<1> QED BY <1>1, SInvInit, SInvStep, PTL DEF Spec

-----------------------------------------------------------------------------
(* The text with the cursor in it.                                         *)

LEMMA ConcatParts ==
  ASSUME NEW S, NEW a \in Seq(S), NEW b \in Seq(S)
  PROVE  /\ SubSeq(a \o b, 1, Len(a)) = a
         /\ SubSeq(a \o b, Len(a) + 1, Len(a \o b)) = b
<1> DEFINE c == a \o b
           p == Len(a)
           q == Len(b)
<1>1. /\ c \in Seq(S) /\ p \in Nat /\ q \in Nat /\ Len(c) = p + q
      /\ \A i \in 1 .. p + q : c[i] = IF i <= p THEN a[i] ELSE b[i - p]
  BY ConcatProperties, LenProperties
<1> HIDE DEF c, p, q
<1>2. SubSeq(c, 1, p) = a
  <2> DEFINE s == SubSeq(c, 1, p)
  <2>1. \A i \in 1 .. p : c[i] = a[i] /\ a[i] \in S
    <3>1. \A i \in 1 .. p : i \in 1 .. p + q /\ i <= p
      BY <1>1
    <3> QED BY <1>1, <3>1, ElementOfSeq DEF p
  <2>2. /\ s \in Seq(S) /\ Len(s) = IF 1 <= p THEN p - 1 + 1 ELSE 0
        /\ \A i \in 1 .. p - 1 + 1 : s[i] = c[1 + i - 1]
    BY <1>1, <2>1, SubSeqProperties
  <2> HIDE DEF s
  <2>3. Len(s) = p /\ \A i \in 1 .. p : s[i] = a[i]
    BY <1>1, <2>1, <2>2
  <2>4. s = a
    BY <2>2, <2>3, SeqEqual DEF p
  <2> QED BY <2>4 DEF s
<1>3. SubSeq(c, p + 1, p + q) = b
  <2> DEFINE lo == p + 1
             hi == p + q
             s == SubSeq(c, lo, hi)
  <2>1. \A i \in lo .. hi : c[i] = b[i - p] /\ b[i - p] \in S
    <3>1. \A i \in lo .. hi : i \in 1 .. p + q /\ ~(i <= p) /\ i - p \in 1 .. q
      BY <1>1
    <3> QED BY <1>1, <3>1, ElementOfSeq DEF q
  <2>2. /\ lo \in Int /\ hi \in Int
        /\ \A i \in 1 .. q : (lo + i) - 1 \in lo .. hi /\ ((lo + i) - 1) - p = i
        /\ (IF lo <= hi THEN hi - lo + 1 ELSE 0) = q
        /\ \A i \in 1 .. q : i \in 1 .. hi - lo + 1
    BY <1>1
  <2> HIDE DEF lo, hi
  <2>3. /\ s \in Seq(S) /\ Len(s) = IF lo <= hi THEN hi - lo + 1 ELSE 0
        /\ \A i \in 1 .. hi - lo + 1 : s[i] = c[lo + i - 1]
    BY <2>1, <2>2, SubSeqProperties
  <2> HIDE DEF s
  <2>4. Len(s) = q /\ \A i \in 1 .. q : s[i] = b[i]
    BY <2>1, <2>2, <2>3
  <2>5. s = b
    BY <2>3, <2>4, SeqEqual DEF q
  <2> QED BY <2>5 DEF s, lo, hi
<1> QED BY <1>1, <1>2, <1>3 DEF c, p, q

LEMMA Regroup ==
  ASSUME NEW a \in Seq(Chars), NEW b \in Seq(Chars), NEW c \in Seq(Chars)
  PROVE  (a \o b) \o c = a \o (b \o c) /\ a \o b \in Seq(Chars) /\ b \o c \in Seq(Chars)
<1>1. (a \o b) \o c = a \o (b \o c)
  BY ConcatAssociative
<1>2. a \o b \in Seq(Chars) /\ b \o c \in Seq(Chars)
  BY ConcatProperties
<1> QED BY <1>1, <1>2

(* A line and those behind it, with the line end of the last, are a text.  *)
LEMMA TextAround ==
  ASSUME NEW c \in Nat, NEW n \in Nat, NEW ls, \A i \in 0 .. c + n : ls[i] \in Lines
  PROVE  ((Text(ls, c) \o ls[c]) \o Behind(ls, c, n)) \o <<NL>> = Text(ls, (c + 1) + n)
<1> DEFINE a == Text(ls, c) \o ls[c]
           e == <<NL>>
           T == {k \in 0 .. n : (a \o Behind(ls, c, k)) \o e = Text(ls, (c + 1) + k)}
<1>1. e \in Seq(Chars) /\ \A i \in 0 .. c + n : ls[i] \in Seq(Chars) /\ Append(ls[i], NL) = ls[i] \o e
  BY LineTypes
<1>2. /\ Text(ls, c) \in Seq(Chars) /\ ls[c] \in Seq(Chars) /\ a \in Seq(Chars)
      /\ Text(ls, c + 1) = a \o e
  <2>1. c \in 0 .. c + n /\ \A i \in 0 .. c : i \in 0 .. c + n
    OBVIOUS
  <2>2. Text(ls, c) \in Seq(Chars) /\ Text(ls, c + 1) = Text(ls, c) \o Append(ls[c], NL)
    BY <2>1, TextGrows
  <2> DEFINE t == Text(ls, c)
             l == ls[c]
  <2>3. t \in Seq(Chars) /\ l \in Seq(Chars) /\ Text(ls, c + 1) = t \o (l \o e) /\ a = t \o l
    BY <1>1, <2>1, <2>2
  <2> HIDE DEF t, l, e, a
  <2>4. Text(ls, c + 1) = (t \o l) \o e /\ t \o l \in Seq(Chars)
    <3>1. t \in Seq(Chars) /\ l \in Seq(Chars) /\ e \in Seq(Chars)
      BY <1>1, <2>3
    <3>2. (t \o l) \o e = t \o (l \o e) /\ t \o l \in Seq(Chars)
      BY <3>1, Regroup
    <3> QED BY <2>3, <3>2
  <2> QED BY <2>3, <2>4 DEF t, l
<1>3. 0 \in T
  <2>1. Behind(ls, c, 0) = <<>>
    <3>1. \A k \in 1 .. 0 : ls[c + k] \in Lines
      OBVIOUS
    <3> QED BY <3>1, BehindIsText
  <2>2. (a \o Behind(ls, c, 0)) \o e = Text(ls, c + 1)
    <3> HIDE DEF a, e
    <3> QED BY <1>2, <2>1, ConcatEmptySeq
  <2>3. (c + 1) + 0 = c + 1 /\ 0 \in 0 .. n
    OBVIOUS
  <2> HIDE DEF a, e
  <2> QED BY <2>2, <2>3
<1>4. ASSUME NEW k \in 0 .. n - 1, k \in T PROVE k + 1 \in T
  <2> DEFINE j == (c + 1) + k
             l == ls[j]
             d == Behind(ls, c, k)
  <2>1. /\ k \in Nat /\ k + 1 \in 0 .. n /\ j \in Nat /\ j \in 0 .. c + n
        /\ c + (k + 1) = j /\ (c + 1) + (k + 1) = j + 1
        /\ \A i \in 0 .. j : i \in 0 .. c + n
        /\ \A i \in 1 .. k + 1 : c + i \in 0 .. c + n
    OBVIOUS
  <2>2. /\ d \in Seq(Chars) /\ Behind(ls, c, k + 1) = d \o (e \o l)
    <3>1. k \in Nat /\ c \in Int /\ \A i \in 1 .. k + 1 : ls[c + i] \in Lines
      BY <2>1
    <3>2. /\ Behind(ls, c, k) \in Seq(Chars)
          /\ Behind(ls, c, k + 1) = Behind(ls, c, k) \o (<<NL>> \o ls[c + (k + 1)])
      BY <3>1, BehindGrows
    <3>3. ls[c + (k + 1)] = ls[j]
      BY <2>1
    <3> HIDE DEF j
    <3> QED BY <3>2, <3>3
  <2>3. Text(ls, j + 1) = Text(ls, j) \o (l \o e) /\ l \in Seq(Chars)
    <3> HIDE DEF j
    <3>1. \A i \in 0 .. j : ls[i] \in Lines
      BY <2>1
    <3> QED BY <1>1, <2>1, <3>1, TextGrows
  <2>4. (a \o d) \o e = Text(ls, j)
    BY <1>4
  <2> HIDE DEF a, d, e, l, j
  <2>5. (a \o (d \o (e \o l))) \o e = ((a \o d) \o e) \o (l \o e)
    <3>0. a \in Seq(Chars) /\ d \in Seq(Chars) /\ e \in Seq(Chars) /\ l \in Seq(Chars)
      BY <1>1, <1>2, <2>2, <2>3
    <3>1. /\ e \o l \in Seq(Chars) /\ l \o e \in Seq(Chars) /\ a \o d \in Seq(Chars)
          /\ (a \o d) \o e \in Seq(Chars)
      BY <3>0, ConcatProperties
    <3>2. a \o (d \o (e \o l)) = (a \o d) \o (e \o l)
      <4>1. a \in Seq(Chars) /\ d \in Seq(Chars) /\ e \o l \in Seq(Chars)
        BY <3>0, <3>1
      <4> QED BY <4>1, Regroup
    <3>3. (a \o d) \o (e \o l) = ((a \o d) \o e) \o l
      <4>1. a \o d \in Seq(Chars) /\ e \in Seq(Chars) /\ l \in Seq(Chars)
        BY <3>0, <3>1
      <4> QED BY <4>1, Regroup
    <3>4. (((a \o d) \o e) \o l) \o e = ((a \o d) \o e) \o (l \o e)
      <4>1. (a \o d) \o e \in Seq(Chars) /\ l \in Seq(Chars) /\ e \in Seq(Chars)
        BY <3>0, <3>1
      <4> QED BY <4>1, Regroup
    <3> QED BY <3>2, <3>3, <3>4
  <2>6. (a \o Behind(ls, c, k + 1)) \o e = Text(ls, j + 1)
    BY <2>2, <2>3, <2>4, <2>5
  <2>7. (c + 1) + (k + 1) = j + 1 /\ k + 1 \in 0 .. n
    BY <2>1
  <2> QED BY <2>6, <2>7
<1>5. \A k \in 0 .. n : k \in T
  <2> HIDE DEF T
  <2> QED BY <1>3, <1>4, EveryRound
<1>6. n \in 0 .. n
  OBVIOUS
<1> QED BY <1>5, <1>6

Behinds == num_lines - 1 - cur_line

LEMMA ViewIsText ==
  ASSUME SInv
  PROVE  /\ Text(lines, cur_line) \in Seq(Chars)
         /\ Behinds \in Nat /\ Behind(lines, cur_line, Behinds) \in Seq(Chars)
         /\ LineBefore \in Seq(Chars) /\ LineAfter \in Seq(Chars)
         /\ TextBefore = Text(lines, cur_line) \o LineBefore
         /\ TextAfter = LineAfter \o Behind(lines, cur_line, Behinds)
         /\ TextBefore \in Seq(Chars) /\ TextAfter \in Seq(Chars)
<1>1. lines \in [LineIndex -> Lines] /\ IInv
  BY DEF SInv, LinesAre
<1>2. Behinds \in Nat /\ cur_line \in Nat
  BY <1>1, Places DEF Behinds
<1>3. Text(lines, cur_line) \in Seq(Chars)
  <2>1. \A i \in 0 .. cur_line - 1 : i \in LineIndex
    BY <1>1, Places
  <2> QED BY <1>1, <1>2, <2>1, TextIsText
<1>4. Behind(lines, cur_line, Behinds) \in Seq(Chars)
  <2>1. \A k \in 1 .. Behinds : cur_line + k \in LineIndex
    BY <1>1, Places DEF Behinds
  <2> DEFINE c == cur_line
             n == Behinds
  <2>2. c \in Int /\ n \in Nat /\ \A k \in 1 .. n : lines[c + k] \in Lines
    BY <1>1, <1>2, <2>1
  <2> HIDE DEF c, n
  <2>3. Behind(lines, c, n) \in Seq(Chars)
    BY <2>2, BehindIsText
  <2> QED BY <2>3 DEF c, n
<1>5. LineBefore \in Seq(Chars) /\ LineAfter \in Seq(Chars)
  BY HalvesAreLines, LineTypes
<1>6. /\ TextBefore = Text(lines, cur_line) \o LineBefore
      /\ TextAfter = LineAfter \o Behind(lines, cur_line, Behinds)
  BY DEF TextBefore, TextAfter, Text, Behind, Behinds
<1> QED BY <1>2, <1>3, <1>4, <1>5, <1>6, ConcatProperties

LEMMA ContentIsView ==
  ASSUME SInv
  PROVE  Content = (TextBefore \o TextAfter) \o <<NL>>
<1> DEFINE t == Text(lines, cur_line)
           l == lines[cur_line]
           r == Behind(lines, cur_line, Behinds)
<1>1. /\ cur_line \in Nat /\ Behinds \in Nat /\ (cur_line + 1) + Behinds = num_lines
      /\ \A i \in 0 .. cur_line + Behinds : i \in LineIndex
  BY Places DEF SInv, Behinds
<1>2. \A i \in 0 .. cur_line + Behinds : lines[i] \in Lines
  BY <1>1 DEF SInv, LinesAre
<1> DEFINE c == cur_line
           m == Behinds
<1>3. ((t \o l) \o r) \o <<NL>> = Content
  <2>1. c \in Nat /\ m \in Nat /\ (c + 1) + m = num_lines
        /\ \A i \in 0 .. c + m : lines[i] \in Lines
    BY <1>1, <1>2
  <2> HIDE DEF c, m
  <2>2. ((Text(lines, c) \o lines[c]) \o Behind(lines, c, m)) \o <<NL>> = Text(lines, (c + 1) + m)
    BY <2>1, TextAround
  <2> QED BY <2>1, <2>2 DEF Content, c, m
<1>4. TextBefore = t \o LineBefore /\ TextAfter = LineAfter \o r /\ l = LineBefore \o LineAfter
      /\ t \in Seq(Chars) /\ r \in Seq(Chars)
      /\ LineBefore \in Seq(Chars) /\ LineAfter \in Seq(Chars)
  BY ViewIsText, HalvesAreLines DEF line
<1> HIDE DEF t, l, r
<1>5. (t \o LineBefore) \o (LineAfter \o r) = (t \o l) \o r
  <2> DEFINE x == LineBefore
             y == LineAfter
  <2>1. x \in Seq(Chars) /\ y \in Seq(Chars) /\ l = x \o y
    BY <1>4
  <2> HIDE DEF x, y
  <2>2. t \o x \in Seq(Chars)
    BY <1>4, <2>1, ConcatProperties
  <2>3. (t \o x) \o (y \o r) = ((t \o x) \o y) \o r
    <3>1. t \o x \in Seq(Chars) /\ y \in Seq(Chars) /\ r \in Seq(Chars)
      BY <1>4, <2>1, <2>2
    <3> QED BY <3>1, Regroup
  <2>4. (t \o x) \o y = t \o (x \o y)
    <3>1. t \in Seq(Chars) /\ x \in Seq(Chars) /\ y \in Seq(Chars)
      BY <1>4, <2>1
    <3> QED BY <3>1, Regroup
  <2> QED BY <2>1, <2>3, <2>4 DEF x, y
<1> QED BY <1>3, <1>4, <1>5

-----------------------------------------------------------------------------
(* The editor is a text with a cursor in it.                               *)

LEMMA StoredStays ==
  ASSUME UNCHANGED <<filename, file_table, heap>>
  PROVE  UNCHANGED Stored
BY DEF Stored, FS!Exists, FS!Named, FS!Used, FS!Slots, FS!Find, FS!First, FS!Contents

(* The line of the cursor becomes a, then the cursor, then b.              *)
LEMMA ViewAfter ==
  ASSUME cur_line' \in LineIndex, NEW a \in Lines, NEW b \in Lines,
         lines'[cur_line'] = a \o b, cur_col' = Len(a)
  PROVE  /\ TextBefore' = Text(lines', cur_line') \o a
         /\ TextAfter' = b \o Behind(lines', cur_line', num_lines' - 1 - cur_line')
<1>1. SubSeq(a \o b, 1, Len(a)) = a /\ SubSeq(a \o b, Len(a) + 1, Len(a \o b)) = b
  BY LineTypes, ConcatParts
<1>2. LineBefore' = a /\ LineAfter' = b
  BY <1>1 DEF LineBefore, LineAfter, line
<1> QED BY <1>2 DEF TextBefore, TextAfter, Text, Behind

(* The keys that change the line of the cursor in front of the cursor.     *)
LEMMA ViewOfLine ==
  ASSUME SInv, NEW a \in Lines, lines' = [lines EXCEPT ![cur_line] = a \o LineAfter],
         num_lines' = num_lines, Cursor(cur_line, Len(a)), Edited
  PROVE  /\ TextBefore' = Text(lines, cur_line) \o a
         /\ UNCHANGED <<running, TextAfter, Stored>>
<1> DEFINE l == a \o LineAfter
<1>1. /\ cur_line \in LineIndex /\ cur_line \in Nat /\ num_lines \in Nat /\ cur_line < num_lines
      /\ LineAfter \in Lines /\ lines \in [LineIndex -> Lines]
      /\ \A i : i \in LineIndex <=> i \in Nat /\ i < NANO_MAX_LINES
      /\ NANO_MAX_LINES \in Nat /\ num_lines <= NANO_MAX_LINES
  BY Places, HalvesAreLines DEF SInv, LinesAre
<1>2. /\ lines'[cur_line] = l
      /\ \A i \in LineIndex \ {cur_line} : lines'[i] = lines[i]
  BY <1>1
<1>3. Len(l) \in Nat /\ Len(a) \in Nat /\ Len(a) <= Len(l)
  <2>1. a \in Seq(Chars \ {NL}) /\ LineAfter \in Seq(Chars \ {NL})
    BY <1>1 DEF Lines
  <2>2. Len(l) = Len(a) + Len(LineAfter) /\ Len(a) \in Nat /\ Len(LineAfter) \in Nat
    BY <2>1, ConcatProperties, LenProperties
  <2> HIDE DEF l
  <2> QED BY <2>2
<1>4. cur_line' = cur_line /\ cur_col' = Len(a)
  <2>1. /\ num_lines' \in Nat /\ cur_line \in 0 .. num_lines' - 1
        /\ Len(lines'[cur_line]) \in Nat /\ Len(a) \in 0 .. Len(lines'[cur_line])
    BY <1>1, <1>2, <1>3
  <2> HIDE DEF l
  <2> QED BY <2>1, CursorGoes
<1>5. /\ TextBefore' = Text(lines', cur_line') \o a
      /\ TextAfter' = LineAfter \o Behind(lines', cur_line', num_lines' - 1 - cur_line')
  BY <1>1, <1>2, <1>4, ViewAfter
<1>6. Text(lines', cur_line') = Text(lines, cur_line)
  <2>1. \A i \in 0 .. cur_line - 1 : i \in LineIndex \ {cur_line}
    BY <1>1
  <2>2. \A i \in 0 .. cur_line - 1 : lines'[i] = lines[i]
    BY <1>2, <2>1
  <2> DEFINE ms == lines'
  <2> HIDE DEF ms
  <2>3. \A i \in 0 .. cur_line - 1 : ms[i] = lines[i]
    BY <2>2 DEF ms
  <2>4. Text(ms, cur_line) = Text(lines, cur_line)
    BY <1>1, <2>3, SameText
  <2> QED BY <1>4, <2>4 DEF ms
<1>7. Behind(lines', cur_line', num_lines' - 1 - cur_line') = Behind(lines, cur_line, Behinds)
  <2> DEFINE ms == lines'
             c == cur_line
             n == Behinds
  <2>1. \A k \in 1 .. n : c + k \in LineIndex \ {c}
    BY <1>1 DEF Behinds
  <2>2. \A k \in 1 .. n : ms[c + k] = lines[c + k]
    BY <1>2, <2>1
  <2>3. c \in Int /\ n \in Nat /\ num_lines' - 1 - cur_line' = n
    BY <1>1, <1>4 DEF Behinds
  <2> HIDE DEF ms, c, n
  <2>4. Behind(ms, c, n) = Behind(lines, c, n)
    <3>1. [k \in 1 .. n |-> <<NL>> \o ms[c + k]] = [k \in 1 .. n |-> <<NL>> \o lines[c + k]]
      BY <2>2
    <3> QED BY <3>1 DEF Behind
  <2> QED BY <1>4, <2>3, <2>4 DEF ms, c, n
<1>8. TextAfter = LineAfter \o Behind(lines, cur_line, Behinds)
  BY ViewIsText
<1>9. UNCHANGED Stored
  BY StoredStays DEF Edited, fs
<1> QED BY <1>5, <1>6, <1>7, <1>8, <1>9 DEF Edited

LEMMA ViewBackspace == ASSUME SInv, Backspace PROVE TextView!Delete
<1> DEFINE x == LineBefore
           t == Text(lines, cur_line)
           m == cur_col - 1
           f == SubSeq(x, 1, m)
<1>1. /\ x \in Lines /\ Len(x) = cur_col /\ m \in Nat /\ m + 1 = cur_col /\ m \in 0 .. Len(x)
      /\ running
  BY HalvesAreLines DEF Backspace, Edited
<1>2. x \in Seq(Chars) /\ t \in Seq(Chars) /\ TextBefore = t \o x
  BY ViewIsText
<1>3. Front(x) = f /\ f \in Lines /\ Len(f) = m /\ \A i \in 1 .. m : f[i] = x[i]
  <2> HIDE DEF x, m
  <2>1. \A i \in 1 .. m : i \in 1 .. Len(x)
    BY <1>1
  <2>2. \A i \in 1 .. m : x[i] \in Chars \ {NL}
    BY <1>1, <2>1, ElementOfSeq DEF Lines
  <2>3. m \in Int /\ 1 \in Int
    BY <1>1
  <2>4. /\ f \in Seq(Chars \ {NL}) /\ Len(f) = IF 1 <= m THEN m - 1 + 1 ELSE 0
        /\ \A i \in 1 .. m - 1 + 1 : f[i] = x[1 + i - 1]
    BY <2>2, <2>3, SubSeqProperties
  <2>5. Len(f) = m /\ \A i \in 1 .. m : f[i] = x[i]
    <3> HIDE DEF f
    <3> QED BY <1>1, <2>4
  <2>6. Front(x) = f
    BY <1>1 DEF Front, m
  <2> QED BY <2>4, <2>5, <2>6 DEF Lines
<1>4. /\ lines' = [lines EXCEPT ![cur_line] = Front(x) \o LineAfter] /\ num_lines' = num_lines
      /\ Cursor(cur_line, m) /\ Edited
  BY DEF Backspace
<1>5. TextBefore' = t \o f /\ UNCHANGED <<running, TextAfter, Stored>>
  <2> HIDE DEF f, m, x
  <2>1. /\ lines' = [lines EXCEPT ![cur_line] = f \o LineAfter] /\ num_lines' = num_lines
        /\ Cursor(cur_line, Len(f)) /\ Edited /\ f \in Lines
    BY <1>3, <1>4
  <2> QED BY <2>1, ViewOfLine
<1>6. Front(t \o x) = t \o f /\ t \o x # <<>>
  <2> HIDE DEF t, x, m, f
  <2> DEFINE p == Len(t)
             s == t \o x
             g == t \o f
             h == SubSeq(s, 1, p + m)
  <2>1. p \in Nat /\ f \in Seq(Chars)
    BY <1>2, <1>3, LenProperties, LineTypes
  <2>2. /\ s \in Seq(Chars) /\ Len(s) = p + (m + 1)
        /\ \A i \in 1 .. p + (m + 1) : s[i] = IF i <= p THEN t[i] ELSE x[i - p]
    <3>1. Len(x) = m + 1
      BY <1>1
    <3>2. /\ s \in Seq(Chars) /\ Len(s) = p + Len(x)
          /\ \A i \in 1 .. p + Len(x) : s[i] = IF i <= p THEN t[i] ELSE x[i - p]
      BY <1>2, ConcatProperties
    <3> HIDE DEF s, p
    <3> QED BY <3>1, <3>2
  <2>3. /\ g \in Seq(Chars) /\ Len(g) = p + m
        /\ \A i \in 1 .. p + m : g[i] = IF i <= p THEN t[i] ELSE f[i - p]
    BY <1>2, <1>3, <2>1, ConcatProperties
  <2> HIDE DEF s, g, p
  <2>4. \A i \in 1 .. p + m : /\ i \in 1 .. p + (m + 1) /\ i \in 1 .. Len(s)
                              /\ i <= p \/ i - p \in 1 .. m
    BY <1>1, <2>1, <2>2
  <2>5. \A i \in 1 .. p + m : s[i] \in Chars
    BY <2>2, <2>4, ElementOfSeq
  <2>6. p + m \in Int /\ 1 \in Int
    BY <1>1, <2>1
  <2>7. /\ h \in Seq(Chars) /\ Len(h) = IF 1 <= p + m THEN (p + m) - 1 + 1 ELSE 0
        /\ \A i \in 1 .. (p + m) - 1 + 1 : h[i] = s[1 + i - 1]
    BY <2>5, <2>6, SubSeqProperties
  <2> HIDE DEF h
  <2>8. Len(h) = p + m /\ \A i \in 1 .. p + m : h[i] = s[i]
    BY <1>1, <2>1, <2>7
  <2>9. \A i \in 1 .. p + m : h[i] = g[i]
    BY <1>3, <2>2, <2>3, <2>4, <2>8
  <2>10. h = g
    BY <2>3, <2>7, <2>8, <2>9, SeqEqual
  <2>11. Front(s) = h
    <3>1. Len(s) - 1 = p + m
      BY <1>1, <2>1, <2>2
    <3> QED BY <3>1 DEF Front, h
  <2>12. Len(s) # 0
    BY <1>1, <2>1, <2>2
  <2> QED BY <2>10, <2>11, <2>12, EmptySeq DEF s, g
<1> HIDE DEF f, t, x, m
<1> QED BY <1>1, <1>2, <1>5, <1>6 DEF TextView!Delete, TextView!Edit,
                                  TextView!Front, Front

LEMMA ViewInsert == ASSUME SInv, NEW ch \in Typed, Insert(ch) PROVE TextView!Insert(ch)
<1> DEFINE x == LineBefore
           t == Text(lines, cur_line)
           a == Append(x, ch)
<1>1. x \in Lines /\ Len(x) = cur_col /\ cur_col \in Nat /\ ch \in Chars \ {NL} /\ running
  BY HalvesAreLines, NanoAssumption DEF Insert, Edited
<1>2. x \in Seq(Chars) /\ t \in Seq(Chars) /\ TextBefore = t \o x
  BY ViewIsText
<1>3. a \in Lines /\ Len(a) = cur_col + 1
  BY <1>1, AppendProperties DEF Lines
<1>4. /\ lines' = [lines EXCEPT ![cur_line] = a \o LineAfter] /\ num_lines' = num_lines
      /\ Cursor(cur_line, cur_col + 1) /\ Edited
  BY DEF Insert
<1> HIDE DEF a
<1>5. TextBefore' = t \o a /\ UNCHANGED <<running, TextAfter, Stored>>
  BY <1>3, <1>4, ViewOfLine
<1>6. t \o a = Append(t \o x, ch)
  <2> HIDE DEF t, x
  <2> DEFINE e == <<ch>>
  <2>1. t \in Seq(Chars) /\ x \in Seq(Chars) /\ e \in Seq(Chars)
    BY <1>1, <1>2
  <2>2. a = x \o e
    BY <1>1, <1>2, AppendIsConcat DEF a
  <2>3. t \o x \in Seq(Chars) /\ ch \in Chars
    BY <1>1, <2>1, Regroup
  <2>4. Append(t \o x, ch) = (t \o x) \o e
    <3> DEFINE s == t \o x
    <3>1. s \in Seq(Chars) /\ ch \in Chars
      BY <2>3
    <3> HIDE DEF s
    <3>2. Append(s, ch) = s \o <<ch>>
      BY <3>1, AppendIsConcat
    <3> QED BY <3>2 DEF s
  <2> HIDE DEF e
  <2>5. (t \o x) \o e = t \o (x \o e)
    BY <2>1, Regroup
  <2> QED BY <2>2, <2>4, <2>5
<1> HIDE DEF t, x
<1> QED BY <1>1, <1>2, <1>5, <1>6 DEF TextView!Insert, TextView!Edit

(* The line end in front of the cursor goes.                               *)
LEMMA ViewMerge == ASSUME SInv, Merge PROVE TextView!Delete
<1> DEFINE k == cur_line - 1
           a == lines[k]
           b == lines[cur_line]
           t == Text(lines, k)
<1>1. /\ cur_line \in LineIndex /\ cur_line \in Nat /\ num_lines \in Nat /\ cur_line < num_lines
      /\ num_lines <= NANO_MAX_LINES /\ NANO_MAX_LINES \in Nat
      /\ k \in Nat /\ k + 1 = cur_line /\ k \in LineIndex
      /\ lines \in [LineIndex -> Lines]
      /\ \A i : i \in LineIndex <=> i \in Nat /\ i < NANO_MAX_LINES
      /\ running /\ cur_col = 0
  <2>1. cur_line \in Nat /\ cur_line > 0
    BY Places DEF SInv, Merge
  <2> QED BY <2>1, Places DEF SInv, LinesAre, Merge, Edited
<1>2. a \in Lines /\ b \in Lines
  BY <1>1
<1>3. /\ lines' = Joined /\ num_lines' = num_lines - 1 /\ Cursor(k, Len(a)) /\ Edited
  BY DEF Merge
<1>4. /\ lines'[k] = a \o b
      /\ \A i \in 0 .. k - 1 : lines'[i] = lines[i]
      /\ \A i \in 1 .. num_lines - 1 - cur_line : lines'[k + i] = lines[cur_line + i]
  <2>1. \A i \in LineIndex : lines'[i] =
          IF i = cur_line - 1 THEN lines[i] \o lines[i + 1]
          ELSE IF i >= cur_line /\ i < num_lines - 1 THEN lines[i + 1]
          ELSE IF i = num_lines - 1 THEN <<>>
          ELSE lines[i]
    BY <1>3 DEF Joined
  <2>2. lines'[k] = a \o b
    BY <1>1, <2>1
  <2>3. ASSUME NEW i \in 0 .. k - 1 PROVE lines'[i] = lines[i]
    <3>1. i \in LineIndex /\ i # cur_line - 1 /\ ~(i >= cur_line) /\ i # num_lines - 1
      BY <1>1
    <3> QED BY <2>1, <3>1
  <2>4. ASSUME NEW i \in 1 .. num_lines - 1 - cur_line
        PROVE  lines'[k + i] = lines[cur_line + i]
    <3> DEFINE j == k + i
    <3>1. j \in LineIndex /\ j # cur_line - 1 /\ j >= cur_line /\ j < num_lines - 1
          /\ j + 1 = cur_line + i
      BY <1>1
    <3> HIDE DEF j
    <3>2. lines'[j] = lines[j + 1]
      BY <2>1, <3>1
    <3> QED BY <3>1, <3>2 DEF j
  <2> QED BY <2>2, <2>3, <2>4
<1>5. Len(a \o b) \in Nat /\ Len(a) \in Nat /\ Len(a) <= Len(a \o b)
  <2> HIDE DEF a, b
  <2>1. a \in Seq(Chars) /\ b \in Seq(Chars)
    BY <1>2, LineTypes
  <2>2. Len(a \o b) = Len(a) + Len(b) /\ Len(a) \in Nat /\ Len(b) \in Nat
    BY <2>1, ConcatProperties, LenProperties
  <2> QED BY <2>2
<1>6. cur_line' = k /\ cur_col' = Len(a)
  <2>1. /\ num_lines' \in Nat /\ k \in 0 .. num_lines' - 1
        /\ Len(lines'[k]) \in Nat /\ Len(a) \in 0 .. Len(lines'[k])
    BY <1>1, <1>3, <1>4, <1>5
  <2> HIDE DEF k, a
  <2> QED BY <1>3, <2>1, CursorGoes
<1>7. /\ TextBefore' = Text(lines', cur_line') \o a
      /\ TextAfter' = b \o Behind(lines', cur_line', num_lines' - 1 - cur_line')
  <2> HIDE DEF a, b, k
  <2> QED BY <1>1, <1>2, <1>4, <1>6, ViewAfter
<1>8. Text(lines', cur_line') = t
  <2> DEFINE ms == lines'
  <2>1. \A i \in 0 .. k - 1 : ms[i] = lines[i]
    BY <1>4
  <2> HIDE DEF ms, k
  <2>2. Text(ms, k) = Text(lines, k)
    BY <1>1, <2>1, SameText
  <2> QED BY <1>6, <2>2 DEF ms
<1>9. Behind(lines', cur_line', num_lines' - 1 - cur_line') = Behind(lines, cur_line, Behinds)
  <2> DEFINE ms == lines'
             c == cur_line
             n == Behinds
  <2>1. \A i \in 1 .. n : ms[k + i] = lines[c + i]
    BY <1>4 DEF Behinds
  <2>2. num_lines' - 1 - cur_line' = n
    BY <1>1, <1>3, <1>6 DEF Behinds
  <2> HIDE DEF ms, c, n, k
  <2>3. [i \in 1 .. n |-> <<NL>> \o ms[k + i]] = [i \in 1 .. n |-> <<NL>> \o lines[c + i]]
    BY <2>1
  <2>4. Behind(ms, k, n) = Behind(lines, c, n)
    BY <2>3 DEF Behind
  <2> QED BY <1>6, <2>2, <2>4 DEF ms, c, n
<1>10. LineBefore = <<>> /\ LineAfter = b
  <2>1. LineBefore \in Seq(Chars) /\ Len(LineBefore) = 0 /\ b = LineBefore \o LineAfter
        /\ LineAfter \in Seq(Chars)
    BY <1>1, HalvesAreLines, ViewIsText DEF line
  <2>2. LineBefore = <<>>
    BY <2>1, EmptySeq
  <2> QED BY <2>1, <2>2, ConcatEmptySeq
<1>11. TextBefore = t \o Append(a, NL) /\ t \in Seq(Chars)
  <2>1. \A i \in 0 .. k : lines[i] \in Lines
    <3>1. \A i \in 0 .. k : i \in LineIndex
      BY <1>1
    <3> QED BY <1>1, <3>1
  <2>2. k \in Nat
    BY <1>1
  <2> HIDE DEF k
  <2>3. Text(lines, k + 1) = Text(lines, k) \o Append(lines[k], NL) /\ Text(lines, k) \in Seq(Chars)
        /\ Text(lines, k + 1) \in Seq(Chars)
    BY <2>1, <2>2, TextGrows
  <2>4. TextBefore = Text(lines, cur_line) \o <<>>
    BY <1>10, ViewIsText
  <2>5. Text(lines, cur_line) \in Seq(Chars) /\ Text(lines, cur_line) = t \o Append(a, NL)
    BY <1>1, <2>3
  <2> QED BY <2>3, <2>4, <2>5, ConcatEmptySeq
<1>12. TextAfter = b \o Behind(lines, cur_line, Behinds)
  BY <1>10, ViewIsText
<1>13. UNCHANGED Stored /\ UNCHANGED running
  BY <1>3, StoredStays DEF Edited, fs
<1>14. TextBefore # <<>> /\ Front(TextBefore) = t \o a
  <2> HIDE DEF a, t
  <2> DEFINE s == t \o a
  <2>1. t \in Seq(Chars) /\ a \in Seq(Chars) /\ <<NL>> \in Seq(Chars) /\ NL \in Chars
        /\ Append(a, NL) = a \o <<NL>>
    BY <1>2, <1>11, LineTypes, NanoAssumption
  <2>2. (t \o a) \o <<NL>> = t \o (a \o <<NL>>) /\ t \o a \in Seq(Chars)
    BY <2>1, Regroup
  <2>3. TextBefore = s \o <<NL>> /\ s \in Seq(Chars)
    BY <1>11, <2>1, <2>2
  <2> HIDE DEF s
  <2>4. TextBefore = Append(s, NL)
    BY <2>1, <2>3, AppendIsConcat
  <2>5. Append(s, NL) # <<>> /\ Len(Append(s, NL)) = Len(s) + 1 /\ Len(s) \in Nat
        /\ Append(s, NL) = s \o <<NL>>
    BY <2>1, <2>3, AppendProperties, AppendIsConcat, LenProperties
  <2>6. SubSeq(s \o <<NL>>, 1, Len(s)) = s
    BY <2>1, <2>3, ConcatParts
  <2>7. Front(Append(s, NL)) = s
    <3>1. Len(Append(s, NL)) - 1 = Len(s)
      BY <2>5
    <3> QED BY <2>5, <2>6, <3>1 DEF Front
  <2> QED BY <2>4, <2>5, <2>7 DEF s
<1> HIDE DEF a, b, t, k
<1>15. TextBefore' = Front(TextBefore)
  BY <1>7, <1>8, <1>14
<1>16. TextAfter' = TextAfter
  BY <1>7, <1>9, <1>12
<1> QED BY <1>1, <1>13, <1>14, <1>15, <1>16 DEF TextView!Delete, TextView!Edit, TextView!Front, Front

(* Enter puts a line end in front of the cursor.                           *)
LEMMA ViewEnter == ASSUME SInv, Enter PROVE TextView!Insert(NL)
<1> DEFINE c == cur_line
           k == cur_line + 1
           x == LineBefore
           t == Text(lines, c)
           e == <<>>
<1>1. /\ cur_line \in LineIndex /\ cur_line \in Nat /\ num_lines \in Nat /\ cur_line < num_lines
      /\ NANO_MAX_LINES \in Nat /\ num_lines < NANO_MAX_LINES
      /\ k \in Nat /\ k \in LineIndex
      /\ lines \in [LineIndex -> Lines]
      /\ \A i : i \in LineIndex <=> i \in Nat /\ i < NANO_MAX_LINES
      /\ running
  <2>1. num_lines < NANO_MAX_LINES
    BY DEF Enter
  <2> QED BY <2>1, Places DEF SInv, LinesAre, Enter, Edited
<1>2. x \in Lines /\ LineAfter \in Lines /\ LineAfter \in Seq(Chars) /\ x \in Seq(Chars)
      /\ t \in Seq(Chars) /\ TextBefore = t \o x /\ Len(LineAfter) \in Nat
  BY HalvesAreLines, ViewIsText, LineTypes
<1>3. /\ lines' = Split /\ num_lines' = num_lines + 1 /\ Cursor(k, 0) /\ Edited
  BY DEF Enter
<1>4. /\ lines'[c] = x /\ lines'[k] = LineAfter
      /\ \A i \in 0 .. c - 1 : lines'[i] = lines[i]
      /\ \A i \in 1 .. num_lines - 1 - c : lines'[k + i] = lines[c + i]
  <2>1. \A i \in LineIndex : lines'[i] =
          IF i = cur_line THEN LineBefore
          ELSE IF i = cur_line + 1 THEN LineAfter
          ELSE IF i > cur_line + 1 /\ i <= num_lines THEN lines[i - 1]
          ELSE lines[i]
    BY <1>3 DEF Split
  <2>2. lines'[c] = x /\ lines'[k] = LineAfter
    <3>1. k # cur_line
      BY <1>1
    <3> QED BY <1>1, <2>1, <3>1
  <2>3. ASSUME NEW i \in 0 .. c - 1 PROVE lines'[i] = lines[i]
    <3>1. i \in LineIndex /\ i # cur_line /\ i # cur_line + 1 /\ ~(i > cur_line + 1)
      BY <1>1
    <3> QED BY <2>1, <3>1
  <2>4. ASSUME NEW i \in 1 .. num_lines - 1 - c PROVE lines'[k + i] = lines[c + i]
    <3> DEFINE j == k + i
    <3>1. j \in LineIndex /\ j # cur_line /\ j # cur_line + 1 /\ j > cur_line + 1 /\ j <= num_lines
          /\ j - 1 = c + i
      BY <1>1
    <3> HIDE DEF j
    <3>2. lines'[j] = lines[j - 1]
      BY <2>1, <3>1
    <3> QED BY <3>1, <3>2 DEF j
  <2> QED BY <2>2, <2>3, <2>4
<1>5. cur_line' = k /\ cur_col' = 0
  <2>1. /\ num_lines' \in Nat /\ k \in 0 .. num_lines' - 1
        /\ Len(lines'[k]) \in Nat /\ 0 \in 0 .. Len(lines'[k])
    BY <1>1, <1>2, <1>3, <1>4
  <2> HIDE DEF k
  <2> QED BY <1>3, <2>1, CursorGoes
<1>6. /\ TextBefore' = Text(lines', cur_line') \o e
      /\ TextAfter' = LineAfter \o Behind(lines', cur_line', num_lines' - 1 - cur_line')
  <2>1. e \in Lines /\ Len(e) = 0 /\ e \o LineAfter = LineAfter
    BY <1>2, EmptyIsLine, ConcatEmptySeq
  <2>2. /\ cur_line' \in LineIndex /\ lines'[cur_line'] = e \o LineAfter /\ cur_col' = Len(e)
    BY <1>1, <1>4, <1>5, <2>1
  <2> HIDE DEF e
  <2> QED BY <1>2, <2>1, <2>2, ViewAfter
<1>7. Text(lines', cur_line') = t \o Append(x, NL) /\ Text(lines', cur_line') \in Seq(Chars)
  <2> DEFINE ms == lines'
  <2>1. /\ c \in Nat /\ ms[c] = x
        /\ \A i \in 0 .. c - 1 : ms[i] = lines[i]
        /\ \A i \in 0 .. c : i \in 0 .. c - 1 \/ i = c
        /\ \A i \in 0 .. c - 1 : i \in LineIndex
    BY <1>1, <1>4
  <2>2. \A i \in 0 .. c : ms[i] \in Lines
    BY <1>1, <1>2, <2>1
  <2>3. k = c + 1
    OBVIOUS
  <2> HIDE DEF ms, c, k, x
  <2>4. Text(ms, c) = Text(lines, c)
    BY <2>1, SameText
  <2>5. Text(ms, c + 1) = Text(ms, c) \o Append(ms[c], NL) /\ Text(ms, c + 1) \in Seq(Chars)
    BY <2>1, <2>2, TextGrows
  <2> QED BY <1>5, <2>1, <2>3, <2>4, <2>5 DEF ms
<1>8. Behind(lines', cur_line', num_lines' - 1 - cur_line') = Behind(lines, cur_line, Behinds)
  <2> DEFINE ms == lines'
             n == Behinds
  <2>1. \A i \in 1 .. n : ms[k + i] = lines[c + i]
    BY <1>4 DEF Behinds
  <2>2. num_lines' - 1 - cur_line' = n
    BY <1>1, <1>3, <1>5 DEF Behinds
  <2> HIDE DEF ms, c, n, k
  <2>3. [i \in 1 .. n |-> <<NL>> \o ms[k + i]] = [i \in 1 .. n |-> <<NL>> \o lines[c + i]]
    BY <2>1
  <2>4. Behind(ms, k, n) = Behind(lines, c, n)
    BY <2>3 DEF Behind
  <2> QED BY <1>5, <2>2, <2>4 DEF ms, c, n
<1>9. TextAfter = LineAfter \o Behind(lines, cur_line, Behinds)
  BY ViewIsText
<1>10. UNCHANGED Stored /\ UNCHANGED running
  BY <1>3, StoredStays DEF Edited, fs
<1>11. TextBefore' = Text(lines', cur_line')
  <2> DEFINE s == Text(lines', cur_line')
  <2>1. s \in Seq(Chars) /\ TextBefore' = s \o e
    BY <1>6, <1>7
  <2> HIDE DEF s
  <2>2. s \o <<>> = s
    BY <2>1, ConcatEmptySeq
  <2> QED BY <2>1, <2>2 DEF s
<1>12. t \o Append(x, NL) = Append(t \o x, NL)
  <2> HIDE DEF t, x
  <2> DEFINE s == t \o x
  <2>1. t \in Seq(Chars) /\ x \in Seq(Chars) /\ <<NL>> \in Seq(Chars) /\ NL \in Chars
        /\ Append(x, NL) = x \o <<NL>>
    BY <1>2, LineTypes, NanoAssumption
  <2>2. (t \o x) \o <<NL>> = t \o (x \o <<NL>>) /\ t \o x \in Seq(Chars)
    BY <2>1, Regroup
  <2>3. s \in Seq(Chars)
    BY <2>2
  <2> HIDE DEF s
  <2>4. Append(s, NL) = s \o <<NL>>
    BY <2>1, <2>3, AppendIsConcat
  <2> QED BY <2>1, <2>2, <2>4 DEF s
<1> HIDE DEF t, x, c, k, e
<1>13. TextBefore' = Append(TextBefore, NL)
  BY <1>2, <1>7, <1>11, <1>12
<1>14. TextAfter' = TextAfter
  BY <1>6, <1>8, <1>9
<1> QED BY <1>1, <1>10, <1>13, <1>14 DEF TextView!Insert, TextView!Edit

LEMMA NoLinesAbove == Text(lines, 0) = <<>>
<1>1. \A i \in 0 .. 0 - 1 : lines[i] \in Lines
  OBVIOUS
<1> QED BY <1>1, TextIsText

LEMMA AtStart ==
  ASSUME SInv, cur_line = 0, cur_col = 0
  PROVE  TextBefore = <<>>
<1>1. TextBefore = Text(lines, cur_line) \o LineBefore
  BY ViewIsText
<1>2. LineBefore \in Seq(Chars) /\ Len(LineBefore) = 0
  BY HalvesAreLines, ViewIsText
<1>3. LineBefore = <<>>
  BY <1>2, EmptySeq
<1>4. <<>> \o <<>> = <<>>
  <2>1. <<>> \in Seq(Chars)
    OBVIOUS
  <2> QED BY <2>1, ConcatEmptySeq
<1> QED BY <1>1, <1>3, <1>4, NoLinesAbove

(* What the view needs of the state after an opening.                      *)
ViewTyped == /\ cur_line = 0 /\ cur_col = 0 => TextBefore = <<>>
             /\ TextAfter \in Seq(Chars)

LEMMA ViewIsTyped == SInv => ViewTyped
BY AtStart, ViewIsText DEF ViewTyped

LEMMA ViewOpens ==
  ASSUME ViewTyped', NEW n, OpenNew(n) \/ OpenUnread(n) \/ OpenRead(n)
  PROVE  TextView!Open
<1>1. \E ls, count : Start(n, ls, count)
  BY DEF OpenNew, OpenUnread, OpenRead
<1>2. ~running /\ running' /\ cur_line' = 0 /\ cur_col' = 0
  BY <1>1 DEF Start
<1> QED BY <1>2 DEF ViewTyped, TextView!Open

(* A save stores the whole text, or fails.                                 *)
LEMMA StoredAfter ==
  ASSUME SInv, NEW s, FS!Exists(filename), s = FS!Find(filename),
         filename' = filename, FS!Write(s, Content)
  PROVE  /\ Stored = FS!Contents(s) /\ Stored' = FS!Contents(s)'
         /\ s \in FS!Slots
<1>1. s \in FS!Slots
  BY Found
<1>2. \A t \in FS!Slots : /\ file_table'[t].used = file_table[t].used
                          /\ file_table'[t].name = file_table[t].name
  <2>0. FilesTyped
    BY DEF SInv, Disk
  <2>1. CASE UNCHANGED file_table
    BY <2>1
  <2>2. CASE file_table' = [file_table EXCEPT ![s].data = NULL]
    BY <2>0, <2>2 DEF FilesTyped
  <2>3. ASSUME NEW p, NEW n, FS!SetFile(s, p, n)
        PROVE  \A t \in FS!Slots : /\ file_table'[t].used = file_table[t].used
                                  /\ file_table'[t].name = file_table[t].name
    BY <2>0, <2>3 DEF FilesTyped, FS!SetFile
  <2> QED BY <2>1, <2>2, <2>3 DEF FS!Write, FS!WriteNoMemory, FS!Nothing
<1>3. FS!Named(filename)' = FS!Named(filename)
  BY <1>2 DEF FS!Named, FS!Used, FS!Slots
<1>4. FS!Exists(filename)' /\ FS!Find(filename)' = s
  BY <1>3 DEF FS!Exists, FS!Find, FS!First
<1> QED BY <1>1, <1>4 DEF Stored

LEMMA SaveStores ==
  ASSUME SInv, Save
  PROVE  Stored' = Content \/ Stored' = Stored \/ Stored' = [i \in DOMAIN Stored |-> Junk]
<1>1. PICK s \in FS!Slots : s = FS!Find(filename)
  BY Found DEF Save
<1>2. FS!Exists(filename) /\ filename' = filename /\ FS!Write(s, Content)
  BY <1>1 DEF Save
<1>3. Stored = FS!Contents(s) /\ Stored' = FS!Contents(s)'
  BY <1>1, <1>2, StoredAfter
<1>4. Content # <<>> /\ FilesTyped
  BY ContentIsSaved, SavedIsText DEF SInv, Disk
<1>5. CASE UNCHANGED <<file_table, heap>>
  BY <1>3, <1>5 DEF FS!Contents
<1>6. CASE FS!WriteNoMemory(s, Content)
  <2>1. file_table'[s].data = NULL /\ file_table'[s].size = file_table[s].size
    BY <1>4, <1>6 DEF FS!WriteNoMemory, FilesTyped
  <2>2. Stored' = [i \in 1 .. file_table[s].size |-> Junk]
    BY <1>3, <2>1 DEF FS!Contents
  <2>3. DOMAIN Stored = 1 .. file_table[s].size
    <3>1. CASE file_table[s].data = NULL
      BY <1>3, <3>1 DEF FS!Contents
    <3>2. CASE file_table[s].data # NULL
      <4>1. /\ file_table[s].data \in DOMAIN heap
            /\ file_table[s].size = Len(heap[file_table[s].data])
        BY <3>2 DEF SInv, Disk, OwnRegions, Data
      <4>2. heap[file_table[s].data] \in Seq(Chars)
        BY <4>1, SavedIsText DEF SInv, Disk, HeapSaved
      <4> QED BY <1>3, <3>2, <4>1, <4>2, LenProperties DEF FS!Contents
    <3> QED BY <3>1, <3>2
  <2> QED BY <2>2, <2>3
<1>7. ASSUME NEW p \in Pointers \ DOMAIN FS!Freed(heap, file_table[s].data),
             heap' = FS!Filled(FS!Freed(heap, file_table[s].data), p, Content),
             FS!SetFile(s, p, Len(Content))
      PROVE  Stored' = Content \/ Stored' = [i \in DOMAIN Stored |-> Junk]
  <2>1. file_table'[s].data = p /\ heap'[p] = Content
    BY <1>4, <1>7 DEF FS!SetFile, FS!Filled, FilesTyped
  <2>2. p # NULL
    BY NanoAssumption
  <2> QED BY <1>3, <2>1, <2>2 DEF FS!Contents
<1> QED BY <1>2, <1>4, <1>5, <1>6, <1>7 DEF FS!Write, FS!Nothing

LEMMA ViewSaves == ASSUME SInv, Save PROVE TextView!Save
<1>1. /\ lines' = lines /\ num_lines' = num_lines /\ UNCHANGED running /\ running
      /\ Cursor(cur_line, cur_col)
  BY DEF Save
<1>2. cur_line' = cur_line /\ cur_col' = cur_col
  <2>1. /\ num_lines' \in Nat /\ cur_line \in 0 .. num_lines' - 1
        /\ Len(lines'[cur_line]) \in Nat /\ cur_col \in 0 .. Len(lines'[cur_line])
    <3>1. SInv /\ IInv
      BY DEF SInv
    <3>2. cur_col \in Nat /\ cur_col <= Len(lines[cur_line]) /\ Len(lines[cur_line]) \in Nat
      BY HalvesAreLines DEF line
    <3> QED BY <1>1, <3>1, <3>2, Places
  <2> QED BY <1>1, <2>1, CursorGoes
<1>3. UNCHANGED <<TextBefore, TextAfter>>
  BY <1>1, <1>2 DEF TextBefore, TextAfter, LineBefore, LineAfter, line
<1>4. Content = (TextBefore \o TextAfter) \o <<NL>>
  BY ContentIsView
<1>5. Stored' = Content \/ Stored' = Stored \/ Stored' = [i \in DOMAIN Stored |-> Junk]
  BY SaveStores
<1> QED BY <1>1, <1>3, <1>4, <1>5 DEF TextView!Save

LEMMA ViewStep == SInv /\ ViewTyped' /\ [Next]_vars => [TextView!Next]_(TextView!vars)
<1> SUFFICES ASSUME SInv, ViewTyped', [Next]_vars PROVE [TextView!Next]_(TextView!vars)
  OBVIOUS
<1>1. ASSUME NEW n, OpenNew(n) \/ OpenUnread(n) \/ OpenRead(n) PROVE TextView!Next
  BY <1>1, ViewOpens DEF TextView!Next
<1>2. ASSUME NEW n, Shell(n) PROVE TextView!Next
  <2>1. ~running /\ ~running' /\ UNCHANGED <<lines, num_lines, cur_line, cur_col>>
    BY <1>2 DEF Shell, editor
  <2>2. UNCHANGED <<TextBefore, TextAfter>>
    BY <2>1 DEF TextBefore, TextAfter, LineBefore, LineAfter, line
  <2> QED BY <2>1, <2>2 DEF TextView!Next, TextView!Elsewhere
<1>3. CASE Backspace \/ Merge
  BY <1>3, ViewBackspace, ViewMerge DEF TextView!Next
<1>4. CASE Enter
  <2>1. NL \in Chars
    BY NanoAssumption
  <2> QED BY <1>4, <2>1, ViewEnter DEF TextView!Next
<1>5. ASSUME NEW ch \in Typed, Insert(ch) PROVE TextView!Next
  <2>1. ch \in Chars
    BY NanoAssumption
  <2> QED BY <1>5, <2>1, ViewInsert DEF TextView!Next
<1>6. CASE Save
  BY <1>6, ViewSaves DEF TextView!Next
<1>7. CASE Exit
  <2>1. running /\ ~running' /\ UNCHANGED Stored
    BY <1>7, StoredStays DEF Exit, fs
  <2> QED BY <2>1 DEF TextView!Next, TextView!Close
<1>8. CASE UNCHANGED vars
  <2>1. /\ UNCHANGED <<running, lines, num_lines, cur_line, cur_col>>
        /\ UNCHANGED <<filename, file_table, heap>>
    BY <1>8 DEF vars, editor, fs
  <2>2. UNCHANGED <<TextBefore, TextAfter, Stored>>
    BY <2>1, StoredStays DEF TextBefore, TextAfter, LineBefore, LineAfter, line
  <2> QED BY <2>1, <2>2 DEF TextView!vars
<1> QED BY <1>1, <1>2, <1>3, <1>4, <1>5, <1>6, <1>7, <1>8 DEF Next

LEMMA ViewStart == Init => TextView!Init
<1> SUFFICES ASSUME Init PROVE TextView!Init
  OBVIOUS
<1>1. SInv /\ cur_line = 0 /\ cur_col = 0 /\ ~running /\ running = FALSE
  BY SInvInit DEF Init
<1>2. TextBefore = <<>>
  BY <1>1, AtStart
<1>3. TextAfter = <<>>
  <2>1. num_lines = 1 /\ lines[0] = <<>>
    BY NanoAssumption DEF Init, Empty, LineIndex
  <2>2. LineAfter \in Lines /\ Len(LineAfter) = 0
    BY <1>1, <2>1, HalvesAreLines, EmptySeq DEF line
  <2>3. LineAfter = <<>>
    BY <2>2, EmptySeq DEF Lines
  <2>4. Behind(lines, 0, 0) = <<>>
    <3>1. \A k \in 1 .. 0 : lines[0 + k] \in Lines
      OBVIOUS
    <3> QED BY <3>1, BehindIsText
  <2>5. Behinds = 0
    BY <1>1, <2>1 DEF Behinds
  <2>6. <<>> \o <<>> = <<>>
    <3>1. <<>> \in Seq(Chars)
      OBVIOUS
    <3> QED BY <3>1, ConcatEmptySeq
  <2> QED BY <1>1, <2>3, <2>4, <2>5, <2>6, ViewIsText
<1>4. Stored = <<>>
  <2>1. FS!Used = {}
    BY DEF Init, FS!Init, FS!Used, FS!FREE, FS!Entry
  <2> QED BY <2>1 DEF Stored, FS!Exists, FS!Named
<1> QED BY <1>1, <1>2, <1>3, <1>4 DEF TextView!Init

(* The editor implements a text with the cursor in it: keys change what is *)
(* in front of the cursor only, Enter and the merging of lines put a line  *)
(* end there and take it away, though all lines below move, and a save     *)
(* stores the whole text or fails (shell.c:719-785).                       *)
THEOREM EditorIsTextBuffer == Spec => ImplementsTextBuffer
<1>1. SInv /\ ViewTyped' /\ [Next]_vars => [TextView!Next]_(TextView!vars)
  BY ViewStep
<1> QED BY <1>1, ViewIsTyped, ViewStart, SInvInit, SInvStep, PTL
        DEF Spec, ImplementsTextBuffer, TextView!Spec

-----------------------------------------------------------------------------
(* The cells of the screen, in rows.                                       *)

LEMMA Sizes == /\ VGA_WIDTH \in Nat \ {0} /\ VGA_HEIGHT \in Nat \ {0}
               /\ VISIBLE \in Nat /\ VGA_HEIGHT = VISIBLE + 3
BY NanoAssumption, ScreenAssumption

LEMMA RowStart ==
  ASSUME NEW r \in Nat, NEW c \in Nat
  PROVE  /\ Scr!Index(r, 0) \in Nat /\ Scr!Index(r, c) = Scr!Index(r, 0) + c
         /\ Scr!Index(r + 1, 0) = Scr!Index(r, 0) + VGA_WIDTH
BY Sizes DEF Scr!Index

LEMMA RowsApart ==
  ASSUME NEW r \in Nat, NEW q \in Nat, r < q
  PROVE  Scr!Index(r, 0) + VGA_WIDTH <= Scr!Index(q, 0)
<1>1. PICK d \in Nat : q = r + 1 + d
  <2>1. q - r - 1 \in Nat /\ q = r + 1 + (q - r - 1)
    OBVIOUS
  <2> QED BY <2>1
<1>2. d * VGA_WIDTH \in Nat /\ r * VGA_WIDTH \in Nat
  BY Sizes
<1>3. q * VGA_WIDTH = r * VGA_WIDTH + VGA_WIDTH + d * VGA_WIDTH
  BY <1>1, Sizes
<1> QED BY <1>2, <1>3, Sizes DEF Scr!Index

LEMMA PlaceIsCell ==
  ASSUME NEW r \in Scr!Rows, NEW c \in Scr!Columns
  PROVE  /\ r \in Nat /\ c \in Nat /\ r < VGA_HEIGHT /\ c < VGA_WIDTH
         /\ Scr!Index(r, c) \in Scr!Cells /\ Scr!Index(r, c) \in Nat
<1>1. r \in Nat /\ c \in Nat /\ r < VGA_HEIGHT /\ c < VGA_WIDTH
  BY Sizes DEF Scr!Rows, Scr!Columns
<1>2. Scr!Index(r, 0) + VGA_WIDTH <= Scr!Index(VGA_HEIGHT, 0)
  BY <1>1, RowsApart, Sizes
<1>3. Scr!Index(VGA_HEIGHT, 0) = VGA_WIDTH * VGA_HEIGHT
  <2>1. \A w \in Nat, h \in Nat : h * w + 0 = w * h
    OBVIOUS
  <2> QED BY <2>1, Sizes DEF Scr!Index
<1>4. Scr!Index(r, c) = Scr!Index(r, 0) + c /\ Scr!Index(r, 0) \in Nat
      /\ Scr!Index(VGA_HEIGHT, 0) \in Nat
  BY <1>1, RowStart, Sizes
<1>5. Scr!Cells = 0 .. Scr!Index(VGA_HEIGHT, 0) - 1
  BY <1>3 DEF Scr!Cells
<1> QED BY <1>1, <1>2, <1>4, <1>5, Sizes

(* No two positions share a cell.                                          *)
LEMMA PlacesDiffer ==
  ASSUME NEW r \in Scr!Rows, NEW q \in Scr!Rows, NEW c \in Scr!Columns, NEW d \in Scr!Columns,
         Scr!Index(r, c) = Scr!Index(q, d)
  PROVE  r = q /\ c = d
<1>1. /\ r \in Nat /\ c \in Nat /\ c < VGA_WIDTH /\ q \in Nat /\ d \in Nat /\ d < VGA_WIDTH
  BY PlaceIsCell
<1>2. /\ Scr!Index(r, c) = Scr!Index(r, 0) + c /\ Scr!Index(q, d) = Scr!Index(q, 0) + d
      /\ Scr!Index(r, 0) \in Nat /\ Scr!Index(q, 0) \in Nat
  BY <1>1, RowStart
<1>3. Scr!Index(r, 0) + c = Scr!Index(q, 0) + d
  BY <1>2
<1>4. ~(r < q)
  <2>1. r < q => Scr!Index(r, 0) + VGA_WIDTH <= Scr!Index(q, 0)
    BY <1>1, RowsApart
  <2> QED BY <1>1, <1>2, <1>3, <2>1, Sizes
<1>5. ~(q < r)
  <2>1. q < r => Scr!Index(q, 0) + VGA_WIDTH <= Scr!Index(r, 0)
    BY <1>1, RowsApart
  <2> QED BY <1>1, <1>2, <1>3, <2>1, Sizes
<1>6. r = q
  BY <1>1, <1>4, <1>5
<1>7. c = d
  BY <1>1, <1>2, <1>3, <1>6
<1> QED BY <1>6, <1>7

-----------------------------------------------------------------------------
(* A character on the screen.                                              *)

ScreenOf(r, c, color, buffer, cursor, shown) ==
  [row |-> r, col |-> c, color |-> color, buffer |-> buffer, cursor |-> cursor, shown |-> shown]

LEMMA ScreenIs ==
  ASSUME NEW v \in Scr!Screen
  PROVE  /\ v = ScreenOf(v.row, v.col, v.color, v.buffer, v.cursor, v.shown)
         /\ v.row \in Scr!Rows /\ v.col \in Scr!Columns
         /\ v.color \in {WHITE, "black on white", "black on grey"}
         /\ v.buffer \in [Scr!Cells -> Scr!Cell]
         /\ v.cursor \in Scr!Cells /\ v.shown \in BOOLEAN
BY DEF Scr!Screen, ScreenOf

LEMMA IsScreen ==
  ASSUME NEW r \in Scr!Rows, NEW c \in Scr!Columns,
         NEW color \in {WHITE, "black on white", "black on grey"},
         NEW buffer \in [Scr!Cells -> Scr!Cell], NEW shown \in BOOLEAN
  PROVE  ScreenOf(r, c, color, buffer, Scr!Index(r, c), shown) \in Scr!Screen
<1>1. Scr!Index(r, c) \in Scr!Cells
  BY PlaceIsCell
<1> QED BY <1>1 DEF Scr!Screen, ScreenOf

LEMMA EntryIsCell ==
  ASSUME NEW c \in Glyphs, NEW color \in {WHITE, "black on white", "black on grey"}
  PROVE  Scr!Entry(c, color) \in Scr!Cell
BY DEF Scr!Entry, Scr!Cell

(* Where the position goes, if the screen does not scroll.                 *)
NextRow(v) == IF v.col + 1 < VGA_WIDTH THEN v.row ELSE v.row + 1
NextCol(v) == IF v.col + 1 < VGA_WIDTH THEN v.col + 1 ELSE 0

LEMMA PutIs ==
  ASSUME NEW v \in Scr!Screen, NEW c \in Glyphs
  PROVE  /\ Scr!PutChar(v, c) \in Scr!Screen
         /\ NextRow(v) < VGA_HEIGHT =>
              Scr!PutChar(v, c) =
                ScreenOf(NextRow(v), NextCol(v), v.color,
                         [v.buffer EXCEPT ![Scr!Index(v.row, v.col)] = Scr!Entry(c, v.color)],
                         Scr!Index(NextRow(v), NextCol(v)), v.shown)
<1> DEFINE b == [v.buffer EXCEPT ![Scr!Index(v.row, v.col)] = Scr!Entry(c, v.color)]
           r == NextRow(v)
           q == NextCol(v)
           t == ScreenOf(v.row, v.col + 1, v.color, b, v.cursor, v.shown)
           u == ScreenOf(r, q, v.color, b, v.cursor, v.shown)
<1>1. /\ v = ScreenOf(v.row, v.col, v.color, v.buffer, v.cursor, v.shown)
      /\ v.row \in Scr!Rows /\ v.col \in Scr!Columns
      /\ v.color \in {WHITE, "black on white", "black on grey"}
      /\ v.buffer \in [Scr!Cells -> Scr!Cell] /\ v.shown \in BOOLEAN
  BY ScreenIs
<1>2. /\ v.row \in Nat /\ v.col \in Nat /\ v.row < VGA_HEIGHT /\ v.col < VGA_WIDTH
      /\ Scr!Index(v.row, v.col) \in Scr!Cells
  BY <1>1, PlaceIsCell
<1>3. b \in [Scr!Cells -> Scr!Cell]
  <2>1. Scr!Entry(c, v.color) \in Scr!Cell
    BY <1>1, EntryIsCell
  <2> QED BY <1>1, <2>1
<1>4. Scr!Typeset(v, c) = t
  <2>1. c \notin {NL, "CR", "TAB", "BS"}
    BY ScreenAssumption DEF Glyphs
  <2>2. Scr!Typeset(v, c) = [v EXCEPT !.buffer[Scr!Index(v.row, v.col)] = Scr!Entry(c, v.color),
                                      !.col = @ + 1]
    BY <2>1 DEF Scr!Typeset
  <2> QED BY <1>1, <2>2 DEF ScreenOf
<1> HIDE DEF b
<1>5. Scr!Wrapped(t) = u
  <2>1. CASE v.col + 1 < VGA_WIDTH
    BY <1>2, <2>1, Sizes DEF Scr!Wrapped, ScreenOf, NextRow, NextCol
  <2>2. CASE ~(v.col + 1 < VGA_WIDTH)
    <3>1. v.col + 1 >= VGA_WIDTH
      BY <1>2, <2>2, Sizes
    <3> QED BY <2>2, <3>1 DEF Scr!Wrapped, ScreenOf, NextRow, NextCol
  <2> QED BY <2>1, <2>2
<1>6. r \in 0 .. VGA_HEIGHT /\ q \in Scr!Columns
  BY <1>2, Sizes DEF NextRow, NextCol, Scr!Columns
<1> HIDE DEF r, q
<1>7. Scr!PutChar(v, c) = Scr!UpdateCursor(Scr!Scrolled(u))
  BY <1>4, <1>5 DEF Scr!PutChar
<1>8. CASE r < VGA_HEIGHT
  <2>1. ~Scr!Scrolls(u)
    BY <1>6, <1>8, Sizes DEF Scr!Scrolls, ScreenOf
  <2>2. Scr!PutChar(v, c) = ScreenOf(r, q, v.color, b, Scr!Index(r, q), v.shown)
    BY <1>7, <2>1 DEF Scr!Scrolled, Scr!UpdateCursor, ScreenOf
  <2>3. r \in Scr!Rows
    BY <1>6, <1>8, Sizes DEF Scr!Rows
  <2> QED BY <1>1, <1>3, <1>6, <2>2, <2>3, IsScreen DEF b, r, q
<1>9. CASE ~(r < VGA_HEIGHT)
  <2> DEFINE h == VGA_HEIGHT - 1
  <2>1. Scr!Scrolls(u)
    BY <1>6, <1>9, Sizes DEF Scr!Scrolls, ScreenOf
  <2>2. Scr!PutChar(v, c) = ScreenOf(h, q, v.color, Scr!Lifted(u), Scr!Index(h, q), v.shown)
    BY <1>7, <2>1 DEF Scr!Scrolled, Scr!UpdateCursor, ScreenOf
  <2>3. h \in Scr!Rows
    BY Sizes DEF Scr!Rows
  <2>4. Scr!Lifted(u) \in [Scr!Cells -> Scr!Cell]
    <3>1. u.color = v.color /\ u.buffer = b
      BY DEF ScreenOf
    <3>2. Scr!Blank(u) \in Scr!Cell
      BY <1>1, <3>1, EntryIsCell DEF Scr!Blank, Glyphs
    <3>3. ASSUME NEW i \in Scr!Cells, i < Scr!Index(VGA_HEIGHT - 1, 0)
          PROVE  i + VGA_WIDTH \in Scr!Cells
      <4>1. VGA_HEIGHT - 1 \in Nat /\ VGA_HEIGHT - 1 + 1 = VGA_HEIGHT
        BY Sizes
      <4>2. Scr!Index(VGA_HEIGHT, 0) = Scr!Index(VGA_HEIGHT - 1, 0) + VGA_WIDTH
            /\ Scr!Index(VGA_HEIGHT - 1, 0) \in Nat
        BY <4>1, RowStart
      <4>3. Scr!Index(VGA_HEIGHT, 0) = VGA_WIDTH * VGA_HEIGHT
        <5>1. \A w \in Nat, k \in Nat : k * w + 0 = w * k
          OBVIOUS
        <5> QED BY <5>1, Sizes DEF Scr!Index
      <4>4. Scr!Cells = 0 .. Scr!Index(VGA_HEIGHT, 0) - 1
        BY <4>3 DEF Scr!Cells
      <4> QED BY <3>3, <4>2, <4>4, Sizes
    <3> HIDE DEF u
    <3> QED BY <1>3, <3>1, <3>2, <3>3 DEF Scr!Lifted
  <2> HIDE DEF h, u
  <2> QED BY <1>1, <1>6, <1>9, <2>2, <2>3, <2>4, IsScreen DEF r
<1> QED BY <1>8, <1>9

(* A CR goes back to the first column of the row.                          *)
LEMMA ReturnIs ==
  ASSUME NEW v \in Scr!Screen
  PROVE  LET w == Scr!PutChar(v, "CR") IN
         w \in Scr!Screen /\ w.row = v.row /\ w.col = 0 /\ w.buffer = v.buffer
<1> DEFINE t == ScreenOf(v.row, 0, v.color, v.buffer, v.cursor, v.shown)
           u == ScreenOf(v.row, 0, v.color, v.buffer, Scr!Index(v.row, 0), v.shown)
<1>1. /\ v = ScreenOf(v.row, v.col, v.color, v.buffer, v.cursor, v.shown)
      /\ v.row \in Scr!Rows /\ v.col \in Scr!Columns
      /\ v.buffer \in [Scr!Cells -> Scr!Cell] /\ v.shown \in BOOLEAN
      /\ v.color \in {WHITE, "black on white", "black on grey"}
  BY ScreenIs
<1>2. v.row \in Nat /\ v.row < VGA_HEIGHT
  BY <1>1, PlaceIsCell
<1>3. Scr!Typeset(v, "CR") = t
  <2>1. Scr!Typeset(v, "CR") = [v EXCEPT !.col = 0]
    BY ScreenAssumption DEF Scr!Typeset
  <2> QED BY <1>1, <2>1 DEF ScreenOf
<1>4. Scr!Wrapped(t) = t
  <2>1. ~(0 >= VGA_WIDTH)
    BY Sizes
  <2> QED BY <2>1 DEF Scr!Wrapped, ScreenOf
<1>5. Scr!Scrolled(t) = t
  <2>1. ~(v.row >= VGA_HEIGHT)
    BY <1>2, Sizes
  <2> QED BY <2>1 DEF Scr!Scrolled, Scr!Scrolls, ScreenOf
<1>6. Scr!PutChar(v, "CR") = u
  <2>1. Scr!UpdateCursor(t) = u
    BY DEF Scr!UpdateCursor, ScreenOf
  <2> QED BY <1>3, <1>4, <1>5, <2>1 DEF Scr!PutChar
<1>7. 0 \in Scr!Columns
  BY Sizes DEF Scr!Columns
<1>8. u \in Scr!Screen
  BY <1>1, <1>7, IsScreen
<1>9. u.row = v.row /\ u.col = 0 /\ u.buffer = v.buffer
  BY DEF ScreenOf
<1> HIDE DEF u
<1> QED BY <1>6, <1>8, <1>9

(* What the bars and the lines are printed with.                           *)
Characters == Glyphs \cup {"CR"}

LEMMA PutKeepsScreen ==
  ASSUME NEW v \in Scr!Screen, NEW c \in Characters
  PROVE  Scr!PutChar(v, c) \in Scr!Screen
BY PutIs, ReturnIs DEF Characters

-----------------------------------------------------------------------------
(* Printing a text, and drawing the lines: folds, which are functions on  *)
(* sets of positions.                                                      *)

(* The greatest of the first numbers is the last.                          *)
LEMMA LastIsGreatest ==
  ASSUME NEW k \in Nat, k > 0
  PROVE  /\ Greatest(k, 1 .. k) /\ (1 .. k) \ {k} = 1 .. (k - 1) /\ 1 .. k # {}
<1>1. k \in 1 .. k /\ \A i \in 1 .. k : i <= k
  OBVIOUS
<1>2. \A i : i \in (1 .. k) \ {k} <=> i \in 1 .. (k - 1)
  OBVIOUS
<1> QED BY <1>1, <1>2 DEF Greatest

LEMMA GreatestIsMax ==
  ASSUME NEW n \in Nat, NEW s \in SUBSET (1 .. n), s # {}
  PROVE  Max(s) \in s /\ Scr!Max(s) = Max(s) /\ \A m : Greatest(m, s) <=> m = Max(s)
<1>1. Max(s) \in s /\ \A x \in s : x <= Max(s)
  BY MinMaxIn
<1>2. Scr!Max(s) = Max(s)
  BY DEF Scr!Max, Max
<1>3. \A x \in s : x \in Int
  OBVIOUS
<1> HIDE DEF Max
<1>4. ASSUME NEW m PROVE Greatest(m, s) <=> m = Max(s)
  <2>1. ASSUME Greatest(m, s) PROVE m = Max(s)
    <3> DEFINE x == Max(s)
    <3>1. x \in s /\ \A y \in s : y <= x
      BY <1>1
    <3>2. m \in s /\ \A y \in s : y <= m
      BY <2>1 DEF Greatest
    <3> HIDE DEF x
    <3>3. x <= m /\ m <= x /\ x \in Int /\ m \in Int
      BY <1>3, <3>1, <3>2
    <3>4. m = x
      BY <3>3
    <3> QED BY <3>4 DEF x
  <2>2. Greatest(Max(s), s)
    BY <1>1 DEF Greatest
  <2> QED BY <2>1, <2>2
<1> QED BY <1>1, <1>2, <1>4

(* What vga_print has done after each of its characters.                   *)
Printed(f, v, str) ==
  /\ f \in [0 .. Len(str) -> Scr!Screen] /\ f[0] = v
  /\ \A k \in 1 .. Len(str) : f[k] = Scr!PutChar(f[k - 1], str[k])
  /\ f[Len(str)] = Scr!PrintText(v, str)

LEMMA PrintsEach ==
  ASSUME NEW v \in Scr!Screen, NEW str \in Seq(Characters)
  PROVE  \E f : Printed(f, v, str)
<1> DEFINE n == Len(str)
           S == Scr!Screen
           step == [x \in (1 .. n) \X S |-> Scr!PutChar(x[2], str[x[1]])]
           Is(g) == g = [s \in SUBSET (1 .. n) |->
                           IF s = {} THEN v
                           ELSE Scr!PutChar(g[s \ {Scr!Max(s)}], str[Scr!Max(s)])]
<1>1. n \in Nat /\ DOMAIN str = 1 .. n /\ \A k \in 1 .. n : str[k] \in Characters
  BY LenProperties
<1>2. v \in S
  OBVIOUS
<1> HIDE DEF n, S
<1>3. step \in [(1 .. n) \X S -> S]
  <2>1. ASSUME NEW x \in (1 .. n) \X S PROVE Scr!PutChar(x[2], str[x[1]]) \in S
    BY <1>1, PutKeepsScreen DEF S
  <2> QED BY <2>1
<1>4. \A k \in 1 .. n, x \in S : step[<<k, x>>] = Scr!PutChar(x, str[k])
  OBVIOUS
<1> HIDE DEF step
<1>5. PICK h : FoldsTo(h, n, S, v, step)
  BY <1>1, <1>2, <1>3, FoldExists
<1>6. Is(h)
  <2>1. ASSUME NEW s \in SUBSET (1 .. n), s # {}
        PROVE  h[s] = Scr!PutChar(h[s \ {Scr!Max(s)}], str[Scr!Max(s)])
    <3> DEFINE m == Scr!Max(s)
    <3>1. m \in s /\ Greatest(m, s)
      BY <1>1, <2>1, GreatestIsMax
    <3> HIDE DEF m
    <3>2. m \in 1 .. n /\ s \ {m} \in SUBSET (1 .. n)
      BY <3>1
    <3>3. h[s] = step[<<m, h[s \ {m}]>>] /\ h[s \ {m}] \in S
      BY <1>5, <3>1, <3>2 DEF FoldsTo
    <3>4. h[s] = Scr!PutChar(h[s \ {m}], str[m])
      BY <1>4, <3>2, <3>3
    <3> QED BY <3>4 DEF m
  <2>2. h = [s \in SUBSET (1 .. n) |-> h[s]] /\ h[{}] = v
    BY <1>5 DEF FoldsTo
  <2> QED BY <2>1, <2>2
<1> DEFINE g == CHOOSE g : Is(g)
<1>7. Scr!PrintText(v, str) = g[1 .. n]
  BY <1>1 DEF Scr!PrintText, Scr!FoldLeft, Scr!MapThenFoldSet
<1>8. Is(g)
  <2> HIDE DEF Is
  <2> QED BY <1>6
<1> HIDE DEF g
<1>9. g[{}] = v
  <2>1. {} \in SUBSET (1 .. n)
    OBVIOUS
  <2> QED BY <1>8, <2>1
<1>10. ASSUME NEW k \in 1 .. n
       PROVE  g[1 .. k] = Scr!PutChar(g[1 .. k - 1], str[k])
  <2>0. k \in Nat /\ k > 0 /\ 1 .. k \in SUBSET (1 .. n)
    BY <1>1
  <2>1. Greatest(k, 1 .. k) /\ 1 .. k # {} /\ (1 .. k) \ {k} = 1 .. k - 1
    BY <2>0, LastIsGreatest
  <2>2. Scr!Max(1 .. k) = k
    BY <1>1, <2>0, <2>1, GreatestIsMax
  <2>3. g[1 .. k] = Scr!PutChar(g[(1 .. k) \ {Scr!Max(1 .. k)}], str[Scr!Max(1 .. k)])
    BY <1>8, <2>0, <2>1
  <2> QED BY <2>1, <2>2, <2>3
<1> HIDE DEF Is
<1> DEFINE f == [k \in 0 .. n |-> g[1 .. k]]
<1>11. f[0] = v /\ f[n] = g[1 .. n]
  <2>1. 1 .. 0 = {} /\ 0 \in 0 .. n /\ n \in 0 .. n
    BY <1>1
  <2> QED BY <1>9, <2>1
<1>12. \A k \in 1 .. n : f[k] = Scr!PutChar(f[k - 1], str[k])
  <2>1. \A k \in 1 .. n : k \in 0 .. n /\ k - 1 \in 0 .. n
    BY <1>1
  <2> QED BY <1>10, <2>1
<1>13. f \in [0 .. n -> S]
  <2> DEFINE T == {k \in 0 .. n : f[k] \in S}
  <2>1. 0 \in T
    BY <1>1, <1>2, <1>11
  <2>2. ASSUME NEW k \in 0 .. n - 1, k \in T PROVE k + 1 \in T
    <3>1. k + 1 \in 1 .. n /\ k + 1 \in 0 .. n /\ (k + 1) - 1 = k
      BY <1>1
    <3>2. f[k + 1] = Scr!PutChar(f[k], str[k + 1]) /\ f[k] \in S /\ str[k + 1] \in Characters
      <4> HIDE DEF f
      <4> QED BY <1>1, <1>12, <2>2, <3>1
    <3> HIDE DEF f
    <3>3. f[k + 1] \in S
      BY <3>2, PutKeepsScreen DEF S
    <3> QED BY <3>1, <3>3
  <2>3. \A k \in 0 .. n : k \in T
    <3> HIDE DEF T
    <3> QED BY <1>1, <2>1, <2>2, EveryRound
  <2>4. f = [k \in 0 .. n |-> f[k]]
    OBVIOUS
  <2> HIDE DEF f
  <2> QED BY <2>3, <2>4
<1>14. f[n] = Scr!PrintText(v, str)
  BY <1>7, <1>11
<1>15. Printed(f, v, str)
  <2> HIDE DEF f
  <2> QED BY <1>11, <1>12, <1>13, <1>14 DEF Printed, n, S
<1> QED BY <1>15

-----------------------------------------------------------------------------
(* Rows of characters.                                                     *)

(* The first k characters of str have been printed from the beginning of   *)
(* a row.                                                                  *)
CharAt(v, r, c) == v.buffer[Scr!Index(r, c)].char

RowPrinted(w, v, str, k) ==
  /\ w \in Scr!Screen /\ w.color = v.color /\ w.shown = v.shown
  /\ k < VGA_WIDTH => w.row = v.row /\ w.col = k /\ w.cursor = Scr!Index(v.row, k)
  /\ \A r \in Scr!Rows, c \in Scr!Columns :
       CharAt(w, r, c) = IF r = v.row /\ c < k THEN str[c + 1] ELSE CharAt(v, r, c)

LEMMA OneMorePrinted ==
  ASSUME NEW v \in Scr!Screen, NEW w, NEW str, NEW k \in Nat, RowPrinted(w, v, str, k),
         k < VGA_WIDTH, k + 1 < VGA_WIDTH \/ v.row + 1 < VGA_HEIGHT, str[k + 1] \in Glyphs
  PROVE  RowPrinted(Scr!PutChar(w, str[k + 1]), v, str, k + 1)
<1> DEFINE e == Scr!Entry(str[k + 1], w.color)
           b == [w.buffer EXCEPT ![Scr!Index(w.row, w.col)] = e]
           u == ScreenOf(NextRow(w), NextCol(w), w.color, b,
                         Scr!Index(NextRow(w), NextCol(w)), w.shown)
<1>1. /\ w \in Scr!Screen /\ w.color = v.color /\ w.shown = v.shown
      /\ w.row = v.row /\ w.col = k
  BY DEF RowPrinted
<1>2. /\ v.row \in Scr!Rows /\ v.row \in Nat /\ v.row < VGA_HEIGHT /\ k \in Scr!Columns
      /\ w.buffer \in [Scr!Cells -> Scr!Cell]
  <2>1. k \in Scr!Columns
    BY Sizes DEF Scr!Columns
  <2> QED BY <1>1, <2>1, ScreenIs, PlaceIsCell
<1>3. NextRow(w) < VGA_HEIGHT
  BY <1>1, <1>2 DEF NextRow
<1>4. Scr!PutChar(w, str[k + 1]) = u /\ u \in Scr!Screen
  BY <1>1, <1>3, PutIs
<1>5. u.color = v.color /\ u.shown = v.shown /\ u.row = NextRow(w) /\ u.col = NextCol(w)
      /\ u.cursor = Scr!Index(NextRow(w), NextCol(w)) /\ u.buffer = b
  <2> HIDE DEF b
  <2> QED BY <1>1 DEF ScreenOf
<1>6. k + 1 < VGA_WIDTH => u.row = v.row /\ u.col = k + 1 /\ u.cursor = Scr!Index(v.row, k + 1)
  <2> HIDE DEF u
  <2> QED BY <1>1, <1>5 DEF NextRow, NextCol
<1>7. ASSUME NEW r \in Scr!Rows, NEW c \in Scr!Columns
      PROVE  CharAt(u, r, c) = IF r = v.row /\ c < k + 1 THEN str[c + 1] ELSE CharAt(v, r, c)
  <2> DEFINE i == Scr!Index(r, c)
  <2>1. i \in Scr!Cells /\ c \in Nat
    BY PlaceIsCell
  <2>2. CharAt(w, r, c) = IF r = v.row /\ c < k THEN str[c + 1] ELSE CharAt(v, r, c)
    BY DEF RowPrinted
  <2>3. CASE r = v.row /\ c = k
    <3>1. u.buffer[i] = e
      <4> HIDE DEF u, e
      <4> QED BY <1>1, <1>2, <1>5, <2>1, <2>3
    <3>2. e.char = str[k + 1]
      BY DEF Scr!Entry
    <3>3. CharAt(u, r, c) = str[k + 1]
      <4> HIDE DEF u, e
      <4> QED BY <3>1, <3>2 DEF CharAt
    <3> HIDE DEF u
    <3> QED BY <2>3, <3>3
  <2>4. CASE ~(r = v.row /\ c = k)
    <3>1. i # Scr!Index(v.row, k)
      BY <1>2, <2>4, PlacesDiffer
    <3>2. u.buffer[i] = w.buffer[i]
      <4> HIDE DEF u, e, i
      <4> QED BY <1>1, <1>2, <1>5, <2>1, <3>1
    <3>3. CharAt(u, r, c) = CharAt(w, r, c)
      <4> HIDE DEF u
      <4> QED BY <3>2 DEF CharAt
    <3>4. r = v.row => (c < k + 1 <=> c < k)
      BY <2>1, <2>4
    <3> HIDE DEF u, i
    <3> QED BY <2>2, <3>3, <3>4
  <2> QED BY <2>3, <2>4
<1> HIDE DEF u
<1> QED BY <1>4, <1>5, <1>6, <1>7 DEF RowPrinted

LEMMA PrintsRow ==
  ASSUME NEW v \in Scr!Screen, NEW str \in Seq(Glyphs), Len(str) <= VGA_WIDTH,
         v.col = 0, v.cursor = Scr!Index(v.row, 0),
         Len(str) < VGA_WIDTH \/ v.row + 1 < VGA_HEIGHT
  PROVE  RowPrinted(Scr!PrintText(v, str), v, str, Len(str))
<1>1. PICK f : Printed(f, v, str)
  <2>1. str \in Seq(Characters)
    BY SeqMonotonic DEF Characters
  <2> QED BY <2>1, PrintsEach
<1> DEFINE n == Len(str)
           T == {k \in 0 .. n : RowPrinted(f[k], v, str, k)}
<1>2. n \in Nat /\ \A k \in 1 .. n : str[k] \in Glyphs
  BY LenProperties
<1>3. 0 \in T
  <2>1. f[0] = v /\ 0 \in 0 .. n
    BY <1>1, <1>2 DEF Printed
  <2>2. \A c \in Scr!Columns : ~(c < 0)
    BY Sizes DEF Scr!Columns
  <2>3. RowPrinted(v, v, str, 0)
    BY <2>2 DEF RowPrinted
  <2> QED BY <2>1, <2>3
<1>4. ASSUME NEW k \in 0 .. n - 1, k \in T PROVE k + 1 \in T
  <2>1. /\ k \in Nat /\ k + 1 \in 1 .. n /\ k + 1 \in 0 .. n /\ (k + 1) - 1 = k
        /\ k < VGA_WIDTH /\ (k + 1 < VGA_WIDTH \/ v.row + 1 < VGA_HEIGHT)
    BY <1>2, Sizes
  <2>2. f[k + 1] = Scr!PutChar(f[k], str[k + 1]) /\ str[k + 1] \in Glyphs
    BY <1>1, <1>2, <2>1 DEF Printed
  <2>3. RowPrinted(f[k], v, str, k)
    BY <1>4
  <2> HIDE DEF n
  <2>4. RowPrinted(Scr!PutChar(f[k], str[k + 1]), v, str, k + 1)
    BY <2>1, <2>2, <2>3, OneMorePrinted
  <2> QED BY <2>1, <2>2, <2>4
<1>5. \A k \in 0 .. n : k \in T
  <2> HIDE DEF n, T
  <2> QED BY <1>2, <1>3, <1>4, EveryRound
<1>6. n \in T
  <2> HIDE DEF T
  <2> QED BY <1>2, <1>5
<1>7. f[n] = Scr!PrintText(v, str)
  BY <1>1 DEF Printed
<1> QED BY <1>6, <1>7

(* The first k characters of a text have been printed from the top of the  *)
(* screen v, wrapping from row to row: the position is within the first k  *)
(* cells or just behind them, and the cells behind are as they were.       *)
TopPrinted(w, v, str, k) ==
  /\ w \in Scr!Screen
  /\ Scr!Index(w.row, w.col) <= k
  /\ \A i \in Scr!Cells :
       w.buffer[i].char \in
         IF i >= k THEN {v.buffer[i].char} ELSE Range(str) \cup {v.buffer[i].char}

LEMMA OneMoreOnTop ==
  ASSUME NEW v, NEW w, NEW str, NEW k \in Nat, TopPrinted(w, v, str, k),
         k + 1 < VGA_WIDTH * VGA_HEIGHT, NEW c \in Characters, c \in Range(str)
  PROVE  TopPrinted(Scr!PutChar(w, c), v, str, k + 1)
<1> DEFINE at == Scr!Index(w.row, w.col)
           u == Scr!PutChar(w, c)
<1>1. /\ w \in Scr!Screen /\ at <= k
      /\ w.row \in Scr!Rows /\ w.col \in Scr!Columns /\ w.buffer \in [Scr!Cells -> Scr!Cell]
  BY ScreenIs DEF TopPrinted
<1>2. /\ w.row \in Nat /\ w.row < VGA_HEIGHT /\ w.col \in Nat /\ w.col < VGA_WIDTH
      /\ at \in Scr!Cells /\ at \in Nat
  BY <1>1, PlaceIsCell
<1>3. at = Scr!Index(w.row, 0) + w.col /\ Scr!Index(w.row, 0) \in Nat
      /\ Scr!Index(w.row + 1, 0) = Scr!Index(w.row, 0) + VGA_WIDTH
  BY <1>2, RowStart
<1>4. \A i \in Scr!Cells : i \in Nat
  BY Sizes DEF Scr!Cells
<1>5. \A i \in Scr!Cells :
        w.buffer[i].char \in
          IF i >= k THEN {v.buffer[i].char} ELSE Range(str) \cup {v.buffer[i].char}
  BY DEF TopPrinted
<1> HIDE DEF at
<1>6. \A i \in Scr!Cells :
        w.buffer[i].char \in
          IF i >= k + 1 THEN {v.buffer[i].char} ELSE Range(str) \cup {v.buffer[i].char}
  <2>1. ASSUME NEW i \in Scr!Cells, i >= k + 1 PROVE i >= k
    BY <1>4, <2>1
  <2> QED BY <1>5, <2>1
<1>7. CASE c = "CR"
  <2>1. u \in Scr!Screen /\ u.row = w.row /\ u.col = 0 /\ u.buffer = w.buffer
    BY <1>1, <1>7, ReturnIs
  <2> HIDE DEF u
  <2>2. Scr!Index(u.row, u.col) <= k + 1
    BY <1>1, <1>2, <1>3, <2>1
  <2>3. TopPrinted(u, v, str, k + 1)
    BY <1>6, <2>1, <2>2 DEF TopPrinted
  <2> QED BY <2>3 DEF u
<1>8. CASE c \in Glyphs
  <2> DEFINE e == Scr!Entry(c, w.color)
             b == [w.buffer EXCEPT ![Scr!Index(w.row, w.col)] = e]
             s == ScreenOf(NextRow(w), NextCol(w), w.color, b,
                           Scr!Index(NextRow(w), NextCol(w)), w.shown)
  <2>1. /\ NextRow(w) \in Nat /\ NextCol(w) \in Nat
        /\ Scr!Index(NextRow(w), NextCol(w)) = at + 1
    <3>1. CASE w.col + 1 < VGA_WIDTH
      <4>1. NextRow(w) = w.row /\ NextCol(w) = w.col + 1 /\ w.col + 1 \in Nat
        BY <1>2, <3>1 DEF NextRow, NextCol
      <4>2. Scr!Index(w.row, w.col + 1) = Scr!Index(w.row, 0) + (w.col + 1)
        BY <1>2, <4>1, RowStart
      <4> QED BY <1>2, <1>3, <4>1, <4>2
    <3>2. CASE ~(w.col + 1 < VGA_WIDTH)
      <4>1. NextRow(w) = w.row + 1 /\ NextCol(w) = 0 /\ w.col + 1 = VGA_WIDTH
        BY <1>2, <3>2, Sizes DEF NextRow, NextCol
      <4> QED BY <1>2, <1>3, <4>1, Sizes
    <3> QED BY <3>1, <3>2
  <2>2. NextRow(w) < VGA_HEIGHT
    <3>1. CASE NextRow(w) = w.row
      BY <1>2, <3>1
    <3>2. CASE NextRow(w) # w.row
      <4>1. NextRow(w) = w.row + 1 /\ NextCol(w) = 0
        BY <3>2 DEF NextRow, NextCol
      <4>2. Scr!Index(VGA_HEIGHT, 0) = VGA_WIDTH * VGA_HEIGHT
        <5>1. \A x \in Nat, h \in Nat : h * x + 0 = x * h
          OBVIOUS
        <5> QED BY <5>1, Sizes DEF Scr!Index
      <4>3. Scr!Index(w.row + 1, 0) < Scr!Index(VGA_HEIGHT, 0)
        <5> DEFINE x == VGA_WIDTH * VGA_HEIGHT
        <5>1. Scr!Index(w.row + 1, 0) = at + 1 /\ k + 1 < x /\ x \in Nat
          BY <2>1, <4>1, Sizes
        <5> HIDE DEF x
        <5>2. at + 1 < x
          BY <1>1, <1>2, <5>1
        <5> QED BY <4>2, <5>1, <5>2 DEF x
      <4>4. w.row + 1 # VGA_HEIGHT
        <5>1. ASSUME w.row + 1 = VGA_HEIGHT PROVE FALSE
          <6>1. Scr!Index(VGA_HEIGHT, 0) \in Nat
            BY Sizes, RowStart
          <6> QED BY <4>3, <5>1, <6>1
        <5> QED BY <5>1
      <4> QED BY <1>2, <4>1, <4>4, Sizes
    <3> QED BY <3>1, <3>2
  <2>3. u = s /\ u \in Scr!Screen
    BY <1>1, <1>8, <2>2, PutIs
  <2>4. u.row = NextRow(w) /\ u.col = NextCol(w) /\ u.buffer = b
    <3> HIDE DEF u, b
    <3> QED BY <2>3 DEF ScreenOf
  <2> HIDE DEF u, s
  <2>5. Scr!Index(u.row, u.col) <= k + 1
    BY <1>1, <1>2, <2>1, <2>4
  <2>6. ASSUME NEW i \in Scr!Cells
        PROVE  u.buffer[i].char \in
                 IF i >= k + 1 THEN {v.buffer[i].char} ELSE Range(str) \cup {v.buffer[i].char}
    <3>1. CASE i = at
      <4>1. u.buffer[i] = e /\ e.char = c
        BY <1>1, <2>4, <3>1 DEF at, Scr!Entry
      <4>2. ~(i >= k + 1)
        BY <1>1, <1>2, <3>1
      <4> HIDE DEF e
      <4> QED BY <4>1, <4>2
    <3>2. CASE i # at
      <4>1. u.buffer[i] = w.buffer[i]
        <5> HIDE DEF e
        <5> QED BY <1>1, <2>4, <3>2 DEF at
      <4> QED BY <1>6, <4>1
    <3> QED BY <3>1, <3>2
  <2>7. TopPrinted(u, v, str, k + 1)
    BY <2>3, <2>5, <2>6 DEF TopPrinted
  <2> QED BY <2>7 DEF u
<1> QED BY <1>7, <1>8 DEF Characters

LEMMA PrintsOnTop ==
  ASSUME NEW v \in Scr!Screen, v.row = 0, v.col = 0, NEW str \in Seq(Characters),
         Len(str) < VGA_WIDTH * VGA_HEIGHT
  PROVE  TopPrinted(Scr!PrintText(v, str), v, str, Len(str))
<1>1. PICK f : Printed(f, v, str)
  BY PrintsEach
<1> DEFINE n == Len(str)
           T == {k \in 0 .. n : TopPrinted(f[k], v, str, k)}
<1>2. /\ n \in Nat /\ DOMAIN str = 1 .. n
      /\ \A k \in 1 .. n : str[k] \in Characters /\ str[k] \in Range(str)
  BY LenProperties DEF Range
<1>3. 0 \in T
  <2>1. f[0] = v /\ 0 \in 0 .. n
    BY <1>1, <1>2 DEF Printed
  <2>2. Scr!Index(v.row, v.col) <= 0
    BY Sizes DEF Scr!Index
  <2>3. \A i \in Scr!Cells : i >= 0
    BY Sizes DEF Scr!Cells
  <2>4. TopPrinted(v, v, str, 0)
    BY <2>2, <2>3 DEF TopPrinted
  <2> QED BY <2>1, <2>4
<1>4. ASSUME NEW k \in 0 .. n - 1, k \in T PROVE k + 1 \in T
  <2> DEFINE x == VGA_WIDTH * VGA_HEIGHT
  <2>1. n < x /\ x \in Nat
    BY Sizes
  <2> HIDE DEF x
  <2>2. /\ k \in Nat /\ k + 1 \in 1 .. n /\ k + 1 \in 0 .. n /\ (k + 1) - 1 = k
        /\ k + 1 < x
    BY <1>2, <2>1
  <2>3. /\ f[k + 1] = Scr!PutChar(f[k], str[k + 1])
        /\ str[k + 1] \in Characters /\ str[k + 1] \in Range(str)
    BY <1>1, <1>2, <2>2 DEF Printed
  <2>4. TopPrinted(f[k], v, str, k)
    BY <1>4
  <2> HIDE DEF n
  <2>5. TopPrinted(Scr!PutChar(f[k], str[k + 1]), v, str, k + 1)
    BY <2>2, <2>3, <2>4, OneMoreOnTop DEF x
  <2> QED BY <2>2, <2>3, <2>5
<1>5. \A k \in 0 .. n : k \in T
  <2> HIDE DEF n, T
  <2> QED BY <1>2, <1>3, <1>4, EveryRound
<1>6. n \in T
  <2> HIDE DEF T
  <2> QED BY <1>2, <1>5
<1>7. f[n] = Scr!PrintText(v, str)
  BY <1>1 DEF Printed
<1> QED BY <1>6, <1>7

LEMMA SetsCursor ==
  ASSUME NEW v \in Scr!Screen, NEW r \in Nat, NEW c \in Nat
  PROVE  LET w == Scr!SetCursor(v, r, c) IN
         /\ w \in Scr!Screen /\ w.color = v.color /\ w.buffer = v.buffer /\ w.shown = v.shown
         /\ r < VGA_HEIGHT /\ c < VGA_WIDTH =>
              w.row = r /\ w.col = c /\ w.cursor = Scr!Index(r, c)
         /\ ~(r < VGA_HEIGHT) => w = v
<1>1. /\ v = ScreenOf(v.row, v.col, v.color, v.buffer, v.cursor, v.shown)
      /\ v.color \in {WHITE, "black on white", "black on grey"}
      /\ v.buffer \in [Scr!Cells -> Scr!Cell] /\ v.shown \in BOOLEAN
  BY ScreenIs
<1>2. CASE r < VGA_HEIGHT /\ c < VGA_WIDTH
  <2> DEFINE u == ScreenOf(r, c, v.color, v.buffer, Scr!Index(r, c), v.shown)
  <2>1. Scr!SetCursor(v, r, c) = u
    BY <1>1, <1>2 DEF Scr!SetCursor, Scr!UpdateCursor, ScreenOf
  <2>2. r \in Scr!Rows /\ c \in Scr!Columns
    BY <1>2, Sizes DEF Scr!Rows, Scr!Columns
  <2>3. u \in Scr!Screen
    BY <1>1, <2>2, IsScreen
  <2>4. /\ u.color = v.color /\ u.buffer = v.buffer /\ u.shown = v.shown
        /\ u.row = r /\ u.col = c /\ u.cursor = Scr!Index(r, c)
    BY DEF ScreenOf
  <2> HIDE DEF u
  <2> QED BY <1>2, <2>1, <2>3, <2>4
<1>3. CASE ~(r < VGA_HEIGHT /\ c < VGA_WIDTH)
  <2>1. Scr!SetCursor(v, r, c) = v
    BY <1>3 DEF Scr!SetCursor
  <2> QED BY <1>3, <2>1
<1> QED BY <1>2, <1>3

LEMMA SetsColor ==
  ASSUME NEW v \in Scr!Screen, NEW color \in {WHITE, "black on white", "black on grey"}
  PROVE  LET w == Scr!SetColor(v, color) IN
         /\ w \in Scr!Screen /\ w.color = color /\ w.buffer = v.buffer /\ w.shown = v.shown
         /\ w.row = v.row /\ w.col = v.col /\ w.cursor = v.cursor
BY DEF Scr!SetColor, Scr!Screen

LEMMA Hides ==
  ASSUME NEW v \in Scr!Screen, NEW x \in BOOLEAN
  PROVE  LET w == [v EXCEPT !.shown = x] IN
         /\ w \in Scr!Screen /\ w.color = v.color /\ w.buffer = v.buffer /\ w.shown = x
         /\ w.row = v.row /\ w.col = v.col /\ w.cursor = v.cursor
BY DEF Scr!Screen

LEMMA Clears ==
  ASSUME NEW v \in Scr!Screen
  PROVE  LET w == Scr!Clear(v) IN
         /\ w \in Scr!Screen /\ w.row = 0 /\ w.col = 0 /\ w.cursor = Scr!Index(0, 0)
         /\ \A r \in Scr!Rows, c \in Scr!Columns : CharAt(w, r, c) = SPACE
<1> DEFINE b == [i \in Scr!Cells |-> Scr!Blank(v)]
           u == ScreenOf(0, 0, v.color, b, Scr!Index(0, 0), v.shown)
<1>1. /\ v = ScreenOf(v.row, v.col, v.color, v.buffer, v.cursor, v.shown)
      /\ v.color \in {WHITE, "black on white", "black on grey"}
      /\ v.shown \in BOOLEAN
  BY ScreenIs
<1>2. Scr!Blank(v) \in Scr!Cell /\ Scr!Blank(v).char = SPACE
  <2>1. Scr!Blank(v).char = SPACE
    BY DEF Scr!Blank, Scr!Entry
  <2> QED BY <1>1, <2>1, EntryIsCell DEF Scr!Blank, Glyphs
<1>3. b \in [Scr!Cells -> Scr!Cell]
  BY <1>2
<1>4. Scr!Clear(v) = u
  <2> HIDE DEF b
  <2>1. Scr!Clear(v) = Scr!UpdateCursor([v EXCEPT !.buffer = b, !.row = 0, !.col = 0])
    BY DEF Scr!Clear, b
  <2> QED BY <1>1, <2>1 DEF Scr!UpdateCursor, ScreenOf
<1>5. 0 \in Scr!Rows /\ 0 \in Scr!Columns
  BY Sizes DEF Scr!Rows, Scr!Columns
<1>6. u.row = 0 /\ u.col = 0 /\ u.cursor = Scr!Index(0, 0) /\ u.buffer = b
  BY DEF ScreenOf
<1>7. \A r \in Scr!Rows, c \in Scr!Columns : b[Scr!Index(r, c)] = Scr!Blank(v)
  BY PlaceIsCell
<1> HIDE DEF b
<1>8. u \in Scr!Screen
  BY <1>1, <1>3, <1>5, IsScreen
<1> HIDE DEF u
<1> QED BY <1>2, <1>4, <1>6, <1>7, <1>8 DEF CharAt

(* What the loop over the lines has done after each of its rounds.         *)
LineDrawn(w, k) == Scr!PrintText(Scr!SetCursor(w, k, 0), lines[k - 1])

LinesDrawn(v, m) ==
  FoldLeft(LAMBDA w, k : Scr!PrintText(Scr!SetCursor(w, k, 0), lines[k - 1]),
           v, [k \in 1 .. m |-> k])

Drawn(f, v, m) ==
  /\ f \in [0 .. m -> Scr!Screen] /\ f[0] = v
  /\ \A k \in 1 .. m : f[k] = LineDrawn(f[k - 1], k)
  /\ f[m] = LinesDrawn(v, m)

LEMMA LineKeepsScreen ==
  ASSUME NEW w \in Scr!Screen, NEW k \in Nat, lines[k - 1] \in Seq(Glyphs)
  PROVE  LineDrawn(w, k) \in Scr!Screen
<1>1. Scr!SetCursor(w, k, 0) \in Scr!Screen
  BY SetsCursor
<1>2. PICK f : Printed(f, Scr!SetCursor(w, k, 0), lines[k - 1])
  <2>1. lines[k - 1] \in Seq(Characters)
    BY SeqMonotonic DEF Characters
  <2> QED BY <1>1, <2>1, PrintsEach
<1>3. Len(lines[k - 1]) \in Nat
  BY LenProperties
<1> DEFINE n == Len(lines[k - 1])
<1>4. n \in 0 .. n
  BY <1>3
<1>5. f[n] \in Scr!Screen /\ f[n] = Scr!PrintText(Scr!SetCursor(w, k, 0), lines[k - 1])
  BY <1>2, <1>4 DEF Printed
<1> QED BY <1>5 DEF LineDrawn

LEMMA DrawsEach ==
  ASSUME NEW v \in Scr!Screen, NEW n \in Nat, \A k \in 1 .. n : lines[k - 1] \in Seq(Glyphs)
  PROVE  \E f : Drawn(f, v, n)
<1> DEFINE S == Scr!Screen
           step == [x \in (1 .. n) \X S |-> LineDrawn(x[2], x[1])]
           Is(g) == g = [s \in SUBSET (1 .. n) |->
                           IF s = {} THEN v ELSE LineDrawn(g[s \ {Max(s)}], Max(s))]
<1>1. v \in S
  OBVIOUS
<1>2. ASSUME NEW x \in S, NEW k \in 1 .. n PROVE LineDrawn(x, k) \in S
  <2>1. k \in Nat
    OBVIOUS
  <2> QED BY <2>1, LineKeepsScreen
<1> HIDE DEF S
<1>3. step \in [(1 .. n) \X S -> S]
  BY <1>2
<1>4. \A k \in 1 .. n, x \in S : step[<<k, x>>] = LineDrawn(x, k)
  OBVIOUS
<1> HIDE DEF step
<1>5. PICK h : FoldsTo(h, n, S, v, step)
  BY <1>1, <1>3, FoldExists
<1>6. Is(h)
  <2>1. ASSUME NEW s \in SUBSET (1 .. n), s # {}
        PROVE  h[s] = LineDrawn(h[s \ {Max(s)}], Max(s))
    <3> DEFINE m == Max(s)
    <3>1. m \in s /\ Greatest(m, s)
      BY <2>1, GreatestIsMax
    <3> HIDE DEF m
    <3>2. m \in 1 .. n /\ s \ {m} \in SUBSET (1 .. n)
      BY <3>1
    <3>3. h[s] = step[<<m, h[s \ {m}]>>] /\ h[s \ {m}] \in S
      BY <1>5, <3>1, <3>2 DEF FoldsTo
    <3>4. h[s] = LineDrawn(h[s \ {m}], m)
      BY <1>4, <3>2, <3>3
    <3> QED BY <3>4 DEF m
  <2>2. h = [s \in SUBSET (1 .. n) |-> h[s]] /\ h[{}] = v
    BY <1>5 DEF FoldsTo
  <2> QED BY <2>1, <2>2
<1> DEFINE g == CHOOSE g : Is(g)
<1>7. LinesDrawn(v, n) = g[1 .. n]
  <2> DEFINE q == [k \in 1 .. n |-> k]
             A(e) == [s \in SUBSET (1 .. n) |->
                        IF s = {} THEN v ELSE LineDrawn(e[s \ {Max(s)}], q[Max(s)])]
             B(e) == [s \in SUBSET (1 .. n) |->
                        IF s = {} THEN v ELSE LineDrawn(e[s \ {Max(s)}], Max(s))]
  <2>1. DOMAIN q = 1 .. n
    OBVIOUS
  <2>2. LinesDrawn(v, n) = (CHOOSE e : e = A(e))[1 .. n]
    BY <2>1 DEF LinesDrawn, FoldLeft, MapThenFoldSet, LineDrawn
  <2>3. ASSUME NEW s \in SUBSET (1 .. n), s # {} PROVE q[Max(s)] = Max(s)
    <3>1. Max(s) \in 1 .. n
      BY <2>3, GreatestIsMax
    <3> QED BY <3>1
  <2> HIDE DEF q
  <2>4. \A e : A(e) = B(e)
    BY <2>3
  <2> HIDE DEF A, B
  <2>5. (CHOOSE e : e = A(e)) = (CHOOSE e : e = B(e))
    BY <2>4
  <2> QED BY <2>2, <2>5 DEF B
<1>8. Is(g)
  <2> HIDE DEF Is
  <2> QED BY <1>6
<1> HIDE DEF g
<1>9. g[{}] = v
  <2>1. {} \in SUBSET (1 .. n)
    OBVIOUS
  <2> QED BY <1>8, <2>1
<1>10. ASSUME NEW k \in 1 .. n PROVE g[1 .. k] = LineDrawn(g[1 .. k - 1], k)
  <2>0. k \in Nat /\ k > 0 /\ 1 .. k \in SUBSET (1 .. n)
    OBVIOUS
  <2>1. Greatest(k, 1 .. k) /\ 1 .. k # {} /\ (1 .. k) \ {k} = 1 .. k - 1
    BY <2>0, LastIsGreatest
  <2>2. Max(1 .. k) = k
    BY <2>0, <2>1, GreatestIsMax
  <2>3. g[1 .. k] = LineDrawn(g[(1 .. k) \ {Max(1 .. k)}], Max(1 .. k))
    BY <1>8, <2>0, <2>1
  <2> QED BY <2>1, <2>2, <2>3
<1> HIDE DEF Is
<1> DEFINE f == [k \in 0 .. n |-> g[1 .. k]]
<1>11. f[0] = v /\ f[n] = g[1 .. n]
  <2>1. 1 .. 0 = {} /\ 0 \in 0 .. n /\ n \in 0 .. n
    OBVIOUS
  <2> QED BY <1>9, <2>1
<1>12. \A k \in 1 .. n : f[k] = LineDrawn(f[k - 1], k)
  <2>1. \A k \in 1 .. n : k \in 0 .. n /\ k - 1 \in 0 .. n
    OBVIOUS
  <2> QED BY <1>10, <2>1
<1>13. f \in [0 .. n -> S]
  <2> DEFINE T == {k \in 0 .. n : f[k] \in S}
  <2>1. 0 \in T
    BY <1>1, <1>11
  <2>2. ASSUME NEW k \in 0 .. n - 1, k \in T PROVE k + 1 \in T
    <3>1. k + 1 \in 1 .. n /\ k + 1 \in 0 .. n /\ (k + 1) - 1 = k
      OBVIOUS
    <3>2. f[k + 1] = LineDrawn(f[k], k + 1) /\ f[k] \in S
      <4> HIDE DEF f
      <4> QED BY <1>12, <2>2, <3>1
    <3> HIDE DEF f
    <3> QED BY <1>2, <3>1, <3>2
  <2>3. \A k \in 0 .. n : k \in T
    <3> HIDE DEF T
    <3> QED BY <2>1, <2>2, EveryRound
  <2>4. f = [k \in 0 .. n |-> f[k]]
    OBVIOUS
  <2> HIDE DEF f
  <2> QED BY <2>3, <2>4
<1>14. f[n] = LinesDrawn(v, n)
  BY <1>7, <1>11
<1>15. Drawn(f, v, n)
  <2> HIDE DEF f
  <2> QED BY <1>11, <1>12, <1>13, <1>14 DEF Drawn, S
<1> QED BY <1>15

-----------------------------------------------------------------------------
(* Drawing the text.                                                       *)

(* The first k lines have been drawn on v, and nothing else.               *)
RowsShown(w, v, k) ==
  /\ w \in Scr!Screen
  /\ \A r \in Scr!Rows, c \in Scr!Columns :
       CharAt(w, r, c) = IF r \in 1 .. k /\ c < Len(lines[r - 1]) THEN lines[r - 1][c + 1]
                         ELSE CharAt(v, r, c)

LEMMA OneMoreRow ==
  ASSUME NEW v \in Scr!Screen, NEW w, NEW k \in 1 .. VISIBLE, RowsShown(w, v, k - 1),
         lines[k - 1] \in Seq(Glyphs), Len(lines[k - 1]) < VGA_WIDTH
  PROVE  RowsShown(LineDrawn(w, k), v, k)
<1> DEFINE s == Scr!SetCursor(w, k, 0)
           l == lines[k - 1]
<1>1. w \in Scr!Screen /\ k \in Nat /\ k < VGA_HEIGHT /\ 0 < VGA_WIDTH
  BY Sizes DEF RowsShown
<1>2. /\ s \in Scr!Screen /\ s.buffer = w.buffer /\ s.row = k /\ s.col = 0
      /\ s.cursor = Scr!Index(k, 0)
  BY <1>1, SetsCursor
<1> HIDE DEF s
<1>3. RowPrinted(Scr!PrintText(s, l), s, l, Len(l))
  <2>1. l \in Seq(Glyphs) /\ Len(l) < VGA_WIDTH /\ Len(l) \in Nat
    BY LenProperties
  <2> HIDE DEF l
  <2>2. Len(l) <= VGA_WIDTH
    BY <2>1, Sizes
  <2> QED BY <1>2, <2>1, <2>2, PrintsRow
<1>4. LineDrawn(w, k) = Scr!PrintText(s, l)
  BY DEF LineDrawn, s
<1>5. LineDrawn(w, k) \in Scr!Screen
  BY <1>3, <1>4 DEF RowPrinted
<1>6. ASSUME NEW r \in Scr!Rows, NEW c \in Scr!Columns
      PROVE  CharAt(LineDrawn(w, k), r, c) =
               IF r \in 1 .. k /\ c < Len(lines[r - 1]) THEN lines[r - 1][c + 1]
               ELSE CharAt(v, r, c)
  <2>1. CharAt(LineDrawn(w, k), r, c) = IF r = k /\ c < Len(l) THEN l[c + 1] ELSE CharAt(w, r, c)
    <3>1. CharAt(s, r, c) = CharAt(w, r, c)
      BY <1>2 DEF CharAt
    <3> HIDE DEF l
    <3> QED BY <1>2, <1>3, <1>4, <3>1 DEF RowPrinted
  <2>2. CharAt(w, r, c) = IF r \in 1 .. k - 1 /\ c < Len(lines[r - 1]) THEN lines[r - 1][c + 1]
                          ELSE CharAt(v, r, c)
    BY DEF RowsShown
  <2>3. r \in Nat
    BY PlaceIsCell
  <2>4. CASE r = k
    BY <1>1, <2>1, <2>2, <2>4
  <2>5. CASE r # k
    <3>1. r \in 1 .. k <=> r \in 1 .. k - 1
      BY <2>3, <2>5
    <3> QED BY <2>1, <2>2, <2>5, <3>1
  <2> QED BY <2>4, <2>5
<1> QED BY <1>5, <1>6 DEF RowsShown

LEMMA RowsAreShown ==
  ASSUME NEW v \in Scr!Screen, NEW m \in 0 .. VISIBLE,
         \A k \in 1 .. m : lines[k - 1] \in Seq(Glyphs) /\ Len(lines[k - 1]) < VGA_WIDTH
  PROVE  RowsShown(LinesDrawn(v, m), v, m)
<1>1. m \in Nat
  BY Sizes
<1>2. PICK f : Drawn(f, v, m)
  BY <1>1, DrawsEach
<1> DEFINE T == {k \in 0 .. m : RowsShown(f[k], v, k)}
<1>3. 0 \in T
  <2>1. f[0] = v /\ 0 \in 0 .. m
    BY <1>1, <1>2 DEF Drawn
  <2>2. RowsShown(v, v, 0)
    BY DEF RowsShown
  <2> QED BY <2>1, <2>2
<1>4. ASSUME NEW k \in 0 .. m - 1, k \in T PROVE k + 1 \in T
  <2>1. /\ k + 1 \in 1 .. VISIBLE /\ k + 1 \in 1 .. m /\ k + 1 \in 0 .. m /\ (k + 1) - 1 = k
    BY <1>1, Sizes
  <2>2. f[k + 1] = LineDrawn(f[k], k + 1)
    BY <1>2, <2>1 DEF Drawn
  <2>3. RowsShown(f[k], v, k)
    BY <1>4
  <2>4. RowsShown(LineDrawn(f[k], k + 1), v, k + 1)
    BY <2>1, <2>3, OneMoreRow
  <2> QED BY <2>1, <2>2, <2>4
<1>5. \A k \in 0 .. m : k \in T
  <2> HIDE DEF T
  <2> QED BY <1>1, <1>3, <1>4, EveryRound
<1>6. m \in T
  <2> HIDE DEF T
  <2> QED BY <1>1, <1>5
<1>7. f[m] = LinesDrawn(v, m)
  BY <1>2 DEF Drawn
<1> QED BY <1>6, <1>7

NoControls == \A i \in LineIndex : lines[i] \in Seq(Glyphs)

LEMMA LinesArePrintable ==
  ASSUME NoControls, LinesFit, NEW i \in LineIndex
  PROVE  lines[i] \in Seq(Glyphs) /\ Len(lines[i]) \in Nat /\ Len(lines[i]) < VGA_WIDTH
<1>1. lines[i] \in Seq(Glyphs) /\ Len(lines[i]) < NANO_LINE_LEN
  BY DEF NoControls, LinesFit
<1>2. Len(lines[i]) \in Nat
  BY <1>1, LenProperties
<1> QED BY <1>1, <1>2, NanoAssumption, ScreenAssumption

(* The title never reaches the end of the screen, and fits in its row when *)
(* its file can exist.                                                     *)
LEMMA TitleFits ==
  ASSUME filename \in Names \cup {TooLong}
  PROVE  /\ TitleBar \in Seq(Characters) /\ Len(TitleBar) \in Nat
         /\ Len(TitleBar) < VGA_WIDTH * VGA_HEIGHT
         /\ filename \in Names => Len(TitleBar) <= VGA_WIDTH
<1> DEFINE name == NameText[filename]
           mark == IF modified THEN Mark ELSE <<>>
           n == NameRoom - Least(NameRoom, Len(name))
           pads == [i \in 1 .. n |-> SPACE]
           x == VGA_WIDTH * VGA_HEIGHT
<1>1. /\ Title \in Seq(Characters) /\ Mark \in Seq(Characters) /\ name \in Seq(Characters)
      /\ NameRoom \in Nat
  <2>1. Title \in Seq(Glyphs) /\ Mark \in Seq(Glyphs) /\ Glyphs \subseteq Characters
    BY ScreenAssumption DEF Characters
  <2>2. Title \in Seq(Characters) /\ Mark \in Seq(Characters)
    BY <2>1, SeqMonotonic
  <2>3. name \in Seq(Characters) /\ NameRoom \in Nat
    BY ScreenAssumption DEF Characters
  <2> QED BY <2>2, <2>3
<1>2. /\ mark \in Seq(Characters) /\ Len(mark) \in Nat /\ Len(mark) <= Len(Mark)
  <2>1. Len(Mark) \in Nat /\ <<>> \in Seq(Characters) /\ Len(<<>>) = 0
    BY <1>1, LenProperties, EmptySeq
  <2>2. CASE modified
    BY <1>1, <2>1, <2>2
  <2>3. CASE ~modified
    BY <2>1, <2>3
  <2> QED BY <2>2, <2>3
<1>3. Len(Title) \in Nat /\ Len(name) \in Nat /\ Len(Mark) \in Nat
  BY <1>1, LenProperties
<1>4. /\ Len(Title) + NameRoom + Len(Mark) <= VGA_WIDTH
      /\ filename \in Names => Len(Title) + Len(name) + Len(Mark) <= VGA_WIDTH
      /\ filename \in Names \/ Len(Title) + Len(name) + Len(Mark) < x
  BY ScreenAssumption
<1>5. x \in Nat /\ VGA_WIDTH < x
  <2>1. 1 \in Nat /\ VGA_HEIGHT \in Nat /\ 1 < VGA_HEIGHT
    BY Sizes
  <2>2. Scr!Index(1, 0) + VGA_WIDTH <= Scr!Index(VGA_HEIGHT, 0)
    BY <2>1, RowsApart
  <2>3. Scr!Index(VGA_HEIGHT, 0) = x /\ Scr!Index(1, 0) = VGA_WIDTH
    <3>1. \A y \in Nat, h \in Nat : h * y + 0 = y * h /\ 1 * y + 0 = y
      OBVIOUS
    <3> QED BY <3>1, Sizes DEF Scr!Index
  <2>4. x \in Nat
    BY Sizes
  <2> HIDE DEF x
  <2> QED BY <2>2, <2>3, <2>4, Sizes
<1>6. TitleBar = ((Title \o name) \o mark) \o pads
  BY DEF TitleBar
<1>7. n \in Nat /\ (n = 0 \/ n + Len(name) = NameRoom)
  <2>1. NameRoom \in Nat /\ Len(name) \in Nat
    BY <1>1, <1>3
  <2> HIDE DEF name
  <2> QED BY <2>1 DEF Least
<1>8. pads \in Seq(Characters) /\ Len(pads) = n
  <2>1. SPACE \in Characters
    BY DEF Characters, Glyphs
  <2> HIDE DEF n
  <2>2. pads \in Seq(Characters)
    BY <1>7, <2>1
  <2>3. Len(pads) = n
    BY <1>7, <2>2, LenProperties
  <2> QED BY <2>2, <2>3
<1> HIDE DEF name, mark, n, pads, x
<1>9. Title \o name \in Seq(Characters) /\ Len(Title \o name) = Len(Title) + Len(name)
  BY <1>1, ConcatProperties
<1>10. /\ (Title \o name) \o mark \in Seq(Characters)
       /\ Len((Title \o name) \o mark) = Len(Title) + Len(name) + Len(mark)
  BY <1>2, <1>9, ConcatProperties
<1>11. /\ TitleBar \in Seq(Characters)
       /\ Len(TitleBar) = Len(Title) + Len(name) + Len(mark) + n
  BY <1>6, <1>8, <1>10, ConcatProperties
<1>12. Len(TitleBar) <= Len(Title) + Len(name) + Len(Mark) \/ Len(TitleBar) <= VGA_WIDTH
  BY <1>1, <1>2, <1>3, <1>4, <1>7, <1>11, Sizes
<1>13. Len(TitleBar) \in Nat
  BY <1>2, <1>3, <1>7, <1>11
<1>14. Len(TitleBar) < x /\ (filename \in Names => Len(TitleBar) <= VGA_WIDTH)
  BY <1>3, <1>4, <1>5, <1>12, <1>13, Sizes
<1> QED BY <1>11, <1>13, <1>14 DEF x

(* The screen below the title shows the lines and nothing else but what a  *)
(* long title has left, and the cursor is where it belongs.                *)
LEMMA DrawShows ==
  ASSUME TypeOK, LinesFit, running, NoControls, NEW v \in Scr!Screen
  PROVE  LET w == Draw(v) IN
         /\ \A r \in Scr!Rows, c \in Scr!Columns : r \in 1 .. VISIBLE =>
              CharAt(w, r, c) \in
                IF r <= num_lines /\ c < Len(lines[r - 1]) THEN {lines[r - 1][c + 1]}
                ELSE Left(Scr!Index(r, c))
         /\ w.shown
         /\ w.cursor = IF cur_line + 1 < VGA_HEIGHT THEN Scr!Index(cur_line + 1, cur_col)
                       ELSE Scr!Index(VISIBLE + 1, Len(Status))
<1> DEFINE m == Least(VISIBLE, num_lines)
           v1 == Scr!Clear(v)
           v2 == Scr!HideCursor(v1)
           v3 == Scr!SetColor(v2, "black on white")
           v4 == Scr!PrintText(v3, TitleBar)
           v5 == Scr!SetColor(v4, WHITE)
           v6 == LinesDrawn(v5, m)
           v7 == Scr!SetCursor(v6, VISIBLE + 1, 0)
           v8 == Scr!SetColor(v7, "black on grey")
           v9 == Scr!PrintText(v8, Status)
           v10 == Scr!SetColor(v9, WHITE)
           v11 == Scr!SetCursor(v10, cur_line + 1, cur_col)
           w == Scr!ShowCursor(v11)
<1>0. Draw(v) = w
  BY DEF Draw, LinesDrawn
<1>1. /\ m \in 0 .. VISIBLE /\ m <= num_lines /\ num_lines \in 1 .. NANO_MAX_LINES
      /\ \A r \in 1 .. VISIBLE : r <= m <=> r <= num_lines
      /\ \A k \in 1 .. m : k - 1 \in LineIndex
  <2>1. num_lines \in 1 .. NANO_MAX_LINES
    BY DEF TypeOK
  <2> QED BY <2>1, Sizes, NanoAssumption DEF Least, LineIndex
<1>2. /\ TitleBar \in Seq(Characters) /\ Len(TitleBar) \in Nat
      /\ Len(TitleBar) < VGA_WIDTH * VGA_HEIGHT
      /\ filename \in Names => Len(TitleBar) <= VGA_WIDTH
  BY TitleFits DEF TypeOK
<1>3. /\ cur_line \in Nat /\ cur_col \in Nat /\ cur_col < VGA_WIDTH
  <2>1. cur_line \in 0 .. num_lines - 1 /\ cur_line \in LineIndex /\ cur_col \in 0 .. Len(lines[cur_line])
    BY <1>1, NanoAssumption DEF TypeOK, LineIndex
  <2>2. Len(lines[cur_line]) \in Nat /\ Len(lines[cur_line]) < VGA_WIDTH
    BY <2>1, LinesArePrintable
  <2> QED BY <2>1, <2>2, <1>1, Sizes
<1>4. WHITE \in {WHITE, "black on white", "black on grey"}
  OBVIOUS
<1> HIDE DEF m
<1>5. /\ v1 \in Scr!Screen /\ v1.row = 0 /\ v1.col = 0 /\ v1.cursor = Scr!Index(0, 0)
      /\ \A r \in Scr!Rows, c \in Scr!Columns : CharAt(v1, r, c) = SPACE
  BY Clears
<1> HIDE DEF v1
<1>6. /\ v2 \in Scr!Screen /\ v2.row = 0 /\ v2.col = 0 /\ v2.cursor = Scr!Index(0, 0)
      /\ v2.buffer = v1.buffer
  BY <1>5, Hides DEF Scr!HideCursor
<1> HIDE DEF v2
<1>7. /\ v3 \in Scr!Screen /\ v3.row = 0 /\ v3.col = 0 /\ v3.cursor = Scr!Index(0, 0)
      /\ v3.buffer = v1.buffer
  BY <1>6, SetsColor
<1> HIDE DEF v3
<1>8. TopPrinted(v4, v3, TitleBar, Len(TitleBar))
  BY <1>2, <1>7, PrintsOnTop
<1>9. v4 \in Scr!Screen
  BY <1>8 DEF TopPrinted
<1>10. ASSUME NEW r \in Scr!Rows, NEW c \in Scr!Columns, r # 0
       PROVE  CharAt(v4, r, c) \in Left(Scr!Index(r, c))
  <2> DEFINE i == Scr!Index(r, c)
             n == Len(TitleBar)
  <2>1. i \in Scr!Cells /\ i \in Nat /\ r \in Nat /\ c \in Nat
    BY PlaceIsCell
  <2>2. v3.buffer[i].char = SPACE
    BY <1>5, <1>7 DEF CharAt
  <2>3. i >= VGA_WIDTH
    <3>1. 0 < r /\ Scr!Index(0, 0) = 0
      BY <1>10, <2>1, Sizes DEF Scr!Index
    <3>2. Scr!Index(0, 0) + VGA_WIDTH <= Scr!Index(r, 0)
      BY <2>1, <3>1, RowsApart
    <3>3. i = Scr!Index(r, 0) + c /\ Scr!Index(r, 0) \in Nat
      BY <2>1, RowStart
    <3> HIDE DEF i
    <3> QED BY <2>1, <3>1, <3>2, <3>3, Sizes
  <2>4. v4.buffer[i].char \in IF i >= n THEN {SPACE} ELSE Range(TitleBar) \cup {SPACE}
    <3> HIDE DEF v4, i
    <3> QED BY <1>8, <2>1, <2>2 DEF TopPrinted
  <2>5. filename \in Names => i >= n
    <3> HIDE DEF i, n
    <3>1. filename \in Names => n <= VGA_WIDTH /\ n \in Nat
      BY <1>2 DEF n
    <3> QED BY <2>1, <2>3, <3>1, Sizes
  <2>6. v4.buffer[i].char \in Left(i)
    <3> HIDE DEF v4, i
    <3> QED BY <2>4, <2>5 DEF Left
  <2> HIDE DEF v4
  <2> QED BY <2>6 DEF CharAt
<1> HIDE DEF v4
<1>11. v5 \in Scr!Screen /\ v5.buffer = v4.buffer
  BY <1>4, <1>9, SetsColor
<1> HIDE DEF v5
<1>12. RowsShown(v6, v5, m)
  <2>1. ASSUME NEW k \in 1 .. m
        PROVE  lines[k - 1] \in Seq(Glyphs) /\ Len(lines[k - 1]) < VGA_WIDTH
    <3>1. k - 1 \in LineIndex
      BY <1>1
    <3> QED BY <3>1, LinesArePrintable
  <2> QED BY <1>1, <1>11, <2>1, RowsAreShown
<1>13. v6 \in Scr!Screen
  BY <1>12 DEF RowsShown
<1>14. ASSUME NEW r \in Scr!Rows, NEW c \in Scr!Columns, r \in 1 .. VISIBLE
       PROVE  CharAt(v6, r, c) \in
                IF r <= num_lines /\ c < Len(lines[r - 1]) THEN {lines[r - 1][c + 1]}
                ELSE Left(Scr!Index(r, c))
  <2>1. CharAt(v6, r, c) =
          IF r \in 1 .. m /\ c < Len(lines[r - 1]) THEN lines[r - 1][c + 1] ELSE CharAt(v5, r, c)
    <3> HIDE DEF v6
    <3> QED BY <1>12 DEF RowsShown
  <2>2. CharAt(v5, r, c) \in Left(Scr!Index(r, c))
    <3>1. r # 0
      BY <1>14
    <3>2. CharAt(v5, r, c) = CharAt(v4, r, c)
      BY <1>11 DEF CharAt
    <3> QED BY <1>10, <3>1, <3>2
  <2>3. r \in 1 .. m <=> r <= num_lines
    BY <1>1, <1>14
  <2> DEFINE left == Left(Scr!Index(r, c))
  <2>4. CharAt(v5, r, c) \in left
    BY <2>2
  <2> HIDE DEF left, v6
  <2>5. CharAt(v6, r, c) \in
          IF r <= num_lines /\ c < Len(lines[r - 1]) THEN {lines[r - 1][c + 1]} ELSE left
    BY <2>1, <2>3, <2>4
  <2> QED BY <2>5 DEF left
<1> HIDE DEF v6
<1>15. /\ v7 \in Scr!Screen /\ v7.row = VISIBLE + 1 /\ v7.col = 0
       /\ v7.cursor = Scr!Index(VISIBLE + 1, 0) /\ v7.buffer = v6.buffer
  <2> DEFINE q == VISIBLE + 1
  <2>1. q \in Nat /\ q < VGA_HEIGHT /\ 0 \in Nat /\ 0 < VGA_WIDTH
    BY Sizes
  <2> HIDE DEF q
  <2>2. LET z == Scr!SetCursor(v6, q, 0) IN
        /\ z \in Scr!Screen /\ z.buffer = v6.buffer
        /\ z.row = q /\ z.col = 0 /\ z.cursor = Scr!Index(q, 0)
    BY <1>13, <2>1, SetsCursor
  <2> QED BY <2>2 DEF q
<1> HIDE DEF v7
<1>16. /\ v8 \in Scr!Screen /\ v8.row = VISIBLE + 1 /\ v8.col = 0
       /\ v8.cursor = Scr!Index(VISIBLE + 1, 0) /\ v8.buffer = v6.buffer
  BY <1>15, SetsColor
<1> HIDE DEF v8
<1>17. RowPrinted(v9, v8, Status, Len(Status)) /\ Len(Status) < VGA_WIDTH
  <2>1. Status \in Seq(Glyphs) /\ Len(Status) < VGA_WIDTH /\ Len(Status) \in Nat
    BY ScreenAssumption, LenProperties
  <2>2. Len(Status) <= VGA_WIDTH
    BY <2>1, Sizes
  <2> QED BY <1>16, <2>1, <2>2, PrintsRow
<1>18. v9 \in Scr!Screen /\ v9.cursor = Scr!Index(VISIBLE + 1, Len(Status))
  <2> HIDE DEF v9
  <2> QED BY <1>16, <1>17 DEF RowPrinted
<1>19. ASSUME NEW r \in Scr!Rows, NEW c \in Scr!Columns, r \in 1 .. VISIBLE
       PROVE  CharAt(v9, r, c) = CharAt(v6, r, c)
  <2>1. r # VISIBLE + 1
    BY <1>19, Sizes
  <2>2. CharAt(v9, r, c) = CharAt(v8, r, c)
    <3> HIDE DEF v9
    <3> QED BY <1>16, <1>17, <2>1 DEF RowPrinted
  <2>3. CharAt(v8, r, c) = CharAt(v6, r, c)
    BY <1>16 DEF CharAt
  <2> QED BY <2>2, <2>3
<1> HIDE DEF v9
<1>20. v10 \in Scr!Screen /\ v10.cursor = v9.cursor /\ v10.buffer = v9.buffer
  BY <1>4, <1>18, SetsColor
<1> HIDE DEF v10
<1>21. /\ v11 \in Scr!Screen /\ v11.buffer = v9.buffer
       /\ v11.cursor = IF cur_line + 1 < VGA_HEIGHT THEN Scr!Index(cur_line + 1, cur_col)
                       ELSE Scr!Index(VISIBLE + 1, Len(Status))
  <2>1. cur_line + 1 \in Nat
    BY <1>3
  <2>2. CASE cur_line + 1 < VGA_HEIGHT
    BY <1>3, <1>20, <2>1, <2>2, SetsCursor
  <2>3. CASE ~(cur_line + 1 < VGA_HEIGHT)
    BY <1>3, <1>18, <1>20, <2>1, <2>3, SetsCursor
  <2> QED BY <2>2, <2>3
<1> HIDE DEF v11
<1>22. w.shown = TRUE /\ w.cursor = v11.cursor /\ w.buffer = v9.buffer
  BY <1>21, Hides DEF Scr!ShowCursor
<1> HIDE DEF w
<1>23. ASSUME NEW r \in Scr!Rows, NEW c \in Scr!Columns, r \in 1 .. VISIBLE
       PROVE  CharAt(w, r, c) \in
                IF r <= num_lines /\ c < Len(lines[r - 1]) THEN {lines[r - 1][c + 1]}
                ELSE Left(Scr!Index(r, c))
  <2>1. CharAt(w, r, c) = CharAt(v9, r, c)
    BY <1>22 DEF CharAt
  <2> QED BY <1>14, <1>19, <1>23, <2>1
<1> QED BY <1>0, <1>21, <1>22, <1>23

(* What the user sees is the text.                                         *)
LEMMA TypedIsDrawn == TypeOK /\ LinesFit => TextIsDrawn
<1> SUFFICES ASSUME TypeOK, LinesFit, running, NoControls, NEW v \in Before
             PROVE  LET w == Draw(v)
                        shown(k) == IF k < num_lines THEN lines[k] ELSE <<>>
                    IN  /\ \A k \in 0 .. VISIBLE - 1, col \in 0 .. VGA_WIDTH - 1 :
                             w.buffer[Scr!Index(k + 1, col)].char \in
                               IF col < Len(shown(k)) THEN {shown(k)[col + 1]}
                               ELSE Left(Scr!Index(k + 1, col))
                        /\ w.shown
                        /\ w.cursor =
                             IF cur_line + 1 < VGA_HEIGHT THEN Scr!Index(cur_line + 1, cur_col)
                             ELSE Scr!Index(VISIBLE + 1, Len(Status))
  BY DEF TextIsDrawn, NoControls
<1> DEFINE w == Draw(v)
           shown(k) == IF k < num_lines THEN lines[k] ELSE <<>>
<1>1. v \in Scr!Screen
  BY ScreenAssumption
<1>2. /\ \A r \in Scr!Rows, c \in Scr!Columns : r \in 1 .. VISIBLE =>
           CharAt(w, r, c) \in
             IF r <= num_lines /\ c < Len(lines[r - 1]) THEN {lines[r - 1][c + 1]}
             ELSE Left(Scr!Index(r, c))
      /\ w.shown
      /\ w.cursor = IF cur_line + 1 < VGA_HEIGHT THEN Scr!Index(cur_line + 1, cur_col)
                    ELSE Scr!Index(VISIBLE + 1, Len(Status))
  <2> HIDE DEF w
  <2> QED BY <1>1, DrawShows DEF w
<1> HIDE DEF w
<1>3. ASSUME NEW k \in 0 .. VISIBLE - 1, NEW col \in 0 .. VGA_WIDTH - 1
      PROVE  w.buffer[Scr!Index(k + 1, col)].char \in
               IF col < Len(shown(k)) THEN {shown(k)[col + 1]} ELSE Left(Scr!Index(k + 1, col))
  <2>1. /\ k + 1 \in Scr!Rows /\ col \in Scr!Columns /\ k + 1 \in 1 .. VISIBLE
        /\ (k + 1) - 1 = k /\ num_lines \in Nat /\ col \in Nat
        /\ (k + 1 <= num_lines <=> k < num_lines)
    BY Sizes, NanoAssumption DEF Scr!Rows, Scr!Columns, TypeOK
  <2> DEFINE left == Left(Scr!Index(k + 1, col))
             ch == CharAt(w, k + 1, col)
  <2>2. ch \in IF k < num_lines /\ col < Len(lines[k]) THEN {lines[k][col + 1]} ELSE left
    <3>1. ch \in IF k + 1 <= num_lines /\ col < Len(lines[(k + 1) - 1])
                 THEN {lines[(k + 1) - 1][col + 1]} ELSE left
      BY <1>2, <2>1
    <3> HIDE DEF ch, left
    <3> QED BY <2>1, <3>1
  <2> HIDE DEF left, ch
  <2>3. ch \in IF col < Len(shown(k)) THEN {shown(k)[col + 1]} ELSE left
    <3>1. CASE k < num_lines
      BY <2>2, <3>1
    <3>2. CASE ~(k < num_lines)
      <4>1. shown(k) = <<>> /\ Len(<<>>) = 0
        BY <3>2, EmptySeq
      <4>2. ~(col < Len(shown(k)))
        BY <2>1, <4>1
      <4> HIDE DEF shown
      <4> QED BY <2>2, <3>2, <4>2
    <3> QED BY <3>1, <3>2
  <2> QED BY <2>3 DEF ch, left, CharAt
<1> QED BY <1>2, <1>3 DEF w

(* The user sees the text: each of its first VISIBLE lines on a row of its *)
(* own, and the cursor on its place, whatever the screen showed before     *)
(* (shell.c:673-705).  Behind the lines and on the rows without one there  *)
(* is nothing, but for a name that no file can have and that is too long   *)
(* for the title's row: then what of the title has wrapped onto those rows *)
(* (shell.c:679-682) stays there, and no more than that.  Lines with a     *)
(* control character are left out: see TextIsDrawn.                        *)
THEOREM UserSeesText == Spec => []TextIsDrawn
BY TypeCorrect, LinesStayInBuffers, TypedIsDrawn, PTL
=============================================================================
