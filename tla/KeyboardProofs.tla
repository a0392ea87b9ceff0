--------------------------- MODULE KeyboardProofs ---------------------------
(***************************************************************************)
(* Proofs about module Keyboard, for every size of the ring buffer, every  *)
(* length of a line and every set of keys.                                 *)
(***************************************************************************)
EXTENDS Keyboard, SequenceTheorems, TLAPS

N == KEYBOARD_BUFFER_SIZE

(* The inductive invariant: while keyboard_readline runs its loop          *)
(* condition holds, so that one more character still fits.                 *)
Filling == pc # "done" => More(line)

IInv == TypeOK /\ TakenStays /\ LineFits /\ NoStuckModifier /\ Filling

-----------------------------------------------------------------------------
(* Arithmetic of the ring.                                                 *)

(* A sum of two indices needs at most one subtraction.                     *)
LEMMA ModIs ==
  ASSUME NEW a \in 0 .. 2 * N - 1
  PROVE  a % N = IF a < N THEN a ELSE a - N
<1>1. N \in Nat \ {0, 1}
  BY KeyboardAssumption DEF N
<1>2. CASE a < N
  BY <1>1, <1>2
<1>3. CASE a >= N
  <2>1. a - N \in 0 .. N - 1
    BY <1>1, <1>3
  <2>2. a = N * 1 + (a - N)
    BY <1>1
  <2> QED
    BY <1>1, <1>3, <2>1, <2>2
<1> QED
  BY <1>1, <1>2, <1>3

LEMMA NextIndexIs ==
  ASSUME NEW i \in 0 .. N - 1
  PROVE  /\ NextIndex(i) = IF i + 1 = N THEN 0 ELSE i + 1
         /\ NextIndex(i) \in 0 .. N - 1
         /\ NextIndex(i) # i
<1>1. N \in Nat \ {0, 1} /\ i + 1 \in 0 .. 2 * N - 1
  BY KeyboardAssumption DEF N
<1>2. NextIndex(i) = (i + 1) % N
  BY DEF NextIndex, N
<1> QED
  BY <1>1, <1>2, ModIs

-----------------------------------------------------------------------------
(* The steps keep the invariant.                                           *)

(* What the handler stores is a character (keyboard.c:122-153).            *)
LEMMA AsciiIsChar ==
  ASSUME NEW k \in DOMAIN scancode_to_ascii PROVE Ascii(k) \in Char
<1>1. k \in {"a", "1", "enter", "erase"}
  BY DEF scancode_to_ascii
<1>2. scancode_to_ascii[k] \in Char /\ scancode_to_ascii_shift[k] \in Char
  BY <1>1 DEF scancode_to_ascii, scancode_to_ascii_shift, Char, NL, BS
<1>3. "^A" \in Char
  BY DEF Char
<1> QED
  BY <1>2, <1>3 DEF Ascii

(* buffer_put neither overwrites nor empties the oldest slot.              *)
LEMMA PutIsSafe ==
  ASSUME TypeOK, NEW ch \in Char, BufferPut(ch), buffer_start' = buffer_start
  PROVE  /\ keyboard_buffer' \in [0 .. N - 1 -> Char]
         /\ buffer_end' \in 0 .. N - 1
         /\ HasKey => /\ HasKey'
                      /\ keyboard_buffer'[buffer_start] = keyboard_buffer[buffer_start]
<1>1. buffer_end \in 0 .. N - 1 /\ buffer_start \in 0 .. N - 1
      /\ keyboard_buffer \in [0 .. N - 1 -> Char]
  BY DEF TypeOK, N
<1>2. NextIndex(buffer_end) \in 0 .. N - 1
  BY <1>1, NextIndexIs
<1> QED
  BY <1>1, <1>2 DEF BufferPut, HasKey

(* The handler as a whole: the ring and the flags (keyboard.c:83-154).     *)
LEMMA HandlerStep ==
  ASSUME IInv, NEW k, NEW released \in BOOLEAN, KeyboardHandler(k, released),
         Wake, UNCHANGED <<buffer_start, c, got, line>>,
         held' = IF released THEN held \ {k} ELSE held \cup ({k} \cap Modifiers)
  PROVE  IInv'
<1>1. /\ keyboard_buffer' \in [0 .. N - 1 -> Char]
      /\ buffer_end' \in 0 .. N - 1
      /\ HasKey => /\ HasKey'
                   /\ keyboard_buffer'[buffer_start] = keyboard_buffer[buffer_start]
  <2>1. CASE k \in DOMAIN scancode_to_ascii /\ ~released
    <3>1. BufferPut(Ascii(k))
      BY <2>1 DEF KeyboardHandler
    <3> QED
      BY <2>1, <3>1, AsciiIsChar, PutIsSafe DEF IInv
  <2>2. CASE ~(k \in DOMAIN scancode_to_ascii /\ ~released)
    <3>1. UNCHANGED <<keyboard_buffer, buffer_end>>
      BY <2>2 DEF KeyboardHandler
    <3> QED
      BY <3>1 DEF IInv, TypeOK, N, HasKey
  <2> QED
    BY <2>1, <2>2
<1>2. pc' \in Control /\ pc' # "done" => pc # "done"
  BY DEF IInv, TypeOK, Wake, Control
<1>3. TypeOK'
  <2>1. /\ shift_pressed' \in BOOLEAN /\ ctrl_pressed' \in BOOLEAN
        /\ alt_pressed' \in BOOLEAN /\ capslock_on' \in BOOLEAN
    BY DEF IInv, TypeOK, KeyboardHandler, ShiftFlag
  <2>2. held' \subseteq Modifiers /\ pc' \in Control
    BY DEF IInv, TypeOK, Wake, Control
  <2> QED
    BY <1>1, <2>1, <2>2 DEF IInv, TypeOK, N
<1>4. TakenStays'
  BY <1>1 DEF IInv, TakenStays, Wake, HasKey
<1>5. NoStuckModifier'
  <2>1. shift_pressed' => held' \cap Shifts # {}
    BY DEF IInv, NoStuckModifier, KeyboardHandler, ShiftFlag, Modifiers
  <2>2. ctrl_pressed' => held' \cap Ctrls # {}
    BY DEF IInv, NoStuckModifier, KeyboardHandler, Modifiers
  <2>3. alt_pressed' => Alt \in held'
    BY DEF IInv, NoStuckModifier, KeyboardHandler, Modifiers
  <2> QED
    BY <2>1, <2>2, <2>3 DEF NoStuckModifier
<1>6. LineFits' /\ Filling'
  BY DEF IInv, LineFits, Filling, Wake, More
<1> QED
  BY <1>3, <1>4, <1>5, <1>6 DEF IInv

LEMMA InitIInv == Init => IInv
<1> SUFFICES ASSUME Init PROVE IInv
  OBVIOUS
<1>1. TypeOK
  <2>1. NUL \in Char
    BY DEF Char
  <2>2. 0 \in 0 .. KEYBOARD_BUFFER_SIZE - 1
    BY KeyboardAssumption
  <2>3. pc \in Control /\ held \subseteq Modifiers
    BY DEF Init, Control
  <2>4. line \in Seq(Char)
    BY DEF Init
  <2> QED
    BY <2>1, <2>2, <2>3, <2>4 DEF Init, TypeOK
<1>2. TakenStays /\ NoStuckModifier
  BY DEF Init, TakenStays, NoStuckModifier
<1>3. LineFits /\ Filling
  BY KeyboardAssumption DEF Init, LineFits, Filling, More
<1> QED
  BY <1>1, <1>2, <1>3 DEF IInv

(* The thread: keyboard_getchar and keyboard_readline (keyboard.c:180-235).*)
LEMMA ThreadStep == IInv /\ Thread => IInv'
<1> SUFFICES ASSUME IInv, Thread PROVE IInv'
  OBVIOUS
<1> USE DEF IInv, TypeOK, ring, flags
<1>1. CASE Check
  BY <1>1 DEF Check, TakenStays, LineFits, NoStuckModifier, Filling, More, HasKey, Control
<1>2. CASE Halt
  BY <1>2 DEF Halt, TakenStays, LineFits, NoStuckModifier, Filling, More, HasKey, Control
<1>3. CASE Take
  <2>1. c' \in Char
    BY <1>3 DEF Take
  <2> QED
    BY <1>3, <2>1 DEF Take, TakenStays, LineFits, NoStuckModifier, Filling, More, HasKey, Control
<1>4. CASE Advance
  <2>1. buffer_start' \in 0 .. N - 1
    BY <1>4, NextIndexIs DEF Advance, N
  <2>2. line' \in Seq(Char) /\ Len(line') + 1 <= max_length
    <3>1. c \in Char /\ line \in Seq(Char) /\ Len(line) < max_length - 1 /\ max_length \in Nat
      BY <1>4, KeyboardAssumption DEF Advance, Filling, More
    <3>2. line' = Edited(c)
      BY <1>4 DEF Advance
    <3>3. CASE c = NL
      BY <3>1, <3>2, <3>3 DEF Edited, NL, BS
    <3>4. CASE c = BS
      <4>1. ASSUME line # <<>>
            PROVE  Front(line) \in Seq(Char) /\ Len(Front(line)) = Len(line) - 1
        <5>1. Len(line) \in Nat \ {0}
          BY <3>1, <4>1, EmptySeq
        <5> DEFINE m == Len(line) - 1
        <5>2. m \in Int /\ 1 \in Int /\ m >= 0 /\ \A i \in 1 .. m : line[i] \in Char
          BY <3>1, <5>1
        <5> HIDE DEF m
        <5>3. /\ SubSeq(line, 1, m) \in Seq(Char)
              /\ Len(SubSeq(line, 1, m)) = IF 1 <= m THEN m - 1 + 1 ELSE 0
          BY <5>2, SubSeqProperties
        <5>4. Front(line) = SubSeq(line, 1, m)
          BY DEF Front, m
        <5>5. Front(line) \in Seq(Char) /\ Len(Front(line)) = m
          <6>1. m >= 1 \/ m = 0
            BY <5>2
          <6> QED
            BY <5>2, <5>3, <5>4, <6>1
        <5> QED
          BY <5>5 DEF m
      <4> QED
        BY <3>1, <3>2, <3>4, <4>1 DEF Edited, NL, BS
    <3>5. CASE c \notin {NL, BS}
      BY <3>1, <3>2, <3>5 DEF Edited
    <3> QED
      BY <3>3, <3>4, <3>5
  <2>3. pc' \in {"check", "done"} /\ (pc' # "done" => More(line'))
    BY <1>4 DEF Advance
  <2>4. UNCHANGED <<keyboard_buffer, buffer_end, flags, held, c>> /\ got' = c
    BY <1>4 DEF Advance
  <2>5. TypeOK'
    BY <2>1, <2>2, <2>3, <2>4 DEF N, Control
  <2>6. TakenStays' /\ NoStuckModifier' /\ LineFits' /\ Filling'
    BY <2>2, <2>3, <2>4 DEF TakenStays, NoStuckModifier, LineFits, Filling, More
  <2> QED
    BY <2>5, <2>6
<1>5. CASE Readline
  BY <1>5, KeyboardAssumption
     DEF Readline, TakenStays, LineFits, NoStuckModifier, Filling, More, HasKey, Control
<1> QED
  BY <1>1, <1>2, <1>3, <1>4, <1>5 DEF Thread

LEMMA NextIInv == IInv /\ [Next]_vars => IInv'
<1> SUFFICES ASSUME IInv, [Next]_vars PROVE IInv'
  OBVIOUS
<1>1. ASSUME NEW k \in Keys, KeyDown(k) PROVE IInv'
  BY <1>1, HandlerStep DEF KeyDown
<1>2. ASSUME NEW k \in Keys, KeyUp(k) PROVE IInv'
  BY <1>2, HandlerStep DEF KeyUp
<1>3. CASE TimerTick
  BY <1>3 DEF TimerTick, Wake, IInv, TypeOK, TakenStays, LineFits, NoStuckModifier,
              Filling, More, HasKey, Control, ring, flags
<1>4. CASE Thread
  BY <1>4, ThreadStep
<1>5. CASE UNCHANGED vars
  BY <1>5 DEF vars, IInv, TypeOK, TakenStays, LineFits, NoStuckModifier,
              Filling, More, HasKey, Control, ring, flags
<1> QED
  BY <1>1, <1>2, <1>3, <1>4, <1>5 DEF Next

-----------------------------------------------------------------------------
(* Theorems                                                                *)

(* The inductive invariant holds in every state.                           *)
THEOREM Invariance == Spec => []IInv
  BY InitIInv, NextIInv, PTL DEF Spec

(* Type correctness of the driver's state.                                 *)
THEOREM TypeCorrect == Spec => []TypeOK
<1>1. IInv => TypeOK
  BY DEF IInv
<1> QED
  BY Invariance, <1>1, PTL

(* No interrupt overwrites or empties the slot keyboard_getchar is reading *)
(* (keyboard.c:187-188).                                                   *)
THEOREM TakenSlotStays == Spec => []TakenStays
<1>1. IInv => TakenStays
  BY DEF IInv
<1> QED
  BY Invariance, <1>1, PTL

(* keyboard_readline stays in its caller's buffer (keyboard.c:216-233).    *)
THEOREM LineStaysInBuffer == Spec => []LineFits
<1>1. IInv => LineFits
  BY DEF IInv
<1> QED
  BY Invariance, <1>1, PTL

(* A modifier flag is set only while a key of its kind is held             *)
(* (keyboard.c:96-107).                                                    *)
THEOREM ModifiersAreReleased == Spec => []NoStuckModifier
<1>1. IInv => NoStuckModifier
  BY DEF IInv
<1> QED
  BY Invariance, <1>1, PTL

-----------------------------------------------------------------------------
(* The ring buffer is a queue.                                             *)

(* How many slots lie from s up to e, which the i-th of them is, and what  *)
(* they hold.                                                              *)
Count(s, e)      == (e - s + N) % N
Slot(s, i)       == (s + i - 1) % N
RingSeq(b, s, e) == [i \in 1 .. Count(s, e) |-> b[Slot(s, i)]]

RingFacts(s, e) ==
  /\ Count(s, e) = IF e >= s THEN e - s ELSE e - s + N
  /\ NextIndex(e) = IF e + 1 = N THEN 0 ELSE e + 1
  /\ \A i \in 1 .. Count(s, e) + 1 :
       Slot(s, i) = IF s + i - 1 < N THEN s + i - 1 ELSE s + i - 1 - N

LEMMA NIs == N \in Nat \ {0, 1}
  BY KeyboardAssumption DEF N

LEMMA RingSlots ==
  ASSUME NEW s \in 0 .. N - 1, NEW e \in 0 .. N - 1 PROVE RingFacts(s, e)
<1>1. e - s + N \in 0 .. 2 * N - 1
  BY NIs
<1>2. Count(s, e) = IF e >= s THEN e - s ELSE e - s + N
  BY <1>1, NIs, ModIs DEF Count
<1>3. \A i \in 1 .. Count(s, e) + 1 :
        Slot(s, i) = IF s + i - 1 < N THEN s + i - 1 ELSE s + i - 1 - N
  <2> TAKE i \in 1 .. Count(s, e) + 1
  <2> DEFINE a == s + i - 1
  <2>1. a \in 0 .. 2 * N - 1
    BY <1>2, NIs
  <2>2. Slot(s, i) = a % N
    BY DEF Slot
  <2> HIDE DEF a
  <2>3. Slot(s, i) = IF a < N THEN a ELSE a - N
    BY <2>1, <2>2, ModIs
  <2>4. s \in Int /\ i \in Int /\ N \in Int
    BY <1>2, NIs
  <2> QED
    BY <2>3, <2>4 DEF a
<1> QED
  BY <1>2, <1>3, NextIndexIs DEF RingFacts

LEMMA RingSeqIs ==
  ASSUME NEW s \in 0 .. N - 1, NEW e \in 0 .. N - 1, NEW b \in [0 .. N - 1 -> Char]
  PROVE  /\ RingSeq(b, s, e) \in Seq(Char)
         /\ Len(RingSeq(b, s, e)) = Count(s, e)
         /\ \A i \in 1 .. Count(s, e) : RingSeq(b, s, e)[i] = b[Slot(s, i)]
<1>1. RingFacts(s, e)
  BY RingSlots
<1>2. Count(s, e) \in Nat /\ \A i \in 1 .. Count(s, e) : Slot(s, i) \in 0 .. N - 1
  BY <1>1, NIs DEF RingFacts
<1>3. \A i \in 1 .. Count(s, e) : b[Slot(s, i)] \in Char
  BY <1>2
<1> QED
  BY <1>2, <1>3 DEF RingSeq

(* Storing a character behind the last one appends it.                     *)
LEMMA RingAppend ==
  ASSUME NEW s \in 0 .. N - 1, NEW e \in 0 .. N - 1, NEW b \in [0 .. N - 1 -> Char],
         NEW ch \in Char, NextIndex(e) # s
  PROVE  RingSeq([b EXCEPT ![e] = ch], s, NextIndex(e)) = Append(RingSeq(b, s, e), ch)
<1> DEFINE f == NextIndex(e)
           d == [b EXCEPT ![e] = ch]
           q == RingSeq(b, s, e)
           r == RingSeq(d, s, f)
<1>1. f \in 0 .. N - 1 /\ f # s
  BY NextIndexIs
<1>2. d \in [0 .. N - 1 -> Char] /\ d[e] = ch /\ \A x \in 0 .. N - 1 : x # e => d[x] = b[x]
  OBVIOUS
<1>3. RingFacts(s, e) /\ RingFacts(s, f)
  BY <1>1, RingSlots
<1>4. Count(s, f) = Count(s, e) + 1 /\ Count(s, e) \in Nat
  BY <1>1, <1>3, NIs DEF RingFacts
<1>5. \A i \in 1 .. Count(s, e) : Slot(s, i) \in 0 .. N - 1 /\ Slot(s, i) # e
  BY <1>3, NIs DEF RingFacts
<1>6. Slot(s, Count(s, e) + 1) = e
  BY <1>3, <1>4, NIs DEF RingFacts
<1> HIDE DEF f, d
<1>7. /\ q \in Seq(Char) /\ Len(q) = Count(s, e)
      /\ \A i \in 1 .. Count(s, e) : q[i] = b[Slot(s, i)]
  BY RingSeqIs
<1>8. /\ r \in Seq(Char) /\ Len(r) = Count(s, f)
      /\ \A i \in 1 .. Count(s, f) : r[i] = d[Slot(s, i)]
  BY <1>1, <1>2, RingSeqIs
<1> HIDE DEF q, r
<1>9. \A i \in 1 .. Len(r) : r[i] = Append(q, ch)[i]
  <2> TAKE i \in 1 .. Len(r)
  <2>1. CASE i <= Len(q)
    BY <1>2, <1>4, <1>5, <1>7, <1>8, <2>1
  <2>2. CASE i = Len(q) + 1
    BY <1>2, <1>4, <1>6, <1>7, <1>8, <2>2
  <2> QED
    BY <1>4, <1>7, <1>8, <2>1, <2>2
<1>10. r = Append(q, ch)
  <2>1. Append(q, ch) \in Seq(Char) /\ Len(Append(q, ch)) = Len(r)
    BY <1>4, <1>7, <1>8
  <2> QED
    BY <1>8, <1>9, <2>1, SeqEqual
<1> QED
  BY <1>10 DEF q, r, f, d

(* Moving the start on takes the oldest character away.                    *)
LEMMA RingTail ==
  ASSUME NEW s \in 0 .. N - 1, NEW e \in 0 .. N - 1, NEW b \in [0 .. N - 1 -> Char], s # e
  PROVE  /\ RingSeq(b, s, e) # <<>>
         /\ Head(RingSeq(b, s, e)) = b[s]
         /\ Tail(RingSeq(b, s, e)) = RingSeq(b, NextIndex(s), e)
<1> DEFINE t == NextIndex(s)
           q == RingSeq(b, s, e)
           r == RingSeq(b, t, e)
<1>1. t \in 0 .. N - 1 /\ t = IF s + 1 = N THEN 0 ELSE s + 1
  BY NextIndexIs
<1> HIDE DEF t
<1>2. RingFacts(s, e) /\ RingFacts(t, e)
  BY <1>1, RingSlots
<1>3. Count(t, e) = Count(s, e) - 1 /\ Count(s, e) \in Nat \ {0} /\ Count(s, e) < N
  <2>1. /\ Count(s, e) = IF e >= s THEN e - s ELSE e - s + N
        /\ Count(t, e) = IF e >= t THEN e - t ELSE e - t + N
    BY <1>2 DEF RingFacts
  <2> QED
    BY <1>1, <2>1, NIs
<1>4. Slot(s, 1) = s
  BY <1>2, <1>3, NIs DEF RingFacts
<1>5. \A i \in 1 .. Count(t, e) : Slot(t, i) = Slot(s, i + 1)
  BY <1>1, <1>2, <1>3, NIs DEF RingFacts
<1>6. /\ q \in Seq(Char) /\ Len(q) = Count(s, e)
      /\ \A i \in 1 .. Count(s, e) : q[i] = b[Slot(s, i)]
  BY RingSeqIs
<1>7. /\ r \in Seq(Char) /\ Len(r) = Count(t, e)
      /\ \A i \in 1 .. Count(t, e) : r[i] = b[Slot(t, i)]
  BY <1>1, RingSeqIs
<1> HIDE DEF q, r
<1>8. /\ q # <<>> /\ Head(q) = q[1] /\ Tail(q) \in Seq(Char) /\ Len(Tail(q)) = Len(q) - 1
      /\ \A i \in 1 .. Len(q) - 1 : Tail(q)[i] = q[i + 1]
  BY <1>3, <1>6
<1>9. Head(q) = b[s]
  BY <1>3, <1>4, <1>6, <1>8
<1>10. \A i \in 1 .. Len(Tail(q)) : Tail(q)[i] = r[i]
  <2> TAKE i \in 1 .. Len(Tail(q))
  <2>1. i \in 1 .. Count(t, e) /\ i + 1 \in 1 .. Count(s, e) /\ i \in 1 .. Len(q) - 1
    BY <1>3, <1>6, <1>8
  <2> QED
    BY <1>5, <1>6, <1>7, <1>8, <2>1
<1>11. Tail(q) = r
  BY <1>3, <1>6, <1>7, <1>8, <1>10, SeqEqual
<1> QED
  BY <1>8, <1>9, <1>11 DEF q, r, t

(* Pending is the ring between buffer_start and buffer_end.                *)
LEMMA PendingIs == /\ Pending = RingSeq(keyboard_buffer, buffer_start, buffer_end)
                   /\ Pending' = RingSeq(keyboard_buffer', buffer_start', buffer_end')
  BY DEF Pending, RingSeq, Count, Slot, N

(* buffer_put is the queue's Put, also when the buffer is full.            *)
LEMMA PutIsPut ==
  ASSUME TypeOK, NEW ch \in Char, BufferPut(ch), UNCHANGED <<buffer_start, got>>
  PROVE  QueueView!Put(ch)
<1>1. /\ buffer_end \in 0 .. N - 1 /\ buffer_start \in 0 .. N - 1
      /\ keyboard_buffer \in [0 .. N - 1 -> Char]
  BY DEF TypeOK, N
<1>2. Len(Pending) < N - 1 <=> NextIndex(buffer_end) # buffer_start
  <2>1. Len(Pending) = Count(buffer_start, buffer_end)
    BY <1>1, PendingIs, RingSeqIs
  <2>2. RingFacts(buffer_start, buffer_end)
    BY <1>1, RingSlots
  <2> QED
    BY <1>1, <2>1, <2>2, NIs DEF RingFacts
<1>3. CASE NextIndex(buffer_end) # buffer_start
  <2>1. /\ keyboard_buffer' = [keyboard_buffer EXCEPT ![buffer_end] = ch]
        /\ buffer_end' = NextIndex(buffer_end) /\ buffer_start' = buffer_start
    BY <1>3 DEF BufferPut
  <2>2. RingSeq([keyboard_buffer EXCEPT ![buffer_end] = ch], buffer_start, NextIndex(buffer_end))
          = Append(RingSeq(keyboard_buffer, buffer_start, buffer_end), ch)
    BY <1>1, <1>3, RingAppend
  <2>3. Pending' = Append(Pending, ch)
    BY <2>1, <2>2, PendingIs
  <2> QED
    BY <1>2, <1>3, <2>3 DEF QueueView!Put, N
<1>4. CASE NextIndex(buffer_end) = buffer_start
  <2>1. Pending' = Pending
    BY <1>4, PendingIs DEF BufferPut
  <2> QED
    BY <1>2, <1>4, <2>1 DEF QueueView!Put, N
<1> QED
  BY <1>3, <1>4

(* The end of keyboard_getchar is the queue's Get.                         *)
LEMMA AdvanceIsGet == IInv /\ Advance => QueueView!Get
<1> SUFFICES ASSUME IInv, Advance PROVE QueueView!Get
  OBVIOUS
<1>1. /\ buffer_end \in 0 .. N - 1 /\ buffer_start \in 0 .. N - 1
      /\ keyboard_buffer \in [0 .. N - 1 -> Char]
  BY DEF IInv, TypeOK, N
<1>2. buffer_start # buffer_end /\ keyboard_buffer[buffer_start] = c
  BY DEF IInv, TakenStays, HasKey, Advance
<1>3. /\ buffer_start' = NextIndex(buffer_start) /\ got' = c
      /\ UNCHANGED <<keyboard_buffer, buffer_end>>
  BY DEF Advance
<1>4. Pending # <<>> /\ Head(Pending) = c /\ Tail(Pending) = Pending'
  BY <1>1, <1>2, <1>3, PendingIs, RingTail
<1> QED
  BY <1>3, <1>4 DEF QueueView!Get

LEMMA HandlerIsPut ==
  ASSUME IInv, NEW k, NEW released \in BOOLEAN, KeyboardHandler(k, released),
         UNCHANGED <<buffer_start, got>>
  PROVE  QueueView!Next \/ UNCHANGED <<Pending, got>>
<1>1. CASE k \in DOMAIN scancode_to_ascii /\ ~released
  <2>1. QueueView!Put(Ascii(k))
    BY <1>1, AsciiIsChar, PutIsPut DEF KeyboardHandler, IInv
  <2> QED
    BY <1>1, <2>1, AsciiIsChar DEF QueueView!Next
<1>2. CASE ~(k \in DOMAIN scancode_to_ascii /\ ~released)
  BY <1>2, PendingIs DEF KeyboardHandler
<1> QED
  BY <1>1, <1>2

(* The interrupt handler and the thread together are a queue that loses    *)
(* the newest character when it is full (keyboard.c:71-78, 180-192).       *)
THEOREM KeyboardIsQueue == Spec => ImplementsKeyQueue
<1>1. Init => QueueView!Init
  <2> SUFFICES ASSUME Init PROVE QueueView!Init
    OBVIOUS
  <2>1. TypeOK
    BY InitIInv DEF IInv
  <2>2. Len(Pending) = Count(0, 0) /\ Pending \in Seq(Char)
    BY <2>1, PendingIs, RingSeqIs DEF Init, TypeOK, N
  <2>3. Count(0, 0) = 0
    <3>1. 0 \in 0 .. N - 1
      BY NIs
    <3>2. RingFacts(0, 0)
      BY <3>1, RingSlots
    <3> QED
      BY <3>2 DEF RingFacts
  <2>4. Pending = <<>>
    BY <2>2, <2>3
  <2> QED
    BY <2>1, <2>4 DEF QueueView!Init, TypeOK
<1>2. IInv /\ [Next]_vars => [QueueView!Next]_<<Pending, got>>
  <2> SUFFICES ASSUME IInv, [Next]_vars
               PROVE  QueueView!Next \/ UNCHANGED <<Pending, got>>
    OBVIOUS
  <2>1. ASSUME NEW k \in Keys, KeyDown(k) \/ KeyUp(k)
        PROVE  QueueView!Next \/ UNCHANGED <<Pending, got>>
    <3>1. /\ KeyboardHandler(k, FALSE) \/ KeyboardHandler(k, TRUE)
          /\ UNCHANGED <<buffer_start, got>>
      BY <2>1 DEF KeyDown, KeyUp
    <3> QED
      BY <3>1, HandlerIsPut
  <2>2. CASE TimerTick \/ Check \/ Halt \/ Take \/ Readline \/ UNCHANGED vars
    <3>1. UNCHANGED <<keyboard_buffer, buffer_start, buffer_end, got>>
      BY <2>2 DEF TimerTick, Check, Halt, Take, Readline, vars, ring
    <3> QED
      BY <3>1, PendingIs
  <2>3. CASE Advance
    BY <2>3, AdvanceIsGet DEF QueueView!Next
  <2> QED
    BY <2>1, <2>2, <2>3 DEF Next, Thread
<1> QED
  BY <1>1, <1>2, Invariance, PTL DEF Spec, ImplementsKeyQueue, QueueView!Spec
=============================================================================
