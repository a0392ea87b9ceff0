--------------------------- MODULE StringsProofs ---------------------------
(***************************************************************************)
(* The functions on strings and memory, for every size of memory, every    *)
(* width of a number and all arguments that their callers may give: each   *)
(* one does what AsSpecified says.  Each function has an invariant of its  *)
(* loops, which says how much of the work is done.                         *)
(***************************************************************************)
EXTENDS Strings, Loops, SequenceTheorems, TLAPS

(* memmove first: what arrives at dest is what was at src before the call, *)
(* also where the two overlap.                                             *)

(* Memory is a row of bytes, and nothing is stored between calls.          *)
Shape ==
  /\ mem = [a \in Address |-> mem[a]] /\ old = [a \in Address |-> old[a]]
  /\ pc = "idle" => mem = old

(* c is a call that memmove's callers may make.                            *)
Fits(c) ==
  /\ c.d \in Address /\ c.s \in Nat /\ c.n \in Nat
  /\ c.d + c.n <= SIZE /\ c.s + c.n <= SIZE

(* The bytes from..to - 1 of the region have been copied, no others.       *)
Copied(m, o, c, from, to) ==
  \A a \in Address :
    m[a] = IF a - c.d \in from .. to - 1 THEN o[a - c.d + c.s] ELSE o[a]

Up   == /\ reg.d = call.d + call.n - reg.n /\ reg.s = call.s + call.n - reg.n
        /\ Copied(mem, old, call, 0, call.n - reg.n)
Down == /\ reg.d = call.d /\ reg.s = call.s
        /\ Copied(mem, old, call, reg.n, call.n)

Moving ==
  /\ reg = [d |-> reg.d, s |-> reg.s, n |-> reg.n] /\ reg.n \in 0 .. call.n
  /\ IF call.d < call.s THEN Up ELSE Down

MInv ==
  /\ Shape
  /\ call.fn = "memmove" =>
       /\ Fits(call) /\ pc \in {"loop", "done"}
       /\ pc = "loop" => Moving
       /\ pc = "done" => ret = call.d /\ Copied(mem, old, call, 0, call.n)

(* m is a row.                                                             *)
Row(m) == m = [a \in Address |-> m[a]]

(* A store keeps the row.                                                  *)
LEMMA PutKeepsShape ==
  ASSUME NEW m, NEW a, NEW c, m = [b \in Address |-> m[b]]
  PROVE  [m EXCEPT ![a] = c] = [b \in Address |-> [m EXCEPT ![a] = c][b]]
  OBVIOUS

(* One more byte from the front: the bytes that are still to be copied lie *)
(* above those that were overwritten.                                      *)
LEMMA CopyUp ==
  ASSUME NEW m, NEW o, NEW c, NEW k \in Nat,
         Row(m), SIZE \in Nat, Fits(c), c.d < c.s, k < c.n,
         Copied(m, o, c, 0, k)
  PROVE  Copied([m EXCEPT ![c.d + k] = m[c.s + k]], o, c, 0, k + 1)
<1> DEFINE p == [m EXCEPT ![c.d + k] = m[c.s + k]]
<1>1. c.d + k \in Address /\ c.s + k \in Address
  <2>1. c.d \in Nat /\ c.s \in Nat /\ c.n \in Nat /\ c.d + c.n <= SIZE /\ c.s + c.n <= SIZE
    BY DEF Fits, Address
  <2> QED BY <2>1 DEF Address
<1>2. m[c.s + k] = o[c.s + k]
  BY <1>1 DEF Copied, Fits, Address
<1>3. ASSUME NEW a \in Address
      PROVE  p[a] = IF a - c.d \in 0 .. k + 1 - 1 THEN o[a - c.d + c.s] ELSE o[a]
  <2>1. CASE a = c.d + k
    <3>1. p[a] = o[c.s + k]
      BY <1>1, <1>2, <2>1 DEF Row
    <3>2. a - c.d \in 0 .. k + 1 - 1 /\ a - c.d + c.s = c.s + k
      BY <2>1 DEF Fits, Address
    <3> HIDE DEF p
    <3> QED BY <3>1, <3>2
  <2>2. CASE a # c.d + k
    <3>1. p[a] = m[a]
      BY <2>2, <1>1 DEF Row
    <3>2. a - c.d \in 0 .. k + 1 - 1 <=> a - c.d \in 0 .. k - 1
      BY <2>2 DEF Fits, Address
    <3> QED BY <3>1, <3>2 DEF Copied
  <2> QED BY <2>1, <2>2
<1> QED BY <1>3 DEF Copied

(* One more byte from the back.                                            *)
LEMMA CopyDown ==
  ASSUME NEW m, NEW o, NEW c, NEW k \in Nat,
         Row(m), SIZE \in Nat, Fits(c), ~(c.d < c.s), k # 0, k <= c.n,
         Copied(m, o, c, k, c.n)
  PROVE  Copied([m EXCEPT ![c.d + k - 1] = m[c.s + k - 1]], o, c, k - 1, c.n)
<1> DEFINE p == [m EXCEPT ![c.d + k - 1] = m[c.s + k - 1]]
<1>0. c.d \in Nat /\ c.s \in Nat /\ c.n \in Nat /\ c.d + c.n <= SIZE /\ c.s + c.n <= SIZE
  <2>1. Address \subseteq Nat
    BY DEF Address
  <2> QED BY <2>1 DEF Fits
<1>1. c.d + k - 1 \in Address /\ c.s + k - 1 \in Address
  BY <1>0 DEF Address
<1>2. m[c.s + k - 1] = o[c.s + k - 1]
  <2> DEFINE x == c.s + k - 1
  <2>1. x \in Address /\ x - c.d \notin k .. c.n - 1
    BY <1>0, <1>1
  <2> HIDE DEF x
  <2>2. m[x] = IF x - c.d \in k .. c.n - 1 THEN o[x - c.d + c.s] ELSE o[x]
    BY <2>1, Zenon DEF Copied
  <2>3. m[x] = o[x]
    BY <2>1, <2>2, Zenon
  <2> QED BY <2>3 DEF x
<1>3. ASSUME NEW a \in Address
      PROVE  p[a] = IF a - c.d \in k - 1 .. c.n - 1 THEN o[a - c.d + c.s] ELSE o[a]
  <2>1. CASE a = c.d + k - 1
    <3>1. p[a] = o[c.s + k - 1]
      BY <1>1, <1>2, <2>1 DEF Row
    <3>2. a - c.d \in k - 1 .. c.n - 1 /\ a - c.d + c.s = c.s + k - 1
      BY <2>1 DEF Fits, Address
    <3> HIDE DEF p
    <3> QED BY <3>1, <3>2
  <2>2. CASE a # c.d + k - 1
    <3>1. p[a] = m[a]
      BY <2>2, <1>1 DEF Row
    <3>2. a - c.d \in k - 1 .. c.n - 1 <=> a - c.d \in k .. c.n - 1
      <4>1. a - c.d \in Int /\ a - c.d # k - 1 /\ c.n \in Int
        BY <2>2 DEF Fits, Address
      <4> QED BY <4>1
    <3> QED BY <3>1, <3>2 DEF Copied
  <2> QED BY <2>1, <2>2
<1> QED BY <1>3 DEF Copied

LEMMA MInit == Init => MInv
BY StringsAssumption DEF Init, MInv, Shape, NoCall, Address

(* A turn of any loop keeps the row; between calls no loop runs.           *)
LEMMA TurnShape == ASSUME Shape, Turn PROVE Shape'
<1>1. pc # "idle" /\ pc' # "idle"
  BY DEF Turn, Runs, Goes, To, Ends, Strlen, Strcmp, Strncmp, Strcpy, Strcat, Strncpy, Strchr,
         Strrchr, Strstr, Memcpy, Memset, Memcmp, Memmove, Atoi, Itoa, PrintDec, ParseArgs,
         CopyString, Skip, Word
<1>2. mem' = [a \in Address |-> mem'[a]]
  <2> USE PutKeepsShape DEF Shape
  <2>1. CASE mem' = mem  BY <2>1
  <2>2. CASE \E a, c : Puts(a, c)  BY <2>2 DEF Puts
  <2>3. CASE Itoa
    <3>1. CASE Runs("itoa", "loop")
      BY <2>3, <3>1 DEF Itoa, Runs
    <3>2. CASE Runs("itoa", "digits")
      BY <2>3, <3>2 DEF Itoa, Runs
    <3>3. CASE Runs("itoa", "reverse")
      BY <2>3, <3>3 DEF Itoa, Runs, Ends
    <3> QED BY <2>3, <3>1, <3>2, <3>3 DEF Itoa
  <2>4. Turn => mem' = mem \/ (\E a, c : Puts(a, c)) \/ Itoa
    BY DEF Turn, Goes, To, Ends, Strlen, Strcmp, Strncmp, Strcpy, Strcat, Strncpy, Strchr,
           Strrchr, Strstr, Memcpy, Memset, Memcmp, Memmove, Atoi, PrintDec, ParseArgs,
           CopyString, Skip, Word
  <2> QED BY <2>1, <2>2, <2>3, <2>4
<1> QED BY <1>1, <1>2 DEF Shape, Turn

LEMMA MStep == MInv /\ [Next]_vars => MInv'
<1> SUFFICES ASSUME MInv, [Next]_vars PROVE MInv'
  OBVIOUS
<1> USE StringsAssumption
<1>1. CASE Call
  <2>1. Shape'
    BY <1>1 DEF Call, Shape, MInv, Enter, CallOne, CallTwo, CallCopy, CallMemory, CallNumber
  <2>2. ASSUME call'.fn = "memmove"
        PROVE  \E d \in Address : \E n \in 0 .. SIZE - d : \E s \in 0 .. SIZE - n :
                 Enter("memmove", d, s, n)
    BY <1>1, <2>2 DEF Call, Enter, CallOne, CallTwo, CallCopy, CallMemory, CallNumber
  <2>3. ASSUME NEW d \in Address, NEW n \in 0 .. SIZE - d, NEW s \in 0 .. SIZE - n,
               Enter("memmove", d, s, n)
        PROVE  Fits(call') /\ pc' = "loop" /\ Moving'
    <3>1. call' = [fn |-> "memmove", d |-> d, s |-> s, n |-> n] /\ pc' = "loop"
          /\ reg' = [d |-> d, s |-> s, n |-> n]
      BY <2>3 DEF Enter, Regs
    <3>2. Fits(call')
      BY <3>1 DEF Fits, Address
    <3>3. mem' = old'
      BY <1>1 DEF Call, MInv, Shape
    <3>4. Moving'
      BY <3>1, <3>3 DEF Moving, Up, Down, Copied, Address
    <3> QED BY <3>1, <3>2, <3>4
  <2> QED BY <2>1, <2>2, <2>3 DEF MInv
<1>2. CASE Turn
  <2>1. Shape'
    BY <1>2, TurnShape DEF MInv
  <2>2. call' = call /\ old' = old
    BY <1>2 DEF Turn
  <2>3. CASE call.fn # "memmove"
    BY <2>1, <2>2, <2>3 DEF MInv
  <2>4. CASE call.fn = "memmove"
    <3>1. Memmove
      BY <1>2, <2>4 DEF Turn, Runs, Strlen, Strcmp, Strncmp, Strcpy, Strcat, Strncpy, Strchr,
           Strrchr, Strstr, Memcpy, Memset, Memcmp, Atoi, Itoa, PrintDec, ParseArgs, Skip, Word
    <3>2. Fits(call) /\ pc = "loop" /\ Moving /\ Shape
      BY <2>4, <3>1 DEF MInv, Memmove, Runs
    <3>3. CASE reg.n = 0
      <4>1. ret' = call.d /\ pc' = "done" /\ mem' = mem
        BY <3>1, <3>3 DEF Memmove, Ends
      <4>2. Copied(mem, old, call, 0, call.n)
        BY <3>2, <3>3 DEF Moving, Up, Down, Fits
      <4> QED BY <2>1, <2>2, <3>2, <4>1, <4>2 DEF MInv
    <3>4. CASE reg.n # 0 /\ call.d < call.s
      <4> DEFINE k == call.n - reg.n
      <4>1. /\ mem' = [mem EXCEPT ![call.d + k] = mem[call.s + k]]
            /\ reg' = [d |-> reg.d + 1, s |-> reg.s + 1, n |-> reg.n - 1]
            /\ pc' = pc
        <5>1. reg.d = call.d + k /\ reg.s = call.s + k
          BY <3>2, <3>4 DEF Moving, Up, Fits, Address
        <5> QED BY <3>1, <3>2, <3>4, <5>1 DEF Memmove, Puts, Counted, Both, Moving
      <4>2. k \in Nat /\ k < call.n /\ call.n - (reg.n - 1) = k + 1
        BY <3>2, <3>4 DEF Moving, Fits
      <4>3. Copied(mem, old, call, 0, k)
        BY <3>2, <3>4 DEF Moving, Up
      <4> HIDE DEF k
      <4>4. Copied(mem', old, call, 0, k + 1)
        BY <3>2, <3>4, <4>1, <4>2, <4>3, CopyUp DEF Shape, Row
      <4>5. Moving'
        <5>1. reg'.n \in 0 .. call.n
          BY <3>2, <3>4, <4>1 DEF Moving, Fits
        <5>2. Up'
          <6>1. call'.n - reg'.n = k + 1
            BY <2>2, <4>1, <4>2
          <6>2. /\ reg'.d = call'.d + call'.n - reg'.n
                /\ reg'.s = call'.s + call'.n - reg'.n
            <7>1. Up /\ reg.n \in 0 .. call.n
              BY <3>2, <3>4 DEF Moving
            <7>2. call.n \in Nat /\ call.d \in Nat /\ call.s \in Nat
              BY <3>2, <3>4 DEF Fits, Address
            <7>3. reg'.d = reg.d + 1 /\ reg'.s = reg.s + 1 /\ reg'.n = reg.n - 1
              BY <4>1
            <7>4. /\ reg.d = call.d + call.n - reg.n
                  /\ reg.s = call.s + call.n - reg.n
              BY <7>1 DEF Up
            <7>5. /\ reg.d + 1 = call.d + call.n - (reg.n - 1)
                  /\ reg.s + 1 = call.s + call.n - (reg.n - 1)
              BY <7>1, <7>2, <7>4
            <7> QED BY <2>2, <7>3, <7>5
          <6>3. Copied(mem', old', call', 0, call'.n - reg'.n)
            BY <2>2, <4>4, <6>1
          <6> QED BY <6>2, <6>3 DEF Up
        <5> QED BY <2>2, <3>4, <4>1, <5>1, <5>2 DEF Moving
      <4> QED BY <2>1, <2>2, <3>2, <4>1, <4>5 DEF MInv
    <3>5. CASE reg.n # 0 /\ ~(call.d < call.s)
      <4> DEFINE k == reg.n
      <4>1. /\ mem' = [mem EXCEPT ![call.d + k - 1] = mem[call.s + k - 1]]
            /\ reg' = [d |-> reg.d, s |-> reg.s, n |-> k - 1]
            /\ pc' = pc
        <5>1. reg.d = call.d /\ reg.s = call.s
          BY <3>2, <3>5 DEF Moving, Down
        <5> QED BY <3>1, <3>2, <3>5, <5>1 DEF Memmove, Puts, Moving
      <4>2. k \in Nat /\ k # 0 /\ k <= call.n
        BY <3>2, <3>5 DEF Moving, Fits
      <4>3. Copied(mem, old, call, k, call.n)
        BY <3>2, <3>5 DEF Moving, Down
      <4> HIDE DEF k
      <4>4. Copied(mem', old, call, k - 1, call.n)
        BY <3>2, <3>5, <4>1, <4>2, <4>3, CopyDown DEF Shape, Row
      <4>5. Moving'
        <5>1. reg'.n \in 0 .. call.n
          BY <3>2, <4>1, <4>2 DEF Fits
        <5>2. Down'
          BY <2>2, <3>2, <3>5, <4>1, <4>4 DEF Moving, Down
        <5> QED BY <2>2, <3>5, <4>1, <5>1, <5>2 DEF Moving
      <4> QED BY <2>1, <2>2, <3>2, <4>1, <4>5 DEF MInv
    <3> QED BY <3>3, <3>4, <3>5
  <2> QED BY <2>3, <2>4
<1>3. CASE Return
  BY <1>3 DEF Return, MInv, Shape, NoCall
<1>4. CASE Store
  BY <1>4 DEF Store, MInv, Shape, Address
<1>5. CASE UNCHANGED vars
  BY <1>5 DEF vars, MInv, Shape, Fits, Moving, Up, Down, Copied
<1> QED BY <1>1, <1>2, <1>3, <1>4, <1>5 DEF Next

(* memmove returns dest, the region has arrived there as it was, and no    *)
(* other byte is changed (memory.c:251-269).                               *)
THEOREM MemmoveCorrect == Spec => []MemmoveSpecified
<1>1. MInv => MemmoveSpecified
  <2> SUFFICES ASSUME MInv, call.fn = "memmove", pc = "done"
               PROVE  ret = call.d /\ Written(call.d, Bytes(call.s, call.n))
    BY DEF MemmoveSpecified, Done
  <2>1. Fits(call) /\ ret = call.d /\ Copied(mem, old, call, 0, call.n)
        /\ mem = [a \in Address |-> mem[a]]
    BY DEF MInv, Shape
  <2>2. Len(Bytes(call.s, call.n)) = call.n
    BY <2>1 DEF Bytes, Fits
  <2>3. ASSUME NEW b \in Address
        PROVE  mem[b] = IF b - call.d \in 0 .. call.n - 1
                        THEN Bytes(call.s, call.n)[b - call.d + 1] ELSE old[b]
    <3>1. CASE b - call.d \in 0 .. call.n - 1
      <4>1. b - call.d + 1 \in 1 .. call.n
            /\ call.s + (b - call.d + 1) - 1 = b - call.d + call.s
        <5>1. b \in Int /\ call.d \in Int /\ call.s \in Int /\ call.n \in Int
          BY <2>1, StringsAssumption DEF Fits, Address
        <5> QED BY <3>1, <5>1
      <4> QED BY <2>1, <3>1, <4>1 DEF Bytes, Copied
    <3>2. CASE b - call.d \notin 0 .. call.n - 1
      BY <2>1, <3>2 DEF Copied
    <3> QED BY <3>1, <3>2
  <2> QED BY <2>1, <2>2, <2>3 DEF Written
<1> QED BY <1>1, MInit, MStep, PTL DEF Spec

-----------------------------------------------------------------------------
(* Texts in memory                                                         *)

LEMMA SizeIs == SIZE \in Nat /\ SIZE > 0
BY StringsAssumption

(* At a of m is a text of n bytes before its end.                          *)
IsText(m, a, n) ==
  /\ a \in Nat /\ n \in Nat /\ a + n < SIZE
  /\ m[a + n] = NUL /\ \A k \in 0 .. n - 1 : m[a + k] # NUL

LEMMA MinIs ==
  ASSUME NEW T, T \subseteq Int, NEW x \in T, \A y \in T : x <= y
  PROVE  Min(T) = x
<1>1. Min(T) \in T /\ \A y \in T : Min(T) <= y
  <2>1. \E z \in T : \A y \in T : z <= y
    OBVIOUS
  <2> QED BY <2>1 DEF Min
<1>2. x <= Min(T) /\ Min(T) <= x /\ Min(T) \in Int
  BY <1>1
<1> HIDE DEF Min
<1> QED BY <1>2

LEMMA MaxIs ==
  ASSUME NEW T, T \subseteq Int, NEW x \in T, \A y \in T : x >= y
  PROVE  Max(T) = x
<1>1. Max(T) \in T /\ \A y \in T : Max(T) >= y
  <2>1. \E z \in T : \A y \in T : z >= y
    OBVIOUS
  <2> QED BY <2>1 DEF Max
<1>2. x >= Max(T) /\ Max(T) >= x /\ Max(T) \in Int
  BY <1>1
<1> QED BY <1>2

LEMMA TextIs ==
  ASSUME NEW m, NEW a \in Address, NEW e \in a .. SIZE - 1, m[e] = NUL
  PROVE  IsText(m, a, StrLen(m, a))
<1> DEFINE T == {k \in 0 .. SIZE - a - 1 : m[a + k] = NUL}
<1>1. SIZE \in Nat /\ a \in Nat
  BY SizeIs DEF Address
<1>2. e - a \in T
  <2>1. e - a \in 0 .. SIZE - a - 1 /\ a + (e - a) = e
    BY <1>1
  <2> QED BY <2>1
<1>3. T \subseteq Nat
  BY <1>1
<1>4. PICK x \in T : \A y \in T : x <= y
  <2> HIDE DEF T
  <2> QED BY <1>2, <1>3, LeastOne
<1>5. StrLen(m, a) = x
  <2>1. Min(T) = x
    <3>1. T \subseteq Int
      BY <1>3
    <3> HIDE DEF T
    <3> QED BY <1>4, <3>1, MinIs
  <2> QED BY <2>1 DEF StrLen
<1>6. x \in 0 .. SIZE - a - 1 /\ m[a + x] = NUL
  BY <1>4
<1>7. ASSUME NEW k \in 0 .. x - 1 PROVE m[a + k] # NUL
  <2>1. k \in 0 .. SIZE - a - 1 /\ ~ (x <= k)
    BY <1>1, <1>6
  <2> QED BY <1>4, <2>1
<1> HIDE DEF T
<1> QED BY <1>1, <1>5, <1>6, <1>7 DEF IsText

LEMMA StrIs ==
  ASSUME NEW m, NEW a, IsText(m, a, StrLen(m, a))
  PROVE  /\ Len(Str(m, a)) = StrLen(m, a) /\ Str(m, a) = [k \in 1 .. StrLen(m, a) |-> m[a + k - 1]]
         /\ \A k \in 1 .. StrLen(m, a) : Str(m, a)[k] = m[a + k - 1]
         /\ \A k \in 0 .. StrLen(m, a) - 1 : Str(m, a)[k + 1] = m[a + k]
<1>1. StrLen(m, a) \in Nat /\ a \in Nat
  BY DEF IsText
<1>2. Str(m, a) = [k \in 1 .. StrLen(m, a) |-> m[a + k - 1]]
  BY DEF Str
<1>3. \A k \in 0 .. StrLen(m, a) - 1 :
        k + 1 \in 1 .. StrLen(m, a) /\ a + (k + 1) - 1 = a + k
  BY <1>1
<1> QED BY <1>1, <1>2, <1>3

(* A part of a text, as its characters.                                    *)
LEMMA PartIs ==
  ASSUME NEW t, NEW h \in Nat, NEW n \in Nat
  PROVE  /\ SubSeq(t, h + 1, h + n) = [i \in 1 .. n |-> t[h + i]]
         /\ Len(SubSeq(t, h + 1, h + n)) = n
<1> DEFINE S == {t[i] : i \in h + 1 .. h + n}
           cut == SubSeq(t, h + 1, h + n)
<1>1. \A i \in h + 1 .. h + n : t[i] \in S
  OBVIOUS
<1>2. h + 1 \in Int /\ h + n \in Int /\ h + n - (h + 1) + 1 = n
      /\ (IF h + 1 <= h + n THEN h + n - (h + 1) + 1 ELSE 0) = n
  OBVIOUS
<1> HIDE DEF S
<1>3. cut \in Seq(S) /\ Len(cut) = n /\ \A i \in 1 .. n : cut[i] = t[h + 1 + i - 1]
  BY <1>1, <1>2, SubSeqProperties
<1>4. \A i \in 1 .. n : h + 1 + i - 1 = h + i
  OBVIOUS
<1> HIDE DEF cut
<1>5. cut = [i \in 1 .. n |-> cut[i]]
  BY <1>3
<1>6. \A i \in 1 .. n : cut[i] = t[h + i]
  BY <1>3, <1>4
<1> QED BY <1>3, <1>5, <1>6 DEF cut

(* What the arguments of the calls are.                                    *)
SrcLen  == StrLen(old, call.s)
DestLen == StrLen(old, call.d)
SrcText  == IsText(old, call.s, SrcLen)
DestText == IsText(old, call.d, DestLen)

(* What the callers give.                                                  *)
Given ==
  /\ old \in Memories
  /\ call.fn \in {"strlen", "strchr", "strrchr", "strcmp", "strncmp", "strstr", "strcpy",
                  "strcat", "strncpy", "atoi", "parse_args"} => SrcText
  /\ call.fn \in {"strcmp", "strncmp", "strstr", "strcat"} => DestText
  /\ call.fn \in {"strlen", "strchr", "strrchr", "atoi", "itoa", "parse_args"} => call.d = 0
  /\ call.fn \in {"strlen", "strstr", "atoi"} => call.n = 0
  /\ call.fn \in {"strncmp", "strncpy", "parse_args"} => call.n \in Nat
  /\ call.fn \in {"memcpy", "memcmp", "memmove"} => Fits(call)
  /\ call.fn = "memcpy" => Apart(call.d, call.n, call.s, call.n)
  /\ call.fn = "memset" => call.d \in Nat /\ call.n \in Nat /\ call.d + call.n <= SIZE
  /\ call.fn = "strcpy" =>
       /\ call.d \in Nat /\ call.d + (SrcLen + 1) <= SIZE
       /\ Apart(call.d, SrcLen + 1, call.s, SrcLen + 1)
  /\ call.fn = "strcat" =>
       /\ call.d + (DestLen + 1) + (SrcLen + 1) <= SIZE + 1
       /\ Apart(call.d, (DestLen + 1) + (SrcLen + 1) - 1, call.s, SrcLen + 1)
  /\ call.fn = "strncpy" =>
       /\ call.d \in Nat /\ call.d + call.n + 1 <= SIZE
       /\ Apart(call.d, call.n + 1, call.s, SrcLen + 1)
  /\ call.fn = "parse_args" => call.n <= MAX_ARGS
  /\ call.fn \in {"itoa", "vga_print_dec"} => call.n \in Ints
  /\ call.fn = "itoa" => call.s \in {10, 16}

Called ==
  /\ reg = [d |-> reg.d, s |-> reg.s, n |-> reg.n]
  /\ pc = "idle" => mem = old /\ call = NoCall
  /\ pc # "idle" => Given

LEMMA TextsAre == ASSUME NEW a \in Texts PROVE IsText(mem, a, StrLen(mem, a))
<1>1. a \in Address /\ \E e \in a .. SIZE - 1 : mem[e] = NUL
  BY DEF Texts, Ended
<1> QED BY <1>1, TextIs

LEMMA TurnIs ==
  ASSUME Turn
  PROVE  /\ call.fn = "strlen"  => Strlen
         /\ call.fn = "strchr"  => Strchr
         /\ call.fn = "strrchr" => Strrchr
         /\ call.fn = "strstr"  => Strstr
         /\ call.fn = "strcmp"  => Strcmp
         /\ call.fn = "strncmp" => Strncmp
         /\ call.fn = "memcmp"  => Memcmp
         /\ call.fn = "strcpy"  => Strcpy
         /\ call.fn = "strcat"  => Strcat
         /\ call.fn = "strncpy" => Strncpy
         /\ call.fn = "memcpy"  => Memcpy
         /\ call.fn = "memset"  => Memset
         /\ call.fn = "memmove" => Memmove
         /\ call.fn = "atoi"    => Atoi
         /\ call.fn = "itoa"    => Itoa
         /\ call.fn = "vga_print_dec" => PrintDec
         /\ call.fn = "parse_args"    => ParseArgs
         /\ call' = call /\ old' = old /\ pc # "idle" /\ pc' # "idle"
         /\ call.fn \in {"strlen", "strchr", "strrchr", "strstr", "strcmp", "strncmp", "memcmp",
                         "strcpy", "strcat", "strncpy", "memcpy", "memset", "memmove",
                         "atoi", "itoa", "vga_print_dec", "parse_args"}
  BY DEF Turn, Runs, Goes, To, Ends, Strlen, Strcmp, Strncmp, Strcpy, Strcat, Strncpy, Strchr,
         Strrchr, Strstr, Memcpy, Memset, Memcmp, Memmove, Atoi, Itoa, PrintDec, ParseArgs,
         CopyString, Skip, Word

(* Every call has the arguments that callers may give.                     *)
LEMMA CallIs ==
  ASSUME Call, Called
  PROVE  /\ Given' /\ pc' = "loop" /\ mem' = old' /\ argv' = argv
         /\ reg' = [d |-> call'.d, s |-> call'.s, n |-> call'.n]
<1>1. mem' = mem /\ old' = old /\ mem = old /\ old \in Memories /\ argv' = argv
  BY DEF Call, Called
<1>2. SIZE \in Nat /\ Address \subseteq Nat
  BY StringsAssumption DEF Address
<1> USE DEF Enter
<1>3. \A a \in Texts : IsText(old, a, StrLen(old, a)) /\ Size(a) = StrLen(old, a) + 1
  BY <1>1, TextsAre DEF Size
<1>4. CASE CallOne
  <2>1. PICK s \in Texts :
          \/ \E fn \in {"strlen", "atoi"} : Enter(fn, 0, s, 0)
          \/ \E fn \in {"strchr", "strrchr"}, c \in Chars : Enter(fn, 0, s, c)
          \/ \E max \in 0 .. MAX_ARGS : Enter("parse_args", 0, s, max)
    BY <1>4 DEF CallOne
  <2>2. MAX_ARGS \in Nat
    BY StringsAssumption
  <2> QED BY <1>1, <1>3, <2>1, <2>2 DEF Given, Regs, SrcText, SrcLen
<1>5. CASE CallTwo
  <2>1. PICK d \in Texts, s \in Texts :
          \/ \E fn \in {"strcmp", "strstr"} : Enter(fn, d, s, 0)
          \/ \E n \in 0 .. SIZE : Enter("strncmp", d, s, n)
    BY <1>5 DEF CallTwo
  <2> QED BY <1>1, <1>2, <1>3, <2>1 DEF Given, Regs, SrcText, SrcLen, DestText, DestLen
<1>6. CASE CallCopy
  <2>1. PICK d \in Address, s \in Texts :
          \/ /\ d + Size(s) <= SIZE /\ Apart(d, Size(s), s, Size(s))
             /\ Enter("strcpy", d, s, 0)
          \/ /\ d \in Texts /\ d + Size(d) + Size(s) <= SIZE + 1
             /\ Apart(d, Size(d) + Size(s) - 1, s, Size(s))
             /\ Enter("strcat", d, s, 0)
          \/ \E n \in 0 .. SIZE - d - 1 :
               Apart(d, n + 1, s, Size(s)) /\ Enter("strncpy", d, s, n)
    BY <1>6 DEF CallCopy
  <2>2. CASE d + Size(s) <= SIZE /\ Apart(d, Size(s), s, Size(s)) /\ Enter("strcpy", d, s, 0)
    BY <1>1, <1>2, <1>3, <2>1, <2>2 DEF Given, Regs, SrcText, SrcLen
  <2>3. CASE /\ d \in Texts /\ d + Size(d) + Size(s) <= SIZE + 1
             /\ Apart(d, Size(d) + Size(s) - 1, s, Size(s))
             /\ Enter("strcat", d, s, 0)
    BY <1>1, <1>3, <2>1, <2>3 DEF Given, Regs, SrcText, SrcLen, DestText, DestLen
  <2>4. CASE \E n \in 0 .. SIZE - d - 1 : Apart(d, n + 1, s, Size(s)) /\ Enter("strncpy", d, s, n)
    BY <1>1, <1>2, <1>3, <2>1, <2>4 DEF Given, Regs, SrcText, SrcLen
  <2> QED BY <2>1, <2>2, <2>3, <2>4
<1>7. CASE CallMemory
  <2>1. PICK d \in Address : \E n \in 0 .. SIZE - d :
          \/ \E s \in 0 .. SIZE - n :
               \/ Enter("memmove", d, s, n) \/ Enter("memcmp", d, s, n)
               \/ Apart(d, n, s, n) /\ Enter("memcpy", d, s, n)
          \/ \E c \in Chars : Enter("memset", d, c, n)
    BY <1>7 DEF CallMemory
  <2> QED BY <1>1, <1>2, <2>1 DEF Given, Regs, Fits
<1>8. CASE CallNumber
  BY <1>1, <1>8 DEF CallNumber, Given, Regs
<1> QED BY <1>4, <1>5, <1>6, <1>7, <1>8 DEF Call

LEMMA CalledInit == Init => Called
BY DEF Init, Called, NoCall, Regs

(* A turn keeps the arguments and what memory was.                         *)
LEMMA CalledStep == Called /\ [Next]_vars => Called'
<1> SUFFICES ASSUME Called, [Next]_vars PROVE Called'
  OBVIOUS
<1>1. CASE Call
  BY <1>1, CallIs DEF Called
<1>2. CASE Turn
  <2>1. Given'
    <3>1. call' = call /\ old' = old /\ Given
      BY <1>2, TurnIs DEF Called
    <3> QED BY <3>1 DEF Given, SrcText, SrcLen, DestText, DestLen
  <2>2. reg' = [d |-> reg'.d, s |-> reg'.s, n |-> reg'.n]
    BY <1>2 DEF Called, Turn, Goes, To, Ends, Counted, Both, Strlen, Strcmp, Strncmp, Strcpy, Strcat,
       Strncpy, Strchr, Strrchr, Strstr, Memcpy, Memset, Memcmp, Memmove, Atoi, Itoa, PrintDec,
       ParseArgs, CopyString, Skip, Word
  <2> QED BY <1>2, <2>1, <2>2, TurnIs DEF Called
<1>3. CASE Return
  BY <1>3 DEF Return, Called, Regs, NoCall
<1>4. CASE Store
  BY <1>4 DEF Store, Called
<1>5. CASE UNCHANGED vars
  BY <1>5 DEF vars, Called, Given, SrcText, SrcLen, DestText, DestLen
<1> QED BY <1>1, <1>2, <1>3, <1>4, <1>5 DEF Next

-----------------------------------------------------------------------------
(* Searches                                                                *)

StrlenInv == call.fn = "strlen" =>
  /\ mem = old
  /\ pc = "loop" => reg.s = call.s /\ reg.n \in 0 .. SrcLen
  /\ pc = "done" => ret = SrcLen

(* The character is not among the first k of the text.                     *)
Missing(k) == \A j \in 0 .. k - 1 : old[call.s + j] # call.n
StrchrInv == call.fn = "strchr" =>
  /\ mem = old
  /\ pc = "loop" => \E k \in 0 .. SrcLen : reg.s = call.s + k /\ reg.n = call.n /\ Missing(k)
  /\ pc = "done" =>
       \/ call.n = NUL /\ ret = call.s + SrcLen
       \/ call.n # NUL /\ Missing(SrcLen) /\ ret = NULL
       \/ \E k \in 0 .. SrcLen - 1 :
            call.n # NUL /\ old[call.s + k] = call.n /\ Missing(k) /\ ret = call.s + k

(* x is one more than the last place of the character among the first k.   *)
LastPlace(x, k) ==
  \/ Missing(k) /\ x = 0
  \/ \E i \in 0 .. k - 1 :
       /\ old[call.s + i] = call.n /\ x = call.s + i + 1
       /\ \A j \in i + 1 .. k - 1 : old[call.s + j] # call.n
StrrchrInv == call.fn = "strrchr" =>
  /\ mem = old
  /\ pc = "loop" => \E k \in 0 .. SrcLen : reg.s = call.s + k /\ reg.n = call.n /\ LastPlace(reg.d, k)
  /\ pc = "done" =>
       \/ call.n = NUL /\ ret = call.s + SrcLen
       \/ \E x : call.n # NUL /\ LastPlace(x, SrcLen) /\ ret = x - 1

(* The first k characters of src are at place h of dest; all are.          *)
Agree(h, k) == \A i \in 0 .. k - 1 : old[call.d + (h + i)] = old[call.s + i]
Match(h)    == h + SrcLen <= DestLen /\ Agree(h, SrcLen)
StrstrInv == call.fn = "strstr" =>
  /\ mem = old
  /\ pc = "loop" => \E h \in 0 .. DestLen, k \in 0 .. SrcLen :
       /\ reg = [d |-> call.d + h, s |-> call.s, n |-> k]
       /\ h + k <= DestLen /\ Agree(h, k) /\ \A g \in 0 .. h - 1 : ~Match(g)
  /\ pc = "done" =>
       \/ \E h \in 0 .. DestLen :
            Match(h) /\ (\A g \in 0 .. h - 1 : ~Match(g)) /\ ret = call.d + h
       \/ (\A g \in 0 .. DestLen : ~Match(g)) /\ ret = NULL

LEMMA StrlenTurn == ASSUME Called, StrlenInv, Turn, call.fn = "strlen" PROVE StrlenInv'
<1>1. Strlen /\ call' = call /\ old' = old /\ pc = "loop"
  BY TurnIs DEF Strlen, Runs
<1>2. IsText(old, call.s, SrcLen) /\ mem = old /\ reg.s = call.s /\ reg.n \in 0 .. SrcLen
  BY <1>1 DEF Called, Given, SrcText, StrlenInv
<1>3. SrcLen' = SrcLen
  BY <1>1 DEF SrcLen
<1>4. SrcLen \in Nat /\ call.s \in Nat /\ (mem[reg.s + reg.n] # NUL <=> reg.n < SrcLen)
  BY <1>2 DEF IsText
<1>5. CASE mem[reg.s + reg.n] # NUL
  <2>1. reg' = [reg EXCEPT !.n = @ + 1] /\ mem' = mem /\ pc' = pc
    BY <1>1, <1>5 DEF Strlen, Goes
  <2>2. reg'.s = reg.s /\ reg'.n = reg.n + 1
    BY <2>1 DEF Called
  <2> QED BY <1>1, <1>2, <1>3, <1>4, <1>5, <2>1, <2>2 DEF StrlenInv
<1>6. CASE mem[reg.s + reg.n] = NUL
  BY <1>1, <1>2, <1>3, <1>4, <1>6 DEF Strlen, Ends, StrlenInv
<1> QED BY <1>5, <1>6

LEMMA StrchrTurn == ASSUME Called, StrchrInv, Turn, call.fn = "strchr" PROVE StrchrInv'
<1>1. Strchr /\ call' = call /\ old' = old /\ pc = "loop"
  BY TurnIs DEF Strchr, Runs
<1>2. IsText(old, call.s, SrcLen) /\ mem = old
  BY <1>1 DEF Called, Given, SrcText, StrchrInv
<1>3. PICK k \in 0 .. SrcLen : reg.s = call.s + k /\ reg.n = call.n /\ Missing(k)
  BY <1>1 DEF StrchrInv
<1>4. SrcLen' = SrcLen /\ \A j : Missing(j)' <=> Missing(j)
  BY <1>1 DEF SrcLen, Missing
<1>5. SrcLen \in Nat /\ call.s \in Nat /\ (mem[reg.s] # NUL <=> k < SrcLen)
  BY <1>2, <1>3 DEF IsText
<1>6. CASE mem[reg.s] = NUL
  <2>1. k = SrcLen
    BY <1>3, <1>5, <1>6
  <2>2. pc' = "done" /\ mem' = mem /\ ret' = IF reg.n = NUL THEN reg.s ELSE NULL
    BY <1>1, <1>6 DEF Strchr, Ends
  <2> QED BY <1>1, <1>2, <1>3, <1>4, <2>1, <2>2 DEF StrchrInv
<1>7. CASE mem[reg.s] # NUL /\ mem[reg.s] = reg.n
  <2>1. pc' = "done" /\ mem' = mem /\ ret' = reg.s
    BY <1>1, <1>7 DEF Strchr, Ends
  <2>2. k \in 0 .. SrcLen - 1 /\ call.n # NUL /\ old[call.s + k] = call.n
    BY <1>2, <1>3, <1>5, <1>7
  <2> QED BY <1>1, <1>2, <1>3, <1>4, <2>1, <2>2 DEF StrchrInv
<1>8. CASE mem[reg.s] # NUL /\ mem[reg.s] # reg.n
  <2>1. pc' = pc /\ mem' = mem /\ reg' = [reg EXCEPT !.s = @ + 1]
    BY <1>1, <1>8 DEF Strchr, Goes
  <2>2. reg'.s = call.s + (k + 1) /\ reg'.n = call.n /\ k + 1 \in 0 .. SrcLen
    BY <1>3, <1>5, <1>8, <2>1 DEF Called
  <2>3. Missing(k + 1)
    BY <1>2, <1>3, <1>5, <1>8 DEF Missing
  <2> QED BY <1>1, <1>2, <1>4, <2>1, <2>2, <2>3 DEF StrchrInv
<1> QED BY <1>6, <1>7, <1>8

LEMMA StrrchrTurn == ASSUME Called, StrrchrInv, Turn, call.fn = "strrchr" PROVE StrrchrInv'
<1>1. Strrchr /\ call' = call /\ old' = old /\ pc = "loop"
  BY TurnIs DEF Strrchr, Runs
<1>2. IsText(old, call.s, SrcLen) /\ mem = old
  BY <1>1 DEF Called, Given, SrcText, StrrchrInv
<1>3. PICK k \in 0 .. SrcLen : reg.s = call.s + k /\ reg.n = call.n /\ LastPlace(reg.d, k)
  BY <1>1 DEF StrrchrInv
<1>4. SrcLen' = SrcLen /\ \A x, j : LastPlace(x, j)' <=> LastPlace(x, j)
  BY <1>1 DEF SrcLen, Missing, LastPlace
<1>5. SrcLen \in Nat /\ call.s \in Nat /\ (mem[reg.s] # NUL <=> k < SrcLen)
  BY <1>2, <1>3 DEF IsText
<1>6. CASE mem[reg.s] = NUL
  <2>1. k = SrcLen
    BY <1>3, <1>5, <1>6
  <2>2. pc' = "done" /\ mem' = mem /\ ret' = IF reg.n = NUL THEN reg.s ELSE reg.d - 1
    BY <1>1, <1>6 DEF Strrchr, Ends
  <2> QED BY <1>1, <1>2, <1>3, <1>4, <2>1, <2>2 DEF StrrchrInv
<1>7. CASE mem[reg.s] # NUL
  <2>1. pc' = pc /\ mem' = mem
        /\ reg' = [reg EXCEPT !.s = @ + 1, !.d = IF mem[reg.s] = reg.n THEN reg.s + 1 ELSE @]
    BY <1>1, <1>7 DEF Strrchr, Goes
  <2>2. reg'.s = call.s + (k + 1) /\ reg'.n = call.n /\ k + 1 \in 0 .. SrcLen
        /\ reg'.d = IF mem[reg.s] = reg.n THEN reg.s + 1 ELSE reg.d
    BY <1>3, <1>5, <1>7, <2>1 DEF Called
  <2>3. LastPlace(reg'.d, k + 1)
    <3>1. CASE mem[reg.s] = reg.n
      <4>1. k \in 0 .. (k + 1) - 1 /\ old[call.s + k] = call.n /\ reg'.d = call.s + k + 1
        BY <1>2, <1>3, <1>5, <2>2, <3>1
      <4>2. \A j \in k + 1 .. (k + 1) - 1 : FALSE
        OBVIOUS
      <4> QED BY <4>1, <4>2 DEF LastPlace
    <3>2. CASE mem[reg.s] # reg.n
      <4>1. old[call.s + k] # call.n /\ reg'.d = reg.d
        BY <1>2, <1>3, <2>2, <3>2
      <4>2. CASE Missing(k) /\ reg.d = 0
        BY <1>3, <4>1, <4>2 DEF LastPlace, Missing
      <4>3. ASSUME NEW i \in 0 .. k - 1, old[call.s + i] = call.n, reg.d = call.s + i + 1,
                   \A j \in i + 1 .. k - 1 : old[call.s + j] # call.n
            PROVE  LastPlace(reg'.d, k + 1)
        <5>1. i \in 0 .. (k + 1) - 1 /\ \A j \in i + 1 .. (k + 1) - 1 : old[call.s + j] # call.n
          BY <1>3, <4>1, <4>3
        <5> QED BY <4>1, <4>3, <5>1 DEF LastPlace
      <4> QED BY <1>3, <4>2, <4>3 DEF LastPlace
    <3> QED BY <3>1, <3>2
  <2> QED BY <1>1, <1>2, <1>4, <2>1, <2>2, <2>3 DEF StrrchrInv
<1> QED BY <1>6, <1>7

LEMMA StrstrTurn == ASSUME Called, StrstrInv, Turn, call.fn = "strstr" PROVE StrstrInv'
<1>1. Strstr /\ call' = call /\ old' = old /\ pc = "loop"
  BY TurnIs DEF Strstr, Runs
<1>2. IsText(old, call.s, SrcLen) /\ IsText(old, call.d, DestLen) /\ mem = old
  BY <1>1 DEF Called, Given, SrcText, DestText, StrstrInv
<1>3. PICK h \in 0 .. DestLen, k \in 0 .. SrcLen :
       /\ reg = [d |-> call.d + h, s |-> call.s, n |-> k]
       /\ h + k <= DestLen /\ Agree(h, k) /\ \A g \in 0 .. h - 1 : ~Match(g)
  BY <1>1 DEF StrstrInv
<1>4. SrcLen' = SrcLen /\ DestLen' = DestLen /\ (\A g : Match(g)' <=> Match(g))
      /\ \A g, j : Agree(g, j)' <=> Agree(g, j)
  BY <1>1 DEF SrcLen, DestLen, Match, Agree
<1> DEFINE a == mem[reg.d + reg.n]
           b == mem[reg.s + reg.n]
<1>5. /\ SrcLen \in Nat /\ call.s \in Nat /\ DestLen \in Nat /\ call.d \in Nat
      /\ a = old[call.d + (h + k)] /\ b = old[call.s + k]
      /\ b # NUL <=> k < SrcLen
      /\ a # NUL <=> h + k < DestLen
      /\ mem[reg.d] # NUL <=> h < DestLen
  <2>1. SrcLen \in Nat /\ call.s \in Nat /\ DestLen \in Nat /\ call.d \in Nat
    BY <1>2 DEF IsText
  <2>2. a = old[call.d + (h + k)] /\ b = old[call.s + k]
    BY <1>2, <1>3, <2>1
  <2> HIDE DEF a, b
  <2>3. h + k \in 0 .. DestLen
    BY <1>3, <2>1
  <2>4. mem[reg.d] = old[call.d + h]
    BY <1>2, <1>3
  <2> QED BY <1>2, <1>3, <2>1, <2>2, <2>3, <2>4 DEF IsText
<1>6. CASE b = NUL
  <2>1. k = SrcLen /\ Match(h)
    BY <1>3, <1>5, <1>6 DEF Match
  <2>2. pc' = "done" /\ mem' = mem /\ ret' = reg.d
    BY <1>1, <1>6 DEF Strstr, Ends
  <2> QED BY <1>1, <1>2, <1>3, <1>4, <2>1, <2>2 DEF StrstrInv
<1>7. CASE b # NUL /\ mem[reg.d] = NUL
  <2>1. h = DestLen /\ SrcLen > 0
    BY <1>3, <1>5, <1>7
  <2>2. \A g \in 0 .. DestLen : ~Match(g)
    <3> TAKE g \in 0 .. DestLen
    <3>1. CASE g = DestLen
      BY <1>5, <2>1, <3>1 DEF Match
    <3>2. CASE g # DestLen
      BY <1>3, <1>5, <2>1, <3>2
    <3> QED BY <3>1, <3>2
  <2>3. pc' = "done" /\ mem' = mem /\ ret' = NULL
    BY <1>1, <1>7 DEF Strstr, Ends
  <2> QED BY <1>1, <1>2, <1>3, <1>4, <2>2, <2>3 DEF StrstrInv
<1>8. CASE b # NUL /\ mem[reg.d] # NUL /\ a = b
  <2>1. pc' = pc /\ mem' = mem /\ reg' = [reg EXCEPT !.n = @ + 1]
    BY <1>1, <1>8 DEF Strstr, Goes
  <2>2. reg' = [d |-> call.d + h, s |-> call.s, n |-> k + 1]
    BY <1>3, <2>1
  <2>3. k + 1 \in 0 .. SrcLen /\ h + (k + 1) <= DestLen
    BY <1>3, <1>5, <1>8
  <2>4. Agree(h, k + 1)
    <3> HIDE DEF a, b
    <3>1. old[call.d + (h + k)] = old[call.s + k]
      BY <1>5, <1>8
    <3>2. \A i \in 0 .. (k + 1) - 1 : i = k \/ i \in 0 .. k - 1
      OBVIOUS
    <3> QED BY <1>3, <3>1, <3>2 DEF Agree
  <2> QED BY <1>1, <1>2, <1>3, <1>4, <2>1, <2>2, <2>3, <2>4 DEF StrstrInv
<1>9. CASE b # NUL /\ mem[reg.d] # NUL /\ a # b
  <2>1. pc' = pc /\ mem' = mem /\ reg' = [reg EXCEPT !.d = @ + 1, !.n = 0]
    BY <1>1, <1>9 DEF Strstr, Goes
  <2>2. reg' = [d |-> call.d + (h + 1), s |-> call.s, n |-> 0]
    <3>1. call.d + h + 1 = call.d + (h + 1)
      BY <1>5
    <3>2. reg' = [d |-> call.d + h + 1, s |-> call.s, n |-> 0]
      BY <1>3, <2>1
    <3> QED BY <3>1, <3>2
  <2>3. h + 1 \in 0 .. DestLen /\ 0 \in 0 .. SrcLen /\ h + 1 + 0 <= DestLen
    BY <1>3, <1>5, <1>9
  <2>4. Agree(h + 1, 0)
    BY DEF Agree
  <2>5. ~Match(h)
    BY <1>3, <1>5, <1>9 DEF Match, Agree
  <2>6. \A g \in 0 .. (h + 1) - 1 : ~Match(g)
    BY <1>3, <2>5
  <2> QED BY <1>1, <1>2, <1>4, <2>1, <2>2, <2>3, <2>4, <2>6 DEF StrstrInv
<1> HIDE DEF a, b
<1> QED BY <1>6, <1>7, <1>8, <1>9

SearchInv == StrlenInv /\ StrchrInv /\ StrrchrInv /\ StrstrInv

LEMMA SearchStart == ASSUME Called, Call PROVE SearchInv'
<1> DEFINE c == call'
<1>1. /\ Given' /\ pc' = "loop" /\ mem' = old'
      /\ reg' = [d |-> c.d, s |-> c.s, n |-> c.n]
  BY CallIs
<1>2. StrlenInv'
  BY <1>1 DEF StrlenInv, Given, SrcText, IsText
<1>3. ASSUME c.fn = "strchr" \/ c.fn = "strrchr"
      PROVE  0 \in 0 .. SrcLen' /\ reg'.s = c.s + 0 /\ reg'.n = c.n /\ Missing(0)'
             /\ (c.fn = "strrchr" => reg'.d = 0)
  BY <1>1, <1>3 DEF Given, SrcText, IsText, Missing
<1>4. StrchrInv'
  BY <1>1, <1>3 DEF StrchrInv
<1>5. StrrchrInv'
  <2> SUFFICES ASSUME c.fn = "strrchr" PROVE StrrchrInv'
    BY DEF StrrchrInv
  <2>1. LastPlace(reg.d, 0)'
    BY <1>3 DEF LastPlace
  <2> QED BY <1>1, <1>3, <2>1 DEF StrrchrInv
<1>6. StrstrInv'
  <2> SUFFICES ASSUME c.fn = "strstr" PROVE StrstrInv'
    BY DEF StrstrInv
  <2>1. 0 \in 0 .. SrcLen' /\ 0 \in 0 .. DestLen' /\ c.d \in Nat /\ c.n = 0
    BY <1>1 DEF Given, SrcText, DestText, IsText
  <2>2. reg' = [d |-> c.d + 0, s |-> c.s, n |-> 0]
    BY <1>1, <2>1
  <2>3. Agree(0, 0)' /\ (\A g \in 0 .. 0 - 1 : ~Match(g)') /\ 0 + 0 <= DestLen'
    BY <2>1 DEF Agree
  <2> QED BY <1>1, <2>1, <2>2, <2>3 DEF StrstrInv
<1> QED BY <1>2, <1>4, <1>5, <1>6 DEF SearchInv

LEMMA SearchStep == Called /\ SearchInv /\ [Next]_vars => SearchInv'
<1> SUFFICES ASSUME Called, SearchInv, [Next]_vars PROVE SearchInv'
  OBVIOUS
<1>1. CASE Call
  BY <1>1, SearchStart
<1>2. CASE Turn
  <2>1. StrlenInv'
    BY <1>2, StrlenTurn, TurnIs DEF SearchInv, StrlenInv
  <2>2. StrchrInv'
    BY <1>2, StrchrTurn, TurnIs DEF SearchInv, StrchrInv
  <2>3. StrrchrInv'
    BY <1>2, StrrchrTurn, TurnIs DEF SearchInv, StrrchrInv
  <2>4. StrstrInv'
    BY <1>2, StrstrTurn, TurnIs DEF SearchInv, StrstrInv
  <2> QED BY <2>1, <2>2, <2>3, <2>4 DEF SearchInv
<1>3. CASE Return
  BY <1>3 DEF Return, NoCall, SearchInv, StrlenInv, StrchrInv, StrrchrInv, StrstrInv
<1>4. CASE Store
  BY <1>4 DEF Store, Called, NoCall, SearchInv, StrlenInv, StrchrInv, StrrchrInv, StrstrInv
<1>5. CASE UNCHANGED vars
  BY <1>5 DEF vars, SearchInv, StrlenInv, StrchrInv, StrrchrInv, StrstrInv, SrcLen, DestLen,
              Missing, LastPlace, Match, Agree
<1> QED BY <1>1, <1>2, <1>3, <1>4, <1>5 DEF Next

(* The places of the text that hold the character.                         *)
LEMMA Places ==
  ASSUME SrcText
  PROVE  LET places == {k \in 1 .. Len(Src) : Src[k] = call.n}
         IN  /\ places \subseteq Int
             /\ \A k : k \in places <=> k - 1 \in 0 .. SrcLen - 1 /\ k \in Int /\ old[call.s + (k - 1)] = call.n
<1>1. Len(Src) = SrcLen /\ \A k \in 1 .. SrcLen : Src[k] = old[call.s + k - 1]
  BY StrIs DEF SrcText, Src, SrcLen
<1>2. SrcLen \in Nat /\ call.s \in Nat
  BY DEF SrcText, IsText
<1>3. \A k \in 1 .. SrcLen : call.s + k - 1 = call.s + (k - 1)
  BY <1>2
<1>4. \A k : k \in 1 .. SrcLen <=> k \in Int /\ k - 1 \in 0 .. SrcLen - 1
  BY <1>2
<1> QED BY <1>1, <1>3, <1>4

LEMMA StrchrDone ==
  ASSUME SrcText, StrchrInv, Done("strchr")
  PROVE  LET places == {k \in 1 .. Len(Src) : Src[k] = call.n}
         IN  ret = IF call.n = NUL THEN call.s + Len(Src)
                   ELSE IF places = {} THEN NULL ELSE call.s + Min(places) - 1
<1> DEFINE places == {k \in 1 .. Len(Src) : Src[k] = call.n}
<1>1. Len(Src) = SrcLen /\ SrcLen \in Nat /\ call.s \in Nat
  BY StrIs DEF SrcText, Src, SrcLen, IsText
<1>2. /\ places \subseteq Int
      /\ \A k : k \in places <=> k - 1 \in 0 .. SrcLen - 1 /\ k \in Int /\ old[call.s + (k - 1)] = call.n
  BY Places
<1> HIDE DEF places
<1>3. CASE call.n = NUL /\ ret = call.s + SrcLen
  BY <1>1, <1>3
<1>4. CASE call.n # NUL /\ Missing(SrcLen) /\ ret = NULL
  <2>1. places = {}
    BY <1>2, <1>4 DEF Missing
  <2> QED BY <1>4, <2>1 DEF places
<1>5. ASSUME NEW k \in 0 .. SrcLen - 1, call.n # NUL, old[call.s + k] = call.n, Missing(k),
             ret = call.s + k
      PROVE  places # {} /\ ret = call.s + Min(places) - 1
  <2>1. k + 1 \in places
    <3>1. k + 1 \in Int /\ k + 1 - 1 = k
      BY <1>1
    <3> QED BY <1>2, <1>5, <3>1
  <2>2. ASSUME NEW j \in places PROVE k + 1 <= j
    <3>1. j \in Int /\ j - 1 \in 0 .. SrcLen - 1 /\ old[call.s + (j - 1)] = call.n
      BY <1>2
    <3>2. ~ (j - 1 \in 0 .. k - 1)
      BY <1>5, <3>1 DEF Missing
    <3> QED BY <1>1, <3>1, <3>2
  <2>3. Min(places) = k + 1
    BY <1>2, <2>1, <2>2, MinIs
  <2> QED BY <1>1, <1>5, <2>1, <2>3
<1> QED BY <1>3, <1>4, <1>5 DEF StrchrInv, Done, places

LEMMA StrrchrDone ==
  ASSUME SrcText, StrrchrInv, Done("strrchr")
  PROVE  LET places == {k \in 1 .. Len(Src) : Src[k] = call.n}
         IN  ret = IF call.n = NUL THEN call.s + Len(Src)
                   ELSE IF places = {} THEN NULL ELSE call.s + Max(places) - 1
<1> DEFINE places == {k \in 1 .. Len(Src) : Src[k] = call.n}
<1>1. Len(Src) = SrcLen /\ SrcLen \in Nat /\ call.s \in Nat
  BY StrIs DEF SrcText, Src, SrcLen, IsText
<1>2. /\ places \subseteq Int
      /\ \A k : k \in places <=> k - 1 \in 0 .. SrcLen - 1 /\ k \in Int /\ old[call.s + (k - 1)] = call.n
  BY Places
<1> HIDE DEF places
<1>4. ASSUME Missing(SrcLen), ret = 0 - 1 PROVE places = {} /\ ret = NULL
  <2>1. places = {}
    BY <1>2, <1>4 DEF Missing
  <2> QED BY <1>4, <2>1 DEF NULL
<1>5. ASSUME NEW k \in 0 .. SrcLen - 1, call.n # NUL, old[call.s + k] = call.n,
             \A j \in k + 1 .. SrcLen - 1 : old[call.s + j] # call.n, ret = call.s + k
      PROVE  places # {} /\ ret = call.s + Max(places) - 1
  <2>1. k + 1 \in places
    <3>1. k + 1 \in Int /\ k + 1 - 1 = k
      BY <1>1
    <3> QED BY <1>2, <1>5, <3>1
  <2>2. ASSUME NEW j \in places PROVE k + 1 >= j
    <3>1. j \in Int /\ j - 1 \in 0 .. SrcLen - 1 /\ old[call.s + (j - 1)] = call.n
      BY <1>2
    <3>2. ~ (j - 1 \in k + 1 .. SrcLen - 1)
      BY <1>5, <3>1
    <3> QED BY <1>1, <3>1, <3>2
  <2>3. Max(places) = k + 1
    BY <1>2, <2>1, <2>2, MaxIs
  <2> QED BY <1>1, <1>5, <2>1, <2>3
<1>6. \/ call.n = NUL /\ ret = call.s + SrcLen
      \/ \E x : call.n # NUL /\ LastPlace(x, SrcLen) /\ ret = x - 1
  BY DEF StrrchrInv, Done
<1>7. ASSUME NEW x, call.n # NUL, LastPlace(x, SrcLen), ret = x - 1
      PROVE  ret = IF places = {} THEN NULL ELSE call.s + Max(places) - 1
  <2>1. CASE Missing(SrcLen) /\ x = 0
    BY <1>4, <1>7, <2>1
  <2>2. ASSUME NEW i \in 0 .. SrcLen - 1, old[call.s + i] = call.n, x = call.s + i + 1,
               \A j \in i + 1 .. SrcLen - 1 : old[call.s + j] # call.n
        PROVE  ret = IF places = {} THEN NULL ELSE call.s + Max(places) - 1
    <3>1. ret = call.s + i
      BY <1>1, <1>7, <2>2
    <3> QED BY <1>5, <1>7, <2>2, <3>1
  <2> QED BY <1>7, <2>1, <2>2 DEF LastPlace
<1>8. call.n # NUL => ret = IF places = {} THEN NULL ELSE call.s + Max(places) - 1
  BY <1>6, <1>7
<1>9. call.n = NUL => ret = call.s + SrcLen
  BY <1>6
<1> QED BY <1>1, <1>8, <1>9 DEF places

LEMMA StrstrDone ==
  ASSUME SrcText, DestText, StrstrInv, Done("strstr")
  PROVE  LET at == {k \in 0 .. Len(Dest) - Len(Src) : SubSeq(Dest, k + 1, k + Len(Src)) = Src}
         IN  ret = IF at = {} THEN NULL ELSE call.d + Min(at)
<1> DEFINE at == {k \in 0 .. Len(Dest) - Len(Src) : SubSeq(Dest, k + 1, k + Len(Src)) = Src}
<1>1. /\ Len(Src) = SrcLen /\ SrcLen \in Nat /\ call.s \in Nat
      /\ Src = [k \in 1 .. SrcLen |-> old[call.s + k - 1]]
      /\ \A k \in 0 .. SrcLen - 1 : Src[k + 1] = old[call.s + k]
  BY StrIs DEF SrcText, Src, SrcLen, IsText
<1>2. /\ Len(Dest) = DestLen /\ DestLen \in Nat /\ call.d \in Nat
      /\ \A k \in 1 .. DestLen : Dest[k] = old[call.d + k - 1]
      /\ \A k \in 0 .. DestLen - 1 : Dest[k + 1] = old[call.d + k]
  BY StrIs DEF DestText, Dest, DestLen, IsText
<1>3. ASSUME NEW h \in 0 .. DestLen
      PROVE  h \in at <=> Match(h)
  <2>1. h \in 0 .. Len(Dest) - Len(Src) <=> h + SrcLen <= DestLen
    BY <1>1, <1>2
  <2>2. ASSUME h + SrcLen <= DestLen
        PROVE  SubSeq(Dest, h + 1, h + Len(Src)) = Src <=> Agree(h, SrcLen)
    <3> DEFINE cut == SubSeq(Dest, h + 1, h + SrcLen)
    <3>1. cut = [i \in 1 .. SrcLen |-> Dest[h + i]]
      BY <1>1, <1>2, PartIs
    <3>2. \A i \in 0 .. SrcLen - 1 : cut[i + 1] = old[call.d + (h + i)]
      <4> TAKE i \in 0 .. SrcLen - 1
      <4>1. i + 1 \in 1 .. SrcLen /\ h + i \in 0 .. DestLen - 1 /\ h + (i + 1) = (h + i) + 1
        BY <1>1, <1>2, <2>2
      <4>2. cut[i + 1] = Dest[h + (i + 1)]
        BY <3>1, <4>1
      <4> HIDE DEF cut
      <4> QED BY <1>2, <4>1, <4>2
    <3>3. cut = Src <=> \A i \in 1 .. SrcLen : cut[i] = Src[i]
      <4> HIDE DEF cut
      <4> QED BY <1>1, <3>1
    <3> HIDE DEF cut
    <3>4. (\A i \in 1 .. SrcLen : cut[i] = Src[i]) <=> (\A i \in 0 .. SrcLen - 1 : cut[i + 1] = Src[i + 1])
      <4>1. \A i \in 1 .. SrcLen : i - 1 \in 0 .. SrcLen - 1 /\ i - 1 + 1 = i
        BY <1>1
      <4>2. \A i \in 0 .. SrcLen - 1 : i + 1 \in 1 .. SrcLen
        BY <1>1
      <4> QED BY <4>1, <4>2
    <3>5. cut = Src <=> Agree(h, SrcLen)
      BY <1>1, <3>2, <3>3, <3>4 DEF Agree
    <3> QED BY <1>1, <3>5 DEF cut
  <2> QED BY <2>1, <2>2 DEF Match
<1>4. at \subseteq 0 .. DestLen /\ at \subseteq Int
  BY <1>1, <1>2
<1> HIDE DEF at
<1>5. CASE (\A g \in 0 .. DestLen : ~Match(g)) /\ ret = NULL
  <2>1. at = {}
    BY <1>3, <1>4, <1>5
  <2> QED BY <1>5, <2>1 DEF at
<1>6. ASSUME NEW h \in 0 .. DestLen, Match(h), \A g \in 0 .. h - 1 : ~Match(g), ret = call.d + h
      PROVE  at # {} /\ ret = call.d + Min(at)
  <2>1. h \in at
    BY <1>3, <1>6
  <2>2. ASSUME NEW j \in at PROVE h <= j
    <3>1. j \in 0 .. DestLen /\ ~ (j \in 0 .. h - 1)
      BY <1>3, <1>4, <1>6
    <3> QED BY <1>2, <3>1
  <2>3. Min(at) = h
    BY <1>4, <2>1, <2>2, MinIs
  <2> QED BY <1>6, <2>1, <2>3
<1> QED BY <1>5, <1>6 DEF StrstrInv, Done, at

(* strlen, strchr, strrchr and strstr find what they are asked for, the    *)
(* first or the last of its places (string.c:10-17, 88-140).               *)
THEOREM SearchesFind == Spec => []SearchesSpecified
<1>1. Init => Called /\ SearchInv
  BY CalledInit DEF Init, NoCall, SearchInv, StrlenInv, StrchrInv, StrrchrInv, StrstrInv
<1>2. Called /\ SearchInv => SearchesSpecified
  <2> SUFFICES ASSUME Called, SearchInv, pc = "done" PROVE SearchesSpecified
    BY DEF SearchesSpecified, Done
  <2>1. Given
    BY DEF Called
  <2>2. Done("strlen") => Same /\ ret = Len(Src)
    BY <2>1, StrIs DEF Given, Done, Same, SearchInv, StrlenInv, Src, SrcText, SrcLen
  <2>3. Done("strchr") => Same /\ SrcText
    BY <2>1 DEF Given, Done, Same, SearchInv, StrchrInv
  <2>4. Done("strrchr") => Same /\ SrcText
    BY <2>1 DEF Given, Done, Same, SearchInv, StrrchrInv
  <2>5. Done("strstr") => Same /\ SrcText /\ DestText
    BY <2>1 DEF Given, Done, Same, SearchInv, StrstrInv
  <2> QED BY <2>2, <2>3, <2>4, <2>5, StrchrDone, StrrchrDone, StrstrDone DEF SearchesSpecified, SearchInv
<1> QED BY <1>1, <1>2, CalledStep, SearchStep, PTL DEF Spec

-----------------------------------------------------------------------------
(* Comparisons                                                             *)

(* dest and src agree in k bytes.                                          *)
Common(k) == \A j \in 0 .. k - 1 : old[call.d + j] = old[call.s + j]
OldDifference(k) == old[call.d + k] - old[call.s + k]
At(k) == reg.d = call.d + k /\ reg.s = call.s + k

StrcmpInv == call.fn = "strcmp" =>
  /\ mem = old
  /\ pc = "loop" => \E k \in 0 .. SrcLen : k <= DestLen /\ At(k) /\ Common(k)
  /\ pc = "done" => \E k \in 0 .. SrcLen :
       /\ k <= DestLen /\ Common(k) /\ ret = OldDifference(k)
       /\ k = DestLen \/ old[call.d + k] # old[call.s + k]

StrncmpInv == call.fn = "strncmp" =>
  /\ mem = old
  /\ pc = "loop" => \E k \in 0 .. SrcLen :
       k <= DestLen /\ k <= call.n /\ reg.n = call.n - k /\ At(k) /\ Common(k)
  /\ pc = "done" => \E k \in 0 .. SrcLen :
       /\ k <= DestLen /\ k <= call.n /\ Common(k)
       /\ \/ k = call.n /\ ret = 0
          \/ /\ k < call.n /\ ret = OldDifference(k)
             /\ k = DestLen \/ old[call.d + k] # old[call.s + k]

MemcmpInv == call.fn = "memcmp" =>
  /\ mem = old
  /\ pc = "loop" => \E k \in 0 .. call.n : reg.n = call.n - k /\ At(k) /\ Common(k)
  /\ pc = "done" => \E k \in 0 .. call.n :
       /\ Common(k)
       /\ \/ k = call.n /\ ret = 0
          \/ k < call.n /\ ret = OldDifference(k) /\ old[call.d + k] # old[call.s + k]

LEMMA OneMoreCommon ==
  ASSUME NEW k \in Nat, Common(k), old[call.d + k] = old[call.s + k]
  PROVE  Common(k + 1)
<1>1. \A j \in 0 .. (k + 1) - 1 : j = k \/ j \in 0 .. k - 1
  OBVIOUS
<1> QED BY <1>1 DEF Common

LEMMA StrcmpTurn == ASSUME Called, StrcmpInv, Turn, call.fn = "strcmp" PROVE StrcmpInv'
<1>1. Strcmp /\ call' = call /\ old' = old /\ pc = "loop"
  BY TurnIs DEF Strcmp, Runs
<1>2. IsText(old, call.s, SrcLen) /\ IsText(old, call.d, DestLen) /\ mem = old
  BY <1>1 DEF Called, Given, SrcText, DestText, StrcmpInv
<1>3. PICK k \in 0 .. SrcLen : k <= DestLen /\ At(k) /\ Common(k)
  BY <1>1 DEF StrcmpInv
<1>4. SrcLen' = SrcLen /\ DestLen' = DestLen
      /\ \A j : (Common(j)' <=> Common(j)) /\ OldDifference(j)' = OldDifference(j)
  BY <1>1 DEF SrcLen, DestLen, Common, OldDifference
<1>5. /\ SrcLen \in Nat /\ call.s \in Nat /\ DestLen \in Nat /\ call.d \in Nat
      /\ old[call.d + k] # NUL <=> k < DestLen
      /\ old[call.s + k] # NUL <=> k < SrcLen
      /\ Alike <=> k < DestLen /\ old[call.d + k] = old[call.s + k]
      /\ Difference = OldDifference(k)
  BY <1>2, <1>3 DEF IsText, Alike, Difference, OldDifference, At
<1>6. CASE Alike
  <2>1. pc' = pc /\ mem' = mem /\ reg'.d = reg.d + 1 /\ reg'.s = reg.s + 1
    BY <1>1, <1>6 DEF Strcmp, Goes, Both, Called
  <2>2. At(k + 1)'
    BY <1>1, <1>3, <1>5, <2>1 DEF At
  <2>3. k + 1 \in 0 .. SrcLen /\ k + 1 <= DestLen /\ Common(k + 1)
    BY <1>3, <1>5, <1>6, OneMoreCommon
  <2> QED BY <1>1, <1>2, <1>4, <2>1, <2>2, <2>3 DEF StrcmpInv
<1>7. CASE ~Alike
  BY <1>1, <1>2, <1>3, <1>4, <1>5, <1>7 DEF Strcmp, Ends, StrcmpInv
<1> QED BY <1>6, <1>7

LEMMA StrncmpTurn == ASSUME Called, StrncmpInv, Turn, call.fn = "strncmp" PROVE StrncmpInv'
<1>1. Strncmp /\ call' = call /\ old' = old /\ pc = "loop"
  BY TurnIs DEF Strncmp, Runs
<1>2. IsText(old, call.s, SrcLen) /\ IsText(old, call.d, DestLen) /\ mem = old /\ call.n \in Nat
  BY <1>1 DEF Called, Given, SrcText, DestText, StrncmpInv
<1>3. PICK k \in 0 .. SrcLen : k <= DestLen /\ k <= call.n /\ reg.n = call.n - k /\ At(k) /\ Common(k)
  BY <1>1 DEF StrncmpInv
<1>4. SrcLen' = SrcLen /\ DestLen' = DestLen
      /\ \A j : (Common(j)' <=> Common(j)) /\ OldDifference(j)' = OldDifference(j)
  BY <1>1 DEF SrcLen, DestLen, Common, OldDifference
<1>5. /\ SrcLen \in Nat /\ call.s \in Nat /\ DestLen \in Nat /\ call.d \in Nat
      /\ old[call.d + k] # NUL <=> k < DestLen
      /\ old[call.s + k] # NUL <=> k < SrcLen
      /\ Alike <=> k < DestLen /\ old[call.d + k] = old[call.s + k]
      /\ Difference = OldDifference(k)
  BY <1>2, <1>3 DEF IsText, Alike, Difference, OldDifference, At
<1>6. CASE reg.n # 0 /\ Alike
  <2>1. pc' = pc /\ mem' = mem /\ reg'.d = reg.d + 1 /\ reg'.s = reg.s + 1 /\ reg'.n = reg.n - 1
    BY <1>1, <1>6 DEF Strncmp, Goes, Both, Counted, Called
  <2>2. At(k + 1)'
    BY <1>1, <1>3, <1>5, <2>1 DEF At
  <2>3. k + 1 \in 0 .. SrcLen /\ k + 1 <= DestLen /\ Common(k + 1)
    BY <1>3, <1>5, <1>6, OneMoreCommon
  <2>4. k + 1 <= call.n /\ reg'.n = call.n - (k + 1)
    BY <1>2, <1>3, <1>6, <2>1
  <2> QED BY <1>1, <1>2, <1>4, <2>1, <2>2, <2>3, <2>4 DEF StrncmpInv
<1>7. CASE reg.n = 0
  <2>1. pc' = "done" /\ mem' = mem /\ ret' = 0 /\ k = call.n
    BY <1>1, <1>2, <1>3, <1>7 DEF Strncmp, Ends
  <2> QED BY <1>1, <1>2, <1>3, <1>4, <2>1 DEF StrncmpInv
<1>8. CASE reg.n # 0 /\ ~Alike
  <2>1. pc' = "done" /\ mem' = mem /\ ret' = OldDifference(k) /\ k < call.n
    BY <1>1, <1>2, <1>3, <1>5, <1>8 DEF Strncmp, Ends
  <2> QED BY <1>1, <1>2, <1>3, <1>4, <1>5, <1>8, <2>1 DEF StrncmpInv
<1> QED BY <1>6, <1>7, <1>8

LEMMA MemcmpTurn == ASSUME Called, MemcmpInv, Turn, call.fn = "memcmp" PROVE MemcmpInv'
<1>1. Memcmp /\ call' = call /\ old' = old /\ pc = "loop"
  BY TurnIs DEF Memcmp, Runs
<1>2. call.n \in Nat /\ call.d \in Nat /\ call.s \in Nat /\ mem = old
  BY <1>1 DEF Called, Given, MemcmpInv, Fits, Address
<1>3. PICK k \in 0 .. call.n : reg.n = call.n - k /\ At(k) /\ Common(k)
  BY <1>1 DEF MemcmpInv
<1>4. \A j : (Common(j)' <=> Common(j)) /\ OldDifference(j)' = OldDifference(j)
  BY <1>1 DEF Common, OldDifference
<1>5. mem[reg.d] = old[call.d + k] /\ mem[reg.s] = old[call.s + k] /\ Difference = OldDifference(k)
  BY <1>2, <1>3 DEF Difference, OldDifference, At
<1>6. CASE reg.n # 0 /\ mem[reg.d] = mem[reg.s]
  <2>1. pc' = pc /\ mem' = mem /\ reg'.d = reg.d + 1 /\ reg'.s = reg.s + 1 /\ reg'.n = reg.n - 1
    BY <1>1, <1>6 DEF Memcmp, Goes, Both, Counted, Called
  <2>2. At(k + 1)'
    BY <1>1, <1>2, <1>3, <2>1 DEF At
  <2>3. Common(k + 1)
    <3>1. old[call.d + k] = old[call.s + k] /\ k \in Nat
      BY <1>2, <1>5, <1>6
    <3> QED BY <1>3, <3>1, OneMoreCommon
  <2>4. k + 1 \in 0 .. call.n /\ reg'.n = call.n - (k + 1)
    BY <1>2, <1>3, <1>6, <2>1
  <2> QED BY <1>1, <1>2, <1>4, <2>1, <2>2, <2>3, <2>4 DEF MemcmpInv
<1>7. CASE reg.n = 0
  <2>1. pc' = "done" /\ mem' = mem /\ ret' = 0 /\ k = call.n
    BY <1>1, <1>2, <1>3, <1>7 DEF Memcmp, Ends
  <2> QED BY <1>1, <1>2, <1>3, <1>4, <2>1 DEF MemcmpInv
<1>8. CASE reg.n # 0 /\ mem[reg.d] # mem[reg.s]
  <2>1. pc' = "done" /\ mem' = mem /\ ret' = OldDifference(k) /\ k < call.n
    BY <1>1, <1>2, <1>3, <1>5, <1>8 DEF Memcmp, Ends
  <2> QED BY <1>1, <1>2, <1>3, <1>4, <1>5, <1>8, <2>1 DEF MemcmpInv
<1> QED BY <1>6, <1>7, <1>8

CompareInv == StrcmpInv /\ StrncmpInv /\ MemcmpInv

LEMMA CompareStep == Called /\ CompareInv /\ [Next]_vars => CompareInv'
<1> SUFFICES ASSUME Called, CompareInv, [Next]_vars PROVE CompareInv'
  OBVIOUS
<1>1. CASE Call
  <2> DEFINE c == call'
  <2>1. /\ Given' /\ pc' = "loop" /\ mem' = old'
        /\ reg' = [d |-> c.d, s |-> c.s, n |-> c.n]
    BY <1>1, CallIs
  <2>2. Common(0)'
    BY DEF Common
  <2>3. ASSUME c.fn \in {"strcmp", "strncmp"}
        PROVE  0 \in 0 .. SrcLen' /\ 0 <= DestLen' /\ c.d \in Nat /\ c.s \in Nat
               /\ (c.fn = "strncmp" => c.n \in Nat)
    BY <2>1, <2>3 DEF Given, SrcText, DestText, IsText
  <2>4. ASSUME c.fn = "memcmp" PROVE c.d \in Nat /\ c.s \in Nat /\ c.n \in Nat
    BY <2>1, <2>4 DEF Given, Fits, Address
  <2>5. c.d \in Nat /\ c.s \in Nat => At(0)'
    BY <2>1 DEF At
  <2> QED BY <2>1, <2>2, <2>3, <2>4, <2>5 DEF CompareInv, StrcmpInv, StrncmpInv, MemcmpInv
<1>2. CASE Turn
  BY <1>2, StrcmpTurn, StrncmpTurn, MemcmpTurn, TurnIs DEF CompareInv, StrcmpInv, StrncmpInv, MemcmpInv
<1>3. CASE Return
  BY <1>3 DEF Return, NoCall, CompareInv, StrcmpInv, StrncmpInv, MemcmpInv
<1>4. CASE Store
  BY <1>4 DEF Store, Called, NoCall, CompareInv, StrcmpInv, StrncmpInv, MemcmpInv
<1>5. CASE UNCHANGED vars
  BY <1>5 DEF vars, CompareInv, StrcmpInv, StrncmpInv, MemcmpInv, SrcLen, DestLen, Common,
              OldDifference, At
<1> QED BY <1>1, <1>2, <1>3, <1>4, <1>5 DEF Next

Listed(t, n) == t = [i \in 1 .. n |-> t[i]]

(* Two texts that agree in k characters and no further.                    *)
LEMMA Ordered ==
  ASSUME NEW p \in Nat, NEW q \in Nat, NEW t, NEW u,
         Listed(t, p), Listed(u, q),
         \A i \in 1 .. p : t[i] \in Nat, \A i \in 1 .. q : u[i] \in Nat,
         NEW k \in Nat, k <= p, k <= q, \A i \in 1 .. k : t[i] = u[i],
         \/ k = p /\ k = q /\ ret = 0
         \/ k = p /\ k < q /\ ret \in Int /\ ret < 0
         \/ k < p /\ k = q /\ ret \in Int /\ ret > 0
         \/ k < p /\ k < q /\ t[k + 1] # u[k + 1] /\ ret = t[k + 1] - u[k + 1]
  PROVE  Compares(t, u)
<1>1. Len(t) = p /\ Len(u) = q
  BY DEF Listed
<1>2. ASSUME NEW m \in Nat, m <= p, m <= q
      PROVE  SubSeq(t, 1, m) = SubSeq(u, 1, m) <=> \A i \in 1 .. m : t[i] = u[i]
  <2> DEFINE a == SubSeq(t, 1, m)
             b == SubSeq(u, 1, m)
  <2>1. 0 + 1 = 1 /\ 0 + m = m /\ \A i \in 1 .. m : 0 + i = i
    OBVIOUS
  <2>2. SubSeq(t, 0 + 1, 0 + m) = [i \in 1 .. m |-> t[0 + i]]
    BY PartIs
  <2>3. SubSeq(u, 0 + 1, 0 + m) = [i \in 1 .. m |-> u[0 + i]]
    BY PartIs
  <2>4. a = [i \in 1 .. m |-> t[i]] /\ b = [i \in 1 .. m |-> u[i]]
    BY <2>1, <2>2, <2>3
  <2> HIDE DEF a, b
  <2>5. a = b <=> \A i \in 1 .. m : t[i] = u[i]
    BY <2>4
  <2> QED BY <2>5 DEF a, b
<1> DEFINE Less(m) == /\ m < q
                      /\ \A i \in 1 .. m : t[i] = u[i]
                      /\ m < p => t[m + 1] < u[m + 1]
<1>3. Smaller(t, u) <=> \E m \in 0 .. p : Less(m)
  <2>1. ASSUME NEW m \in 0 .. p
        PROVE  Less(m) <=> /\ m < Len(u) /\ SubSeq(t, 1, m) = SubSeq(u, 1, m)
                           /\ m < Len(t) => t[m + 1] < u[m + 1]
    <3>1. CASE m < q
      <4>1. SubSeq(t, 1, m) = SubSeq(u, 1, m) <=> \A i \in 1 .. m : t[i] = u[i]
        BY <1>2, <3>1
      <4> QED BY <1>1, <4>1
    <3>2. CASE ~(m < q)
      BY <1>1, <3>2
    <3> QED BY <3>1, <3>2
  <2> HIDE DEF Less
  <2> QED BY <1>1, <2>1 DEF Smaller
<1>4. CASE k = p /\ k = q /\ ret = 0
  <2>1. t = u
    BY <1>4 DEF Listed
  <2>2. \A m \in 0 .. p : ~Less(m)
    <3> TAKE m \in 0 .. p
    <3> SUFFICES ASSUME m < q PROVE m < p /\ ~(t[m + 1] < u[m + 1])
      OBVIOUS
    <3>1. m + 1 \in 1 .. p /\ m < p
      BY <1>4
    <3> QED BY <1>4, <3>1
  <2>3. ~Smaller(t, u)
    <3> HIDE DEF Less
    <3> QED BY <1>3, <2>2
  <2> QED BY <1>4, <2>1, <2>3 DEF Compares
<1>5. CASE k = p /\ k < q /\ ret \in Int /\ ret < 0
  <2>1. Smaller(t, u)
    BY <1>3, <1>5
  <2> QED BY <1>1, <1>5, <2>1 DEF Compares
<1>6. CASE k < p /\ k = q /\ ret \in Int /\ ret > 0
  <2>1. \A m \in 0 .. p : ~Less(m)
    <3> TAKE m \in 0 .. p
    <3> SUFFICES ASSUME m < q PROVE m < p /\ ~(t[m + 1] < u[m + 1])
      OBVIOUS
    <3>1. m + 1 \in 1 .. k /\ m + 1 \in 1 .. p /\ m + 1 \in 1 .. q /\ m < p
      BY <1>6
    <3> QED BY <3>1
  <2>2. ~Smaller(t, u)
    <3> HIDE DEF Less
    <3> QED BY <1>3, <2>1
  <2> QED BY <1>1, <1>6, <2>2 DEF Compares
<1>7. CASE k < p /\ k < q /\ t[k + 1] # u[k + 1] /\ ret = t[k + 1] - u[k + 1]
  <2>1. k + 1 \in 1 .. p /\ k + 1 \in 1 .. q /\ k \in 0 .. p
    BY <1>7
  <2>2. t[k + 1] \in Nat /\ u[k + 1] \in Nat /\ t # u
    BY <1>7, <2>1
  <2>3. ASSUME t[k + 1] < u[k + 1] PROVE Smaller(t, u)
    BY <1>3, <1>7, <2>1, <2>3
  <2>4. ASSUME NEW m \in 0 .. p, Less(m)
        PROVE  t[k + 1] < u[k + 1]
    <3>1. CASE m < k
      <4>1. m + 1 \in 1 .. k /\ m + 1 \in 1 .. p /\ m + 1 \in 1 .. q /\ m < p
        BY <1>7, <3>1
      <4> QED BY <2>4, <4>1
    <3>2. CASE m > k
      <4>1. k + 1 \in 1 .. m
        BY <3>2
      <4> QED BY <1>7, <2>4, <4>1
    <3>3. CASE m = k
      BY <1>7, <2>4, <3>3
    <3> QED BY <3>1, <3>2, <3>3
  <2>5. Smaller(t, u) <=> t[k + 1] < u[k + 1]
    <3> HIDE DEF Less
    <3> QED BY <1>3, <2>3, <2>4
  <2> QED BY <1>7, <2>2, <2>5 DEF Compares
<1> QED BY <1>4, <1>5, <1>6, <1>7

(* t is the n bytes from a on.                                             *)
Reads(t, a, n) ==
  /\ Listed(t, n) /\ n \in Nat
  /\ \A i \in 0 .. n - 1 : t[i + 1] = old[a + i] /\ old[a + i] \in Nat

LEMMA OldBytes ==
  ASSUME old \in Memories
  PROVE  \A a \in Address : old[a] \in 0 .. 255
<1>1. old \in [0 .. SIZE - 1 -> 0 .. 255]
  BY StringsAssumption
<1> QED BY <1>1 DEF Address

LEMMA ReadsText ==
  ASSUME old \in Memories, NEW a, IsText(old, a, StrLen(old, a))
  PROVE  Reads(Str(old, a), a, StrLen(old, a)) /\ Len(Str(old, a)) = StrLen(old, a)
<1> DEFINE n == StrLen(old, a)
           t == Str(old, a)
<1>1. /\ Len(t) = n /\ t = [k \in 1 .. n |-> old[a + k - 1]]
      /\ \A k \in 0 .. n - 1 : t[k + 1] = old[a + k]
  BY StrIs
<1>2. n \in Nat /\ a \in Nat /\ a + n < SIZE
  BY DEF IsText
<1>3. \A k \in 0 .. n - 1 : a + k \in Address
  BY <1>2, SizeIs DEF Address
<1>4. \A k \in 0 .. n - 1 : old[a + k] \in Nat
  BY <1>3, OldBytes
<1> HIDE DEF n, t
<1>5. Listed(t, n)
  BY <1>1 DEF Listed
<1>6. Reads(t, a, n)
  BY <1>1, <1>2, <1>4, <1>5 DEF Reads
<1> QED BY <1>1, <1>6 DEF n, t

LEMMA ReadsBegin ==
  ASSUME NEW t, NEW a, NEW p \in Nat, Reads(t, a, p), Len(t) = p, NEW n \in Nat
  PROVE  Reads(Begin(t, n), a, IF n < p THEN n ELSE p)
<1> DEFINE m == IF n < p THEN n ELSE p
           b == Begin(t, n)
<1>1. m \in Nat /\ m <= p
  OBVIOUS
<1> HIDE DEF m
<1>2. SubSeq(t, 0 + 1, 0 + m) = [i \in 1 .. m |-> t[0 + i]]
  BY <1>1, PartIs
<1>3. 0 + 1 = 1 /\ 0 + m = m /\ \A i \in 1 .. m : 0 + i = i
  BY <1>1
<1>4. b = SubSeq(t, 1, m)
  BY DEF Begin, m
<1>5. b = [i \in 1 .. m |-> t[i]]
  BY <1>2, <1>3, <1>4
<1> HIDE DEF b
<1>6. Listed(b, m)
  BY <1>5 DEF Listed
<1>7. ASSUME NEW i \in 0 .. m - 1 PROVE b[i + 1] = old[a + i] /\ old[a + i] \in Nat
  <2>1. i + 1 \in 1 .. m /\ i \in 0 .. p - 1
    BY <1>1
  <2>2. t[i + 1] = old[a + i] /\ old[a + i] \in Nat
    BY <2>1 DEF Reads
  <2> QED BY <1>5, <2>1, <2>2
<1>8. Reads(b, a, m)
  BY <1>1, <1>6, <1>7 DEF Reads
<1> QED BY <1>8 DEF b, m

LEMMA ReadsBytes ==
  ASSUME old \in Memories, NEW a \in Nat, NEW n \in Nat, a + n <= SIZE
  PROVE  Reads(Bytes(a, n), a, n)
<1> DEFINE b == Bytes(a, n)
<1>1. b = [k \in 1 .. n |-> old[a + k - 1]]
  BY DEF Bytes
<1> HIDE DEF b
<1>2. Listed(b, n)
  BY <1>1 DEF Listed
<1>3. ASSUME NEW i \in 0 .. n - 1 PROVE b[i + 1] = old[a + i] /\ old[a + i] \in Nat
  <2>1. i \in Nat /\ i + 1 \in 1 .. n /\ i < n
    OBVIOUS
  <2>2. a + (i + 1) - 1 = a + i
    BY <2>1
  <2>3. a + i \in Address
    BY <2>1, SizeIs DEF Address
  <2>4. old[a + i] \in Nat
    BY <2>3, OldBytes
  <2>5. b[i + 1] = old[a + (i + 1) - 1]
    BY <1>1, <2>1
  <2> QED BY <2>2, <2>4, <2>5
<1>4. Reads(b, a, n)
  BY <1>2, <1>3 DEF Reads
<1> QED BY <1>4 DEF b

(* What a comparison returns that stopped after k bytes.                   *)
LEMMA StoppedAt ==
  ASSUME NEW p, NEW q, NEW t, NEW u, Reads(t, call.d, p), Reads(u, call.s, q),
         NEW k \in Nat, k <= p, k <= q, Common(k),
         \/ k = p /\ k = q /\ ret = 0
         \/ k = p /\ k < q /\ ret \in Int /\ ret < 0
         \/ k < p /\ k = q /\ ret \in Int /\ ret > 0
         \/ k < p /\ k < q /\ old[call.d + k] # old[call.s + k] /\ ret = OldDifference(k)
  PROVE  Compares(t, u)
<1>1. p \in Nat /\ q \in Nat /\ Listed(t, p) /\ Listed(u, q)
  BY DEF Reads
<1>2. \A i \in 0 .. p - 1 : t[i + 1] = old[call.d + i] /\ t[i + 1] \in Nat
  BY DEF Reads
<1>3. \A i \in 0 .. q - 1 : u[i + 1] = old[call.s + i] /\ u[i + 1] \in Nat
  BY DEF Reads
<1>4. \A i \in 1 .. p : t[i] \in Nat
  <2> TAKE i \in 1 .. p
  <2>1. i - 1 \in 0 .. p - 1 /\ (i - 1) + 1 = i
    BY <1>1
  <2> QED BY <1>2, <2>1
<1>5. \A i \in 1 .. q : u[i] \in Nat
  <2> TAKE i \in 1 .. q
  <2>1. i - 1 \in 0 .. q - 1 /\ (i - 1) + 1 = i
    BY <1>1
  <2> QED BY <1>3, <2>1
<1>6. \A i \in 1 .. k : t[i] = u[i]
  <2> TAKE i \in 1 .. k
  <2>1. i - 1 \in 0 .. p - 1 /\ i - 1 \in 0 .. q - 1 /\ i - 1 \in 0 .. k - 1 /\ (i - 1) + 1 = i
    BY <1>1
  <2>2. old[call.d + (i - 1)] = old[call.s + (i - 1)]
    BY <2>1 DEF Common
  <2> QED BY <1>2, <1>3, <2>1, <2>2
<1>7. k < p /\ k < q => t[k + 1] = old[call.d + k] /\ u[k + 1] = old[call.s + k]
  BY <1>1, <1>2, <1>3
<1>8. \/ k = p /\ k = q /\ ret = 0
      \/ k = p /\ k < q /\ ret \in Int /\ ret < 0
      \/ k < p /\ k = q /\ ret \in Int /\ ret > 0
      \/ k < p /\ k < q /\ t[k + 1] # u[k + 1] /\ ret = t[k + 1] - u[k + 1]
  BY <1>7 DEF OldDifference
<1> QED BY <1>1, <1>4, <1>5, <1>6, <1>8, Ordered

(* A text compared with a text, of which at most n characters count.       *)
LEMMA TextsCompared ==
  ASSUME old \in Memories, SrcText, DestText, NEW k \in Nat, k <= SrcLen, k <= DestLen, Common(k),
         ret = OldDifference(k), k = DestLen \/ old[call.d + k] # old[call.s + k]
  PROVE  \/ k = DestLen /\ k = SrcLen /\ ret = 0
         \/ k = DestLen /\ k < SrcLen /\ ret \in Int /\ ret < 0
         \/ k < DestLen /\ k = SrcLen /\ ret \in Int /\ ret > 0
         \/ k < DestLen /\ k < SrcLen /\ old[call.d + k] # old[call.s + k] /\ ret = OldDifference(k)
<1>1. /\ SrcLen \in Nat /\ call.s \in Nat /\ call.s + SrcLen < SIZE
      /\ DestLen \in Nat /\ call.d \in Nat /\ call.d + DestLen < SIZE
      /\ old[call.s + k] = 0 <=> k = SrcLen
      /\ old[call.d + k] = 0 <=> k = DestLen
  BY DEF SrcText, DestText, IsText, NUL
<1>2. old[call.d + k] \in 0 .. 255 /\ old[call.s + k] \in 0 .. 255
  <2>1. call.d + k \in Address /\ call.s + k \in Address
    BY <1>1, SizeIs DEF Address
  <2> QED BY <2>1, OldBytes
<1> DEFINE x == old[call.d + k]
           y == old[call.s + k]
<1>3. /\ x \in 0 .. 255 /\ y \in 0 .. 255 /\ ret = x - y
      /\ y = 0 <=> k = SrcLen
      /\ x = 0 <=> k = DestLen
      /\ k = DestLen \/ x # y
  BY <1>1, <1>2 DEF OldDifference
<1> HIDE DEF x, y
<1>4. CASE k = DestLen
  BY <1>1, <1>3, <1>4
<1>5. CASE k < DestLen /\ k = SrcLen
  BY <1>3, <1>5
<1>6. CASE k < DestLen /\ k < SrcLen
  BY <1>3, <1>6 DEF x, y
<1> QED BY <1>1, <1>4, <1>5, <1>6

LEMMA StrcmpDone ==
  ASSUME old \in Memories, SrcText, DestText, StrcmpInv, Done("strcmp")
  PROVE  Compares(Dest, Src)
<1>1. Reads(Src, call.s, SrcLen) /\ Reads(Dest, call.d, DestLen) /\ SrcLen \in Nat
  BY ReadsText DEF SrcText, DestText, Src, Dest, SrcLen, DestLen, IsText
<1>2. PICK k \in 0 .. SrcLen :
       /\ k <= DestLen /\ Common(k) /\ ret = OldDifference(k)
       /\ k = DestLen \/ old[call.d + k] # old[call.s + k]
  BY DEF StrcmpInv, Done
<1>3. k \in Nat /\ k <= SrcLen
  BY <1>1
<1>4. \/ k = DestLen /\ k = SrcLen /\ ret = 0
      \/ k = DestLen /\ k < SrcLen /\ ret \in Int /\ ret < 0
      \/ k < DestLen /\ k = SrcLen /\ ret \in Int /\ ret > 0
      \/ k < DestLen /\ k < SrcLen /\ old[call.d + k] # old[call.s + k] /\ ret = OldDifference(k)
  BY <1>2, <1>3, TextsCompared
<1> QED BY <1>1, <1>2, <1>3, <1>4, StoppedAt

LEMMA StrncmpDone ==
  ASSUME old \in Memories, SrcText, DestText, call.n \in Nat, StrncmpInv, Done("strncmp")
  PROVE  Compares(Begin(Dest, call.n), Begin(Src, call.n))
<1> DEFINE p == IF call.n < DestLen THEN call.n ELSE DestLen
           q == IF call.n < SrcLen THEN call.n ELSE SrcLen
<1>1. /\ Reads(Src, call.s, SrcLen) /\ Len(Src) = SrcLen /\ SrcLen \in Nat
      /\ Reads(Dest, call.d, DestLen) /\ Len(Dest) = DestLen /\ DestLen \in Nat
  BY ReadsText DEF SrcText, DestText, Src, Dest, SrcLen, DestLen, IsText
<1>2. Reads(Begin(Src, call.n), call.s, q) /\ Reads(Begin(Dest, call.n), call.d, p)
  BY <1>1, ReadsBegin
<1>3. PICK k \in 0 .. SrcLen :
       /\ k <= DestLen /\ k <= call.n /\ Common(k)
       /\ \/ k = call.n /\ ret = 0
          \/ /\ k < call.n /\ ret = OldDifference(k)
             /\ k = DestLen \/ old[call.d + k] # old[call.s + k]
  BY DEF StrncmpInv, Done
<1>4. k \in Nat /\ k <= SrcLen /\ k <= p /\ k <= q
  BY <1>1, <1>3
<1>5. CASE k = call.n /\ ret = 0
  <2>1. k = p /\ k = q
    BY <1>1, <1>3, <1>5
  <2> HIDE DEF p, q
  <2> QED BY <1>2, <1>3, <1>4, <1>5, <2>1, StoppedAt
<1>6. CASE /\ k < call.n /\ ret = OldDifference(k)
           /\ k = DestLen \/ old[call.d + k] # old[call.s + k]
  <2>1. \/ k = DestLen /\ k = SrcLen /\ ret = 0
        \/ k = DestLen /\ k < SrcLen /\ ret \in Int /\ ret < 0
        \/ k < DestLen /\ k = SrcLen /\ ret \in Int /\ ret > 0
        \/ k < DestLen /\ k < SrcLen /\ old[call.d + k] # old[call.s + k] /\ ret = OldDifference(k)
    BY <1>3, <1>4, <1>6, TextsCompared
  <2>2. (k = DestLen <=> k = p) /\ (k = SrcLen <=> k = q) /\ (k < DestLen <=> k < p) /\ (k < SrcLen <=> k < q)
    BY <1>1, <1>3, <1>4, <1>6
  <2> HIDE DEF p, q
  <2> QED BY <1>2, <1>3, <1>4, <2>1, <2>2, StoppedAt
<1> QED BY <1>3, <1>5, <1>6

LEMMA MemcmpDone ==
  ASSUME old \in Memories, Fits(call), MemcmpInv, Done("memcmp")
  PROVE  Compares(Bytes(call.d, call.n), Bytes(call.s, call.n))
<1>1. call.d \in Nat /\ call.s \in Nat /\ call.n \in Nat /\ call.d + call.n <= SIZE /\ call.s + call.n <= SIZE
  BY DEF Fits, Address
<1>2. Reads(Bytes(call.d, call.n), call.d, call.n) /\ Reads(Bytes(call.s, call.n), call.s, call.n)
  BY <1>1, ReadsBytes
<1>3. PICK k \in 0 .. call.n :
       /\ Common(k)
       /\ \/ k = call.n /\ ret = 0
          \/ k < call.n /\ ret = OldDifference(k) /\ old[call.d + k] # old[call.s + k]
  BY DEF MemcmpInv, Done
<1>4. k \in Nat /\ k <= call.n
  BY <1>1
<1> QED BY <1>2, <1>3, <1>4, StoppedAt

(* strcmp, strncmp and memcmp return 0 for equal texts or regions alone,   *)
(* and a negative number for the smaller one (string.c:22-45,              *)
(* memory.c:232-246).                                                      *)
THEOREM ComparisonsOrder == Spec => []ComparisonsSpecified
<1>1. Init => Called /\ CompareInv
  BY CalledInit DEF Init, NoCall, CompareInv, StrcmpInv, StrncmpInv, MemcmpInv
<1>2. Called /\ CompareInv => ComparisonsSpecified
  <2> SUFFICES ASSUME Called, CompareInv, pc = "done" PROVE ComparisonsSpecified
    BY DEF ComparisonsSpecified, Done
  <2>1. Given
    BY DEF Called
  <2>2. Done("strcmp") => Same /\ SrcText /\ DestText
    BY <2>1 DEF Given, Done, Same, CompareInv, StrcmpInv
  <2>3. Done("strncmp") => Same /\ SrcText /\ DestText /\ call.n \in Nat
    BY <2>1 DEF Given, Done, Same, CompareInv, StrncmpInv
  <2>4. Done("memcmp") => Same /\ Fits(call)
    BY <2>1 DEF Given, Done, Same, CompareInv, MemcmpInv
  <2>5. old \in Memories
    BY <2>1 DEF Given
  <2> QED BY <2>2, <2>3, <2>4, <2>5, StrcmpDone, StrncmpDone, MemcmpDone
          DEF ComparisonsSpecified, CompareInv
<1> QED BY <1>1, <1>2, CalledStep, CompareStep, PTL DEF Spec

-----------------------------------------------------------------------------
(* Copies                                                                  *)

(* The first j characters of the text are at d; the rest is as it was.     *)
UpTo(m, text, d, j) ==
  m = [b \in Address |-> IF b - d \in 0 .. j - 1 THEN text[b - d + 1] ELSE old[b]]

LEMMA NothingYet ==
  ASSUME NEW text, NEW d \in Int, old = [a \in Address |-> old[a]]
  PROVE  UpTo(old, text, d, 0)
BY DEF UpTo

LEMMA PutsNext ==
  ASSUME NEW m, NEW text, NEW d \in Nat, NEW j \in Nat, d + j < SIZE, UpTo(m, text, d, j)
  PROVE  UpTo([m EXCEPT ![d + j] = text[j + 1]], text, d, j + 1)
<1> DEFINE p == [m EXCEPT ![d + j] = text[j + 1]]
<1>1. d + j \in Address /\ Address \subseteq Int
  BY SizeIs DEF Address
<1>2. m = [b \in Address |-> m[b]]
      /\ \A b \in Address : m[b] = IF b - d \in 0 .. j - 1 THEN text[b - d + 1] ELSE old[b]
  BY DEF UpTo
<1>3. p = [b \in Address |-> p[b]]
  BY <1>2
<1>4. ASSUME NEW b \in Address
      PROVE  p[b] = IF b - d \in 0 .. (j + 1) - 1 THEN text[b - d + 1] ELSE old[b]
  <2>1. CASE b = d + j
    <3>1. p[b] = text[j + 1]
      BY <1>1, <1>2, <2>1
    <3>2. b - d = j /\ b - d \in 0 .. (j + 1) - 1
      BY <2>1
    <3> HIDE DEF p
    <3> QED BY <3>1, <3>2
  <2>2. CASE b # d + j
    <3>1. p[b] = m[b]
      BY <1>1, <1>2, <2>2
    <3>2. b - d \in 0 .. (j + 1) - 1 <=> b - d \in 0 .. j - 1
      BY <1>1, <2>2
    <3> HIDE DEF p
    <3> QED BY <1>2, <3>1, <3>2
  <2> QED BY <2>1, <2>2
<1> HIDE DEF p
<1>5. UpTo(p, text, d, j + 1)
  BY <1>3, <1>4 DEF UpTo
<1> QED BY <1>5 DEF p

LEMMA StillOld ==
  ASSUME NEW m, NEW text, NEW d \in Nat, NEW j \in Nat, UpTo(m, text, d, j),
         NEW b \in Address, b < d \/ d + j <= b
  PROVE  m[b] = old[b]
<1>1. b \in Int
  BY SizeIs DEF Address
<1>2. ~ (b - d \in 0 .. j - 1)
  BY <1>1
<1> QED BY <1>2 DEF UpTo

(* What the copies write.                                                  *)
StrcpyText  == Append(Src, NUL)
StrcatText  == Append(Dest \o Src, NUL)
StrncpyText == IF Len(Src) < call.n THEN Src \o [k \in 1 .. call.n + 1 - Len(Src) |-> NUL]
                                    ELSE Begin(Src, call.n)
MemcpyText  == Bytes(call.s, call.n)
MemsetText  == [k \in 1 .. call.n |-> call.s]

LEMMA ReadsSeq ==
  ASSUME NEW t, NEW a, NEW n, Reads(t, a, n)
  PROVE  t \in Seq(Nat) /\ Len(t) = n /\ n \in Nat /\ \A i \in 0 .. n - 1 : t[i + 1] = old[a + i]
<1>1. n \in Nat /\ t = [i \in 1 .. n |-> t[i]] /\ \A i \in 0 .. n - 1 : t[i + 1] = old[a + i] /\ old[a + i] \in Nat
  BY DEF Reads, Listed
<1>2. \A i \in 1 .. n : t[i] \in Nat
  <2> TAKE i \in 1 .. n
  <2>1. i - 1 \in 0 .. n - 1 /\ (i - 1) + 1 = i
    BY <1>1
  <2> QED BY <1>1, <2>1
<1>3. t \in [1 .. n -> Nat]
  BY <1>1, <1>2
<1>4. t \in Seq(Nat) /\ Len(t) = n
  BY <1>1, <1>3
<1> QED BY <1>1, <1>4

LEMMA SrcIs ==
  ASSUME old \in Memories, SrcText
  PROVE  /\ Src \in Seq(Nat) /\ Len(Src) = SrcLen /\ SrcLen \in Nat /\ call.s \in Nat
         /\ call.s + SrcLen < SIZE
         /\ \A i \in 0 .. SrcLen - 1 : Src[i + 1] = old[call.s + i] /\ old[call.s + i] # NUL
         /\ old[call.s + SrcLen] = NUL
BY ReadsText, ReadsSeq DEF SrcText, Src, SrcLen, IsText

LEMMA DestIs ==
  ASSUME old \in Memories, DestText
  PROVE  /\ Dest \in Seq(Nat) /\ Len(Dest) = DestLen /\ DestLen \in Nat /\ call.d \in Nat
         /\ call.d + DestLen < SIZE
         /\ \A i \in 0 .. DestLen - 1 : Dest[i + 1] = old[call.d + i] /\ old[call.d + i] # NUL
         /\ old[call.d + DestLen] = NUL
BY ReadsText, ReadsSeq DEF DestText, Dest, DestLen, IsText

LEMMA StrcpyTextIs ==
  ASSUME old \in Memories, SrcText
  PROVE  Len(StrcpyText) = SrcLen + 1 /\ \A i \in 0 .. SrcLen : StrcpyText[i + 1] = old[call.s + i]
<1> DEFINE t == StrcpyText
<1>1. /\ Src \in Seq(Nat) /\ Len(Src) = SrcLen /\ SrcLen \in Nat
      /\ \A i \in 0 .. SrcLen - 1 : Src[i + 1] = old[call.s + i]
      /\ old[call.s + SrcLen] = NUL /\ NUL \in Nat
  BY SrcIs DEF NUL
<1>2. Len(t) = SrcLen + 1 /\ (\A i \in 1 .. SrcLen : t[i] = Src[i]) /\ t[SrcLen + 1] = NUL
  BY <1>1, AppendProperties DEF StrcpyText
<1> HIDE DEF t
<1>3. \A i \in 0 .. SrcLen : t[i + 1] = old[call.s + i]
  <2> TAKE i \in 0 .. SrcLen
  <2>1. i = SrcLen \/ (i \in 0 .. SrcLen - 1 /\ i + 1 \in 1 .. SrcLen)
    BY <1>1
  <2> QED BY <1>1, <1>2, <2>1
<1> QED BY <1>2, <1>3 DEF t

LEMMA StrcatTextIs ==
  ASSUME old \in Memories, SrcText, DestText
  PROVE  /\ Len(StrcatText) = DestLen + SrcLen + 1
         /\ \A i \in 0 .. DestLen - 1 : StrcatText[i + 1] = old[call.d + i]
         /\ \A i \in 0 .. SrcLen : StrcatText[(DestLen + i) + 1] = old[call.s + i]
<1> DEFINE t == StrcatText
           c == Dest \o Src
<1>1. /\ Src \in Seq(Nat) /\ Len(Src) = SrcLen /\ SrcLen \in Nat
      /\ \A i \in 0 .. SrcLen - 1 : Src[i + 1] = old[call.s + i]
      /\ old[call.s + SrcLen] = NUL /\ NUL \in Nat
  BY SrcIs DEF NUL
<1>2. /\ Dest \in Seq(Nat) /\ Len(Dest) = DestLen /\ DestLen \in Nat
      /\ \A i \in 0 .. DestLen - 1 : Dest[i + 1] = old[call.d + i]
  BY DestIs
<1>3. /\ c \in Seq(Nat) /\ Len(c) = DestLen + SrcLen
      /\ \A i \in 1 .. DestLen + SrcLen : c[i] = IF i <= DestLen THEN Dest[i] ELSE Src[i - DestLen]
  BY <1>1, <1>2, ConcatProperties
<1> HIDE DEF c
<1>4. Len(t) = DestLen + SrcLen + 1 /\ (\A i \in 1 .. DestLen + SrcLen : t[i] = c[i])
      /\ t[DestLen + SrcLen + 1] = NUL
  BY <1>1, <1>3, AppendProperties DEF StrcatText, c
<1> HIDE DEF t
<1>5. \A i \in 0 .. DestLen - 1 : t[i + 1] = old[call.d + i]
  <2> TAKE i \in 0 .. DestLen - 1
  <2>1. i + 1 \in 1 .. DestLen + SrcLen /\ i + 1 <= DestLen
    BY <1>1, <1>2
  <2> QED BY <1>2, <1>3, <1>4, <2>1
<1>6. \A i \in 0 .. SrcLen : t[(DestLen + i) + 1] = old[call.s + i]
  <2> TAKE i \in 0 .. SrcLen
  <2>1. CASE i = SrcLen
    BY <1>1, <1>4, <2>1
  <2>2. CASE i # SrcLen
    <3> DEFINE j == (DestLen + i) + 1
    <3>1. /\ i \in 0 .. SrcLen - 1 /\ j \in 1 .. DestLen + SrcLen
          /\ ~ (j <= DestLen) /\ j - DestLen = i + 1
      BY <1>1, <1>2, <2>2
    <3> HIDE DEF j
    <3>2. c[j] = Src[i + 1]
      BY <1>3, <3>1
    <3>3. t[j] = old[call.s + i]
      BY <1>1, <1>4, <3>1, <3>2
    <3> QED BY <3>3 DEF j
  <2> QED BY <2>1, <2>2
<1> QED BY <1>4, <1>5, <1>6 DEF t

LEMMA StrncpyTextIs ==
  ASSUME old \in Memories, SrcText, call.n \in Nat
  PROVE  /\ Len(StrncpyText) = IF SrcLen < call.n THEN call.n + 1 ELSE call.n
         /\ \A i \in 0 .. SrcLen - 1 : i < call.n => StrncpyText[i + 1] = old[call.s + i]
         /\ \A i \in SrcLen .. call.n : SrcLen < call.n => StrncpyText[i + 1] = NUL
<1> DEFINE t == StrncpyText
           n == call.n
<1>1. /\ Src \in Seq(Nat) /\ Len(Src) = SrcLen /\ SrcLen \in Nat
      /\ \A i \in 0 .. SrcLen - 1 : Src[i + 1] = old[call.s + i]
  BY SrcIs
<1>2. CASE SrcLen < n
  <2> DEFINE z == [k \in 1 .. n + 1 - SrcLen |-> NUL]
  <2>1. z \in Seq(Nat) /\ Len(z) = n + 1 - SrcLen /\ \A k \in 1 .. n + 1 - SrcLen : z[k] = NUL
    <3>1. n + 1 - SrcLen \in Nat /\ NUL \in Nat
      BY <1>1, <1>2 DEF NUL
    <3> QED BY <3>1
  <2>2. t = Src \o z
    BY <1>1, <1>2 DEF StrncpyText
  <2> HIDE DEF z, t
  <2>3. /\ Len(t) = SrcLen + (n + 1 - SrcLen)
        /\ \A i \in 1 .. SrcLen + (n + 1 - SrcLen) : t[i] = IF i <= SrcLen THEN Src[i] ELSE z[i - SrcLen]
    BY <1>1, <2>1, <2>2, ConcatProperties
  <2>4. SrcLen + (n + 1 - SrcLen) = n + 1
    BY <1>1
  <2>5. Len(t) = n + 1
    BY <2>3, <2>4
  <2>6. ASSUME NEW i \in 0 .. SrcLen - 1 PROVE t[i + 1] = old[call.s + i]
    <3>1. i + 1 \in 1 .. n + 1 /\ i + 1 <= SrcLen
      BY <1>1, <1>2
    <3> QED BY <1>1, <2>3, <2>4, <3>1
  <2>7. ASSUME NEW i \in SrcLen .. n PROVE t[i + 1] = NUL
    <3> DEFINE j == i + 1
    <3>1. j \in 1 .. n + 1 /\ ~ (j <= SrcLen) /\ j - SrcLen \in 1 .. n + 1 - SrcLen
      BY <1>1, <1>2
    <3> HIDE DEF j
    <3>2. t[j] = NUL
      BY <2>1, <2>3, <2>4, <3>1
    <3> QED BY <3>2 DEF j
  <2> QED BY <1>2, <2>5, <2>6, <2>7 DEF t
<1>3. CASE ~(SrcLen < n)
  <2>1. t = SubSeq(Src, 1, n)
    <3>1. (IF n < Len(Src) THEN n ELSE Len(Src)) = n
      BY <1>1, <1>3
    <3> QED BY <1>1, <1>3, <3>1 DEF StrncpyText, Begin
  <2>2. /\ SubSeq(Src, 0 + 1, 0 + n) = [i \in 1 .. n |-> Src[0 + i]]
        /\ Len(SubSeq(Src, 0 + 1, 0 + n)) = n
    BY PartIs
  <2>3. 0 + 1 = 1 /\ 0 + n = n /\ \A i \in 1 .. n : 0 + i = i
    OBVIOUS
  <2>4. t = [i \in 1 .. n |-> Src[i]] /\ Len(t) = n
    BY <2>1, <2>2, <2>3
  <2> HIDE DEF t
  <2>5. ASSUME NEW i \in 0 .. SrcLen - 1, i < n PROVE t[i + 1] = old[call.s + i]
    <3>1. i + 1 \in 1 .. n
      BY <2>5, <1>1
    <3> QED BY <1>1, <2>4, <3>1
  <2> QED BY <1>3, <2>4, <2>5 DEF t
<1> HIDE DEF t
<1> QED BY <1>2, <1>3 DEF t

StrcpyInv == call.fn = "strcpy" =>
  /\ pc = "loop" => \E k \in 0 .. SrcLen : At(k) /\ UpTo(mem, StrcpyText, call.d, k)
  /\ pc = "done" => ret = call.d /\ UpTo(mem, StrcpyText, call.d, SrcLen + 1)

StrcatInv == call.fn = "strcat" =>
  /\ pc = "loop" => mem = old /\ reg.s = call.s /\ \E k \in 0 .. DestLen : reg.d = call.d + k
  /\ pc = "copy" => \E k \in 0 .. SrcLen :
       /\ reg.d = call.d + (DestLen + k) /\ reg.s = call.s + k
       /\ UpTo(mem, StrcatText, call.d, DestLen + k)
  /\ pc = "done" => ret = call.d /\ UpTo(mem, StrcatText, call.d, DestLen + SrcLen + 1)

(* While it fills, what is left to write are NULs.                         *)
StrncpyInv == call.fn = "strncpy" =>
  /\ pc = "loop" => \E k \in 0 .. SrcLen :
       k <= call.n /\ reg.n = call.n - k /\ At(k) /\ UpTo(mem, StrncpyText, call.d, k)
  /\ pc = "fill" => \E k \in 0 .. Len(StrncpyText) :
       /\ reg.n = Len(StrncpyText) - k /\ reg.d = call.d + k
       /\ UpTo(mem, StrncpyText, call.d, k)
       /\ reg.n # 0 => SrcLen < call.n /\ SrcLen < k
  /\ pc = "done" => ret = call.d /\ UpTo(mem, StrncpyText, call.d, Len(StrncpyText))

MemcpyInv == call.fn = "memcpy" =>
  /\ pc = "loop" => \E k \in 0 .. call.n :
       reg.n = call.n - k /\ At(k) /\ UpTo(mem, MemcpyText, call.d, k)
  /\ pc = "done" => ret = call.d /\ UpTo(mem, MemcpyText, call.d, call.n)

MemsetInv == call.fn = "memset" =>
  /\ pc = "loop" => \E k \in 0 .. call.n :
       /\ reg.n = call.n - k /\ reg.d = call.d + k /\ reg.s = call.s
       /\ UpTo(mem, MemsetText, call.d, k)
  /\ pc = "done" => ret = call.d /\ UpTo(mem, MemsetText, call.d, call.n)

(* What is copied has not been overwritten.                                *)
LEMMA SourceStays ==
  ASSUME NEW text, NEW x \in Nat, NEW y \in Nat, NEW d \in Nat, NEW s \in Nat, Apart(d, x, s, y),
         NEW j \in Nat, j <= x, NEW k \in Nat, k < y, s + k < SIZE, UpTo(mem, text, d, j)
  PROVE  mem[s + k] = old[s + k]
<1>1. s + k \in Address
  BY SizeIs DEF Address
<1>2. s + k < d \/ d + j <= s + k
  BY DEF Apart
<1> DEFINE b == s + k
<1>3. b \in Address /\ (b < d \/ d + j <= b)
  BY <1>1, <1>2
<1> HIDE DEF b
<1>4. mem[b] = old[b]
  BY <1>3, StillOld
<1> QED BY <1>4 DEF b

LEMMA StrcpyTurn == ASSUME Called, StrcpyInv, Turn, call.fn = "strcpy" PROVE StrcpyInv'
<1>1. Strcpy /\ call' = call /\ old' = old /\ pc = "loop"
  BY TurnIs DEF Strcpy, Runs
<1>2. /\ old \in Memories /\ SrcText /\ call.d \in Nat /\ call.d + (SrcLen + 1) <= SIZE
      /\ Apart(call.d, SrcLen + 1, call.s, SrcLen + 1)
  BY <1>1 DEF Called, Given
<1>3. PICK k \in 0 .. SrcLen : At(k) /\ UpTo(mem, StrcpyText, call.d, k)
  BY <1>1 DEF StrcpyInv
<1>4. SrcLen' = SrcLen /\ StrcpyText' = StrcpyText
      /\ \A t, d, j : UpTo(mem, t, d, j)' <=> UpTo(mem', t, d, j)
  BY <1>1 DEF SrcLen, StrcpyText, Src, UpTo
<1>5. /\ SrcLen \in Nat /\ call.s \in Nat /\ call.s + SrcLen < SIZE
      /\ old[call.s + k] = NUL <=> k = SrcLen
  BY <1>2, SrcIs
<1>6. k \in Nat /\ k <= SrcLen + 1 /\ k < SrcLen + 1 /\ call.s + k < SIZE /\ call.d + k < SIZE
      /\ SrcLen + 1 \in Nat
  BY <1>2, <1>5, SizeIs
<1>7. mem[call.s + k] = old[call.s + k]
  BY <1>2, <1>3, <1>5, <1>6, SourceStays
<1>8. StrcpyText[k + 1] = old[call.s + k]
  BY <1>2, StrcpyTextIs
<1>9. mem' = [mem EXCEPT ![call.d + k] = StrcpyText[k + 1]]
  BY <1>1, <1>3, <1>7, <1>8 DEF Strcpy, CopyString, Puts, At
<1>10. UpTo(mem', StrcpyText, call.d, k + 1)
  BY <1>2, <1>3, <1>6, <1>9, PutsNext
<1>11. reg'.d = reg.d + 1 /\ reg'.s = reg.s + 1
  BY <1>1 DEF Strcpy, CopyString, Both, Called
<1>12. CASE k = SrcLen
  <2>1. pc' = "done" /\ ret' = call.d
    BY <1>1, <1>3, <1>5, <1>7, <1>12 DEF Strcpy, CopyString, At
  <2> QED BY <1>1, <1>4, <1>10, <1>12, <2>1 DEF StrcpyInv
<1>13. CASE k # SrcLen
  <2>1. pc' = pc
    BY <1>1, <1>3, <1>5, <1>7, <1>13 DEF Strcpy, CopyString, At
  <2>2. At(k + 1)' /\ k + 1 \in 0 .. SrcLen
    BY <1>1, <1>2, <1>3, <1>5, <1>11, <1>13 DEF At
  <2> QED BY <1>1, <1>4, <1>10, <2>1, <2>2 DEF StrcpyInv
<1> QED BY <1>12, <1>13

LEMMA StrcatTurn == ASSUME Called, StrcatInv, Turn, call.fn = "strcat" PROVE StrcatInv'
<1>1. Strcat /\ call' = call /\ old' = old /\ pc \in {"loop", "copy"}
  BY TurnIs DEF Strcat, Runs
<1>2. /\ old \in Memories /\ SrcText /\ DestText
      /\ call.d + (DestLen + 1) + (SrcLen + 1) <= SIZE + 1
      /\ Apart(call.d, (DestLen + 1) + (SrcLen + 1) - 1, call.s, SrcLen + 1)
  BY <1>1 DEF Called, Given
<1>4. SrcLen' = SrcLen /\ DestLen' = DestLen /\ StrcatText' = StrcatText
      /\ \A t, d, j : UpTo(mem, t, d, j)' <=> UpTo(mem', t, d, j)
  BY <1>1 DEF SrcLen, DestLen, StrcatText, Src, Dest, UpTo
<1>5. /\ SrcLen \in Nat /\ call.s \in Nat /\ call.s + SrcLen < SIZE
      /\ \A k \in 0 .. SrcLen : old[call.s + k] = NUL <=> k = SrcLen
      /\ DestLen \in Nat /\ call.d \in Nat /\ call.d + DestLen < SIZE
      /\ \A k \in 0 .. DestLen : old[call.d + k] = NUL <=> k = DestLen
  <2>1. /\ SrcLen \in Nat /\ call.s \in Nat /\ call.s + SrcLen < SIZE
        /\ \A k \in 0 .. SrcLen : old[call.s + k] = NUL <=> k = SrcLen
    BY <1>2, SrcIs
  <2>2. /\ DestLen \in Nat /\ call.d \in Nat /\ call.d + DestLen < SIZE
        /\ \A k \in 0 .. DestLen : old[call.d + k] = NUL <=> k = DestLen
    BY <1>2, DestIs
  <2> QED BY <2>1, <2>2
<1>6. CASE pc = "loop"
  <2>1. PICK k \in 0 .. DestLen : reg.d = call.d + k
    BY <1>1, <1>6 DEF StrcatInv
  <2>2. mem = old /\ reg.s = call.s
    BY <1>1, <1>6 DEF StrcatInv
  <2>3. CASE k # DestLen
    <3>1. reg'.d = reg.d + 1 /\ reg'.s = reg.s /\ mem' = mem /\ pc' = pc
      BY <1>1, <1>5, <1>6, <2>1, <2>2, <2>3 DEF Strcat, Runs, Goes, Called
    <3>2. k + 1 \in 0 .. DestLen /\ reg'.d = call.d + (k + 1)
      BY <1>5, <2>1, <2>3, <3>1
    <3> QED BY <1>1, <1>4, <1>6, <2>2, <3>1, <3>2 DEF StrcatInv
  <2>4. CASE k = DestLen
    <3>1. reg' = reg /\ mem' = mem /\ pc' = "copy"
      BY <1>1, <1>5, <1>6, <2>1, <2>2, <2>4 DEF Strcat, Runs, To
    <3>2. reg'.d = call.d + (DestLen + 0) /\ reg'.s = call.s + 0 /\ 0 \in 0 .. SrcLen
      BY <1>5, <2>1, <2>2, <2>4, <3>1
    <3>3. UpTo(mem', StrcatText, call.d, DestLen + 0)
      <4>1. old = [b \in Address |-> old[b]]
        BY <1>2, StringsAssumption DEF Address
      <4>2. ASSUME NEW b \in Address
            PROVE  old[b] = IF b - call.d \in 0 .. (DestLen + 0) - 1 THEN StrcatText[b - call.d + 1] ELSE old[b]
        <5>1. CASE b - call.d \in 0 .. (DestLen + 0) - 1
          <6> DEFINE i == b - call.d
          <6>1. i \in 0 .. DestLen - 1 /\ call.d + i = b
            BY <1>5, <5>1, SizeIs DEF Address
          <6> HIDE DEF i
          <6>2. StrcatText[i + 1] = old[b]
            BY <1>2, <6>1, StrcatTextIs
          <6> QED BY <6>2 DEF i
        <5> QED BY <5>1
      <4>3. mem' = old
        BY <2>2, <3>1
      <4> QED BY <4>1, <4>2, <4>3 DEF UpTo
    <3> QED BY <1>1, <1>4, <3>1, <3>2, <3>3 DEF StrcatInv
  <2> QED BY <2>3, <2>4
<1>7. CASE pc = "copy"
  <2>1. PICK k \in 0 .. SrcLen :
       /\ reg.d = call.d + (DestLen + k) /\ reg.s = call.s + k
       /\ UpTo(mem, StrcatText, call.d, DestLen + k)
    BY <1>1, <1>7 DEF StrcatInv
  <2> DEFINE j == DestLen + k
             x == (DestLen + 1) + (SrcLen + 1) - 1
  <2>2. k \in Nat /\ j \in Nat /\ x \in Nat /\ j <= x /\ k < SrcLen + 1 /\ call.s + k < SIZE
        /\ call.d + j < SIZE /\ SrcLen + 1 \in Nat /\ j + 1 = DestLen + (k + 1)
    BY <1>2, <1>5, SizeIs
  <2>3. Apart(call.d, x, call.s, SrcLen + 1) /\ UpTo(mem, StrcatText, call.d, j)
        /\ reg.d = call.d + j
    BY <1>2, <2>1
  <2>4. StrcatText[j + 1] = old[call.s + k]
    BY <1>2, StrcatTextIs
  <2> HIDE DEF j, x
  <2>5. mem[call.s + k] = old[call.s + k]
    BY <1>5, <2>2, <2>3, SourceStays
  <2>6. CopyString
    BY <1>1, <1>7 DEF Strcat, Runs
  <2>7. mem' = [mem EXCEPT ![call.d + j] = StrcatText[j + 1]]
    BY <2>1, <2>3, <2>4, <2>5, <2>6 DEF CopyString, Puts
  <2>8. UpTo(mem', StrcatText, call.d, j + 1)
    BY <1>5, <2>2, <2>3, <2>7, PutsNext
  <2>9. reg'.d = reg.d + 1 /\ reg'.s = reg.s + 1
    BY <2>6 DEF CopyString, Both, Called
  <2>10. CASE k = SrcLen
    <3>1. pc' = "done" /\ ret' = call.d
      BY <1>5, <2>1, <2>5, <2>6, <2>10 DEF CopyString
    <3>2. j + 1 = DestLen + SrcLen + 1
      BY <1>5, <2>10 DEF j
    <3> QED BY <1>1, <1>4, <2>8, <3>1, <3>2 DEF StrcatInv
  <2>11. CASE k # SrcLen
    <3>1. pc' = pc
      BY <1>5, <2>1, <2>5, <2>6, <2>11 DEF CopyString
    <3>2. /\ k + 1 \in 0 .. SrcLen /\ reg'.d = call.d + (DestLen + (k + 1)) /\ reg'.s = call.s + (k + 1)
      BY <1>5, <2>1, <2>9, <2>11
    <3>3. UpTo(mem', StrcatText, call.d, DestLen + (k + 1))
      BY <2>2, <2>8
    <3> QED BY <1>1, <1>4, <1>7, <3>1, <3>2, <3>3 DEF StrcatInv
  <2> QED BY <2>10, <2>11
<1> QED BY <1>1, <1>6, <1>7

LEMMA StrncpyTurn == ASSUME Called, StrncpyInv, Turn, call.fn = "strncpy" PROVE StrncpyInv'
<1> DEFINE T == StrncpyText
           n == call.n
<1>1. Strncpy /\ call' = call /\ old' = old /\ pc \in {"loop", "fill"}
  BY TurnIs DEF Strncpy, Runs
<1>2. /\ old \in Memories /\ SrcText /\ call.d \in Nat /\ call.n \in Nat /\ call.d + call.n + 1 <= SIZE
      /\ Apart(call.d, call.n + 1, call.s, SrcLen + 1)
  BY <1>1 DEF Called, Given
<1>3. SrcLen' = SrcLen /\ StrncpyText' = StrncpyText
      /\ \A t, d, j : UpTo(mem, t, d, j)' <=> UpTo(mem', t, d, j)
  BY <1>1 DEF SrcLen, StrncpyText, Src, UpTo
<1>4. /\ SrcLen \in Nat /\ call.s \in Nat /\ call.s + SrcLen < SIZE
      /\ \A k \in 0 .. SrcLen : old[call.s + k] = NUL <=> k = SrcLen
  <2>1. /\ SrcLen \in Nat /\ call.s \in Nat /\ call.s + SrcLen < SIZE
        /\ old[call.s + SrcLen] = NUL /\ \A i \in 0 .. SrcLen - 1 : old[call.s + i] # NUL
    BY <1>2, SrcIs
  <2> QED BY <2>1
<1>5. /\ Len(T) = IF SrcLen < n THEN n + 1 ELSE n
      /\ \A i \in 0 .. SrcLen - 1 : i < n => T[i + 1] = old[call.s + i]
      /\ \A i \in SrcLen .. n : SrcLen < n => T[i + 1] = NUL
  BY <1>2, StrncpyTextIs
<1> HIDE DEF T
<1>6. CASE pc = "loop"
  <2>1. PICK k \in 0 .. SrcLen :
          k <= n /\ reg.n = n - k /\ At(k) /\ UpTo(mem, T, call.d, k)
    BY <1>1, <1>6 DEF StrncpyInv, T
  <2>2. k \in Nat /\ k <= SrcLen
    BY <1>4
  <2>3. CASE k = n
    <3>1. pc' = "fill" /\ mem' = mem /\ reg' = reg
      BY <1>1, <1>2, <1>6, <2>1, <2>3 DEF Strncpy, Runs, To
    <3>2. Len(T) = n /\ ~(SrcLen < n)
      BY <1>4, <1>5, <2>2, <2>3
    <3>3. k \in 0 .. Len(T) /\ reg'.n = Len(T) - k /\ reg'.d = call.d + k /\ reg'.n = 0
      BY <1>2, <2>1, <2>2, <2>3, <3>1, <3>2 DEF At
    <3> QED BY <1>1, <1>3, <2>1, <3>1, <3>3 DEF StrncpyInv, T
  <2>4. CASE k # n
    <3>1. reg.n # 0 /\ k < n
      BY <1>2, <2>1, <2>2, <2>4
    <3>2. k <= n + 1 /\ n + 1 \in Nat /\ SrcLen + 1 \in Nat /\ k < SrcLen + 1 /\ call.s + k < SIZE
          /\ call.d + k < SIZE
      BY <1>2, <1>4, <2>2, <3>1, SizeIs
    <3>3. mem[call.s + k] = old[call.s + k]
      BY <1>2, <1>4, <2>1, <2>2, <3>2, SourceStays
    <3>4. T[k + 1] = old[call.s + k]
      <4>1. CASE k = SrcLen
        BY <1>2, <1>4, <1>5, <2>2, <3>1, <4>1
      <4>2. CASE k # SrcLen
        <5>1. k \in 0 .. SrcLen - 1
          BY <1>4, <2>2, <4>2
        <5> QED BY <1>5, <3>1, <5>1
      <4> QED BY <4>1, <4>2
    <3>5. mem' = [mem EXCEPT ![call.d + k] = T[k + 1]]
      BY <1>1, <1>6, <2>1, <3>1, <3>3, <3>4 DEF Strncpy, Runs, Puts, At
    <3>6. UpTo(mem', T, call.d, k + 1)
      BY <1>2, <2>1, <2>2, <3>2, <3>5, PutsNext
    <3>7. CASE k # SrcLen
      <4>1. mem[reg.s] # NUL
        BY <1>4, <2>1, <2>2, <3>3, <3>7 DEF At
      <4>2. reg' = Counted /\ pc' = pc
        BY <1>1, <1>6, <3>1, <4>1 DEF Strncpy, Runs
      <4>3. reg'.d = reg.d + 1 /\ reg'.s = reg.s + 1 /\ reg'.n = reg.n - 1
        BY <4>2 DEF Counted, Both, Called
      <4>4. k + 1 \in 0 .. SrcLen /\ k + 1 <= n /\ reg'.n = n - (k + 1)
        BY <1>2, <1>4, <2>1, <2>2, <3>1, <3>7, <4>3
      <4>5. At(k + 1)'
        BY <1>1, <1>2, <1>4, <2>1, <2>2, <4>3 DEF At
      <4> QED BY <1>1, <1>3, <1>6, <3>6, <4>2, <4>4, <4>5 DEF StrncpyInv, T
    <3>8. CASE k = SrcLen
      <4>1. mem[reg.s] = NUL
        BY <1>4, <2>1, <2>2, <3>3, <3>8 DEF At
      <4>2. reg' = Both /\ pc' = "fill"
        BY <1>1, <1>6, <3>1, <4>1 DEF Strncpy, Runs
      <4>3. reg'.d = reg.d + 1 /\ reg'.n = reg.n
        BY <4>2 DEF Both, Called
      <4>4. Len(T) = n + 1 /\ SrcLen < n
        BY <1>5, <3>1, <3>8
      <4>5. k + 1 \in 0 .. Len(T) /\ SrcLen < k + 1
        BY <1>2, <1>4, <2>2, <3>1, <3>8, <4>4
      <4>6. reg.n = n - k /\ reg.d = call.d + k
        BY <2>1 DEF At
      <4>7. reg'.n = Len(T) - (k + 1) /\ reg'.d = call.d + (k + 1)
        <5>1. n - k = (n + 1) - (k + 1) /\ (call.d + k) + 1 = call.d + (k + 1)
          BY <1>2, <2>2
        <5> QED BY <4>3, <4>4, <4>6, <5>1
      <4> QED BY <1>1, <1>3, <3>6, <4>2, <4>4, <4>5, <4>7 DEF StrncpyInv, T
    <3> QED BY <3>7, <3>8
  <2> QED BY <2>3, <2>4
<1>7. CASE pc = "fill"
  <2>1. PICK k \in 0 .. Len(T) :
       /\ reg.n = Len(T) - k /\ reg.d = call.d + k
       /\ UpTo(mem, T, call.d, k)
       /\ reg.n # 0 => SrcLen < n /\ SrcLen < k
    BY <1>1, <1>7 DEF StrncpyInv, T
  <2>2. Len(T) \in Nat /\ k \in Nat /\ k <= Len(T)
    BY <1>2, <1>4, <1>5
  <2>3. CASE reg.n = 0
    <3>1. pc' = "done" /\ mem' = mem /\ ret' = call.d /\ k = Len(T)
      BY <1>1, <1>7, <2>1, <2>2, <2>3 DEF Strncpy, Runs, Ends
    <3> QED BY <1>1, <1>3, <2>1, <3>1 DEF StrncpyInv, T
  <2>4. CASE reg.n # 0
    <3>1. SrcLen < n /\ SrcLen < k /\ Len(T) = n + 1 /\ k \in SrcLen .. n /\ call.d + k < SIZE
      <4>1. SrcLen < n /\ SrcLen < k /\ reg.n = Len(T) - k
        BY <2>1, <2>4
      <4>2. Len(T) = n + 1
        BY <1>5, <4>1
      <4>3. k <= n
        BY <1>2, <2>2, <2>4, <4>1, <4>2
      <4> QED BY <1>2, <1>4, <2>2, <4>1, <4>2, <4>3, SizeIs
    <3>2. T[k + 1] = NUL
      BY <1>5, <3>1
    <3>3. mem' = [mem EXCEPT ![call.d + k] = T[k + 1]] /\ pc' = pc
          /\ reg' = [reg EXCEPT !.d = @ + 1, !.n = @ - 1]
      BY <1>1, <1>7, <2>1, <2>4, <3>2 DEF Strncpy, Runs, Puts
    <3>4. UpTo(mem', T, call.d, k + 1)
      BY <1>2, <2>1, <2>2, <3>1, <3>3, PutsNext
    <3>5. reg'.d = reg.d + 1 /\ reg'.n = reg.n - 1
      BY <3>3 DEF Called
    <3>6. /\ k + 1 \in 0 .. Len(T) /\ reg'.n = Len(T) - (k + 1) /\ reg'.d = call.d + (k + 1)
          /\ SrcLen < k + 1
      <4>1. reg.n = Len(T) - k /\ reg.d = call.d + k
        BY <2>1
      <4>2. k <= n /\ Len(T) = n + 1 /\ SrcLen < k
        BY <1>4, <3>1
      <4>3. k + 1 \in 0 .. n + 1 /\ SrcLen < k + 1 /\ n + 1 - k - 1 = n + 1 - (k + 1)
            /\ call.d + k + 1 = call.d + (k + 1)
        BY <1>2, <1>4, <2>2, <4>2
      <4> QED BY <3>5, <4>1, <4>2, <4>3
    <3> QED BY <1>1, <1>3, <1>7, <3>1, <3>3, <3>4, <3>6 DEF StrncpyInv, T
  <2> QED BY <2>3, <2>4
<1> QED BY <1>1, <1>6, <1>7

LEMMA MemcpyTurn == ASSUME Called, MemcpyInv, Turn, call.fn = "memcpy" PROVE MemcpyInv'
<1> DEFINE T == MemcpyText
           n == call.n
<1>1. Memcpy /\ call' = call /\ old' = old /\ pc = "loop"
  BY TurnIs DEF Memcpy, Runs
<1>2. /\ old \in Memories /\ call.d \in Nat /\ call.s \in Nat /\ n \in Nat
      /\ call.d + n <= SIZE /\ call.s + n <= SIZE /\ Apart(call.d, n, call.s, n)
  BY <1>1 DEF Called, Given, Fits, Address
<1>3. MemcpyText' = MemcpyText /\ \A t, d, j : UpTo(mem, t, d, j)' <=> UpTo(mem', t, d, j)
  BY <1>1 DEF MemcpyText, Bytes, UpTo
<1>4. \A i \in 0 .. n - 1 : T[i + 1] = old[call.s + i]
  BY <1>2, ReadsBytes DEF Reads, MemcpyText
<1> HIDE DEF T
<1>5. PICK k \in 0 .. n : reg.n = n - k /\ At(k) /\ UpTo(mem, T, call.d, k)
  BY <1>1 DEF MemcpyInv, T
<1>6. k \in Nat /\ k <= n
  BY <1>2
<1>7. CASE k = n
  <2>1. pc' = "done" /\ mem' = mem /\ ret' = call.d
    BY <1>1, <1>2, <1>5, <1>7 DEF Memcpy, Ends
  <2> QED BY <1>1, <1>3, <1>5, <1>7, <2>1 DEF MemcpyInv, T
<1>8. CASE k # n
  <2>1. reg.n # 0 /\ k < n /\ call.s + k < SIZE /\ call.d + k < SIZE /\ k \in 0 .. n - 1
    BY <1>2, <1>5, <1>6, <1>8, SizeIs
  <2>2. mem[call.s + k] = old[call.s + k]
    BY <1>2, <1>5, <1>6, <2>1, SourceStays
  <2>3. mem' = [mem EXCEPT ![call.d + k] = T[k + 1]] /\ reg' = Counted /\ pc' = pc
    BY <1>1, <1>4, <1>5, <2>1, <2>2 DEF Memcpy, Puts, At
  <2>4. UpTo(mem', T, call.d, k + 1)
    BY <1>2, <1>5, <1>6, <2>1, <2>3, PutsNext
  <2>5. reg'.d = reg.d + 1 /\ reg'.s = reg.s + 1 /\ reg'.n = reg.n - 1
    BY <2>3 DEF Counted, Both, Called
  <2>6. At(k + 1)'
    BY <1>1, <1>2, <1>5, <1>6, <2>5 DEF At
  <2>7. k + 1 \in 0 .. n /\ reg'.n = n - (k + 1)
    BY <1>2, <1>5, <1>6, <2>1, <2>5
  <2> QED BY <1>1, <1>3, <2>3, <2>4, <2>6, <2>7 DEF MemcpyInv, T
<1> QED BY <1>7, <1>8

LEMMA MemsetTurn == ASSUME Called, MemsetInv, Turn, call.fn = "memset" PROVE MemsetInv'
<1> DEFINE T == MemsetText
           n == call.n
<1>1. Memset /\ call' = call /\ old' = old /\ pc = "loop"
  BY TurnIs DEF Memset, Runs
<1>2. call.d \in Nat /\ n \in Nat /\ call.d + n <= SIZE
  BY <1>1 DEF Called, Given
<1>3. MemsetText' = MemsetText /\ \A t, d, j : UpTo(mem, t, d, j)' <=> UpTo(mem', t, d, j)
  BY <1>1 DEF MemsetText, UpTo
<1>4. \A i \in 0 .. n - 1 : T[i + 1] = call.s
  BY <1>2 DEF MemsetText
<1> HIDE DEF T
<1>5. PICK k \in 0 .. n : /\ reg.n = n - k /\ reg.d = call.d + k /\ reg.s = call.s
                          /\ UpTo(mem, T, call.d, k)
  BY <1>1 DEF MemsetInv, T
<1>6. k \in Nat /\ k <= n
  BY <1>2
<1>7. CASE k = n
  <2>1. pc' = "done" /\ mem' = mem /\ ret' = call.d
    BY <1>1, <1>2, <1>5, <1>7 DEF Memset, Ends
  <2> QED BY <1>1, <1>3, <1>5, <1>7, <2>1 DEF MemsetInv, T
<1>8. CASE k # n
  <2>1. reg.n # 0 /\ k < n /\ call.d + k < SIZE /\ k \in 0 .. n - 1
    BY <1>2, <1>5, <1>6, <1>8, SizeIs
  <2>2. mem' = [mem EXCEPT ![call.d + k] = T[k + 1]] /\ pc' = pc
        /\ reg' = [reg EXCEPT !.d = @ + 1, !.n = @ - 1]
    BY <1>1, <1>4, <1>5, <2>1 DEF Memset, Puts
  <2>3. UpTo(mem', T, call.d, k + 1)
    BY <1>2, <1>5, <1>6, <2>1, <2>2, PutsNext
  <2>4. reg'.d = reg.d + 1 /\ reg'.s = reg.s /\ reg'.n = reg.n - 1
    BY <2>2 DEF Called
  <2>5. k + 1 \in 0 .. n /\ reg'.n = n - (k + 1) /\ reg'.d = call.d + (k + 1)
    BY <1>2, <1>5, <1>6, <2>1, <2>4
  <2> QED BY <1>1, <1>3, <1>5, <2>2, <2>3, <2>4, <2>5 DEF MemsetInv, T
<1> QED BY <1>7, <1>8

CopyInv == StrcpyInv /\ StrcatInv /\ StrncpyInv /\ MemcpyInv /\ MemsetInv

LEMMA CopyStart == ASSUME Called, Call PROVE CopyInv'
<1> DEFINE c == call'
<1>1. /\ Given' /\ pc' = "loop" /\ mem' = old'
      /\ reg' = [d |-> c.d, s |-> c.s, n |-> c.n]
  BY CallIs
<1>2. (old = [a \in Address |-> old[a]])'
  BY <1>1, StringsAssumption DEF Given, Address
<1>4. c.fn = "strcpy" => /\ c.d \in Nat /\ c.s \in Nat /\ 0 \in 0 .. SrcLen'
  BY <1>1 DEF Given, SrcText, IsText
<1>5. c.fn = "strcat" => /\ c.d \in Nat /\ c.s \in Nat /\ 0 \in 0 .. DestLen'
  BY <1>1 DEF Given, DestText, SrcText, IsText
<1>6. c.fn = "strncpy" => /\ c.d \in Nat /\ c.s \in Nat /\ c.n \in Nat /\ 0 \in 0 .. SrcLen'
  BY <1>1 DEF Given, SrcText, IsText
<1>7. c.fn = "memcpy" => c.d \in Nat /\ c.s \in Nat /\ c.n \in Nat
  BY <1>1 DEF Given, Fits, Address
<1>8. c.fn = "memset" => c.d \in Nat /\ c.n \in Nat
  BY <1>1 DEF Given
<1>9. c.d \in Nat => reg'.d = c.d + 0
  BY <1>1
<1>10. c.d \in Nat /\ c.s \in Nat => At(0)'
  BY <1>1 DEF At
<1>11. c.d \in Nat => /\ UpTo(mem, StrcpyText, call.d, 0)' /\ UpTo(mem, StrncpyText, call.d, 0)'
                      /\ UpTo(mem, MemcpyText, call.d, 0)' /\ UpTo(mem, MemsetText, call.d, 0)'
  BY <1>1, <1>2 DEF UpTo
<1>12. StrcpyInv'
  BY <1>1, <1>4, <1>10, <1>11 DEF StrcpyInv
<1>13. StrcatInv'
  BY <1>1, <1>5, <1>9 DEF StrcatInv
<1>14. StrncpyInv'
  BY <1>1, <1>6, <1>10, <1>11 DEF StrncpyInv
<1>15. MemcpyInv'
  BY <1>1, <1>7, <1>10, <1>11 DEF MemcpyInv
<1>16. MemsetInv'
  BY <1>1, <1>8, <1>9, <1>11 DEF MemsetInv
<1> QED BY <1>12, <1>13, <1>14, <1>15, <1>16 DEF CopyInv

LEMMA CopyStep == Called /\ CopyInv /\ [Next]_vars => CopyInv'
<1> SUFFICES ASSUME Called, CopyInv, [Next]_vars PROVE CopyInv'
  OBVIOUS
<1>1. CASE Call
  BY <1>1, CopyStart
<1>2. CASE Turn
  <2>1. call' = call
    BY <1>2 DEF Turn
  <2>2. StrcpyInv'
    BY <1>2, <2>1, StrcpyTurn DEF CopyInv, StrcpyInv
  <2>3. StrcatInv'
    BY <1>2, <2>1, StrcatTurn DEF CopyInv, StrcatInv
  <2>4. StrncpyInv'
    BY <1>2, <2>1, StrncpyTurn DEF CopyInv, StrncpyInv
  <2>5. MemcpyInv'
    BY <1>2, <2>1, MemcpyTurn DEF CopyInv, MemcpyInv
  <2>6. MemsetInv'
    BY <1>2, <2>1, MemsetTurn DEF CopyInv, MemsetInv
  <2> QED BY <2>2, <2>3, <2>4, <2>5, <2>6 DEF CopyInv
<1>3. CASE Return
  BY <1>3 DEF Return, NoCall, CopyInv, StrcpyInv, StrcatInv, StrncpyInv, MemcpyInv, MemsetInv
<1>4. CASE Store
  BY <1>4 DEF Store, Called, NoCall, CopyInv, StrcpyInv, StrcatInv, StrncpyInv, MemcpyInv, MemsetInv
<1>5. CASE UNCHANGED vars
  <2>1. /\ SrcLen' = SrcLen /\ DestLen' = DestLen /\ StrcpyText' = StrcpyText /\ StrcatText' = StrcatText
        /\ StrncpyText' = StrncpyText /\ MemcpyText' = MemcpyText /\ MemsetText' = MemsetText
        /\ (\A t, d, j : UpTo(mem, t, d, j)' <=> UpTo(mem, t, d, j))
        /\ \A k : At(k)' <=> At(k)
    BY <1>5 DEF vars, SrcLen, DestLen, StrcpyText, StrcatText, StrncpyText, MemcpyText, MemsetText,
                Src, Dest, Bytes, UpTo, At
  <2> QED BY <1>5, <2>1 DEF vars, CopyInv, StrcpyInv, StrcatInv, StrncpyInv, MemcpyInv, MemsetInv
<1> QED BY <1>1, <1>2, <1>3, <1>4, <1>5 DEF Next

(* The copies put the text or the region at dest, also where memmove's two *)
(* regions overlap, and write nothing else (string.c:50-83,                *)
(* memory.c:203-269).                                                      *)
THEOREM CopiesArrive == Spec => []CopiesSpecified
<1>1. Init => Called /\ CopyInv
  BY CalledInit DEF Init, NoCall, CopyInv, StrcpyInv, StrcatInv, StrncpyInv, MemcpyInv, MemsetInv
<1>2. Called /\ CopyInv /\ MemmoveSpecified => CopiesSpecified
  <2> SUFFICES ASSUME Called, CopyInv, MemmoveSpecified, pc = "done" PROVE CopiesSpecified
    BY DEF CopiesSpecified, Done
  <2>1. Given
    BY DEF Called
  <2>2. old \in Memories
    BY <2>1 DEF Given
  <2>3. ASSUME NEW text, UpTo(mem, text, call.d, Len(text)) PROVE Written(call.d, text)
    BY <2>3 DEF UpTo, Written
  <2>4. Done("strcpy") => ret = call.d /\ Written(call.d, StrcpyText)
    <3>1. Done("strcpy") => SrcText
      BY <2>1 DEF Given, Done
    <3> QED BY <2>2, <2>3, <3>1, StrcpyTextIs DEF CopyInv, StrcpyInv, Done
  <2>5. Done("strcat") => ret = call.d /\ Written(call.d, StrcatText)
    <3>1. Done("strcat") => SrcText /\ DestText
      BY <2>1 DEF Given, Done
    <3> QED BY <2>2, <2>3, <3>1, StrcatTextIs DEF CopyInv, StrcatInv, Done
  <2>6. Done("strncpy") => ret = call.d /\ Written(call.d, StrncpyText)
    BY <2>3 DEF CopyInv, StrncpyInv, Done
  <2>7. Done("memcpy") => ret = call.d /\ Written(call.d, MemcpyText)
    <3>1. Done("memcpy") => Len(MemcpyText) = call.n
      BY <2>1 DEF Given, Done, Fits, MemcpyText, Bytes
    <3> QED BY <2>3, <3>1 DEF CopyInv, MemcpyInv, Done
  <2>8. Done("memset") => ret = call.d /\ Written(call.d, MemsetText)
    <3>1. Done("memset") => Len(MemsetText) = call.n
      BY <2>1 DEF Given, Done, MemsetText
    <3> QED BY <2>3, <3>1 DEF CopyInv, MemsetInv, Done
  <2> QED BY <2>4, <2>5, <2>6, <2>7, <2>8 DEF CopiesSpecified, StrcpyText, StrcatText, StrncpyText,
             MemcpyText, MemsetText
<1> QED BY <1>1, <1>2, CalledStep, CopyStep, MemmoveCorrect, PTL DEF Spec

-----------------------------------------------------------------------------
(* Numbers                                                                 *)

(* Quotient and remainder, which are unique.                               *)
LEMMA Divided ==
  ASSUME NEW x \in Int, NEW w \in Nat, w > 0
  PROVE  /\ x \div w \in Int /\ x % w \in 0 .. w - 1
         /\ x = (x \div w) * w + (x % w)
OBVIOUS

LEMMA Multiple ==
  ASSUME NEW w \in Nat, w > 0, NEW m \in Int, m * w < w, m * w > -w
  PROVE  m = 0
<1>1. CASE m >= 1
  <2>1. m * w >= 1 * w
    BY <1>1
  <2> QED BY <2>1
<1>2. CASE m <= -1
  <2>1. m * w <= (-1) * w
    BY <1>2
  <2> QED BY <2>1
<1> QED BY <1>1, <1>2

LEMMA DividedOnce ==
  ASSUME NEW x \in Int, NEW w \in Nat, w > 0, NEW q \in Int, NEW r \in 0 .. w - 1, x = q * w + r
  PROVE  x \div w = q /\ x % w = r
<1> DEFINE p == x \div w
           s == x % w
<1>1. p \in Int /\ s \in 0 .. w - 1 /\ x = p * w + s
  BY Divided
<1> HIDE DEF p, s
<1>2. (q - p) * w = q * w - p * w
  BY <1>1
<1>3. q * w \in Int /\ p * w \in Int
  BY <1>1
<1>4. q * w - p * w = s - r
  BY <1>1, <1>3
<1>5. q - p = 0
  <2> DEFINE m == q - p
  <2>1. m \in Int /\ m * w < w /\ m * w > -w
    BY <1>1, <1>2, <1>4
  <2> HIDE DEF m
  <2>2. m = 0
    BY <2>1, Multiple
  <2> QED BY <2>2 DEF m
<1>6. q = p /\ r = s
  BY <1>1, <1>3, <1>4, <1>5
<1> QED BY <1>6 DEF p, s

(* Numbers that differ by a multiple have one remainder.                   *)
LEMMA SameRemainder ==
  ASSUME NEW w \in Nat, w > 0, NEW x \in Int, NEW y \in Int, NEW m \in Int, x = m * w + y
  PROVE  x % w = y % w
<1> DEFINE q == y \div w
           r == y % w
<1>1. q \in Int /\ r \in 0 .. w - 1 /\ y = q * w + r
  BY Divided
<1> HIDE DEF q, r
<1>2. m * w \in Int /\ q * w \in Int /\ (m + q) * w = m * w + q * w
  BY <1>1
<1>3. m + q \in Int /\ x = (m + q) * w + r
  BY <1>1, <1>2
<1>4. x % w = r
  BY <1>1, <1>3, DividedOnce
<1> QED BY <1>4 DEF r

(* The value of a numeral, if f reads it from the left.                    *)
Reading(f, digits, base, n) ==
  /\ f \in [0 .. n -> Int] /\ f[0] = 0
  /\ \A k \in 1 .. n : f[k] = f[k - 1] * base + DigitValue(digits[k])

LEMMA ValueIs ==
  ASSUME NEW digits, NEW base, NEW n \in Nat, Len(digits) = n, NEW f, Reading(f, digits, base, n)
  PROVE  Value(digits, base) = f[n]
<1> DEFINE Is(v) == v = [k \in 0 .. n |-> IF k = 0 THEN 0
                                          ELSE v[k - 1] * base + DigitValue(digits[k])]
           c == CHOOSE v : Is(v)
<1>1. Is(f)
  <2>1. f = [k \in 0 .. n |-> f[k]] /\ f[0] = 0
    BY DEF Reading
  <2>2. ASSUME NEW k \in 0 .. n, k # 0 PROVE f[k] = f[k - 1] * base + DigitValue(digits[k])
    <3>1. k \in 1 .. n
      BY <2>2
    <3> QED BY <3>1 DEF Reading
  <2>3. \A k \in 0 .. n : f[k] = IF k = 0 THEN 0 ELSE f[k - 1] * base + DigitValue(digits[k])
    BY <2>1, <2>2
  <2> QED BY <2>1, <2>3
<1>2. Value(digits, base) = c[n]
  BY DEF Value
<1>3. Is(c)
  <2> HIDE DEF Is
  <2> QED BY <1>1
<1> HIDE DEF c
<1>4. /\ c[0] = 0
      /\ \A k \in 0 .. n : k # 0 => c[k] = c[k - 1] * base + DigitValue(digits[k])
  BY <1>3
<1>5. \A k \in 0 .. n : c[k] = f[k]
  <2> DEFINE T == {k \in 0 .. n : c[k] = f[k]}
  <2>1. 0 \in T
    BY <1>4 DEF Reading
  <2>2. ASSUME NEW k \in 0 .. n - 1, k \in T PROVE k + 1 \in T
    <3>1. k + 1 \in 0 .. n /\ k + 1 # 0 /\ k + 1 \in 1 .. n /\ (k + 1) - 1 = k
      OBVIOUS
    <3> DEFINE j == k + 1
    <3>2. c[j] = c[j - 1] * base + DigitValue(digits[j])
      BY <1>4, <3>1
    <3>3. f[j] = f[j - 1] * base + DigitValue(digits[j])
      BY <3>1 DEF Reading
    <3>4. c[j - 1] = f[j - 1]
      BY <2>2, <3>1
    <3>5. c[j] = f[j]
      BY <3>2, <3>3, <3>4
    <3> QED BY <3>1, <3>5
  <2>3. \A k \in 0 .. n : k \in T
    <3> HIDE DEF T
    <3> QED BY <2>1, <2>2, EveryRound
  <2> QED BY <2>3
<1> QED BY <1>2, <1>5

(* What is left of x after each division.                                  *)
Quotients(q, x, base, n) ==
  /\ q \in [0 .. n -> Nat] /\ q[0] = x
  /\ \A i \in 0 .. n - 1 : q[i + 1] = q[i] \div base
  /\ \A i \in 1 .. n - 1 : q[i] # 0
DigitAt(q, base, i) == Digit(q[i] % base)

LEMMA DigitIs ==
  ASSUME NEW base \in {10, 16}, NEW k \in 0 .. base - 1
  PROVE  Digit(k) \in Nat /\ Digit(k) >= ZERO /\ DigitValue(Digit(k)) = k /\ (Digit(k) = ZERO => k = 0)
<1>1. k \in 0 .. 15
  OBVIOUS
<1> QED BY <1>1 DEF Digit, DigitValue, IsDigit, ZERO

(* The digits, last first, are the numeral.                                *)
LEMMA NumeralIs ==
  ASSUME NEW base \in {10, 16}, NEW x \in Nat, NEW n \in Nat, n > 0,
         NEW q, Quotients(q, x, base, n), q[n] = 0,
         NEW text, DOMAIN text = 1 .. n, Len(text) = n,
         \A j \in 1 .. n : text[j] = DigitAt(q, base, n - j)
  PROVE  Numeral(text, x, base)
<1> DEFINE f == [k \in 0 .. n |-> q[n - k]]
<1>1. /\ q \in [0 .. n -> Nat] /\ q[0] = x
      /\ \A i \in 0 .. n - 1 : q[i + 1] = q[i] \div base
      /\ \A i \in 1 .. n - 1 : q[i] # 0
  BY DEF Quotients
<1>2. ASSUME NEW i \in 0 .. n - 1
      PROVE  q[i] \in Nat /\ q[i] % base \in 0 .. base - 1 /\ q[i] = q[i + 1] * base + (q[i] % base)
  <2>1. q[i] \in Nat /\ base \in Nat /\ base > 0 /\ q[i + 1] = q[i] \div base
    BY <1>1
  <2> DEFINE y == q[i]
  <2>2. y \in Int
    BY <2>1
  <2> HIDE DEF y
  <2>3. y % base \in 0 .. base - 1 /\ y = (y \div base) * base + (y % base)
    BY <2>1, <2>2, Divided
  <2> QED BY <2>1, <2>3 DEF y
<1>3. ASSUME NEW j \in 1 .. n
      PROVE  /\ n - j \in 0 .. n - 1 /\ (n - j) + 1 = n - (j - 1)
             /\ text[j] = Digit(q[n - j] % base) /\ DigitValue(text[j]) = q[n - j] % base
  <2>1. n - j \in 0 .. n - 1 /\ (n - j) + 1 = n - (j - 1)
    OBVIOUS
  <2>2. text[j] = Digit(q[n - j] % base)
    BY DEF DigitAt
  <2> QED BY <1>2, <2>1, <2>2, DigitIs
<1>4. Reading(f, text, base, n)
  <2>1. f \in [0 .. n -> Int]
    <3>1. \A k \in 0 .. n : n - k \in 0 .. n
      OBVIOUS
    <3> QED BY <1>1, <3>1
  <2>2. f[0] = 0
    OBVIOUS
  <2>3. ASSUME NEW k \in 1 .. n PROVE f[k] = f[k - 1] * base + DigitValue(text[k])
    <3>1. f[k] = q[n - k] /\ f[k - 1] = q[n - (k - 1)]
      OBVIOUS
    <3>2. q[n - k] = q[(n - k) + 1] * base + (q[n - k] % base)
      BY <1>2, <1>3
    <3>3. q[(n - k) + 1] = q[n - (k - 1)]
      BY <1>3
    <3> HIDE DEF f
    <3> QED BY <1>3, <3>1, <3>2, <3>3
  <2> HIDE DEF f
  <2> QED BY <2>1, <2>2, <2>3 DEF Reading
<1>5. Value(text, base) = x
  <2>1. f[n] = q[0]
    OBVIOUS
  <2> HIDE DEF f
  <2> QED BY <1>1, <1>4, <2>1, ValueIs
<1>6. \A k \in DOMAIN text : \E digit \in 0 .. base - 1 : text[k] = Digit(digit)
  BY <1>2, <1>3
<1>7. text # <<>>
  OBVIOUS
<1>8. ASSUME n > 1, text[1] = ZERO PROVE FALSE
  <2>1. n - 1 \in 1 .. n - 1 /\ n - 1 \in 0 .. n - 1 /\ 1 \in 1 .. n
    BY <1>8
  <2>2. q[n - 1] # 0
    BY <1>1, <2>1
  <2>3. text[1] = Digit(q[n - 1] % base)
    BY <1>3, <2>1
  <2>4. q[n - 1] % base = 0
    BY <1>2, <1>8, <2>1, <2>3, DigitIs
  <2>5. q[n - 1] = q[(n - 1) + 1] * base + (q[n - 1] % base) /\ q[n - 1] \in Nat
    BY <1>2, <2>1
  <2>6. q[(n - 1) + 1] = 0
    <3>1. (n - 1) + 1 = n
      OBVIOUS
    <3> QED BY <3>1
  <2> QED BY <2>2, <2>4, <2>5, <2>6
<1> QED BY <1>5, <1>6, <1>7, <1>8 DEF Numeral

LEMMA OneMoreQuotient ==
  ASSUME NEW base \in {10, 16}, NEW x, NEW n \in Nat, NEW q, Quotients(q, x, base, n),
         n > 0 => q[n] # 0
  PROVE  \E e : /\ Quotients(e, x, base, n + 1) /\ e[n + 1] = q[n] \div base
                /\ \A i \in 0 .. n : e[i] = q[i]
<1> DEFINE e == [i \in 0 .. n + 1 |-> IF i = n + 1 THEN q[n] \div base ELSE q[i]]
<1>1. /\ q \in [0 .. n -> Nat] /\ q[0] = x
      /\ \A i \in 0 .. n - 1 : q[i + 1] = q[i] \div base
      /\ \A i \in 1 .. n - 1 : q[i] # 0
  BY DEF Quotients
<1>2. \A i \in 0 .. n : e[i] = q[i]
  OBVIOUS
<1>3. e[n + 1] = q[n] \div base
  OBVIOUS
<1>4. q[n] \div base \in Nat
  <2>1. q[n] \in Nat
    BY <1>1
  <2> QED BY <2>1
<1>5. e \in [0 .. n + 1 -> Nat]
  <2>1. \A i \in 0 .. n + 1 : i # n + 1 => i \in 0 .. n
    OBVIOUS
  <2> QED BY <1>1, <1>4, <2>1
<1> HIDE DEF e
<1>6. ASSUME NEW i \in 0 .. (n + 1) - 1 PROVE e[i + 1] = e[i] \div base
  <2>1. CASE i = n
    BY <1>2, <1>3, <2>1
  <2>2. CASE i # n
    <3>1. i \in 0 .. n - 1 /\ i \in 0 .. n /\ i + 1 \in 0 .. n
      BY <2>2
    <3> QED BY <1>1, <1>2, <3>1
  <2> QED BY <2>1, <2>2
<1>7. ASSUME NEW i \in 1 .. (n + 1) - 1 PROVE e[i] # 0
  <2>1. i \in 0 .. n /\ (i = n \/ i \in 1 .. n - 1)
    OBVIOUS
  <2> QED BY <1>1, <1>2, <2>1
<1>8. e[0] = x
  BY <1>1, <1>2
<1> QED BY <1>2, <1>3, <1>5, <1>6, <1>7, <1>8 DEF Quotients

(* The words of WORD values, half of them negative.                        *)
HALF == WORD \div 2

LEMMA Halves == HALF \in Nat /\ HALF > 0 /\ WORD = 2 * HALF /\ Ints = -HALF .. HALF - 1
<1>1. WORD \in Nat /\ WORD > 0 /\ WORD % 2 = 0
  BY StringsAssumption
<1> QED BY <1>1 DEF HALF, Ints

LEMMA SmallRemainder ==
  ASSUME NEW w \in Nat, NEW x \in 0 .. w - 1
  PROVE  x % w = x
<1>1. x = 0 * w + x /\ w > 0
  OBVIOUS
<1> QED BY <1>1, DividedOnce

LEMMA SignedIs ==
  /\ \A v \in 0 .. HALF - 1 : Signed(v) = v
  /\ Signed(HALF) = -HALF
<1>1. HALF \in Nat /\ HALF > 0 /\ WORD = 2 * HALF /\ WORD \in Nat /\ HALF = WORD \div 2
  BY Halves, StringsAssumption DEF HALF
<1>2. ASSUME NEW v \in 0 .. HALF - 1 PROVE Signed(v) = v
  <2>1. v \in 0 .. WORD - 1 /\ v < HALF
    BY <1>1
  <2>2. v % WORD = v
    BY <1>1, <2>1, SmallRemainder
  <2> QED BY <1>1, <2>1, <2>2 DEF Signed
<1>3. HALF % WORD = HALF
  <2>1. HALF \in 0 .. WORD - 1
    BY <1>1
  <2> QED BY <1>1, <2>1, SmallRemainder
<1>4. Signed(HALF) = HALF - WORD
  <2>1. ~ (HALF < WORD \div 2)
    BY <1>1
  <2> QED BY <1>3, <2>1 DEF Signed
<1> QED BY <1>1, <1>2, <1>4

-----------------------------------------------------------------------------
(* vga_print_dec                                                           *)

(* text has the digits of the first k quotients, the last one first.       *)
Digits(text, q, base, k) ==
  /\ text \in Seq(Nat) /\ Len(text) = k
  /\ \A j \in 1 .. k : text[j] = DigitAt(q, base, k - j)

Magnitude == IF call.n < 0 THEN -call.n ELSE call.n

DecWrites(x, text) == \E k, q :
  k \in Nat /\ Quotients(q, Magnitude, 10, k) /\ x = q[k] /\ Digits(text, q, 10, k)

PrintDecInv == call.fn = "vga_print_dec" =>
  /\ mem = old
  /\ pc = "loop" => reg.n = call.n
  /\ pc = "digits" =>
       IF call.n = -HALF THEN reg.n = call.n /\ argv = <<>>
       ELSE IF call.n = 0 THEN reg.n = 0 /\ argv = <<ZERO>>
       ELSE DecWrites(reg.n, argv)
  /\ pc = "done" => IF call.n = -HALF THEN argv = <<MINUS>> ELSE Decimal(argv, call.n)

LEMMA NumeralOfDigits ==
  ASSUME NEW base \in {10, 16}, NEW x \in Nat, NEW n \in Nat, n > 0,
         NEW q, Quotients(q, x, base, n), q[n] = 0, NEW text, Digits(text, q, base, n)
  PROVE  Numeral(text, x, base)
<1>1. /\ DOMAIN text = 1 .. n /\ Len(text) = n
      /\ \A j \in 1 .. n : text[j] = DigitAt(q, base, n - j)
  BY DEF Digits
<1> QED BY <1>1, NumeralIs

(* One more digit in front.                                                *)
LEMMA OneMoreDigit ==
  ASSUME NEW base \in {10, 16}, NEW x, NEW n \in Nat, NEW q, NEW e, NEW text,
         Quotients(q, x, base, n), \A i \in 0 .. n : e[i] = q[i],
         Digits(text, q, base, n)
  PROVE  Digits(<<Digit(q[n] % base)>> \o text, e, base, n + 1)
<1> DEFINE c == Digit(q[n] % base)
           t == <<c>> \o text
<1>1. text \in Seq(Nat) /\ Len(text) = n /\ \A j \in 1 .. n : text[j] = DigitAt(q, base, n - j)
  BY DEF Digits
<1>2. c \in Nat
  <2>1. q[n] \in Nat
    BY DEF Quotients
  <2>2. q[n] % base \in 0 .. base - 1
    BY <2>1
  <2> QED BY <2>2, DigitIs
<1>3. c = DigitAt(e, base, n)
  BY DEF DigitAt
<1> HIDE DEF c
<1>4. t \in Seq(Nat) /\ Len(t) = n + 1 /\ t[1] = c /\ \A j \in 2 .. n + 1 : t[j] = text[j - 1]
  <2>1. <<c>> \in Seq(Nat) /\ Len(<<c>>) = 1 /\ <<c>>[1] = c
    BY <1>2
  <2>2. /\ t \in Seq(Nat) /\ Len(t) = 1 + n
        /\ \A i \in 1 .. 1 + n : t[i] = IF i <= 1 THEN <<c>>[i] ELSE text[i - 1]
    BY <1>1, <2>1, ConcatProperties
  <2> HIDE DEF t
  <2> QED BY <2>1, <2>2
<1> HIDE DEF t
<1>5. ASSUME NEW j \in 1 .. n + 1 PROVE t[j] = DigitAt(e, base, (n + 1) - j)
  <2>1. CASE j = 1
    <3>1. (n + 1) - j = n
      BY <2>1
    <3> QED BY <1>3, <1>4, <2>1, <3>1
  <2>2. CASE j # 1
    <3>1. j \in 2 .. n + 1 /\ j - 1 \in 1 .. n /\ n - (j - 1) = (n + 1) - j /\ n - (j - 1) \in 0 .. n
      BY <2>2
    <3>2. t[j] = DigitAt(q, base, n - (j - 1))
      BY <1>1, <1>4, <3>1
    <3> QED BY <3>1, <3>2 DEF DigitAt
  <2> QED BY <2>1, <2>2
<1> QED BY <1>4, <1>5 DEF Digits, t, c

LEMMA MinusDecimal ==
  ASSUME NEW v \in Int, v < 0, NEW text, text \in Seq(Nat), Numeral(text, -v, 10)
  PROVE  Decimal(<<MINUS>> \o text, v)
<1> DEFINE t == <<MINUS>> \o text
<1>1. t # <<>> /\ t[1] = MINUS /\ Tail(t) = text
  <2>1. <<MINUS>> \in Seq(Nat) /\ Len(<<MINUS>>) = 1 /\ <<MINUS>>[1] = MINUS
    BY DEF MINUS
  <2>2. /\ t \in Seq(Nat) /\ Len(t) = 1 + Len(text)
        /\ \A i \in 1 .. 1 + Len(text) : t[i] = IF i <= 1 THEN <<MINUS>>[i] ELSE text[i - 1]
    BY <2>1, ConcatProperties
  <2> HIDE DEF t
  <2>3. Len(text) \in Nat /\ Len(t) > 0 /\ t[1] = MINUS
    BY <2>1, <2>2
  <2>4. t # <<>>
    BY <2>2, <2>3
  <2>5. Tail(t) \in Seq(Nat) /\ Len(Tail(t)) = Len(text)
        /\ \A i \in 1 .. Len(text) : Tail(t)[i] = t[i + 1]
    BY <2>2, <2>3, <2>4, HeadTailProperties
  <2>6. \A i \in 1 .. Len(text) : t[i + 1] = text[i]
    BY <2>2, <2>3
  <2>7. Tail(t) = text
    <3> DEFINE u == Tail(t)
    <3>1. u \in Seq(Nat) /\ Len(u) = Len(text) /\ \A i \in 1 .. Len(text) : u[i] = text[i]
      BY <2>5, <2>6
    <3> HIDE DEF u
    <3>2. u = text
      BY <3>1, SeqEqual
    <3> QED BY <3>2 DEF u
  <2> QED BY <2>3, <2>4, <2>7
<1> HIDE DEF t
<1> QED BY <1>1 DEF Decimal, t

LEMMA PrintDecTurn ==
  ASSUME Called, PrintDecInv, Turn, call.fn = "vga_print_dec"
  PROVE  PrintDecInv'
<1>1. PrintDec /\ call' = call /\ old' = old /\ pc \in {"loop", "digits"}
  BY TurnIs DEF PrintDec, Runs
<1>2. mem = old /\ mem' = mem
  BY <1>1 DEF PrintDecInv, PrintDec
<1>3. call.n \in -HALF .. HALF - 1 /\ HALF \in Nat /\ HALF > 0
  BY <1>1, Halves DEF Called, Given
<1>4. Magnitude' = Magnitude /\ Magnitude \in Nat /\ HALF' = HALF
      /\ (\A v : Decimal(argv', v) <=> Decimal(argv, v)')
      /\ (DecWrites(reg.n, argv)' <=> DecWrites(reg'.n, argv'))
  BY <1>1, <1>3 DEF Magnitude, HALF, DecWrites
<1>5. CASE pc = "loop"
  <2>1. /\ pc' = "digits" /\ reg.n = call.n
        /\ reg' = [reg EXCEPT !.n = IF @ < 0 THEN Signed(-@) ELSE @]
        /\ argv' = IF reg.n = 0 THEN <<ZERO>> ELSE <<>>
    BY <1>1, <1>5 DEF PrintDec, PrintDecInv, Runs
  <2>2. reg'.n = IF call.n < 0 THEN Signed(-call.n) ELSE call.n
    BY <2>1 DEF Called
  <2>3. CASE call.n = -HALF
    <3>1. -call.n = HALF /\ call.n < 0 /\ call.n # 0
      BY <1>3, <2>3
    <3>2. reg'.n = call.n
      BY <2>2, <2>3, <3>1, SignedIs
    <3>3. argv' = <<>>
      BY <2>1, <3>1
    <3> QED BY <1>1, <1>2, <1>4, <2>1, <2>3, <3>2, <3>3 DEF PrintDecInv
  <2>4. CASE call.n = 0
    <3>1. call.n # -HALF /\ reg'.n = 0 /\ argv' = <<ZERO>>
      BY <1>3, <2>1, <2>2, <2>4
    <3> QED BY <1>1, <1>2, <1>4, <2>1, <2>4, <3>1 DEF PrintDecInv
  <2>5. CASE call.n # -HALF /\ call.n # 0
    <3>1. reg'.n = Magnitude
      <4>1. CASE call.n < 0
        <5>1. -call.n \in 0 .. HALF - 1
          BY <1>3, <2>5, <4>1
        <5> QED BY <2>2, <4>1, <5>1, SignedIs DEF Magnitude
      <4>2. CASE ~ (call.n < 0)
        BY <2>2, <4>2 DEF Magnitude
      <4> QED BY <4>1, <4>2
    <3>2. argv' = <<>>
      BY <2>1, <2>5
    <3> DEFINE q == [i \in 0 .. 0 |-> Magnitude]
    <3>3. Quotients(q, Magnitude, 10, 0) /\ q[0] = Magnitude
      BY <1>4 DEF Quotients
    <3> HIDE DEF q
    <3>4. Digits(argv', q, 10, 0)
      BY <3>2 DEF Digits
    <3>5. 0 \in Nat
      OBVIOUS
    <3>6. DecWrites(reg'.n, argv')
      BY <3>1, <3>3, <3>4, <3>5 DEF DecWrites
    <3> QED BY <1>1, <1>2, <1>4, <2>1, <2>5, <3>6 DEF PrintDecInv
  <2> QED BY <2>3, <2>4, <2>5
<1>6. CASE pc = "digits"
  <2>1. CASE reg.n > 0
    <3>1. /\ argv' = <<Digit(reg.n % 10)>> \o argv
          /\ reg' = [reg EXCEPT !.n = @ \div 10] /\ pc' = pc
      BY <1>1, <1>6, <2>1 DEF PrintDec, Runs
    <3>2. reg'.n = reg.n \div 10
      BY <3>1 DEF Called
    <3>3. call.n # -HALF /\ call.n # 0
      BY <1>3, <1>6, <2>1 DEF PrintDecInv
    <3>4. PICK k, q : /\ k \in Nat /\ Quotients(q, Magnitude, 10, k) /\ reg.n = q[k]
                /\ Digits(argv, q, 10, k)
      BY <1>1, <1>6, <3>3 DEF PrintDecInv, DecWrites
    <3>5. q[k] # 0
      BY <2>1, <3>4
    <3>6. PICK e : /\ Quotients(e, Magnitude, 10, k + 1) /\ e[k + 1] = q[k] \div 10
                   /\ \A i \in 0 .. k : e[i] = q[i]
      BY <3>4, <3>5, OneMoreQuotient
    <3>7. Digits(argv', e, 10, k + 1)
      BY <3>1, <3>4, <3>6, OneMoreDigit
    <3>8. reg'.n = e[k + 1]
      BY <3>2, <3>4, <3>6
    <3>9. DecWrites(reg'.n, argv')
      BY <3>4, <3>6, <3>7, <3>8, k + 1 \in Nat DEF DecWrites
    <3> QED BY <1>1, <1>2, <1>4, <1>6, <3>1, <3>3, <3>9 DEF PrintDecInv
  <2>2. CASE ~ (reg.n > 0)
    <3>1. /\ argv' = IF call.n < 0 THEN <<MINUS>> \o argv ELSE argv
          /\ pc' = "done"
      BY <1>1, <1>6, <2>2 DEF PrintDec, Runs
    <3>2. CASE call.n = -HALF
      <4>1. argv = <<>> /\ call.n < 0
        BY <1>1, <1>3, <1>6, <3>2 DEF PrintDecInv
      <4>2. argv' = <<MINUS>>
        BY <3>1, <4>1
      <4> QED BY <1>1, <1>2, <1>4, <3>1, <3>2, <4>2 DEF PrintDecInv
    <3>3. CASE call.n = 0
      <4>1. argv = <<ZERO>> /\ argv' = argv /\ call.n # -HALF
        BY <1>1, <1>3, <1>6, <3>1, <3>3 DEF PrintDecInv
      <4> DEFINE q == [i \in 0 .. 1 |-> 0]
      <4>2. Quotients(q, 0, 10, 1) /\ q[1] = 0
        BY DEF Quotients
      <4>3. Digits(<<ZERO>>, q, 10, 1)
        BY DEF Digits, DigitAt, Digit, ZERO
      <4> HIDE DEF q
      <4>4. Numeral(<<ZERO>>, 0, 10)
        BY <4>2, <4>3, NumeralOfDigits
      <4>5. Decimal(argv', call.n)
        BY <3>3, <4>1, <4>4 DEF Decimal
      <4> QED BY <1>1, <1>2, <1>4, <3>1, <4>1, <4>5 DEF PrintDecInv
    <3>4. CASE call.n # -HALF /\ call.n # 0
      <4>1. PICK k, q : /\ k \in Nat /\ Quotients(q, Magnitude, 10, k) /\ reg.n = q[k]
                  /\ Digits(argv, q, 10, k)
        BY <1>1, <1>6, <3>4 DEF PrintDecInv, DecWrites
      <4>2. q[k] = 0
        BY <2>2, <4>1 DEF Quotients
      <4>3. k > 0
        BY <1>3, <3>4, <4>1, <4>2 DEF Quotients, Magnitude
      <4>4. Numeral(argv, Magnitude, 10) /\ argv \in Seq(Nat)
        <5>1. Magnitude \in Nat /\ 10 \in {10, 16}
          BY <1>4
        <5>2. Numeral(argv, Magnitude, 10)
          BY <4>1, <4>2, <4>3, <5>1, NumeralOfDigits
        <5> QED BY <4>1, <5>2 DEF Digits
      <4>5. Decimal(argv', call.n)
        <5>1. CASE call.n < 0
          <6>1. call.n \in Int /\ Magnitude = -call.n /\ argv' = <<MINUS>> \o argv
            BY <1>3, <3>1, <5>1 DEF Magnitude
          <6> QED BY <4>4, <5>1, <6>1, MinusDecimal
        <5>2. CASE ~ (call.n < 0)
          BY <3>1, <4>4, <5>2 DEF Magnitude, Decimal
        <5> QED BY <5>1, <5>2
      <4> QED BY <1>1, <1>2, <1>4, <3>1, <3>4, <4>5 DEF PrintDecInv
    <3> QED BY <3>2, <3>3, <3>4
  <2> QED BY <2>1, <2>2
<1> QED BY <1>1, <1>5, <1>6

-----------------------------------------------------------------------------
(* atoi                                                                    *)

(* Where the first element outside set is.                                 *)
FirstNot(t, set) == Min({k \in 1 .. Len(t) + 1 : k = Len(t) + 1 \/ t[k] \notin set})

LEMMA FirstNotIs ==
  ASSUME NEW t, NEW set, Len(t) \in Nat, NEW m \in 0 .. Len(t), \A j \in 1 .. m : t[j] \in set,
         m = Len(t) \/ t[m + 1] \notin set
  PROVE  FirstNot(t, set) = m + 1
<1> DEFINE T == {k \in 1 .. Len(t) + 1 : k = Len(t) + 1 \/ t[k] \notin set}
<1>1. m + 1 \in T /\ T \subseteq Int
  OBVIOUS
<1>2. ASSUME NEW k \in T PROVE m + 1 <= k
  <2>1. k \in 1 .. Len(t) + 1 /\ (k = Len(t) + 1 \/ t[k] \notin set)
    OBVIOUS
  <2>2. k \notin 1 .. m
    BY <2>1
  <2> HIDE DEF T
  <2> QED BY <2>1, <2>2
<1>3. FirstNot(t, set) = Min(T)
  BY DEF FirstNot
<1> HIDE DEF T
<1> QED BY <1>1, <1>2, <1>3, MinIs

(* What follows the first b elements.                                      *)
LEMMA RestIs ==
  ASSUME NEW t \in Seq(Nat), NEW b \in 0 .. Len(t)
  PROVE  /\ From(t, b + 1) \in Seq(Nat) /\ Len(From(t, b + 1)) = Len(t) - b
         /\ \A i \in 1 .. Len(t) - b : From(t, b + 1)[i] = t[b + i]
<1> DEFINE n == Len(t) - b
           cut == SubSeq(t, b + 1, b + n)
<1>1. n \in Nat /\ b \in Nat /\ b + n = Len(t)
  OBVIOUS
<1>2. cut = From(t, b + 1)
  BY <1>1 DEF From
<1> HIDE DEF n
<1>3. SubSeq(t, b + 1, b + n) = [i \in 1 .. n |-> t[b + i]] /\ Len(cut) = n
  BY <1>1, PartIs
<1>4. \A i \in 1 .. n : t[b + i] \in Nat
  <2>1. \A i \in 1 .. n : b + i \in 1 .. Len(t)
    BY <1>1
  <2> QED BY <2>1
<1>5. cut \in Seq(Nat)
  BY <1>1, <1>3, <1>4
<1> HIDE DEF cut
<1> QED BY <1>2, <1>3, <1>5 DEF n, cut

(* t is b blanks, perhaps a sign, from p on k digits, and something else   *)
(* or nothing; f is the number after each digit.                           *)
Parsed(t, b, p, k, f) ==
  /\ t \in Seq(Nat) /\ b \in 0 .. Len(t) /\ \A j \in 1 .. b : t[j] \in Blanks
  /\ b = Len(t) \/ t[b + 1] \notin Blanks
  /\ p = IF b < Len(t) /\ t[b + 1] \in {MINUS, PLUS} THEN b + 1 ELSE b
  /\ k \in Nat /\ p + k <= Len(t) /\ \A j \in 1 .. k : IsDigit(t[p + j])
  /\ p + k = Len(t) \/ ~IsDigit(t[p + (k + 1)])
  /\ f \in [0 .. k -> Int] /\ f[0] = 0
  /\ \A j \in 1 .. k : f[j] = f[j - 1] * 10 + (t[p + j] - ZERO)
SignOf(t, b) == IF b < Len(t) /\ t[b + 1] = MINUS THEN -1 ELSE 1

LEMMA NumberIs ==
  ASSUME NEW t, NEW b, NEW p, NEW k, NEW f, Parsed(t, b, p, k, f)
  PROVE  Number(t) = Signed(SignOf(t, b) * f[k])
<1> DEFINE n == Len(t)
           signed == From(t, FirstNot(t, Blanks))
           bare == IF signed # <<>> /\ signed[1] \in {MINUS, PLUS} THEN Tail(signed) ELSE signed
           digits == Begin(bare, FirstNot(bare, ZERO .. ZERO + 9) - 1)
           sign == IF signed # <<>> /\ signed[1] = MINUS THEN -1 ELSE 1
<1>1. Number(t) = Signed(sign * Value(digits, 10))
  BY DEF Number, FirstNot
<1> USE DEF Parsed
<1>2. n \in Nat /\ b \in Nat /\ b <= n
  OBVIOUS
<1>3. signed = From(t, b + 1)
  BY <1>2, FirstNotIs
<1>4. /\ signed \in Seq(Nat) /\ Len(signed) = n - b
      /\ \A i \in 1 .. n - b : signed[i] = t[b + i]
  <2> HIDE DEF signed
  <2> QED BY <1>3, RestIs
<1> HIDE DEF signed
<1>5. (signed # <<>> <=> b < n) /\ (b < n => signed[1] = t[b + 1])
  <2>1. signed # <<>> <=> b < n
    BY <1>2, <1>4
  <2>2. b < n => 1 \in 1 .. n - b
    BY <1>2
  <2> QED BY <1>4, <2>1, <2>2
<1>6. sign = IF b < n /\ t[b + 1] = MINUS THEN -1 ELSE 1
  BY <1>5
<1>7. p \in 0 .. n
  BY <1>2
<1>8. /\ bare \in Seq(Nat) /\ Len(bare) = n - p
      /\ \A i \in 1 .. n - p : bare[i] = t[p + i]
  <2>1. CASE b < n /\ t[b + 1] \in {MINUS, PLUS}
    <3>1. bare = Tail(signed) /\ p = b + 1 /\ signed # <<>>
      BY <1>5, <2>1
    <3>2. Tail(signed) \in Seq(Nat) /\ Len(Tail(signed)) = (n - b) - 1
          /\ \A i \in 1 .. (n - b) - 1 : Tail(signed)[i] = signed[i + 1]
      BY <1>4, <3>1, HeadTailProperties
    <3>3. (n - b) - 1 = n - p
      BY <1>2, <3>1
    <3>4. \A i \in 1 .. n - p : i + 1 \in 1 .. n - b /\ b + (i + 1) = p + i
      BY <1>2, <3>1
    <3>5. \A i \in 1 .. n - p : Tail(signed)[i] = t[p + i]
      <4> DEFINE u == Tail(signed)
      <4>1. \A i \in 1 .. n - p : u[i] = signed[i + 1]
        BY <3>2, <3>3
      <4> HIDE DEF u
      <4>2. ASSUME NEW i \in 1 .. n - p PROVE u[i] = t[p + i]
        <5> DEFINE h == i + 1
        <5>1. h \in 1 .. n - b /\ b + h = p + i /\ u[i] = signed[h]
          BY <3>4, <4>1
        <5> HIDE DEF h
        <5>2. signed[h] = t[b + h]
          BY <1>4, <5>1
        <5> QED BY <5>1, <5>2
      <4> QED BY <4>2 DEF u
    <3> HIDE DEF bare
    <3> QED BY <3>1, <3>2, <3>3, <3>5
  <2>2. CASE ~ (b < n /\ t[b + 1] \in {MINUS, PLUS})
    <3>1. bare = signed /\ p = b
      BY <1>5, <2>2
    <3> QED BY <1>4, <3>1
  <2> QED BY <2>1, <2>2
<1> HIDE DEF bare, sign
<1>9. FirstNot(bare, ZERO .. ZERO + 9) = k + 1
  <2>1. Len(bare) \in Nat /\ k \in 0 .. Len(bare)
    BY <1>7, <1>8
  <2>2. \A c \in Nat : IsDigit(c) <=> c \in ZERO .. ZERO + 9
    BY DEF IsDigit, ZERO
  <2>3. \A j \in 1 .. Len(bare) : bare[j] \in Nat
    BY <1>8, ElementOfSeq
  <2>4. ASSUME NEW j \in 1 .. k PROVE bare[j] \in ZERO .. ZERO + 9
    <3>1. j \in 1 .. Len(bare) /\ j \in 1 .. n - p
      BY <1>8, <2>1
    <3>2. IsDigit(bare[j])
      BY <1>8, <3>1
    <3> QED BY <2>2, <2>3, <3>1, <3>2
  <2>5. k = Len(bare) \/ bare[k + 1] \notin ZERO .. ZERO + 9
    <3> SUFFICES ASSUME k # Len(bare) PROVE bare[k + 1] \notin ZERO .. ZERO + 9
      OBVIOUS
    <3>1. k + 1 \in 1 .. Len(bare) /\ k + 1 \in 1 .. n - p /\ p + k # n
      BY <1>7, <1>8, <2>1
    <3>2. ~IsDigit(bare[k + 1])
      BY <1>8, <3>1
    <3> QED BY <2>2, <2>3, <3>1, <3>2
  <2> QED BY <2>1, <2>4, <2>5, FirstNotIs
<1>10. Len(digits) = k /\ \A j \in 1 .. k : digits[j] = t[p + j]
  <2>1. (k + 1) - 1 = k /\ (IF k < Len(bare) THEN k ELSE Len(bare)) = k /\ k <= n - p
    BY <1>7, <1>8
  <2>2. digits = SubSeq(bare, 1, k)
    BY <1>9, <2>1 DEF Begin
  <2>3. SubSeq(bare, 0 + 1, 0 + k) = [i \in 1 .. k |-> bare[0 + i]]
        /\ Len(SubSeq(bare, 0 + 1, 0 + k)) = k
    BY PartIs
  <2>4. 0 + 1 = 1 /\ 0 + k = k /\ \A i \in 1 .. k : 0 + i = i /\ i \in 1 .. n - p
    BY <1>7, <2>1
  <2>5. digits = [i \in 1 .. k |-> bare[i]] /\ Len(digits) = k
    BY <2>2, <2>3, <2>4
  <2> HIDE DEF digits
  <2> QED BY <1>8, <2>4, <2>5
<1> HIDE DEF digits
<1>11. Reading(f, digits, 10, k)
  <2>1. ASSUME NEW j \in 1 .. k PROVE DigitValue(digits[j]) = t[p + j] - ZERO
    BY <1>10 DEF DigitValue
  <2> QED BY <2>1 DEF Reading
<1>12. Value(digits, 10) = f[k]
  BY <1>10, <1>11, ValueIs
<1> QED BY <1>1, <1>6, <1>12 DEF SignOf

(* b characters are blanks and no more, p are before the digits, of which  *)
(* k have been read, f after each of them.                                 *)
BlanksTo(b) == \A j \in 0 .. b - 1 : old[call.s + j] \in Blanks
Scanned(b, p, k, f) ==
  /\ b \in 0 .. SrcLen /\ p \in Nat /\ k \in Nat
  /\ BlanksTo(b) /\ old[call.s + b] \notin Blanks
  /\ p = IF old[call.s + b] \in {MINUS, PLUS} THEN b + 1 ELSE b
  /\ p + k <= SrcLen /\ \A j \in 0 .. k - 1 : IsDigit(old[call.s + (p + j)])
  /\ f \in [0 .. k -> Int] /\ f[0] = 0
  /\ \A j \in 1 .. k : f[j] = f[j - 1] * 10 + (old[call.s + (p + (j - 1))] - ZERO)
SignAt(b) == IF old[call.s + b] = MINUS THEN -1 ELSE 1

AtoiSkips(r) == \E b \in 0 .. SrcLen : r.s = call.s + b /\ r.n = 0 /\ BlanksTo(b)
AtoiReads(r) == \E b, p, k, f :
  /\ Scanned(b, p, k, f) /\ r.s = call.s + (p + k) /\ r.n = f[k] % WORD
  /\ r.d = IF old[call.s + b] = MINUS THEN 1 ELSE 0
AtoiHasRead(x) == \E b, p, k, f :
  /\ Scanned(b, p, k, f) /\ ~IsDigit(old[call.s + (p + k)])
  /\ x = Signed(SignAt(b) * f[k])

AtoiInv == call.fn = "atoi" =>
  /\ mem = old
  /\ pc = "loop" => AtoiSkips(reg)
  /\ pc = "digits" => AtoiReads(reg)
  /\ pc = "done" => AtoiHasRead(ret)

(* The remainders of the sum and of its negative are those of the register.*)
LEMMA SumWraps ==
  ASSUME NEW v \in Int, NEW c \in Int
  PROVE  /\ ((v % WORD) * 10 + c - ZERO) % WORD = (v * 10 + (c - ZERO)) % WORD
         /\ Signed(-(v % WORD)) = Signed((-1) * v) /\ Signed(v % WORD) = Signed(1 * v)
<1> DEFINE q == v \div WORD
           r == v % WORD
<1>1. WORD \in Nat /\ WORD > 0
  BY StringsAssumption
<1>2. q \in Int /\ r \in Int /\ v = q * WORD + r
  BY <1>1, Divided
<1> HIDE DEF q, r
<1> DEFINE w == q * WORD
<1>3. w \in Int /\ v = w + r
  BY <1>1, <1>2
<1>4. (r * 10 + c - ZERO) % WORD = (v * 10 + (c - ZERO)) % WORD
  <2>1. (q * 10) * WORD = w * 10
    BY <1>1, <1>2
  <2> HIDE DEF w
  <2> DEFINE x == v * 10 + (c - ZERO)
             y == r * 10 + c - ZERO
             m == q * 10
  <2>2. x \in Int /\ y \in Int /\ x = w * 10 + y
    BY <1>2, <1>3 DEF ZERO
  <2>3. m \in Int /\ x = m * WORD + y
    BY <1>2, <2>1, <2>2
  <2> HIDE DEF x, y, m
  <2>4. x % WORD = y % WORD
    BY <1>1, <2>2, <2>3, SameRemainder
  <2> QED BY <2>4 DEF x, y
<1>5. (-r) % WORD = ((-1) * v) % WORD
  <2> DEFINE x == (-1) * v
             y == -r
             m == -q
  <2>1. (-q) * WORD = -w
    BY <1>1, <1>2
  <2> HIDE DEF w
  <2>2. x \in Int /\ y \in Int /\ x = -w + y
    BY <1>2, <1>3
  <2>3. m \in Int /\ x = m * WORD + y
    BY <1>2, <2>1, <2>2
  <2> HIDE DEF x, y, m
  <2>4. x % WORD = y % WORD
    BY <1>1, <2>2, <2>3, SameRemainder
  <2> QED BY <2>4 DEF x, y
<1>6. r % WORD = (1 * v) % WORD
  <2>1. 1 * v = v
    OBVIOUS
  <2> QED BY <1>1, <1>2, <2>1, SameRemainder
<1>7. \A x, y : x % WORD = y % WORD => Signed(x) = Signed(y)
  BY DEF Signed
<1> QED BY <1>4, <1>5, <1>6, <1>7 DEF r

LEMMA AtoiTurn == ASSUME Called, AtoiInv, Turn, call.fn = "atoi" PROVE AtoiInv'
<1>1. Atoi /\ call' = call /\ old' = old /\ pc \in {"loop", "digits"}
  BY TurnIs DEF Atoi, Runs
<1>2. IsText(old, call.s, SrcLen) /\ mem = old /\ mem' = mem /\ old \in Memories
  BY <1>1 DEF Called, Given, SrcText, AtoiInv, Atoi, Goes, Ends
<1>3. SrcLen' = SrcLen /\ SrcLen \in Nat /\ call.s \in Nat /\ call.s + SrcLen < SIZE
      /\ old[call.s + SrcLen] = NUL
      /\ (AtoiSkips(reg)' <=> AtoiSkips(reg')) /\ (AtoiReads(reg)' <=> AtoiReads(reg'))
      /\ (AtoiHasRead(ret)' <=> AtoiHasRead(ret'))
  BY <1>1, <1>2 DEF SrcLen, BlanksTo, Scanned, IsText, AtoiSkips, AtoiReads, AtoiHasRead, SignAt, Signed
<1>4. ASSUME NEW j \in 0 .. SrcLen PROVE old[call.s + j] \in Nat /\ call.s + (j + 1) = (call.s + j) + 1
  <2>1. call.s + j \in Address
    BY <1>3, SizeIs DEF Address
  <2>2. \A a \in Address : old[a] \in Nat
    BY <1>2, OldBytes
  <2>3. old[call.s + j] \in Nat
    BY <2>1, <2>2, Zenon
  <2> QED BY <1>3, <2>3
<1>5. CASE pc = "loop"
  <2>1. PICK b \in 0 .. SrcLen : reg.s = call.s + b /\ reg.n = 0 /\ BlanksTo(b)
    BY <1>1, <1>5 DEF AtoiInv, AtoiSkips
  <2>2. CASE mem[reg.s] \in Blanks
    <3>1. reg' = [reg EXCEPT !.s = @ + 1] /\ pc' = pc
      BY <1>1, <1>5, <2>2 DEF Atoi, Runs, Goes
    <3>2. reg'.s = call.s + (b + 1) /\ reg'.n = 0
      BY <1>4, <2>1, <3>1 DEF Called
    <3>3. b # SrcLen
      BY <1>2, <1>3, <2>1, <2>2 DEF Blanks, NUL
    <3>4. b + 1 \in 0 .. SrcLen
      BY <1>3, <3>3
    <3>5. BlanksTo(b + 1)
      <4>1. ASSUME NEW j \in 0 .. (b + 1) - 1 PROVE old[call.s + j] \in Blanks
        <5>1. j = b \/ j \in 0 .. b - 1
          OBVIOUS
        <5> QED BY <1>2, <2>1, <2>2, <5>1 DEF BlanksTo
      <4> QED BY <4>1 DEF BlanksTo
    <3>6. AtoiSkips(reg')
      BY <3>2, <3>4, <3>5 DEF AtoiSkips
    <3> QED BY <1>1, <1>2, <1>3, <1>5, <3>1, <3>6 DEF AtoiInv
  <2>3. CASE mem[reg.s] \notin Blanks
    <3>1. /\ reg' = [reg EXCEPT !.d = IF mem[reg.s] = MINUS THEN 1 ELSE 0,
                                !.s = IF mem[reg.s] \in {MINUS, PLUS} THEN @ + 1 ELSE @]
          /\ pc' = "digits"
      BY <1>1, <1>5, <2>3 DEF Atoi, Runs, Goes
    <3> DEFINE p == IF old[call.s + b] \in {MINUS, PLUS} THEN b + 1 ELSE b
               f == [j \in 0 .. 0 |-> 0]
    <3>2. mem[reg.s] = old[call.s + b]
      BY <1>2, <2>1
    <3>3. /\ reg'.s = call.s + p /\ reg'.n = 0
          /\ reg'.d = IF old[call.s + b] = MINUS THEN 1 ELSE 0
      BY <1>4, <2>1, <3>1, <3>2 DEF Called
    <3>4. p \in Nat /\ p + 0 <= SrcLen
      <4>1. old[call.s + b] \in {MINUS, PLUS} => b # SrcLen
        BY <1>3 DEF NUL, MINUS, PLUS
      <4> QED BY <1>3, <4>1
    <3>5. Scanned(b, p, 0, f) /\ f[0] = 0
      BY <2>1, <2>3, <3>2, <3>4 DEF Scanned
    <3>6. f[0] % WORD = 0
      <4>1. WORD \in Nat /\ WORD > 0
        BY StringsAssumption
      <4> QED BY <3>5, <4>1, SmallRemainder
    <3>7. reg'.s = call.s + (p + 0)
      BY <3>3, <3>4
    <3> HIDE DEF p, f
    <3>8. AtoiReads(reg')
      BY <3>3, <3>4, <3>5, <3>6, <3>7 DEF AtoiReads
    <3> QED BY <1>1, <1>2, <1>3, <3>1, <3>8 DEF AtoiInv
  <2> QED BY <2>2, <2>3
<1>6. CASE pc = "digits"
  <2>1. PICK b, p, k, f :
          /\ Scanned(b, p, k, f) /\ reg.s = call.s + (p + k) /\ reg.n = f[k] % WORD
          /\ reg.d = IF old[call.s + b] = MINUS THEN 1 ELSE 0
    BY <1>1, <1>6 DEF AtoiInv, AtoiReads
  <2>0. b \in 0 .. SrcLen /\ p \in Nat /\ k \in Nat
    BY <2>1 DEF Scanned
  <2> USE <2>0
  <2>2. p + k <= SrcLen /\ f \in [0 .. k -> Int] /\ f[k] \in Int /\ p + k \in 0 .. SrcLen
    BY <2>1 DEF Scanned
  <2> DEFINE c == old[call.s + (p + k)]
  <2>3. mem[reg.s] = c /\ c \in Nat
    BY <1>2, <1>4, <2>1, <2>2
  <2>4. CASE IsDigit(c)
    <3>1. reg' = [reg EXCEPT !.n = (@ * 10 + mem[reg.s] - ZERO) % WORD, !.s = @ + 1] /\ pc' = pc
      BY <1>1, <1>6, <2>3, <2>4 DEF Atoi, Runs, Goes
    <3> DEFINE e == f[k] * 10 + (c - ZERO)
               g == [j \in 0 .. k + 1 |-> IF j = k + 1 THEN e ELSE f[j]]
    <3>2. e \in Int
      <4> HIDE DEF c
      <4> QED BY <2>2, <2>3 DEF ZERO
    <3>3. reg'.s = (call.s + (p + k)) + 1 /\ reg'.d = reg.d /\ reg'.n = e % WORD
      <4>1. reg'.s = reg.s + 1 /\ reg'.d = reg.d /\ reg'.n = (reg.n * 10 + mem[reg.s] - ZERO) % WORD
        BY <3>1 DEF Called
      <4> HIDE DEF c
      <4> QED BY <2>1, <2>2, <2>3, <4>1, SumWraps
    <3>4. p + (k + 1) = (p + k) + 1 /\ (k + 1) - 1 = k /\ p + (k + 1) <= SrcLen
      <4>1. p + k # SrcLen
        BY <1>3, <2>4 DEF IsDigit, NUL, ZERO
      <4> QED BY <1>3, <2>2, <4>1
    <3>5. reg'.s = call.s + (p + (k + 1))
      BY <1>4, <2>2, <3>3, <3>4
    <3> HIDE DEF e
    <3>6. g \in [0 .. k + 1 -> Int] /\ g[0] = 0 /\ g[k + 1] = e /\ \A j \in 0 .. k : g[j] = f[j]
      <4>1. \A j \in 0 .. k + 1 : j # k + 1 => j \in 0 .. k
        OBVIOUS
      <4> QED BY <2>1, <2>2, <3>2, <4>1 DEF Scanned
    <3> HIDE DEF g
    <3>7. ASSUME NEW j \in 1 .. k + 1
          PROVE  g[j] = g[j - 1] * 10 + (old[call.s + (p + (j - 1))] - ZERO)
      <4>1. CASE j = k + 1
        <5>1. g[j - 1] = f[k] /\ p + (j - 1) = p + k
          BY <3>4, <3>6, <4>1
        <5> QED BY <3>6, <4>1, <5>1 DEF e, c
      <4>2. CASE j # k + 1
        <5>1. j \in 1 .. k /\ j \in 0 .. k /\ j - 1 \in 0 .. k
          BY <4>2
        <5>2. f[j] = f[j - 1] * 10 + (old[call.s + (p + (j - 1))] - ZERO)
          BY <2>1, <5>1 DEF Scanned
        <5> QED BY <3>6, <5>1, <5>2
      <4> QED BY <4>1, <4>2
    <3>8. ASSUME NEW j \in 0 .. (k + 1) - 1 PROVE IsDigit(old[call.s + (p + j)])
      <4>1. j = k \/ j \in 0 .. k - 1
        OBVIOUS
      <4> QED BY <2>1, <2>4, <4>1 DEF Scanned
    <3>9. Scanned(b, p, k + 1, g)
      BY <2>1, <3>4, <3>6, <3>7, <3>8 DEF Scanned
    <3>10. reg'.n = g[k + 1] % WORD /\ k + 1 \in Nat /\ reg'.d = reg.d
      BY <3>3, <3>6
    <3>11. AtoiReads(reg')
      BY <2>1, <3>5, <3>9, <3>10 DEF AtoiReads
    <3> QED BY <1>1, <1>2, <1>3, <1>6, <3>1, <3>11 DEF AtoiInv
  <2>5. CASE ~IsDigit(c)
    <3>1. ret' = Signed(IF reg.d = 1 THEN -reg.n ELSE reg.n) /\ pc' = "done"
      BY <1>1, <1>6, <2>3, <2>5 DEF Atoi, Runs, Ends
    <3>2. ret' = Signed(SignAt(b) * f[k])
      <4> DEFINE v == f[k]
      <4>1. v \in Int /\ reg.n = v % WORD
        BY <2>1, <2>2
      <4> HIDE DEF v
      <4>2. CASE old[call.s + b] = MINUS
        <5>1. ret' = Signed(-(v % WORD)) /\ SignAt(b) = -1
          BY <2>1, <3>1, <4>1, <4>2 DEF SignAt
        <5>2. Signed(-(v % WORD)) = Signed((-1) * v)
          BY <4>1, SumWraps, 0 \in Int
        <5> QED BY <5>1, <5>2 DEF v
      <4>3. CASE old[call.s + b] # MINUS
        <5>1. ret' = Signed(v % WORD) /\ SignAt(b) = 1
          BY <2>1, <3>1, <4>1, <4>3 DEF SignAt
        <5>2. Signed(v % WORD) = Signed(1 * v)
          BY <4>1, SumWraps, 0 \in Int
        <5> QED BY <5>1, <5>2 DEF v
      <4> QED BY <4>2, <4>3
    <3>3. AtoiHasRead(ret')
      BY <2>1, <2>5, <3>2 DEF AtoiHasRead
    <3> QED BY <1>1, <1>2, <1>3, <3>1, <3>3 DEF AtoiInv
  <2> QED BY <2>4, <2>5
<1> QED BY <1>1, <1>5, <1>6

LEMMA AtoiDone ==
  ASSUME old \in Memories, SrcText, AtoiInv, Done("atoi")
  PROVE  Same /\ ret = Number(Src)
<1>1. mem = old /\ AtoiHasRead(ret)
  BY DEF AtoiInv, Done
<1>2. PICK b, p, k, f :
        /\ Scanned(b, p, k, f) /\ ~IsDigit(old[call.s + (p + k)])
        /\ ret = Signed(SignAt(b) * f[k])
  BY <1>1 DEF AtoiHasRead
<1>0. b \in 0 .. SrcLen /\ p \in Nat /\ k \in Nat
  BY <1>2 DEF Scanned
<1> USE <1>0
<1> DEFINE t == Src
           n == SrcLen
<1>3. /\ t \in Seq(Nat) /\ Len(t) = n /\ n \in Nat /\ call.s \in Nat
      /\ \A i \in 0 .. n - 1 : t[i + 1] = old[call.s + i]
      /\ old[call.s + n] = NUL
  BY SrcIs
<1> HIDE DEF t
<1>4. /\ BlanksTo(b) /\ old[call.s + b] \notin Blanks
      /\ p = IF old[call.s + b] \in {MINUS, PLUS} THEN b + 1 ELSE b
      /\ p + k <= n /\ \A j \in 0 .. k - 1 : IsDigit(old[call.s + (p + j)])
      /\ f \in [0 .. k -> Int] /\ f[0] = 0
      /\ \A j \in 1 .. k : f[j] = f[j - 1] * 10 + (old[call.s + (p + (j - 1))] - ZERO)
  BY <1>2 DEF Scanned
<1>5. b \in 0 .. Len(t) /\ (b < Len(t) => t[b + 1] = old[call.s + b])
  BY <1>3
<1>6. ASSUME NEW j \in 1 .. b PROVE t[j] \in Blanks
  <2>1. j - 1 \in 0 .. b - 1 /\ j - 1 \in 0 .. n - 1 /\ (j - 1) + 1 = j
    BY <1>3
  <2> QED BY <1>3, <1>4, <2>1 DEF BlanksTo
<1>7. b = Len(t) \/ t[b + 1] \notin Blanks
  BY <1>3, <1>4, <1>5
<1>8. p = IF b < Len(t) /\ t[b + 1] \in {MINUS, PLUS} THEN b + 1 ELSE b
  <2>1. CASE b < n
    BY <1>3, <1>4, <1>5, <2>1
  <2>2. CASE b = n
    <3>1. old[call.s + b] \notin {MINUS, PLUS}
      BY <1>3, <2>2 DEF NUL, MINUS, PLUS
    <3> QED BY <1>3, <1>4, <2>2, <3>1
  <2> QED BY <1>3, <2>1, <2>2
<1>9. ASSUME NEW j \in 1 .. k
      PROVE  t[p + j] = old[call.s + (p + (j - 1))]
  <2> DEFINE i == p + (j - 1)
  <2>1. i \in 0 .. n - 1 /\ i + 1 = p + j
    BY <1>3, <1>4
  <2> HIDE DEF i
  <2>2. t[i + 1] = old[call.s + i]
    BY <1>3, <2>1
  <2> QED BY <2>1, <2>2 DEF i
<1>10. ASSUME NEW j \in 1 .. k PROVE IsDigit(t[p + j])
  <2>1. j - 1 \in 0 .. k - 1
    OBVIOUS
  <2> QED BY <1>4, <1>9, <2>1
<1>11. p + k = Len(t) \/ ~IsDigit(t[p + (k + 1)])
  <2> SUFFICES ASSUME p + k # Len(t) PROVE ~IsDigit(t[p + (k + 1)])
    OBVIOUS
  <2> DEFINE i == p + k
  <2>1. i \in 0 .. n - 1 /\ i + 1 = p + (k + 1)
    BY <1>3, <1>4
  <2> HIDE DEF i
  <2>2. t[i + 1] = old[call.s + i]
    BY <1>3, <2>1
  <2> QED BY <1>2, <2>1, <2>2 DEF i
<1>12. \A j \in 1 .. k : f[j] = f[j - 1] * 10 + (t[p + j] - ZERO)
  BY <1>4, <1>9
<1>13. Number(t) = Signed(SignOf(t, b) * f[k])
  <2>1. t \in Seq(Nat) /\ b \in 0 .. Len(t) /\ p + k <= Len(t) /\ f \in [0 .. k -> Int] /\ f[0] = 0
    BY <1>3, <1>4
  <2>2. Parsed(t, b, p, k, f)
    BY <2>1, <1>6, <1>7, <1>8, <1>10, <1>11, <1>12, Zenon DEF Parsed
  <2> QED BY <2>2, NumberIs
<1>14. SignAt(b) = SignOf(t, b)
  <2>1. CASE b < n
    BY <1>3, <1>5, <2>1 DEF SignAt, SignOf
  <2>2. CASE b = n
    BY <1>3, <2>2 DEF SignAt, SignOf, NUL, MINUS
  <2> QED BY <1>3, <2>1, <2>2
<1> QED BY <1>1, <1>2, <1>13, <1>14 DEF Same, t

-----------------------------------------------------------------------------
(* itoa                                                                    *)

LEMMA Tens ==
  /\ TenTo \in [0 .. SIZE -> Nat] /\ TenTo[0] = 1
  /\ \A k \in 1 .. SIZE : TenTo[k] = 10 * TenTo[k - 1]
<1> DEFINE Is(f) == f = [k \in 0 .. SIZE |-> IF k = 0 THEN 1 ELSE 10 * f[k - 1]]
           step == [x \in (1 .. SIZE) \X Nat |-> 10 * x[2]]
<1>1. step \in [(1 .. SIZE) \X Nat -> Nat] /\ SIZE \in Nat /\ 1 \in Nat
  BY SizeIs
<1>2. PICK f : Computes(f, SIZE, Nat, 1, step)
  <2> HIDE DEF step
  <2> QED BY <1>1, LoopExists
<1>3. f \in [0 .. SIZE -> Nat] /\ f[0] = 1 /\ \A k \in 1 .. SIZE : f[k] = step[<<k, f[k - 1]>>]
  BY <1>2 DEF Computes
<1>4. ASSUME NEW k \in 0 .. SIZE, k # 0 PROVE f[k] = 10 * f[k - 1]
  <2>1. k \in 1 .. SIZE /\ f[k - 1] \in Nat
    BY <1>1, <1>3, <1>4
  <2> QED BY <1>3, <2>1
<1>5. Is(f)
  BY <1>3, <1>4
<1>6. Is(TenTo)
  <2>1. TenTo = CHOOSE g : Is(g)
    BY DEF TenTo
  <2> HIDE DEF Is
  <2> QED BY <1>5, <2>1
<1>7. TenTo[0] = 1 /\ \A k \in 1 .. SIZE : TenTo[k] = 10 * TenTo[k - 1]
  BY <1>1, <1>6
<1>8. \A k \in 0 .. SIZE : TenTo[k] \in Nat
  <2> DEFINE T == {k \in 0 .. SIZE : TenTo[k] \in Nat}
  <2>1. 0 \in T
    BY <1>1, <1>7
  <2>2. ASSUME NEW k \in 0 .. SIZE - 1, k \in T PROVE k + 1 \in T
    <3>1. k + 1 \in 1 .. SIZE /\ (k + 1) - 1 = k /\ k + 1 \in 0 .. SIZE
      BY <1>1
    <3>2. TenTo[k + 1] = 10 * TenTo[k]
      BY <1>7, <3>1
    <3> QED BY <2>2, <3>1, <3>2
  <2>3. \A k \in 0 .. SIZE : k \in T
    <3> HIDE DEF T
    <3> QED BY <1>1, <2>1, <2>2, EveryRound
  <2> QED BY <2>3
<1> QED BY <1>6, <1>7, <1>8

Lead      == IF call.n < 0 /\ call.s = 10 THEN 1 ELSE 0
ItoaValue == (IF call.n < 0 /\ call.s = 10 THEN -call.n ELSE call.n) % WORD

(* k digits are stored behind the sign; of n digits and the end, i have    *)
(* changed places with the last i.                                         *)
Stored(m, q, k) == \A a \in Address :
  m[a] = IF a < Lead THEN MINUS
         ELSE IF a < Lead + k THEN DigitAt(q, call.s, a - Lead) ELSE old[a]
Turned(m, q, n, i) == \A a \in Address :
  m[a] = IF a < Lead THEN MINUS
         ELSE IF a < Lead + n
         THEN IF a - Lead < i \/ a - Lead >= n - i THEN DigitAt(q, call.s, (n - 1) - (a - Lead))
                                                   ELSE DigitAt(q, call.s, a - Lead)
         ELSE IF a = Lead + n THEN NUL ELSE old[a]
AllQuotients(q, n) ==
  n > 0 /\ n + 2 <= SIZE /\ Quotients(q, ItoaValue, call.s, n) /\ q[n] = 0

ItoaWrites(r, m) == \E k, q :
  /\ k \in Nat /\ Quotients(q, ItoaValue, call.s, k) /\ (k > 0 => q[k] # 0)
  /\ r.n = q[k] /\ r.s = Lead /\ r.d = Lead + k
  /\ k + 3 <= SIZE /\ q[k] < TenTo[(SIZE - 2) - k] /\ Stored(m, q, k)
ItoaTurns(r, m) == \E n, q, i :
  /\ n \in Nat /\ i \in Nat
  /\ AllQuotients(q, n) /\ 2 * i <= n /\ r.s = Lead + i /\ r.d = Lead + ((n - 1) - i)
  /\ Turned(m, q, n, i)
ItoaHasWritten(x, m) == x = call.d /\ \E n, q : n \in Nat /\ AllQuotients(q, n) /\ Turned(m, q, n, n)

ItoaInv == call.fn = "itoa" =>
  /\ pc = "loop" => mem = old
  /\ pc = "digits" => ItoaWrites(reg, mem)
  /\ pc = "reverse" => ItoaTurns(reg, mem)
  /\ pc = "done" => ItoaHasWritten(ret, mem)

LEMMA ItoaGiven ==
  ASSUME Called, pc # "idle", call.fn = "itoa"
  PROVE  /\ call.d = 0 /\ call.s \in {10, 16} /\ call.n \in -HALF .. HALF - 1 /\ Lead \in 0 .. 1
         /\ ItoaValue \in 0 .. WORD - 1 /\ WORD \in Nat /\ WORD > 0 /\ SIZE \in Nat /\ SIZE >= 2
         /\ call.n < 0 /\ call.s = 10 => ItoaValue = -call.n
         /\ call.n >= 0 => ItoaValue = call.n
<1>1. call.d = 0 /\ call.s \in {10, 16} /\ call.n \in -HALF .. HALF - 1
  BY Halves DEF Called, Given
<1>2. WORD \in Nat /\ WORD > 0 /\ WORD = 2 * HALF /\ HALF \in Nat /\ HALF > 0
  BY Halves, StringsAssumption
<1>3. SIZE \in Nat /\ SIZE >= 2
  BY SizeIs, RoomAssumption
<1>4. Lead \in 0 .. 1
  BY DEF Lead
<1> DEFINE x == IF call.n < 0 /\ call.s = 10 THEN -call.n ELSE call.n
<1>5. x \in Int
  BY <1>1, <1>2
<1>6. ItoaValue = x % WORD
  BY DEF ItoaValue
<1>7. x \in 0 .. WORD - 1 => x % WORD = x
  <2> HIDE DEF x
  <2> QED BY <1>2, SmallRemainder
<1>8. x % WORD \in 0 .. WORD - 1
  <2> HIDE DEF x
  <2> QED BY <1>2, <1>5, Divided
<1>9. call.n < 0 /\ call.s = 10 => x \in 0 .. WORD - 1
  BY <1>1, <1>2
<1>10. call.n >= 0 => x = call.n /\ x \in 0 .. WORD - 1
  BY <1>1, <1>2
<1> QED BY <1>1, <1>2, <1>3, <1>4, <1>6, <1>7, <1>8, <1>9, <1>10

(* The first digit goes behind the sign.                                   *)
LEMMA ItoaBegins ==
  ASSUME Called, Shape, ItoaInv, Itoa, pc = "loop", call' = call, old' = old
  PROVE  pc' = "digits" /\ ItoaWrites(reg', mem')
<1>1. call.fn = "itoa" /\ mem = old
  BY DEF Itoa, Runs, ItoaInv
<1>2. /\ call.d = 0 /\ call.s \in {10, 16} /\ Lead \in 0 .. 1
      /\ ItoaValue \in 0 .. WORD - 1 /\ WORD \in Nat /\ SIZE \in Nat /\ SIZE >= 2
  BY <1>1, ItoaGiven
<1>3. /\ mem' = IF Lead = 1 THEN [mem EXCEPT ![0] = MINUS] ELSE mem
      /\ reg' = [d |-> Lead, s |-> Lead, n |-> ItoaValue] /\ pc' = "digits"
  BY <1>2 DEF Itoa, Runs, Lead, ItoaValue
<1>4. WORD <= TenTo[SIZE - 2] /\ TenTo[0] = 1 /\ WORD > 1
  <2>1. WORD > 1
    BY Halves, <1>2
  <2> QED BY <2>1, RoomAssumption, Tens
<1>5. 0 + 3 <= SIZE
  <2>1. SIZE - 2 # 0
    BY <1>2, <1>4
  <2> QED BY <1>2, <2>1
<1> DEFINE q == [i \in 0 .. 0 |-> ItoaValue]
<1>6. Quotients(q, ItoaValue, call.s, 0) /\ q[0] = ItoaValue
  BY <1>2 DEF Quotients
<1> HIDE DEF q
<1>7. (SIZE - 2) - 0 = SIZE - 2 /\ Lead + 0 = Lead
  BY <1>2
<1>8. q[0] < TenTo[(SIZE - 2) - 0]
  <2>1. TenTo[SIZE - 2] \in Nat
    <3>1. SIZE - 2 \in 0 .. SIZE
      BY <1>2
    <3> QED BY <3>1, Tens
  <2> QED BY <1>2, <1>4, <1>6, <1>7, <2>1
<1>9. Stored(mem', q, 0)
  <2>1. mem = [a \in Address |-> mem[a]]
    BY DEF Shape
  <2>2. ASSUME NEW a \in Address PROVE mem'[a] = IF a < Lead THEN MINUS ELSE old[a]
    <3>1. a \in Nat /\ (a < 1 <=> a = 0)
      BY <1>2 DEF Address
    <3>2. CASE Lead = 1
      BY <1>1, <1>3, <2>1, <3>1, <3>2
    <3>3. CASE Lead = 0
      BY <1>1, <1>3, <3>1, <3>3
    <3> QED BY <1>2, <3>2, <3>3
  <2>3. ASSUME NEW a \in Address, ~ (a < Lead) PROVE ~ (a < Lead + 0)
    BY <1>7, <2>3
  <2> QED BY <2>2, <2>3 DEF Stored
<1> QED BY <1>3, <1>5, <1>6, <1>7, <1>8, <1>9 DEF ItoaWrites

(* A store at the place of the next digit.                                 *)
LEMMA OneMoreStored ==
  ASSUME NEW m, NEW p, NEW q, NEW e, NEW k \in Nat, m = [a \in Address |-> m[a]],
         Lead \in 0 .. 1, Stored(m, q, k), \A i \in 0 .. k : e[i] = q[i],
         p = [m EXCEPT ![Lead + k] = DigitAt(q, call.s, k)], Lead + k < SIZE
  PROVE  Stored(p, e, k + 1)
<1>1. Lead + k \in Address /\ Address \subseteq Nat /\ Lead \in Nat
  BY SizeIs DEF Address
<1>2. ASSUME NEW a \in Address
      PROVE  p[a] = IF a < Lead THEN MINUS
                    ELSE IF a < Lead + (k + 1) THEN DigitAt(e, call.s, a - Lead) ELSE old[a]
  <2>1. m[a] = IF a < Lead THEN MINUS
               ELSE IF a < Lead + k THEN DigitAt(q, call.s, a - Lead) ELSE old[a]
    BY DEF Stored
  <2>2. CASE a = Lead + k
    <3>1. p[a] = DigitAt(q, call.s, k)
      BY <1>1, <2>2
    <3>2. ~ (a < Lead) /\ a < Lead + (k + 1) /\ a - Lead = k /\ k \in 0 .. k
      BY <1>1, <2>2
    <3> QED BY <3>1, <3>2 DEF DigitAt
  <2>3. CASE a # Lead + k
    <3>1. p[a] = m[a]
      BY <1>1, <2>3
    <3>2. a < Lead + (k + 1) <=> a < Lead + k
      BY <1>1, <2>3
    <3>3. ~ (a < Lead) /\ a < Lead + k => a - Lead \in 0 .. k
      BY <1>1
    <3>4. ~ (a < Lead) /\ a < Lead + k => DigitAt(e, call.s, a - Lead) = DigitAt(q, call.s, a - Lead)
      BY <3>3 DEF DigitAt
    <3> QED BY <2>1, <3>1, <3>2, <3>4
  <2> QED BY <2>2, <2>3
<1> QED BY <1>2 DEF Stored

(* A division leaves less than a tenth of the numbers.                     *)
LEMMA TenthLeft ==
  ASSUME NEW base \in {10, 16}, NEW x \in Nat, NEW m \in 1 .. SIZE, x < TenTo[m]
  PROVE  /\ x \div base \in Nat /\ x \div base < TenTo[m - 1]
         /\ m = 1 => x \div base = 0
<1> DEFINE y == x \div base
           r == x % base
           u == TenTo[m - 1]
<1>1. TenTo[m] = 10 * u /\ u \in Nat
  <2>1. m - 1 \in 0 .. SIZE
    BY SizeIs
  <2> QED BY <2>1, Tens
<1>2. y \in Nat /\ r \in 0 .. base - 1 /\ x = y * base + r
  <2>1. x \in Int /\ base \in Nat /\ base > 0
    OBVIOUS
  <2>2. y \in Int /\ r \in 0 .. base - 1 /\ x = y * base + r
    BY <2>1, Divided
  <2>3. y \in Nat
    BY <2>1
  <2> QED BY <2>2, <2>3
<1>3. m = 1 => u = 1
  BY Tens
<1> HIDE DEF y, r, u
<1>4. 10 * y <= x
  <2>1. CASE base = 10
    BY <1>2, <2>1
  <2>2. CASE base = 16
    BY <1>2, <2>2
  <2> QED BY <2>1, <2>2
<1>5. y < u
  BY <1>1, <1>2, <1>4
<1> QED BY <1>2, <1>3, <1>5 DEF y, u

LEMMA ItoaGoesOn ==
  ASSUME Called, Shape, ItoaInv, Itoa, pc = "digits", call' = call, old' = old
  PROVE  \/ pc' = "digits" /\ ItoaWrites(reg', mem')
         \/ pc' = "reverse" /\ ItoaTurns(reg', mem')
<1>1. call.fn = "itoa" /\ ItoaWrites(reg, mem)
  BY DEF Itoa, Runs, ItoaInv
<1>2. /\ call.d = 0 /\ call.s \in {10, 16} /\ Lead \in 0 .. 1
      /\ ItoaValue \in Nat /\ SIZE \in Nat /\ SIZE >= 2
  BY <1>1, ItoaGiven
<1>3. PICK k, q :
        /\ k \in Nat /\ Quotients(q, ItoaValue, call.s, k) /\ (k > 0 => q[k] # 0)
        /\ reg.n = q[k] /\ reg.s = Lead /\ reg.d = Lead + k
        /\ k + 3 <= SIZE /\ q[k] < TenTo[(SIZE - 2) - k] /\ Stored(mem, q, k)
  BY <1>1 DEF ItoaWrites
<1>0. k \in Nat
  BY <1>3
<1> USE <1>0
<1> DEFINE rest == q[k] \div call.s
           put  == [mem EXCEPT ![Lead + k] = DigitAt(q, call.s, k)]
<1>4. /\ rest # 0 => /\ mem' = put /\ reg' = [reg EXCEPT !.d = @ + 1, !.n = rest] /\ pc' = "digits"
      /\ rest = 0 => mem' = [put EXCEPT ![(Lead + k) + 1] = NUL] /\ pc' = "reverse" /\ reg' = reg
  BY <1>3 DEF Itoa, Runs, DigitAt
<1>5. PICK e : /\ Quotients(e, ItoaValue, call.s, k + 1) /\ e[k + 1] = rest
               /\ \A i \in 0 .. k : e[i] = q[i]
  BY <1>2, <1>3, OneMoreQuotient
<1>6. mem = [a \in Address |-> mem[a]]
  BY DEF Shape
<1>7. Lead + k < SIZE /\ (Lead + k) + 1 < SIZE /\ Lead + (k + 1) = (Lead + k) + 1
  BY <1>2, <1>3
<1>8. Stored(put, e, k + 1)
  <2> HIDE DEF put
  <2>1. put = [mem EXCEPT ![Lead + k] = DigitAt(q, call.s, k)]
    BY DEF put
  <2> QED BY <1>2, <1>3, <1>5, <1>6, <1>7, <2>1, OneMoreStored
<1> DEFINE m == (SIZE - 2) - k
<1>9. /\ m \in 1 .. SIZE /\ m - 1 = (SIZE - 2) - (k + 1)
      /\ rest \in Nat /\ rest < TenTo[m - 1] /\ (m = 1 => rest = 0)
  <2>1. m \in 1 .. SIZE /\ m - 1 = (SIZE - 2) - (k + 1)
    BY <1>2, <1>3
  <2>2. q[k] \in Nat /\ q[k] < TenTo[m]
    BY <1>3 DEF Quotients
  <2> DEFINE x == q[k]
             b == call.s
  <2>3. x \in Nat /\ x < TenTo[m] /\ b \in {10, 16}
    BY <1>2, <2>2
  <2> HIDE DEF m, x, b
  <2>4. x \div b \in Nat /\ x \div b < TenTo[m - 1] /\ (m = 1 => x \div b = 0)
    BY <2>1, <2>3, TenthLeft
  <2>5. rest = x \div b
    BY DEF x, b
  <2> QED BY <2>1, <2>4, <2>5
<1>10. CASE rest # 0
  <2>1. mem' = put /\ reg' = [reg EXCEPT !.d = @ + 1, !.n = rest] /\ pc' = "digits"
    BY <1>4, <1>10
  <2> HIDE DEF rest, put
  <2>2. reg'.n = e[k + 1] /\ reg'.s = Lead /\ reg'.d = Lead + (k + 1)
    <3>1. reg'.n = rest /\ reg'.s = reg.s /\ reg'.d = reg.d + 1
      BY <2>1 DEF Called
    <3> QED BY <1>3, <1>5, <1>7, <3>1
  <2>3. (k + 1) + 3 <= SIZE
    <3>1. m # 1
      BY <1>9, <1>10
    <3> QED BY <1>2, <1>3, <1>9, <3>1
  <2>4. e[k + 1] # 0 /\ e[k + 1] < TenTo[(SIZE - 2) - (k + 1)] /\ k + 1 \in Nat
    BY <1>5, <1>9, <1>10
  <2>5. Stored(mem', e, k + 1)
    BY <1>8, <2>1
  <2>6. ItoaWrites(reg', mem')
    BY <1>5, <2>2, <2>3, <2>4, <2>5 DEF ItoaWrites
  <2> QED BY <2>1, <2>6
<1>11. CASE rest = 0
  <2> DEFINE n == k + 1
  <2>1. mem' = [put EXCEPT ![(Lead + k) + 1] = NUL] /\ pc' = "reverse" /\ reg' = reg
    BY <1>4, <1>11
  <2> HIDE DEF rest
  <2>2. AllQuotients(e, n)
    <3>1. n > 0 /\ n + 2 <= SIZE
      BY <1>2, <1>3
    <3> QED BY <1>5, <1>11, <3>1 DEF AllQuotients
  <2>3. n \in Nat /\ 2 * 0 <= n /\ reg'.s = Lead + 0 /\ reg'.d = Lead + ((n - 1) - 0)
    BY <1>2, <1>3, <2>1
  <2>4. put = [a \in Address |-> put[a]]
    <3>1. \A a : [mem EXCEPT ![a] = DigitAt(q, call.s, k)]
                 = [b \in Address |-> [mem EXCEPT ![a] = DigitAt(q, call.s, k)][b]]
      BY <1>6, PutKeepsShape
    <3> QED BY <3>1
  <2> HIDE DEF put
  <2>5. ASSUME NEW a \in Address
        PROVE  mem'[a] = IF a < Lead THEN MINUS
                         ELSE IF a < Lead + n
                         THEN IF a - Lead < 0 \/ a - Lead >= n - 0
                              THEN DigitAt(e, call.s, (n - 1) - (a - Lead))
                              ELSE DigitAt(e, call.s, a - Lead)
                         ELSE IF a = Lead + n THEN NUL ELSE old[a]
    <3>1. put[a] = IF a < Lead THEN MINUS
                   ELSE IF a < Lead + n THEN DigitAt(e, call.s, a - Lead) ELSE old[a]
      BY <1>8 DEF Stored
    <3>2. mem'[a] = IF a = Lead + n THEN NUL ELSE put[a]
      BY <1>7, <2>1, <2>4
    <3>3. a \in Nat /\ Lead \in Nat /\ n \in Nat
      BY <1>2 DEF Address
    <3>4. a = Lead + n => ~ (a < Lead) /\ ~ (a < Lead + n)
      BY <3>3
    <3>5. ~ (a < Lead) /\ a < Lead + n => ~ (a - Lead < 0 \/ a - Lead >= n - 0)
      BY <3>3
    <3> HIDE DEF n
    <3> QED BY <3>1, <3>2, <3>4, <3>5
  <2>6. Turned(mem', e, n, 0)
    BY <2>5 DEF Turned
  <2> HIDE DEF n
  <2>7. ItoaTurns(reg', mem')
    <3> DEFINE z == 0
    <3>1. z \in Nat /\ 2 * z <= n /\ reg'.s = Lead + z /\ reg'.d = Lead + ((n - 1) - z)
          /\ Turned(mem', e, n, z)
      BY <2>3, <2>6
    <3> HIDE DEF z
    <3> QED BY <2>2, <2>3, <3>1 DEF ItoaTurns
  <2> QED BY <2>1, <2>7
<1> QED BY <1>10, <1>11

LEMMA ItoaReverses ==
  ASSUME Called, Shape, ItoaInv, Itoa, pc = "reverse", call' = call, old' = old
  PROVE  \/ pc' = "reverse" /\ ItoaTurns(reg', mem')
         \/ pc' = "done" /\ ItoaHasWritten(ret', mem')
<1>1. call.fn = "itoa" /\ ItoaTurns(reg, mem)
  BY DEF Itoa, Runs, ItoaInv
<1>2. Lead \in 0 .. 1 /\ SIZE \in Nat /\ Lead \in Nat
  BY <1>1, ItoaGiven
<1>3. PICK n, q, i :
        /\ n \in Nat /\ i \in Nat
        /\ AllQuotients(q, n) /\ 2 * i <= n /\ reg.s = Lead + i /\ reg.d = Lead + ((n - 1) - i)
        /\ Turned(mem, q, n, i)
  BY <1>1 DEF ItoaTurns
<1> DEFINE D(j) == DigitAt(q, call.s, j)
<1>4. n \in Nat /\ i \in Nat /\ n > 0 /\ n + 2 <= SIZE
  BY <1>3 DEF AllQuotients
<1>5. ASSUME NEW a \in Address
      PROVE  mem[a] = IF a < Lead THEN MINUS
                      ELSE IF a < Lead + n
                      THEN IF a - Lead < i \/ a - Lead >= n - i THEN D((n - 1) - (a - Lead))
                                                                ELSE D(a - Lead)
                      ELSE IF a = Lead + n THEN NUL ELSE old[a]
  BY <1>3 DEF Turned
<1> DEFINE s == Lead + i
           d == Lead + ((n - 1) - i)
<1>6. (s < d <=> 2 * i < n - 1) /\ s \in Nat /\ d \in Int
  BY <1>2, <1>4
<1>7. Address \subseteq Nat
  BY SizeIs DEF Address
<1> HIDE DEF D
<1>8. CASE s < d
  <2>1. /\ mem' = [mem EXCEPT ![s] = mem[d], ![d] = mem[s]]
        /\ reg' = [reg EXCEPT !.s = @ + 1, !.d = @ - 1] /\ pc' = "reverse"
    BY <1>3, <1>8 DEF Itoa, Runs
  <2>2. s \in Address /\ d \in Address
    BY <1>2, <1>4, <1>6, <1>8 DEF Address
  <2>3. mem[d] = D((n - 1) - i)
    <3>1. ~ (d < Lead) /\ d < Lead + n /\ d - Lead = (n - 1) - i
          /\ ~ ((n - 1) - i < i \/ (n - 1) - i >= n - i)
      BY <1>2, <1>4, <1>6, <1>8
    <3> HIDE DEF d
    <3> QED BY <1>5, <2>2, <3>1
  <2>4. mem[s] = D(i)
    <3>1. ~ (s < Lead) /\ s < Lead + n /\ s - Lead = i /\ ~ (i < i \/ i >= n - i)
      BY <1>2, <1>4, <1>6, <1>8
    <3> HIDE DEF s
    <3> QED BY <1>5, <2>2, <3>1
  <2>5. mem = [a \in Address |-> mem[a]]
    BY DEF Shape
  <2>6. ASSUME NEW a \in Address
        PROVE  mem'[a] = IF a < Lead THEN MINUS
                         ELSE IF a < Lead + n
                         THEN IF a - Lead < i + 1 \/ a - Lead >= n - (i + 1)
                              THEN D((n - 1) - (a - Lead)) ELSE D(a - Lead)
                         ELSE IF a = Lead + n THEN NUL ELSE old[a]
    <3>1. a \in Nat
      BY <1>7
    <3>2. CASE a = s
      <4>1. mem'[a] = mem[d]
        BY <1>8, <2>1, <2>2, <2>5, <3>2
      <4>2. ~ (a < Lead) /\ a < Lead + n /\ a - Lead = i /\ i < i + 1
        BY <1>2, <1>4, <1>6, <1>8, <3>2
      <4> QED BY <2>3, <4>1, <4>2
    <3>3. CASE a = d
      <4>1. mem'[a] = mem[s]
        BY <2>1, <2>2, <2>5, <3>3
      <4>2. ~ (a < Lead) /\ a < Lead + n /\ a - Lead = (n - 1) - i /\ (n - 1) - i >= n - (i + 1)
            /\ (n - 1) - ((n - 1) - i) = i
        BY <1>2, <1>4, <1>6, <1>8, <3>3
      <4> QED BY <2>4, <4>1, <4>2
    <3>4. CASE a # s /\ a # d
      <4>1. mem'[a] = mem[a]
        BY <2>1, <2>2, <2>5, <3>4
      <4>2. a - Lead # i /\ a - Lead # (n - 1) - i
        BY <1>2, <1>4, <3>1, <3>4
      <4> DEFINE j == a - Lead
      <4>3. j \in Int /\ j # i /\ j # (n - 1) - i
        BY <1>2, <3>1, <4>2
      <4> HIDE DEF j
      <4>4. j < i + 1 \/ j >= n - (i + 1) <=> j < i \/ j >= n - i
        BY <1>4, <4>3
      <4>5. a - Lead < i + 1 \/ a - Lead >= n - (i + 1) <=> a - Lead < i \/ a - Lead >= n - i
        BY <4>4 DEF j
      <4> QED BY <1>5, <4>1, <4>5
    <3> QED BY <3>2, <3>3, <3>4
  <2>7. Turned(mem', q, n, i + 1)
    BY <2>6 DEF Turned, D
  <2>8. reg'.s = Lead + (i + 1) /\ reg'.d = Lead + ((n - 1) - (i + 1))
    <3>1. reg'.s = reg.s + 1 /\ reg'.d = reg.d - 1
      BY <2>1 DEF Called
    <3> QED BY <1>2, <1>3, <1>4, <3>1
  <2>9. i + 1 \in Nat /\ 2 * (i + 1) <= n
    BY <1>4, <1>6, <1>8
  <2>10. ItoaTurns(reg', mem')
    <3> DEFINE j == i + 1
    <3>1. /\ n \in Nat /\ j \in Nat
          /\ AllQuotients(q, n) /\ 2 * j <= n /\ reg'.s = Lead + j /\ reg'.d = Lead + ((n - 1) - j)
          /\ Turned(mem', q, n, j)
      BY <1>3, <1>4, <2>7, <2>8, <2>9
    <3> HIDE DEF j
    <3> QED BY <3>1 DEF ItoaTurns
  <2> QED BY <2>1, <2>10
<1>9. CASE ~ (s < d)
  <2>1. ret' = call.d /\ pc' = "done" /\ mem' = mem
    BY <1>3, <1>9 DEF Itoa, Runs, Ends
  <2>2. ASSUME NEW a \in Address
        PROVE  mem[a] = IF a < Lead THEN MINUS
                        ELSE IF a < Lead + n
                        THEN IF a - Lead < n \/ a - Lead >= n - n THEN D((n - 1) - (a - Lead))
                                                                  ELSE D(a - Lead)
                        ELSE IF a = Lead + n THEN NUL ELSE old[a]
    <3> DEFINE j == a - Lead
    <3>1. CASE ~ (a < Lead) /\ a < Lead + n
      <4>1. j \in Nat /\ j < n
        BY <1>2, <1>4, <1>7, <3>1
      <4> HIDE DEF j
      <4>2. j < n \/ j >= n - n
        BY <4>1
      <4>3. ~ (j < i \/ j >= n - i) => j = (n - 1) - j
        BY <1>3, <1>4, <1>6, <1>9, <4>1
      <4>4. IF j < i \/ j >= n - i THEN D((n - 1) - j) = D((n - 1) - j) ELSE D(j) = D((n - 1) - j)
        BY <4>3
      <4>5. mem[a] = D((n - 1) - j)
        BY <1>5, <3>1, <4>4 DEF j
      <4> QED BY <3>1, <4>2, <4>5 DEF j
    <3>2. CASE ~ (~ (a < Lead) /\ a < Lead + n)
      BY <1>2, <1>5, <1>7, <3>2
    <3> QED BY <3>1, <3>2
  <2>3. Turned(mem', q, n, n)
    BY <2>1, <2>2 DEF Turned, D
  <2> QED BY <1>3, <1>4, <2>1, <2>3 DEF ItoaHasWritten
<1> QED BY <1>8, <1>9

LEMMA ItoaTurn ==
  ASSUME Called, Shape, ItoaInv, Turn, call.fn = "itoa"
  PROVE  ItoaInv'
<1>1. Itoa /\ call' = call /\ old' = old /\ pc \in {"loop", "digits", "reverse"}
  BY TurnIs DEF Itoa, Runs
<1>2. Lead' = Lead /\ ItoaValue' = ItoaValue
  BY <1>1 DEF Lead, ItoaValue
<1>3. /\ \A q, k : Stored(mem, q, k)' <=> Stored(mem', q, k)
      /\ \A q, n, i : Turned(mem, q, n, i)' <=> Turned(mem', q, n, i)
      /\ \A q, n : AllQuotients(q, n)' <=> AllQuotients(q, n)
  BY <1>1, <1>2 DEF Stored, Turned, AllQuotients
<1>4. /\ ItoaWrites(reg, mem)' <=> ItoaWrites(reg', mem')
      /\ ItoaTurns(reg, mem)' <=> ItoaTurns(reg', mem')
      /\ ItoaHasWritten(ret, mem)' <=> ItoaHasWritten(ret', mem')
  BY <1>1, <1>2, <1>3 DEF ItoaWrites, ItoaTurns, ItoaHasWritten
<1>5. CASE pc = "loop"
  BY <1>1, <1>4, <1>5, ItoaBegins DEF ItoaInv
<1>6. CASE pc = "digits"
  BY <1>1, <1>4, <1>6, ItoaGoesOn DEF ItoaInv
<1>7. CASE pc = "reverse"
  BY <1>1, <1>4, <1>7, ItoaReverses DEF ItoaInv
<1> QED BY <1>1, <1>5, <1>6, <1>7

LEMMA OneLength ==
  ASSUME NEW m, NEW a, NEW x, NEW y, IsText(m, a, x), IsText(m, a, y)
  PROVE  x = y
<1>1. x \in Nat /\ y \in Nat /\ m[a + x] = NUL /\ m[a + y] = NUL
  BY DEF IsText
<1>2. ASSUME x < y PROVE FALSE
  <2>1. x \in 0 .. y - 1
    BY <1>1, <1>2
  <2> QED BY <1>1, <2>1 DEF IsText
<1>3. ASSUME y < x PROVE FALSE
  <2>1. y \in 0 .. x - 1
    BY <1>1, <1>3
  <2> QED BY <1>1, <2>1 DEF IsText
<1> QED BY <1>1, <1>2, <1>3

(* The buffer holds the sign, the digits and the end.                      *)
LEMMA ItoaText ==
  ASSUME Shape, Called, pc # "idle", call.fn = "itoa", NEW n \in Nat, NEW q,
         AllQuotients(q, n), Turned(mem, q, n, n)
  PROVE  LET text == Str(mem, call.d) IN
         /\ text \in Seq(Nat) /\ Len(text) = Lead + n
         /\ Lead = 1 => text[1] = MINUS
         /\ \A j \in 1 .. n : text[Lead + j] = DigitAt(q, call.s, n - j)
         /\ Written(call.d, Append(text, NUL))
<1> DEFINE text == Str(mem, call.d)
           L == Lead + n
           D(j) == DigitAt(q, call.s, j)
<1>1. /\ call.d = 0 /\ call.s \in {10, 16} /\ Lead \in 0 .. 1 /\ SIZE \in Nat
  BY ItoaGiven
<1>2. /\ n > 0 /\ n + 2 <= SIZE /\ Quotients(q, ItoaValue, call.s, n)
  BY DEF AllQuotients
<1>3. L \in Nat /\ L < SIZE
  BY <1>1, <1>2
<1>4. ASSUME NEW j \in 0 .. n - 1 PROVE D(j) \in Nat /\ D(j) >= ZERO
  <2>1. q[j] \in Nat
    BY <1>2 DEF Quotients
  <2>2. q[j] % call.s \in 0 .. call.s - 1
    BY <1>1, <2>1
  <2> QED BY <1>1, <2>2, DigitIs DEF DigitAt
<1> HIDE DEF D
<1>5. ASSUME NEW a \in Address
      PROVE  mem[a] = IF a < Lead THEN MINUS
                      ELSE IF a < L THEN D((n - 1) - (a - Lead))
                      ELSE IF a = L THEN NUL ELSE old[a]
  <2>1. mem[a] = IF a < Lead THEN MINUS
         ELSE IF a < Lead + n
         THEN IF a - Lead < n \/ a - Lead >= n - n THEN D((n - 1) - (a - Lead)) ELSE D(a - Lead)
         ELSE IF a = Lead + n THEN NUL ELSE old[a]
    BY DEF Turned, D
  <2>2. a < Lead + n => a - Lead < n
    <3>1. a \in Int
      BY <1>1 DEF Address
    <3> QED BY <1>1, <3>1
  <2> QED BY <2>1, <2>2
<1>6. ASSUME NEW k \in 0 .. L - 1
      PROVE  /\ k \in Address /\ mem[k] \in Nat /\ mem[k] # NUL
             /\ mem[k] = IF k < Lead THEN MINUS ELSE D((n - 1) - (k - Lead))
  <2>1. k \in Address /\ k < L
    BY <1>1, <1>3 DEF Address
  <2>2. mem[k] = IF k < Lead THEN MINUS ELSE D((n - 1) - (k - Lead))
    <3> HIDE DEF L
    <3> QED BY <1>5, <2>1
  <2>3. ~ (k < Lead) => (n - 1) - (k - Lead) \in 0 .. n - 1
    BY <1>1
  <2> QED BY <1>4, <2>1, <2>2, <2>3 DEF MINUS, NUL, ZERO
<1>7. L \in Address /\ mem[L] = NUL
  <2>1. L \in Address /\ ~ (L < Lead) /\ ~ (L < L)
    BY <1>1, <1>3 DEF Address
  <2> HIDE DEF L
  <2> QED BY <1>5, <2>1
<1> HIDE DEF L
<1>8. IsText(mem, 0, L)
  BY <1>3, <1>6, <1>7 DEF IsText
<1>9. StrLen(mem, 0) = L /\ IsText(mem, 0, StrLen(mem, 0))
  <2>1. 0 \in Address /\ L \in 0 .. SIZE - 1
    BY <1>3, SizeIs DEF Address
  <2>2. IsText(mem, 0, StrLen(mem, 0))
    BY <1>7, <2>1, TextIs
  <2> QED BY <1>8, <2>2, OneLength
<1>10. /\ Len(text) = L /\ text = [k \in 1 .. L |-> mem[0 + k - 1]]
       /\ \A k \in 0 .. L - 1 : text[k + 1] = mem[k]
  <2>1. /\ Len(text) = L /\ text = [k \in 1 .. L |-> mem[0 + k - 1]]
        /\ \A k \in 0 .. L - 1 : text[k + 1] = mem[0 + k]
    <3> HIDE DEF text
    <3> QED BY <1>1, <1>9, StrIs DEF text
  <2>2. \A k \in 0 .. L - 1 : 0 + k = k
    BY <1>3
  <2> HIDE DEF text
  <2> QED BY <2>1, <2>2
<1> HIDE DEF text
<1>11. text \in Seq(Nat)
  <2>1. \A k \in 1 .. L : mem[0 + k - 1] \in Nat
    <3> TAKE k \in 1 .. L
    <3>1. k - 1 \in 0 .. L - 1 /\ 0 + k - 1 = k - 1
      BY <1>3
    <3> QED BY <1>6, <3>1
  <2>2. text \in [1 .. L -> Nat]
    BY <1>10, <2>1
  <2> QED BY <1>3, <2>2
<1>12. Lead = 1 => text[1] = MINUS
  <2> SUFFICES ASSUME Lead = 1 PROVE text[1] = MINUS
    OBVIOUS
  <2>1. 0 \in 0 .. L - 1 /\ 0 < Lead /\ 0 + 1 = 1
    BY <1>2 DEF L
  <2> QED BY <1>6, <1>10, <2>1
<1>13. ASSUME NEW j \in 1 .. n PROVE text[Lead + j] = D(n - j)
  <2> DEFINE k == Lead + (j - 1)
  <2>1. k \in 0 .. L - 1 /\ ~ (k < Lead) /\ (n - 1) - (k - Lead) = n - j /\ k + 1 = Lead + j
    BY <1>1 DEF L
  <2> HIDE DEF k
  <2>2. text[k + 1] = mem[k] /\ mem[k] = D((n - 1) - (k - Lead))
    BY <1>6, <1>10, <2>1
  <2> QED BY <2>1, <2>2
<1>14. Written(call.d, Append(text, NUL))
  <2> DEFINE app == Append(text, NUL)
  <2>1. /\ Len(app) = L + 1 /\ app[L + 1] = NUL
        /\ \A i \in 1 .. L : app[i] = text[i]
    <3>1. NUL \in Nat
      BY DEF NUL
    <3>2. /\ Len(app) = Len(text) + 1 /\ app[Len(text) + 1] = NUL
          /\ \A i \in 1 .. Len(text) : app[i] = text[i]
      BY <1>11, <3>1, AppendProperties
    <3> QED BY <1>10, <3>2
  <2> HIDE DEF app
  <2>2. ASSUME NEW b \in Address
        PROVE  mem[b] = IF b - 0 \in 0 .. Len(app) - 1 THEN app[b - 0 + 1] ELSE old[b]
    <3>0. b \in Nat
      BY SizeIs DEF Address
    <3>1. CASE b < L
      <4>1. b \in 0 .. L - 1 /\ b + 1 \in 1 .. L /\ b - 0 \in 0 .. Len(app) - 1 /\ b - 0 + 1 = b + 1
        BY <1>3, <2>1, <3>0, <3>1
      <4> QED BY <1>10, <2>1, <4>1
    <3>2. CASE b = L
      <4>1. b - 0 \in 0 .. Len(app) - 1 /\ b - 0 + 1 = L + 1
        BY <1>3, <2>1, <3>2
      <4> QED BY <1>7, <2>1, <3>2, <4>1
    <3>3. CASE b > L
      <4>1. ~ (b - 0 \in 0 .. Len(app) - 1) /\ ~ (b < L) /\ b # L /\ ~ (b < Lead)
        BY <1>1, <1>3, <2>1, <3>0, <3>3 DEF L
      <4> QED BY <1>5, <4>1
    <3> QED BY <1>3, <3>0, <3>1, <3>2, <3>3
  <2>3. mem = [b \in Address |-> mem[b]]
    BY DEF Shape
  <2> QED BY <1>1, <2>2, <2>3 DEF Written, app
<1> QED BY <1>10, <1>11, <1>12, <1>13, <1>14 DEF D, L, text

(* A text with its first character cut.                                    *)
LEMMA TailIs ==
  ASSUME NEW t, t \in Seq(Nat), NEW n \in Nat, Len(t) = n + 1
  PROVE  t # <<>> /\ Tail(t) \in Seq(Nat) /\ Len(Tail(t)) = n /\ \A j \in 1 .. n : Tail(t)[j] = t[1 + j]
<1>1. t # <<>>
  OBVIOUS
<1>2. /\ Tail(t) \in Seq(Nat) /\ Len(Tail(t)) = Len(t) - 1
      /\ \A i \in 1 .. Len(Tail(t)) : Tail(t)[i] = t[i + 1]
  BY <1>1, HeadTailProperties
<1>3. Len(t) - 1 = n /\ \A j \in 1 .. n : 1 + j = j + 1
  OBVIOUS
<1> QED BY <1>1, <1>2, <1>3

LEMMA ItoaDone ==
  ASSUME Shape, Called, ItoaInv, Done("itoa")
  PROVE  LET text == Str(mem, call.d) IN
         /\ ret = call.d /\ Written(call.d, Append(text, NUL))
         /\ IF call.s = 10 THEN Decimal(text, call.n) ELSE Numeral(text, call.n % WORD, call.s)
<1> DEFINE text == Str(mem, call.d)
<1>1. call.fn = "itoa" /\ pc # "idle" /\ ItoaHasWritten(ret, mem)
  BY DEF Done, ItoaInv
<1>2. PICK n, q : n \in Nat /\ AllQuotients(q, n) /\ Turned(mem, q, n, n)
  BY <1>1 DEF ItoaHasWritten
<1>3. /\ text \in Seq(Nat) /\ Len(text) = Lead + n
      /\ Lead = 1 => text[1] = MINUS
      /\ \A j \in 1 .. n : text[Lead + j] = DigitAt(q, call.s, n - j)
      /\ Written(call.d, Append(text, NUL))
  BY <1>1, <1>2, ItoaText
<1> HIDE DEF text
<1>4. /\ call.s \in {10, 16} /\ Lead \in 0 .. 1 /\ ItoaValue \in Nat /\ call.n \in Int
      /\ call.n < 0 /\ call.s = 10 => ItoaValue = -call.n
      /\ call.n >= 0 => ItoaValue = call.n
  <2>1. ItoaValue \in 0 .. WORD - 1 /\ call.n \in -HALF .. HALF - 1 /\ WORD \in Nat
    BY <1>1, ItoaGiven
  <2> QED BY <1>1, <2>1, Halves, ItoaGiven
<1>5. n > 0 /\ Quotients(q, ItoaValue, call.s, n) /\ q[n] = 0
  BY <1>2 DEF AllQuotients
<1>6. CASE Lead = 1
  <2>1. call.n < 0 /\ call.s = 10
    BY <1>6 DEF Lead
  <2>2. text # <<>> /\ Tail(text) \in Seq(Nat) /\ Len(Tail(text)) = n
        /\ \A j \in 1 .. n : Tail(text)[j] = text[1 + j]
    <3>1. Len(text) = n + 1
      BY <1>2, <1>3, <1>6
    <3> QED BY <1>2, <1>3, <3>1, TailIs
  <2>3. Digits(Tail(text), q, call.s, n)
    BY <1>3, <1>6, <2>2 DEF Digits
  <2>4. Numeral(Tail(text), ItoaValue, call.s)
    BY <1>2, <1>4, <1>5, <2>3, NumeralOfDigits
  <2>5. Decimal(text, call.n)
    BY <1>3, <1>4, <1>6, <2>1, <2>2, <2>4 DEF Decimal
  <2> QED BY <1>1, <1>3, <2>1, <2>5 DEF ItoaHasWritten, text
<1>7. CASE Lead = 0
  <2>1. Digits(text, q, call.s, n)
    <3>1. Len(text) = n /\ \A j \in 1 .. n : Lead + j = j
      BY <1>2, <1>3, <1>7
    <3> QED BY <1>3, <3>1 DEF Digits
  <2>2. Numeral(text, ItoaValue, call.s)
    BY <1>2, <1>4, <1>5, <2>1, NumeralOfDigits
  <2>3. ~ (call.n < 0 /\ call.s = 10)
    BY <1>7 DEF Lead
  <2>4. ItoaValue = call.n % WORD
    BY <2>3 DEF ItoaValue
  <2>5. call.s = 10 => Decimal(text, call.n)
    <3> SUFFICES ASSUME call.s = 10 PROVE Decimal(text, call.n)
      OBVIOUS
    <3>1. ~ (call.n < 0) /\ ItoaValue = call.n
      BY <1>4, <2>3
    <3> QED BY <2>2, <3>1 DEF Decimal
  <2> QED BY <1>1, <1>3, <2>2, <2>4, <2>5 DEF ItoaHasWritten, text
<1> QED BY <1>4, <1>6, <1>7

NumberInv == AtoiInv /\ ItoaInv /\ PrintDecInv

LEMMA NumberStart == ASSUME Called, Call PROVE NumberInv'
<1> DEFINE c == call'
<1>1. /\ Given' /\ pc' = "loop" /\ mem' = old'
      /\ reg' = [d |-> c.d, s |-> c.s, n |-> c.n]
  BY CallIs
<1>2. AtoiInv'
  <2> SUFFICES ASSUME c.fn = "atoi" PROVE AtoiSkips(reg)'
    BY <1>1 DEF AtoiInv
  <2>1. SrcText' /\ c.n = 0
    BY <1>1 DEF Given
  <2>2. c.s \in Nat /\ SrcLen' \in Nat
    BY <2>1 DEF SrcText, IsText
  <2>3. 0 \in 0 .. SrcLen' /\ reg'.s = c.s + 0 /\ reg'.n = 0
    BY <1>1, <2>1, <2>2
  <2>4. BlanksTo(0)'
    BY DEF BlanksTo
  <2> QED BY <2>3, <2>4 DEF AtoiSkips
<1>3. ItoaInv'
  BY <1>1 DEF ItoaInv
<1>4. PrintDecInv'
  BY <1>1 DEF PrintDecInv
<1> QED BY <1>2, <1>3, <1>4 DEF NumberInv

LEMMA NumberStep == Called /\ Shape /\ NumberInv /\ [Next]_vars => NumberInv'
<1> SUFFICES ASSUME Called, Shape, NumberInv, [Next]_vars PROVE NumberInv'
  OBVIOUS
<1>1. CASE Call
  BY <1>1, NumberStart
<1>2. CASE Turn
  <2>1. call' = call
    BY <1>2, TurnIs
  <2>2. AtoiInv'
    BY <1>2, <2>1, AtoiTurn DEF NumberInv, AtoiInv
  <2>3. ItoaInv'
    BY <1>2, <2>1, ItoaTurn DEF NumberInv, ItoaInv
  <2>4. PrintDecInv'
    BY <1>2, <2>1, PrintDecTurn DEF NumberInv, PrintDecInv
  <2> QED BY <2>2, <2>3, <2>4 DEF NumberInv
<1>3. CASE Return
  BY <1>3 DEF Return, NoCall, NumberInv, AtoiInv, ItoaInv, PrintDecInv
<1>4. CASE Store
  <2>1. call'.fn = "none"
    BY <1>4 DEF Store, Called, NoCall
  <2> QED BY <2>1 DEF NumberInv, AtoiInv, ItoaInv, PrintDecInv
<1>5. CASE UNCHANGED vars
  <2>1. UNCHANGED <<mem, call, reg, argv, pc, ret, old>>
    BY <1>5 DEF vars
  <2>2. AtoiInv'
    <3>1. SrcLen' = SrcLen /\ \A b : BlanksTo(b)' <=> BlanksTo(b)
      BY <2>1 DEF SrcLen, BlanksTo
    <3>2. \A b, p, k, f : Scanned(b, p, k, f)' <=> Scanned(b, p, k, f)
      BY <2>1, <3>1 DEF Scanned
    <3>3. AtoiSkips(reg)' <=> AtoiSkips(reg)
      BY <2>1, <3>1 DEF AtoiSkips
    <3>4. AtoiReads(reg)' <=> AtoiReads(reg)
      BY <2>1, <3>2 DEF AtoiReads
    <3>5. AtoiHasRead(ret)' <=> AtoiHasRead(ret)
      BY <2>1, <3>2 DEF AtoiHasRead, SignAt
    <3> QED BY <2>1, <3>3, <3>4, <3>5 DEF NumberInv, AtoiInv
  <2>3. ItoaInv'
    <3>1. Lead' = Lead /\ ItoaValue' = ItoaValue
      BY <2>1 DEF Lead, ItoaValue
    <3>2. /\ \A q, k : Stored(mem, q, k)' <=> Stored(mem, q, k)
          /\ \A q, n, i : Turned(mem, q, n, i)' <=> Turned(mem, q, n, i)
          /\ \A q, n : AllQuotients(q, n)' <=> AllQuotients(q, n)
      BY <2>1, <3>1 DEF Stored, Turned, AllQuotients
    <3>3. /\ ItoaWrites(reg, mem)' <=> ItoaWrites(reg, mem)
          /\ ItoaTurns(reg, mem)' <=> ItoaTurns(reg, mem)
          /\ ItoaHasWritten(ret, mem)' <=> ItoaHasWritten(ret, mem)
      BY <2>1, <3>1, <3>2 DEF ItoaWrites, ItoaTurns, ItoaHasWritten
    <3> QED BY <2>1, <3>3 DEF NumberInv, ItoaInv
  <2>4. PrintDecInv'
    <3>1. DecWrites(reg.n, argv)' <=> DecWrites(reg.n, argv)
      BY <2>1 DEF DecWrites, Magnitude
    <3> QED BY <2>1, <3>1 DEF NumberInv, PrintDecInv, HALF
  <2> QED BY <2>2, <2>3, <2>4 DEF NumberInv
<1> QED BY <1>1, <1>2, <1>3, <1>4, <1>5 DEF Next

(* atoi reads the digits behind the blanks and the sign, itoa and          *)
(* vga_print_dec write the numeral of every number but the smallest, which *)
(* vga_print_dec prints as a minus (string.c:145-210, vga.c:161-182).      *)
THEOREM NumbersConvert == Spec => []NumbersSpecified
<1>1. Init => Called /\ MInv /\ NumberInv
  BY CalledInit, MInit DEF Init, NoCall, NumberInv, AtoiInv, ItoaInv, PrintDecInv
<1>2. Called /\ MInv /\ NumberInv => NumbersSpecified
  <2> SUFFICES ASSUME Called, MInv, NumberInv PROVE NumbersSpecified
    OBVIOUS
  <2>1. Done("atoi") => Same /\ ret = Number(Src)
    <3> SUFFICES ASSUME Done("atoi") PROVE Same /\ ret = Number(Src)
      OBVIOUS
    <3>1. old \in Memories /\ SrcText
      BY DEF Called, Given, Done
    <3> QED BY <3>1, AtoiDone DEF NumberInv
  <2>2. Shape /\ ItoaInv /\ PrintDecInv
    BY DEF MInv, NumberInv
  <2>3. Done("itoa") =>
          LET text == Str(mem, call.d) IN
          /\ ret = call.d /\ Written(call.d, Append(text, NUL))
          /\ IF call.s = 10 THEN Decimal(text, call.n) ELSE Numeral(text, call.n % WORD, call.s)
    BY <2>2, ItoaDone
  <2>4. Done("vga_print_dec") =>
          Same /\ IF call.n = -(WORD \div 2) THEN argv = <<MINUS>> ELSE Decimal(argv, call.n)
    BY <2>2 DEF PrintDecInv, Done, Same, HALF
  <2> QED BY <2>1, <2>3, <2>4 DEF NumbersSpecified
<1>3. MInv => Shape
  BY DEF MInv
<1>4. Called /\ MInv /\ NumberInv /\ [Next]_vars => Called' /\ MInv' /\ NumberInv'
  BY <1>3, CalledStep, MStep, NumberStep
<1> QED BY <1>1, <1>2, <1>4, PTL DEF Spec

-----------------------------------------------------------------------------
(* parse_args: the words of a line                                         *)

Begun(t, p) == {j \in Starts(t, Blanks) : j <= p}
Count(t, p) == Cardinality(Begun(t, p))

LEMMA BegunIs ==
  ASSUME NEW t, t \in Seq(Nat), NEW p \in 0 .. Len(t)
  PROVE  /\ Starts(t, Blanks) \subseteq 1 .. Len(t) /\ IsFiniteSet(Starts(t, Blanks))
         /\ Cardinality(Starts(t, Blanks)) \in Nat
         /\ IsFiniteSet(Begun(t, p)) /\ Begun(t, p) \subseteq Starts(t, Blanks)
         /\ Count(t, p) \in Nat /\ Count(t, p) <= Cardinality(Starts(t, Blanks))
<1>1. Len(t) \in Nat /\ DOMAIN t = 1 .. Len(t)
  OBVIOUS
<1>2. Starts(t, Blanks) \subseteq 1 .. Len(t)
  BY <1>1 DEF Starts
<1>3. IsFiniteSet(Starts(t, Blanks))
  <2>1. IsFiniteSet(1 .. Len(t))
    BY <1>1, FS_Interval
  <2> QED BY <1>2, <2>1, FS_Subset
<1>4. Begun(t, p) \subseteq Starts(t, Blanks)
  BY DEF Begun
<1> QED BY <1>2, <1>3, <1>4, FS_Subset, FS_CardinalityType DEF Count

LEMMA CountIs ==
  ASSUME NEW t, t \in Seq(Nat)
  PROVE  /\ Count(t, 0) = 0 /\ Count(t, Len(t)) = Cardinality(Starts(t, Blanks))
         /\ \A p \in 0 .. Len(t) - 1 :
              Count(t, p + 1) = IF p + 1 \in Starts(t, Blanks) THEN Count(t, p) + 1 ELSE Count(t, p)
<1> DEFINE S == Starts(t, Blanks)
<1>1. Len(t) \in Nat
  OBVIOUS
<1>2. S \subseteq 1 .. Len(t)
  BY <1>1, BegunIs
<1> HIDE DEF S
<1>3. Count(t, 0) = 0
  <2>1. Begun(t, 0) = {}
    <3>1. \A j \in 1 .. Len(t) : ~ (j <= 0)
      BY <1>1
    <3> QED BY <1>2, <3>1 DEF Begun, S
  <2> QED BY <2>1, FS_EmptySet DEF Count
<1>4. Begun(t, Len(t)) = S
  <2>1. \A j \in 1 .. Len(t) : j <= Len(t)
    BY <1>1
  <2> QED BY <1>2, <2>1 DEF Begun, S
<1>5. ASSUME NEW p \in 0 .. Len(t) - 1
      PROVE  Count(t, p + 1) = IF p + 1 \in S THEN Count(t, p) + 1 ELSE Count(t, p)
  <2>1. \A j \in 1 .. Len(t) : j <= p + 1 <=> j <= p \/ j = p + 1
    BY <1>1
  <2>2. \A j \in S : j <= p + 1 <=> j <= p \/ j = p + 1
    BY <1>2, <2>1
  <2>3. IsFiniteSet(Begun(t, p))
    <3>1. p \in 0 .. Len(t)
      BY <1>1
    <3> QED BY <3>1, BegunIs
  <2>4. CASE p + 1 \in S
    <3>1. Begun(t, p + 1) = Begun(t, p) \cup {p + 1}
      BY <2>2, <2>4 DEF Begun, S
    <3>2. p + 1 \notin Begun(t, p)
      BY <1>1 DEF Begun
    <3> QED BY <2>3, <2>4, <3>1, <3>2, FS_AddElement DEF Count
  <2>5. CASE p + 1 \notin S
    <3>1. Begun(t, p + 1) = Begun(t, p)
      BY <2>2, <2>5 DEF Begun, S
    <3> QED BY <2>5, <3>1 DEF Count
  <2> QED BY <2>4, <2>5
<1> QED BY <1>3, <1>4, <1>5 DEF Count, S

(* No word begins inside a word.                                           *)
LEMMA SameWord ==
  ASSUME NEW t, t \in Seq(Nat), NEW i \in 1 .. Len(t), NEW e \in i .. Len(t),
         \A j \in i .. e : t[j] \notin Blanks
  PROVE  Count(t, e) = Count(t, i)
<1>1. ASSUME NEW j \in Starts(t, Blanks) PROVE j <= e <=> j <= i
  <2>1. j \in 1 .. Len(t) /\ (j > 1 => t[j - 1] \in Blanks)
    BY <1>1 DEF Starts
  <2>2. ASSUME j <= e, ~ (j <= i) PROVE FALSE
    <3>1. j - 1 \in i .. e /\ j > 1
      BY <2>1, <2>2
    <3> QED BY <2>1, <3>1
  <2>3. j <= i => j <= e
    BY <2>1
  <2> QED BY <2>2, <2>3
<1> QED BY <1>1 DEF Count, Begun

LEMMA OneNth ==
  ASSUME NEW T, IsFiniteSet(T), T \subseteq Nat, NEW k, NEW i, NEW j, IsNth(i, T, k), IsNth(j, T, k)
  PROVE  i = j
<1>1. ASSUME NEW x, NEW y, IsNth(x, T, k), IsNth(y, T, k), x < y PROVE FALSE
  <2> DEFINE X == {z \in T : z <= x}
             Y == {z \in T : z <= y}
  <2>1. x \in Nat /\ y \in T /\ y \in Nat /\ Cardinality(X) = k /\ Cardinality(Y) = k
    BY <1>1 DEF IsNth
  <2>2. X \subseteq Y /\ y \in Y /\ y \notin X
    <3>1. \A z \in Nat : z <= x => z <= y
      BY <1>1, <2>1
    <3>2. y <= y /\ ~ (y <= x)
      BY <1>1, <2>1
    <3> QED BY <2>1, <3>1, <3>2
  <2>3. IsFiniteSet(Y)
    <3>1. Y \subseteq T
      OBVIOUS
    <3> HIDE DEF Y
    <3> QED BY <3>1, FS_Subset
  <2> HIDE DEF X, Y
  <2> QED BY <2>1, <2>2, <2>3, FS_Subset
<1>2. i \in Nat /\ j \in Nat
  BY DEF IsNth
<1> QED BY <1>1, <1>2

(* The k-th word is where it begins and ends.                              *)
LEMMA WordIs ==
  ASSUME NEW t, t \in Seq(Nat), NEW k, NEW i \in 1 .. Len(t), NEW e \in i .. Len(t),
         IsNth(i, Starts(t, Blanks), k), \A j \in i .. e : t[j] \notin Blanks,
         e = Len(t) \/ t[e + 1] \in Blanks
  PROVE  WordAt(t, Blanks, Start(t, Blanks, k)) = SubSeq(t, i, e)
<1> DEFINE at == Starts(t, Blanks)
           s == Start(t, Blanks, k)
<1>1. Len(t) \in Nat /\ at \subseteq Nat /\ IsFiniteSet(at)
  <2>1. Len(t) \in Nat
    OBVIOUS
  <2>2. 0 \in 0 .. Len(t)
    BY <2>1
  <2>3. at \subseteq 1 .. Len(t) /\ IsFiniteSet(at)
    BY <2>2, BegunIs
  <2> HIDE DEF at
  <2> QED BY <2>1, <2>3
<1>2. s = i
  <2>1. s = CHOOSE x \in at : Cardinality({j \in at : j <= x}) = k
    BY DEF Start
  <2> HIDE DEF at, s
  <2>2. i \in at /\ Cardinality({j \in at : j <= i}) = k
    BY DEF IsNth, at
  <2>3. s \in at /\ Cardinality({j \in at : j <= s}) = k
    BY <2>1, <2>2
  <2>4. IsNth(s, at, k) /\ IsNth(i, at, k)
    BY <2>2, <2>3 DEF IsNth
  <2> QED BY <1>1, <2>4, OneNth
<1> HIDE DEF s, at
<1> DEFINE E == {j \in i .. Len(t) : \A x \in i .. j : t[x] \notin Blanks}
<1>3. Max(E) = e
  <2>1. e \in E /\ E \subseteq Int
    OBVIOUS
  <2>2. ASSUME NEW y \in E PROVE e >= y
    <3> SUFFICES ASSUME ~ (e >= y) PROVE FALSE
      OBVIOUS
    <3>1. e + 1 \in i .. y /\ e # Len(t)
      BY <1>1
    <3>2. t[e + 1] \notin Blanks
      BY <3>1
    <3> QED BY <3>1, <3>2
  <2> HIDE DEF E
  <2> QED BY <2>1, <2>2, MaxIs
<1>4. WordAt(t, Blanks, i) = SubSeq(t, i, Max(E))
  BY DEF WordAt
<1> QED BY <1>2, <1>3, <1>4 DEF s

(* The line is as it was from p on, and nothing but blanks has been cut.   *)
Ahead(m, p) == \A j \in p .. SrcLen : m[call.s + j] = old[call.s + j]
OnlyBlanks(m) == \A a \in Address : m[a] # old[a] => old[a] \in Blanks /\ m[a] = NUL

(* x is where the k-th word begins, with the i-th character; the word ends *)
(* with the e-th, before p.                                                *)
Placed(x, i, k) == i \in 1 .. SrcLen /\ x = call.s + (i - 1) /\ IsNth(i, Starts(Src, Blanks), k)
EndsAt(m, i, e) ==
  /\ e \in i .. SrcLen /\ \A j \in i .. e : Src[j] \notin Blanks
  /\ e = SrcLen \/ Src[e + 1] \in Blanks
  /\ m[call.s + e] = NUL
Finished(m, x, k, p) == \E i, e : Placed(x, i, k) /\ EndsAt(m, i, e) /\ e <= p

OnLine(r, m, x, p) ==
  /\ p \in 0 .. SrcLen /\ r.s = call.s + p /\ r.n = call.n
  /\ Ahead(m, p) /\ OnlyBlanks(m) /\ x \in Seq(Nat) /\ Len(x) <= call.n
Between(r, m, x) == \E p :
  /\ OnLine(r, m, x, p) /\ Count(Src, p) = Len(x)
  /\ p = SrcLen \/ p = 0 \/ Src[p] \in Blanks
  /\ \A k \in 1 .. Len(x) : Finished(m, x[k], k, p)
Within(r, m, x) == \E p, i :
  /\ OnLine(r, m, x, p) /\ Len(x) > 0
  /\ Placed(x[Len(x)], i, Len(x)) /\ i <= p + 1 /\ \A j \in i .. p : Src[j] \notin Blanks
  /\ \A k \in 1 .. Len(x) - 1 : Finished(m, x[k], k, p)
AllFound(v, m, x) ==
  /\ v = Len(x) /\ x \in Seq(Nat) /\ Len(x) = Min({Cardinality(Starts(Src, Blanks)), call.n})
  /\ OnlyBlanks(m) /\ \A k \in 1 .. Len(x) : Finished(m, x[k], k, SrcLen)

WordInv ==
  /\ pc = "idle" => argv = <<>>
  /\ call.fn = "parse_args" =>
       /\ pc = "loop" => Between(reg, mem, argv)
       /\ pc = "skip" => Between(reg, mem, argv) /\ Len(argv) < call.n
       /\ pc = "word" => Within(reg, mem, argv)
       /\ pc = "done" => AllFound(ret, mem, argv)

LEMMA MinOfTwo == ASSUME NEW x \in Nat, NEW y \in Nat, x <= y PROVE Min({x, y}) = x /\ Min({y, x}) = x
<1>1. {x, y} \subseteq Int /\ x \in {x, y} /\ \A z \in {x, y} : x <= z
  OBVIOUS
<1>2. {y, x} = {x, y}
  OBVIOUS
<1> QED BY <1>1, <1>2, MinIs

LEMMA LineIs ==
  ASSUME Called, pc # "idle", call.fn = "parse_args"
  PROVE  /\ old \in Memories /\ SrcText /\ call.n \in Nat
         /\ Src \in Seq(Nat) /\ Len(Src) = SrcLen /\ SrcLen \in Nat /\ call.s \in Nat
         /\ call.s + SrcLen < SIZE /\ SIZE \in Nat
         /\ \A i \in 0 .. SrcLen - 1 : Src[i + 1] = old[call.s + i] /\ old[call.s + i] # NUL
         /\ old[call.s + SrcLen] = NUL /\ NUL \notin Blanks
<1>1. old \in Memories /\ SrcText /\ call.n \in Nat
  BY DEF Called, Given
<1> QED BY <1>1, SrcIs, SizeIs DEF NUL, Blanks

(* What the pointer sees.                                                  *)
LEMMA SeesIs ==
  ASSUME Called, pc # "idle", call.fn = "parse_args", NEW p, OnLine(reg, mem, argv, p)
  PROVE  /\ mem[reg.s] = NUL <=> p = SrcLen
         /\ mem[reg.s] \in Blanks => p < SrcLen
         /\ p < SrcLen => Src[p + 1] = mem[reg.s]
<1>1. p \in 0 .. SrcLen /\ reg.s = call.s + p /\ mem[call.s + p] = old[call.s + p] /\ SrcLen \in Nat
  <2>1. SrcLen \in Nat
    BY LineIs
  <2>2. p \in 0 .. SrcLen
    BY DEF OnLine
  <2>3. p \in p .. SrcLen
    BY <2>1, <2>2
  <2> QED BY <2>1, <2>2, <2>3 DEF OnLine, Ahead
<1>2. p < SrcLen => Src[p + 1] = old[call.s + p] /\ old[call.s + p] # NUL
  <2>1. p < SrcLen => p \in 0 .. SrcLen - 1
    BY <1>1
  <2> QED BY <2>1, LineIs
<1>3. p = SrcLen => old[call.s + p] = NUL
  BY LineIs
<1>4. p < SrcLen \/ p = SrcLen
  BY <1>1
<1> QED BY <1>1, <1>2, <1>3, <1>4, LineIs

LEMMA StaysFinished ==
  ASSUME Called, pc # "idle", call.fn = "parse_args",
         NEW m, NEW w, NEW x, NEW k, NEW p \in Nat, NEW q \in Nat, p <= q,
         Finished(m, x, k, p), \A a \in Address : m[a] = NUL => w[a] = NUL
  PROVE  Finished(w, x, k, q)
<1>0. SrcLen \in Nat /\ call.s \in Nat /\ call.s + SrcLen < SIZE /\ SIZE \in Nat
  BY LineIs
<1>1. PICK i, e : Placed(x, i, k) /\ EndsAt(m, i, e) /\ e <= p
  BY DEF Finished
<1>2. EndsAt(w, i, e)
  <2>1. call.s + e \in Address
    BY <1>0, <1>1 DEF EndsAt, Placed, Address
  <2> QED BY <1>1, <2>1 DEF EndsAt
<1>3. e <= q
  <2>1. i \in Int /\ e \in Int
    BY <1>0, <1>1 DEF Placed, EndsAt
  <2> QED BY <1>1, <2>1
<1> QED BY <1>1, <1>2, <1>3 DEF Finished

LEMMA MovesOn ==
  ASSUME Called, pc # "idle", call.fn = "parse_args", NEW p, OnLine(reg, mem, argv, p), p < SrcLen,
         NEW r, r.s = reg.s + 1, r.n = reg.n
  PROVE  OnLine(r, mem, argv, p + 1)
<1>1. SrcLen \in Nat /\ call.s \in Nat
  BY LineIs
<1>2. p \in 0 .. SrcLen /\ reg.s = call.s + p
  BY DEF OnLine
<1>3. p + 1 \in 0 .. SrcLen /\ r.s = call.s + (p + 1) /\ \A j \in p + 1 .. SrcLen : j \in p .. SrcLen
  BY <1>1, <1>2
<1>4. Ahead(mem, p + 1)
  BY <1>3 DEF OnLine, Ahead
<1> QED BY <1>3, <1>4 DEF OnLine

(* The line is at its end, or there are as many words as asked for.        *)
LEMMA NoMoreWords ==
  ASSUME Called, pc # "idle", call.fn = "parse_args", Between(reg, mem, argv),
         mem[reg.s] = NUL \/ ~ (Len(argv) < call.n)
  PROVE  AllFound(Len(argv), mem, argv)
<1>1. PICK p :
        /\ OnLine(reg, mem, argv, p) /\ Count(Src, p) = Len(argv)
        /\ \A k \in 1 .. Len(argv) : Finished(mem, argv[k], k, p)
  BY DEF Between
<1>2. /\ p \in 0 .. SrcLen /\ SrcLen \in Nat /\ Len(Src) = SrcLen /\ Src \in Seq(Nat) /\ call.n \in Nat
      /\ argv \in Seq(Nat) /\ Len(argv) <= call.n /\ OnlyBlanks(mem)
  BY <1>1, LineIs DEF OnLine
<1> DEFINE total == Cardinality(Starts(Src, Blanks))
<1>3. total \in Nat /\ Count(Src, p) <= total /\ Count(Src, p) \in Nat
  BY <1>2, BegunIs
<1>4. Count(Src, SrcLen) = total
  BY <1>2, CountIs
<1> HIDE DEF total
<1>5. Len(argv) = Min({total, call.n})
  <2>1. CASE mem[reg.s] = NUL
    <3>1. Len(argv) = total
      BY <1>1, <1>4, <2>1, SeesIs
    <3> QED BY <1>2, <1>3, <3>1, MinOfTwo
  <2>2. CASE ~ (Len(argv) < call.n)
    <3>1. Len(argv) = call.n /\ call.n <= total
      BY <1>1, <1>2, <1>3, <2>2
    <3> QED BY <1>2, <1>3, <3>1, MinOfTwo
  <2> QED BY <2>1, <2>2
<1>6. ASSUME NEW k \in 1 .. Len(argv) PROVE Finished(mem, argv[k], k, SrcLen)
  <2>1. p \in Nat /\ p <= SrcLen
    BY <1>2
  <2> QED BY <1>1, <1>2, <1>6, <2>1, StaysFinished
<1> QED BY <1>2, <1>5, <1>6 DEF AllFound, total

LEMMA LoopTurn ==
  ASSUME Called, WordInv, ParseArgs, pc = "loop"
  PROVE  \/ pc' = "skip" /\ Between(reg', mem', argv') /\ Len(argv') < call.n
         \/ pc' = "done" /\ AllFound(ret', mem', argv')
<1>1. call.fn = "parse_args" /\ Between(reg, mem, argv)
  BY DEF ParseArgs, Skip, Word, Runs, WordInv
<1>2. reg.n = call.n
  BY <1>1 DEF Between, OnLine
<1>3. CASE mem[reg.s] # NUL /\ Len(argv) < reg.n
  BY <1>1, <1>2, <1>3 DEF ParseArgs, Skip, Word, Runs, To
<1>4. CASE ~ (mem[reg.s] # NUL /\ Len(argv) < reg.n)
  <2>1. pc' = "done" /\ ret' = Len(argv) /\ mem' = mem /\ argv' = argv
    BY <1>4 DEF ParseArgs, Skip, Word, Runs, Ends
  <2> QED BY <1>1, <1>2, <1>4, <2>1, NoMoreWords
<1> QED BY <1>3, <1>4

LEMMA SkipTurn ==
  ASSUME Called, WordInv, ParseArgs, pc = "skip"
  PROVE  \/ pc' = "skip" /\ Between(reg', mem', argv') /\ Len(argv') < call.n
         \/ pc' = "word" /\ Within(reg', mem', argv')
         \/ pc' = "done" /\ AllFound(ret', mem', argv')
<1>1. call.fn = "parse_args" /\ Between(reg, mem, argv) /\ Len(argv) < call.n /\ Skip
  BY DEF ParseArgs, Skip, Word, Runs, WordInv
<1>2. PICK p :
        /\ OnLine(reg, mem, argv, p) /\ Count(Src, p) = Len(argv)
        /\ p = SrcLen \/ p = 0 \/ Src[p] \in Blanks
        /\ \A k \in 1 .. Len(argv) : Finished(mem, argv[k], k, p)
  BY <1>1 DEF Between
<1>3. /\ p \in 0 .. SrcLen /\ SrcLen \in Nat /\ Len(Src) = SrcLen /\ Src \in Seq(Nat)
      /\ DOMAIN Src = 1 .. SrcLen /\ call.n \in Nat /\ call.s \in Nat
      /\ argv \in Seq(Nat) /\ Len(argv) <= call.n /\ Len(argv) \in Nat
      /\ reg.s = call.s + p /\ reg.n = call.n /\ Ahead(mem, p) /\ OnlyBlanks(mem)
  BY <1>1, <1>2, LineIs DEF OnLine
<1>4. /\ mem[reg.s] = NUL <=> p = SrcLen
      /\ mem[reg.s] \in Blanks => p < SrcLen
      /\ p < SrcLen => Src[p + 1] = mem[reg.s]
  BY <1>1, <1>2, SeesIs
<1>5. CASE mem[reg.s] \in Blanks
  <2>1. reg' = [reg EXCEPT !.s = @ + 1] /\ pc' = "skip" /\ mem' = mem /\ argv' = argv
    BY <1>1, <1>5 DEF Skip, Runs, Goes, NUL, Blanks
  <2>2. reg'.s = reg.s + 1 /\ reg'.n = reg.n
    BY <2>1 DEF Called
  <2>3. OnLine(reg', mem', argv', p + 1)
    BY <1>1, <1>2, <1>4, <1>5, <2>1, <2>2, MovesOn
  <2>4. p < SrcLen /\ Src[p + 1] \in Blanks
    BY <1>4, <1>5
  <2>5. Count(Src, p + 1) = Len(argv)
    <3>1. p + 1 \notin Starts(Src, Blanks) /\ p \in 0 .. SrcLen - 1
      BY <1>3, <2>4 DEF Starts
    <3> QED BY <1>2, <1>3, <3>1, CountIs
  <2>6. ASSUME NEW k \in 1 .. Len(argv) PROVE Finished(mem, argv[k], k, p + 1)
    <3>1. p \in Nat /\ p + 1 \in Nat /\ p <= p + 1
      BY <1>3
    <3> QED BY <1>1, <1>2, <2>6, <3>1, StaysFinished
  <2> DEFINE n == p + 1
  <2>7. /\ OnLine(reg', mem', argv', n) /\ Count(Src, n) = Len(argv') /\ Src[n] \in Blanks
        /\ \A k \in 1 .. Len(argv') : Finished(mem', argv'[k], k, n)
    BY <2>1, <2>3, <2>4, <2>5, <2>6
  <2> HIDE DEF n
  <2>8. Between(reg', mem', argv')
    BY <2>7 DEF Between
  <2> QED BY <1>1, <2>1, <2>8
<1>6. CASE mem[reg.s] = NUL
  <2>1. pc' = "done" /\ ret' = Len(argv) /\ mem' = mem /\ argv' = argv
    BY <1>1, <1>6 DEF Skip, Runs, Ends, NUL, Blanks
  <2> QED BY <1>1, <1>6, <2>1, NoMoreWords
<1>7. CASE mem[reg.s] \notin Blanks /\ mem[reg.s] # NUL
  <2>1. argv' = Append(argv, reg.s) /\ pc' = "word" /\ mem' = mem /\ reg' = reg
    BY <1>1, <1>7 DEF Skip, Runs
  <2> DEFINE i == p + 1
             last == Len(argv) + 1
  <2>2. p < SrcLen /\ i \in 1 .. SrcLen /\ Src[i] \notin Blanks /\ i - 1 = p
    BY <1>3, <1>4, <1>7
  <2>3. i \in Starts(Src, Blanks)
    <3>1. i > 1 => Src[i - 1] \in Blanks
      BY <1>2, <1>3, <2>2
    <3> HIDE DEF i
    <3> QED BY <1>3, <2>2, <3>1 DEF Starts
  <2>4. Count(Src, i) = last
    <3>1. p \in 0 .. SrcLen - 1
      BY <1>3, <2>2
    <3> QED BY <1>2, <1>3, <2>3, <3>1, CountIs
  <2> HIDE DEF i
  <2>5. /\ argv' \in Seq(Nat) /\ Len(argv') = last /\ argv'[last] = reg.s
        /\ \A k \in 1 .. Len(argv) : argv'[k] = argv[k]
    <3>1. reg.s \in Nat
      BY <1>3
    <3> QED BY <1>3, <2>1, <3>1, AppendProperties
  <2>6. last \in Nat /\ last > 0 /\ last <= call.n /\ last - 1 = Len(argv)
    BY <1>1, <1>3
  <2> HIDE DEF last
  <2>7. Placed(argv'[last], i, last)
    <3>1. reg.s = call.s + (i - 1)
      BY <1>3, <2>2
    <3>2. IsNth(i, Starts(Src, Blanks), last)
      BY <2>3, <2>4 DEF IsNth, Count, Begun
    <3> QED BY <2>2, <2>5, <3>1, <3>2 DEF Placed
  <2>8. i <= p + 1 /\ \A j \in i .. p : Src[j] \notin Blanks
    BY <1>3, <2>2 DEF i
  <2>9. OnLine(reg', mem', argv', p)
    BY <1>3, <2>1, <2>5, <2>6 DEF OnLine
  <2>10. \A k \in 1 .. last - 1 : Finished(mem', argv'[k], k, p)
    BY <1>2, <2>1, <2>5, <2>6
  <2>11. Within(reg', mem', argv')
    BY <2>5, <2>6, <2>7, <2>8, <2>9, <2>10 DEF Within
  <2> QED BY <2>1, <2>11
<1> QED BY <1>5, <1>6, <1>7

(* What is known inside a word.                                            *)
LEMMA WordEnds ==
  ASSUME Called, pc # "idle", call.fn = "parse_args", NEW p, NEW i,
         OnLine(reg, mem, argv, p), Len(argv) > 0, Placed(argv[Len(argv)], i, Len(argv)),
         i <= p + 1, \A j \in i .. p : Src[j] \notin Blanks,
         p = SrcLen \/ Src[p + 1] \in Blanks,
         \A k \in 1 .. Len(argv) - 1 : Finished(mem, argv[k], k, p),
         NEW w, w[call.s + p] = NUL, \A a \in Address : mem[a] = NUL => w[a] = NUL
  PROVE  Count(Src, p) = Len(argv) /\ \A k \in 1 .. Len(argv) : Finished(w, argv[k], k, p)
<1>1. /\ p \in 0 .. SrcLen /\ SrcLen \in Nat /\ Len(Src) = SrcLen /\ Src \in Seq(Nat)
      /\ argv \in Seq(Nat) /\ Len(argv) \in Nat
  BY LineIs DEF OnLine
<1>2. i \in 1 .. SrcLen /\ i \in Starts(Src, Blanks) /\ Count(Src, i) = Len(argv)
  BY DEF Placed, IsNth, Count, Begun
<1>3. Src[i] \notin Blanks
  BY <1>2 DEF Starts
<1>4. p \in i .. SrcLen
  <2>1. i # p + 1
    BY <1>1, <1>2, <1>3
  <2> QED BY <1>1, <1>2, <2>1
<1>5. Count(Src, p) = Len(argv)
  BY <1>1, <1>2, <1>4, SameWord
<1>6. Finished(w, argv[Len(argv)], Len(argv), p)
  <2>1. EndsAt(w, i, p)
    BY <1>4 DEF EndsAt
  <2>2. p <= p
    BY <1>1
  <2> QED BY <2>1, <2>2 DEF Finished
<1>7. ASSUME NEW k \in 1 .. Len(argv) - 1 PROVE Finished(w, argv[k], k, p)
  <2>1. p \in Nat /\ p <= p /\ Finished(mem, argv[k], k, p)
    BY <1>1
  <2> QED BY <2>1, StaysFinished
<1>8. \A k \in 1 .. Len(argv) : k = Len(argv) \/ k \in 1 .. Len(argv) - 1
  BY <1>1
<1> QED BY <1>5, <1>6, <1>7, <1>8

(* A blank is cut.                                                         *)
LEMMA Cuts ==
  ASSUME Called, Shape, pc # "idle", call.fn = "parse_args", NEW p, OnLine(reg, mem, argv, p),
         p < SrcLen, mem[reg.s] \in Blanks,
         NEW r, r.s = reg.s + 1, r.n = reg.n, NEW w, w = [mem EXCEPT ![reg.s] = NUL]
  PROVE  /\ OnLine(r, w, argv, p + 1) /\ w[call.s + p] = NUL
         /\ \A a \in Address : mem[a] = NUL => w[a] = NUL
<1>1. /\ p \in 0 .. SrcLen /\ SrcLen \in Nat /\ call.s \in Nat /\ call.s + SrcLen < SIZE /\ SIZE \in Nat
      /\ reg.s = call.s + p /\ OnlyBlanks(mem) /\ Ahead(mem, p)
  BY LineIs DEF OnLine
<1>2. Row(mem) /\ reg.s \in Address
  BY <1>1 DEF Shape, Row, Address
<1>3. \A a \in Address : w[a] = IF a = reg.s THEN NUL ELSE mem[a]
  BY <1>2 DEF Row
<1>4. w[call.s + p] = NUL
  BY <1>1, <1>2, <1>3
<1>5. OnLine(r, mem, argv, p + 1)
  BY MovesOn
<1>6. Ahead(w, p + 1)
  <2> SUFFICES ASSUME NEW j \in p + 1 .. SrcLen PROVE w[call.s + j] = old[call.s + j]
    BY DEF Ahead
  <2>1. call.s + j \in Address /\ call.s + j # reg.s /\ j \in p .. SrcLen
    BY <1>1 DEF Address
  <2> QED BY <1>1, <1>3, <2>1 DEF Ahead
<1>7. OnlyBlanks(w)
  <2> SUFFICES ASSUME NEW a \in Address, w[a] # old[a] PROVE old[a] \in Blanks /\ w[a] = NUL
    BY DEF OnlyBlanks
  <2>1. CASE a = reg.s
    <3>1. p \in p .. SrcLen
      BY <1>1
    <3>2. mem[reg.s] = old[reg.s]
      BY <1>1, <3>1 DEF Ahead
    <3> QED BY <1>3, <2>1, <3>2
  <2>2. CASE a # reg.s
    <3>1. mem[a] # old[a] /\ w[a] = mem[a]
      BY <1>3, <2>2
    <3> QED BY <1>1, <3>1 DEF OnlyBlanks
  <2> QED BY <2>1, <2>2
<1>8. OnLine(r, w, argv, p + 1)
  BY <1>5, <1>6, <1>7 DEF OnLine
<1> QED BY <1>3, <1>4, <1>8

LEMMA WordTurn ==
  ASSUME Called, Shape, WordInv, ParseArgs, pc = "word"
  PROVE  \/ pc' = "word" /\ Within(reg', mem', argv')
         \/ pc' = "loop" /\ Between(reg', mem', argv')
<1>1. call.fn = "parse_args" /\ Within(reg, mem, argv) /\ Word
  BY DEF ParseArgs, Skip, Word, Runs, WordInv
<1>2. PICK p, i :
        /\ OnLine(reg, mem, argv, p) /\ Len(argv) > 0
        /\ Placed(argv[Len(argv)], i, Len(argv)) /\ i <= p + 1
        /\ \A j \in i .. p : Src[j] \notin Blanks
        /\ \A k \in 1 .. Len(argv) - 1 : Finished(mem, argv[k], k, p)
  BY <1>1 DEF Within
<1>3. /\ p \in 0 .. SrcLen /\ SrcLen \in Nat /\ Len(Src) = SrcLen /\ Src \in Seq(Nat)
      /\ DOMAIN Src = 1 .. SrcLen
      /\ argv \in Seq(Nat) /\ Len(argv) \in Nat /\ reg.s = call.s + p
  BY <1>1, <1>2, LineIs DEF OnLine
<1>4. /\ mem[reg.s] = NUL <=> p = SrcLen
      /\ mem[reg.s] \in Blanks => p < SrcLen
      /\ p < SrcLen => Src[p + 1] = mem[reg.s]
  BY <1>1, <1>2, SeesIs
<1>5. NUL \notin Blanks
  BY DEF NUL, Blanks
<1>6. CASE mem[reg.s] \notin Blanks \cup {NUL}
  <2>1. reg' = [reg EXCEPT !.s = @ + 1] /\ pc' = "word" /\ mem' = mem /\ argv' = argv
    BY <1>1, <1>6 DEF Word, Runs, Goes
  <2>2. reg'.s = reg.s + 1 /\ reg'.n = reg.n
    BY <2>1 DEF Called
  <2>3. p < SrcLen /\ Src[p + 1] \notin Blanks
    BY <1>3, <1>4, <1>6
  <2> DEFINE n == p + 1
  <2>4. OnLine(reg', mem', argv', n)
    BY <1>1, <1>2, <2>1, <2>2, <2>3, MovesOn
  <2>5. i \in Int
    BY <1>2 DEF Placed
  <2>6. i <= n + 1 /\ \A j \in i .. n : Src[j] \notin Blanks
    <3>1. \A j \in i .. n : j = n \/ j \in i .. p
      BY <1>3, <2>5
    <3>2. i <= n + 1
      BY <1>2, <1>3, <2>5
    <3> HIDE DEF n
    <3> QED BY <1>2, <2>3, <3>1, <3>2 DEF n
  <2>7. ASSUME NEW k \in 1 .. Len(argv) - 1 PROVE Finished(mem, argv[k], k, n)
    <3>1. p \in Nat /\ n \in Nat /\ p <= n /\ Finished(mem, argv[k], k, p)
      BY <1>2, <1>3
    <3> HIDE DEF n
    <3> QED BY <1>1, <3>1, StaysFinished
  <2> HIDE DEF n
  <2>8. Within(reg', mem', argv')
    BY <1>2, <2>1, <2>4, <2>6, <2>7 DEF Within
  <2> QED BY <2>1, <2>8
<1>7. CASE mem[reg.s] = NUL
  <2>1. pc' = "loop" /\ mem' = mem /\ argv' = argv /\ reg' = reg
    BY <1>1, <1>5, <1>7 DEF Word, Runs, To
  <2>2. p = SrcLen /\ mem[call.s + p] = NUL
    BY <1>3, <1>4, <1>7
  <2>3. Count(Src, p) = Len(argv) /\ \A k \in 1 .. Len(argv) : Finished(mem, argv[k], k, p)
    <3>1. \A a \in Address : mem[a] = NUL => mem[a] = NUL
      OBVIOUS
    <3> QED BY <1>1, <1>2, <2>2, <3>1, WordEnds
  <2>4. Between(reg', mem', argv')
    BY <1>2, <2>1, <2>2, <2>3 DEF Between
  <2> QED BY <2>1, <2>4
<1>8. CASE mem[reg.s] \in Blanks
  <2>1. /\ mem' = [mem EXCEPT ![reg.s] = NUL] /\ reg' = [reg EXCEPT !.s = @ + 1]
        /\ pc' = "loop" /\ argv' = argv
    BY <1>1, <1>5, <1>8 DEF Word, Runs, Puts
  <2>2. reg'.s = reg.s + 1 /\ reg'.n = reg.n
    BY <2>1 DEF Called
  <2>3. p < SrcLen /\ Src[p + 1] \in Blanks
    BY <1>4, <1>8
  <2>4. /\ OnLine(reg', mem', argv, p + 1) /\ mem'[call.s + p] = NUL
        /\ \A a \in Address : mem[a] = NUL => mem'[a] = NUL
    BY <1>1, <1>2, <1>8, <2>1, <2>2, <2>3, Cuts
  <2>5. Count(Src, p) = Len(argv) /\ \A k \in 1 .. Len(argv) : Finished(mem', argv[k], k, p)
    BY <1>1, <1>2, <2>3, <2>4, WordEnds
  <2>6. Count(Src, p + 1) = Len(argv)
    <3>1. p + 1 \notin Starts(Src, Blanks) /\ p \in 0 .. SrcLen - 1
      BY <1>3, <2>3 DEF Starts
    <3> QED BY <1>3, <2>5, <3>1, CountIs
  <2> DEFINE n == p + 1
  <2>7. ASSUME NEW k \in 1 .. Len(argv) PROVE Finished(mem', argv[k], k, n)
    <3>1. p \in Nat /\ n \in Nat /\ p <= n /\ Finished(mem', argv[k], k, p)
      BY <1>3, <2>5
    <3> HIDE DEF n
    <3>2. \A a \in Address : mem'[a] = NUL => mem'[a] = NUL
      OBVIOUS
    <3> QED BY <1>1, <3>1, <3>2, StaysFinished
  <2>8. /\ OnLine(reg', mem', argv', n) /\ Count(Src, n) = Len(argv') /\ Src[n] \in Blanks
        /\ \A k \in 1 .. Len(argv') : Finished(mem', argv'[k], k, n)
    BY <2>1, <2>3, <2>4, <2>6, <2>7
  <2> HIDE DEF n
  <2>9. Between(reg', mem', argv')
    BY <2>8 DEF Between
  <2> QED BY <2>1, <2>9
<1> QED BY <1>6, <1>7, <1>8

(* A word in memory is the word of the line.                               *)
LEMMA WordInMemory ==
  ASSUME Called, pc # "idle", call.fn = "parse_args", OnlyBlanks(mem),
         NEW x, NEW k, Finished(mem, x, k, SrcLen)
  PROVE  Str(mem, x) = WordAt(Src, Blanks, Start(Src, Blanks, k))
<1>1. PICK i, e : Placed(x, i, k) /\ EndsAt(mem, i, e)
  BY DEF Finished
<1>2. /\ SrcLen \in Nat /\ Len(Src) = SrcLen /\ Src \in Seq(Nat) /\ call.s \in Nat
      /\ call.s + SrcLen < SIZE /\ SIZE \in Nat
      /\ \A j \in 0 .. SrcLen - 1 : Src[j + 1] = old[call.s + j] /\ old[call.s + j] # NUL
  BY LineIs
<1>3. /\ i \in 1 .. SrcLen /\ x = call.s + (i - 1) /\ IsNth(i, Starts(Src, Blanks), k)
      /\ e \in i .. SrcLen /\ \A j \in i .. e : Src[j] \notin Blanks
      /\ e = SrcLen \/ Src[e + 1] \in Blanks
      /\ mem[call.s + e] = NUL
  BY <1>1 DEF Placed, EndsAt
<1> DEFINE h == i - 1
           n == (e - i) + 1
<1>0. /\ SrcLen \in Nat /\ call.s \in Nat /\ call.s + SrcLen < SIZE /\ SIZE \in Nat
      /\ i \in 1 .. SrcLen /\ e \in i .. SrcLen /\ x = call.s + (i - 1)
  BY <1>2, <1>3
<1>4. h \in Nat /\ n \in Nat /\ h + 1 = i /\ h + n = e /\ x \in Nat /\ x + n = call.s + e
      /\ x \in Address /\ x + n \in x .. SIZE - 1 /\ x + n < SIZE
  BY <1>0 DEF Address
<1>5. ASSUME NEW j \in 0 .. n - 1 PROVE mem[x + j] = Src[h + (j + 1)] /\ mem[x + j] # NUL
  <2> DEFINE y == h + j
  <2>1. y \in 0 .. SrcLen - 1 /\ y + 1 = h + (j + 1) /\ y + 1 \in i .. e /\ x + j = call.s + y
        /\ call.s + y \in Address
    BY <1>0 DEF Address
  <2> HIDE DEF y
  <2>2. Src[y + 1] = old[call.s + y] /\ old[call.s + y] # NUL /\ Src[y + 1] \notin Blanks
    BY <1>2, <1>3, <2>1
  <2>3. mem[call.s + y] = old[call.s + y]
    BY <2>1, <2>2 DEF OnlyBlanks
  <2> QED BY <2>1, <2>2, <2>3
<1> HIDE DEF h, n
<1>6. IsText(mem, x, n)
  BY <1>3, <1>4, <1>5 DEF IsText
<1>7. StrLen(mem, x) = n
  <2>1. mem[x + n] = NUL
    BY <1>3, <1>4
  <2>2. IsText(mem, x, StrLen(mem, x))
    BY <1>4, <2>1, TextIs
  <2> QED BY <1>6, <2>2, OneLength
<1>8. Str(mem, x) = [j \in 1 .. n |-> mem[x + j - 1]]
  BY <1>6, <1>7, StrIs
<1>9. SubSeq(Src, i, e) = [j \in 1 .. n |-> Src[h + j]]
  BY <1>4, PartIs
<1>10. ASSUME NEW j \in 1 .. n PROVE mem[x + j - 1] = Src[h + j]
  <2> DEFINE y == j - 1
  <2>1. y \in 0 .. n - 1 /\ x + j - 1 = x + y /\ y + 1 = j
    BY <1>4
  <2> HIDE DEF y
  <2> QED BY <1>5, <2>1
<1>11. Str(mem, x) = SubSeq(Src, i, e)
  BY <1>8, <1>9, <1>10
<1> QED BY <1>2, <1>3, <1>11, WordIs

LEMMA WordsDone ==
  ASSUME Called, WordInv
  PROVE  WordsSpecified
<1> SUFFICES ASSUME Done("parse_args")
             PROVE  /\ ret = Len(argv)
                    /\ [k \in 1 .. ret |-> Str(mem, argv[k])] = Words(Src, Blanks, call.n)
                    /\ \A a \in Address : mem[a] # old[a] => old[a] \in Blanks /\ mem[a] = NUL
  BY DEF WordsSpecified
<1>1. pc # "idle" /\ call.fn = "parse_args" /\ AllFound(ret, mem, argv)
  BY DEF Done, WordInv
<1>2. /\ ret = Len(argv) /\ Len(argv) = Min({Cardinality(Starts(Src, Blanks)), call.n})
      /\ OnlyBlanks(mem) /\ \A k \in 1 .. Len(argv) : Finished(mem, argv[k], k, SrcLen)
  BY <1>1 DEF AllFound
<1>3. \A k \in 1 .. ret : Str(mem, argv[k]) = WordAt(Src, Blanks, Start(Src, Blanks, k))
  BY <1>1, <1>2, WordInMemory
<1>4. Words(Src, Blanks, call.n) = [k \in 1 .. ret |-> WordAt(Src, Blanks, Start(Src, Blanks, k))]
  BY <1>2 DEF Words
<1>5. [k \in 1 .. ret |-> Str(mem, argv[k])] = Words(Src, Blanks, call.n)
  BY <1>3, <1>4
<1> QED BY <1>2, <1>5 DEF OnlyBlanks

LEMMA WordStart == ASSUME Called, Call, WordInv PROVE WordInv'
<1> DEFINE c == call'
<1>1. /\ Given' /\ pc' = "loop" /\ mem' = old' /\ argv' = argv
      /\ reg' = [d |-> c.d, s |-> c.s, n |-> c.n]
  BY CallIs
<1>2. argv = <<>>
  BY DEF WordInv, Call
<1> SUFFICES ASSUME c.fn = "parse_args" PROVE Between(reg, mem, argv)'
  BY <1>1 DEF WordInv
<1>3. /\ SrcLen' \in Nat /\ c.s \in Nat /\ c.n \in Nat /\ Src' \in Seq(Nat)
  <2>1. Given' /\ old' \in Memories /\ SrcText'
    BY <1>1 DEF Given
  <2>2. Src' \in Seq(Nat)
    <3>1. (old \in Memories /\ SrcText => Src \in Seq(Nat))'
      BY SrcIs, PTL
    <3> QED BY <2>1, <3>1
  <2>3. c.n \in Nat
    BY <1>1 DEF Given
  <2> QED BY <2>1, <2>2, <2>3 DEF SrcText, IsText
<1>4. OnLine(reg, mem, argv, 0)'
  <2>1. 0 \in 0 .. SrcLen' /\ reg'.s = c.s + 0 /\ reg'.n = c.n
    BY <1>1, <1>3
  <2>2. argv' \in Seq(Nat) /\ Len(argv') <= c.n
    BY <1>1, <1>2, <1>3
  <2> QED BY <1>1, <2>1, <2>2 DEF OnLine, Ahead, OnlyBlanks
<1>5. Count(Src', 0) = 0 /\ Len(argv') = 0
  BY <1>1, <1>2, <1>3, CountIs
<1>6. \A k \in 1 .. Len(argv') : FALSE
  BY <1>5
<1> QED BY <1>4, <1>5, <1>6 DEF Between, Count, Begun

(* The operators speak of the call alone.                                  *)
LEMMA SameCall ==
  ASSUME call' = call, old' = old
  PROVE  /\ Between(reg, mem, argv)' <=> Between(reg', mem', argv')
         /\ Within(reg, mem, argv)' <=> Within(reg', mem', argv')
         /\ AllFound(ret, mem, argv)' <=> AllFound(ret', mem', argv')
<1>1. SrcLen' = SrcLen /\ Src' = Src
  BY DEF SrcLen, Src
<1>2. /\ \A r, m, x, p : OnLine(r, m, x, p)' <=> OnLine(r, m, x, p)
      /\ \A x, i, k : Placed(x, i, k)' <=> Placed(x, i, k)
      /\ \A m : OnlyBlanks(m)' <=> OnlyBlanks(m)
  BY <1>1 DEF OnLine, Ahead, OnlyBlanks, Placed
<1>3. \A m, x, k, p : Finished(m, x, k, p)' <=> Finished(m, x, k, p)
  BY <1>1, <1>2 DEF Finished, EndsAt
<1>4. Between(reg, mem, argv)' <=> Between(reg', mem', argv')
  BY <1>1, <1>2, <1>3 DEF Between
<1>5. Within(reg, mem, argv)' <=> Within(reg', mem', argv')
  BY <1>1, <1>2, <1>3 DEF Within
<1>6. AllFound(ret, mem, argv)' <=> AllFound(ret', mem', argv')
  BY <1>1, <1>2, <1>3 DEF AllFound
<1> QED BY <1>4, <1>5, <1>6

LEMMA WordStep == Called /\ Shape /\ WordInv /\ [Next]_vars => WordInv'
<1> SUFFICES ASSUME Called, Shape, WordInv, [Next]_vars PROVE WordInv'
  OBVIOUS
<1>1. CASE Call
  BY <1>1, WordStart
<1>2. CASE Turn
  <2>1. call' = call /\ old' = old /\ pc' # "idle" /\ (call.fn = "parse_args" => ParseArgs)
    BY <1>2, TurnIs
  <2>2. CASE call.fn # "parse_args"
    BY <2>1, <2>2 DEF WordInv
  <2>3. CASE call.fn = "parse_args"
    <3>1. pc \in {"loop", "skip", "word"} /\ ParseArgs
      BY <2>1, <2>3 DEF ParseArgs, Skip, Word, Runs
    <3>2. CASE pc = "loop"
      BY <2>1, <3>1, <3>2, LoopTurn, SameCall DEF WordInv
    <3>3. CASE pc = "skip"
      BY <2>1, <3>1, <3>3, SkipTurn, SameCall DEF WordInv
    <3>4. CASE pc = "word"
      BY <2>1, <3>1, <3>4, WordTurn, SameCall DEF WordInv
    <3> QED BY <3>1, <3>2, <3>3, <3>4
  <2> QED BY <2>2, <2>3
<1>3. CASE Return
  BY <1>3 DEF Return, NoCall, WordInv
<1>4. CASE Store
  <2>1. call'.fn = "none" /\ pc = "idle" /\ argv' = argv
    BY <1>4 DEF Store, Called, NoCall
  <2> QED BY <2>1 DEF WordInv
<1>5. CASE UNCHANGED vars
  <2>1. UNCHANGED <<mem, call, reg, argv, pc, ret, old>>
    BY <1>5 DEF vars
  <2> QED BY <2>1, SameCall DEF WordInv
<1> QED BY <1>1, <1>2, <1>3, <1>4, <1>5 DEF Next

(* parse_args returns the number of words, puts each one's place into argv *)
(* and cuts the line behind it, changing no other byte (shell.c:89-119).   *)
THEOREM WordsAreParsed == Spec => []WordsSpecified
<1>1. Init => Called /\ MInv /\ WordInv
  BY CalledInit, MInit DEF Init, NoCall, WordInv
<1>2. MInv => Shape
  BY DEF MInv
<1>3. Called /\ MInv /\ WordInv /\ [Next]_vars => Called' /\ MInv' /\ WordInv'
  BY <1>2, CalledStep, MStep, WordStep
<1>4. Called /\ WordInv => WordsSpecified
  BY WordsDone
<1> QED BY <1>1, <1>3, <1>4, PTL DEF Spec

(* Every function returns what its callers rely on and leaves the rest of  *)
(* memory alone, for all sizes, contents and arguments (lib/string.c,      *)
(* memory.c:203-269, vga.c:157-182, shell.c:89-119).                       *)
THEOREM StringsAsSpecified == Spec => []AsSpecified
<1>1. SearchesSpecified /\ ComparisonsSpecified /\ CopiesSpecified /\ NumbersSpecified
      /\ WordsSpecified => AsSpecified
  BY DEF AsSpecified
<1> QED BY <1>1, SearchesFind, ComparisonsOrder, CopiesArrive, NumbersConvert, WordsAreParsed, PTL
=============================================================================
