------------------------------ MODULE Strings ------------------------------
(***************************************************************************)
(* The functions on strings and memory: lib/string.c, memcpy, memset,      *)
(* memcmp and memmove of kernel/memory.c, parse_args of kernel/shell.c and *)
(* vga_print_dec of drivers/vga.c.  Memory is a row of bytes, pointers are *)
(* its addresses; a function runs one turn of a loop per step, so that     *)
(* what it reads may be what it has written.                               *)
(*                                                                         *)
(* The functions check nothing: Call makes the calls that their callers    *)
(* may make (a string ends inside memory, a copy fits and, but for         *)
(* memmove, does not overlap its source).                                  *)
(***************************************************************************)
EXTENDS Integers, Sequences, Words

CONSTANTS
  SIZE,             \* bytes of memory
  Memories,         \* what memory may hold when a function is called
  WORD,             \* number of values of unsigned int
  MAX_ARGS

ASSUME StringsAssumption ==
  /\ SIZE \in Nat \ {0} /\ MAX_ARGS \in Nat
  /\ WORD \in Nat \ {0} /\ WORD % 2 = 0
  /\ Memories \subseteq [0 .. SIZE - 1 -> 0 .. 255]

(* The buffer of itoa takes a sign, the digits of any number and the end.  *)
TenTo[k \in 0 .. SIZE] == IF k = 0 THEN 1 ELSE 10 * TenTo[k - 1]
ASSUME RoomAssumption == SIZE >= 2 /\ WORD <= TenTo[SIZE - 2]

Address == 0 .. SIZE - 1
NUL   == 0
MINUS == 45
PLUS  == 43
ZERO  == 48
Blanks == {32, 9}
IsDigit(c) == c >= ZERO /\ c <= ZERO + 9
Signed(x)  == LET u == x % WORD IN IF u < WORD \div 2 THEN u ELSE u - WORD
Ints == -(WORD \div 2) .. WORD \div 2 - 1

VARIABLES
  mem,
  call,             \* the function and its arguments
  reg,              \* its locals: two pointers and a number
  argv,             \* what parse_args has found, what vga_print_dec prints
  pc,
  ret,              \* what it returns
  old               \* auxiliary: mem at the call

vars == <<mem, call, reg, argv, pc, ret, old>>

NULL    == -1
NoCall  == [fn |-> "none", d |-> 0, s |-> 0, n |-> 0]
Regs(c) == [d |-> c.d, s |-> c.s, n |-> c.n]

Init ==
  /\ mem \in Memories /\ old = mem
  /\ call = NoCall /\ reg = Regs(NoCall) /\ argv = <<>>
  /\ pc = "idle" /\ ret = 0

-----------------------------------------------------------------------------
(* The calls that may be made.                                             *)

Enter(fn, d, s, n) ==
  /\ call' = [fn |-> fn, d |-> d, s |-> s, n |-> n]
  /\ reg' = Regs(call') /\ pc' = "loop"

Ended(a)  == \E e \in a .. SIZE - 1 : mem[e] = NUL
Texts     == {a \in Address : Ended(a)}
StrLen(m, a) == Min({k \in 0 .. SIZE - a - 1 : m[a + k] = NUL})
Str(m, a)    == [k \in 1 .. StrLen(m, a) |-> m[a + k - 1]]
Size(a)      == StrLen(mem, a) + 1
Chars        == {mem[a] : a \in Address}
Apart(a, x, b, y) == a + x <= b \/ b + y <= a

CallOne == \E s \in Texts :
  \/ \E fn \in {"strlen", "atoi"} : Enter(fn, 0, s, 0)
  \/ \E fn \in {"strchr", "strrchr"}, c \in Chars : Enter(fn, 0, s, c)
  \/ \E max \in 0 .. MAX_ARGS : Enter("parse_args", 0, s, max)
CallTwo == \E d \in Texts, s \in Texts :
  \/ \E fn \in {"strcmp", "strstr"} : Enter(fn, d, s, 0)
  \/ \E n \in 0 .. SIZE : Enter("strncmp", d, s, n)
CallCopy == \E d \in Address, s \in Texts :
  \/ /\ d + Size(s) <= SIZE /\ Apart(d, Size(s), s, Size(s))
     /\ Enter("strcpy", d, s, 0)
  \/ /\ d \in Texts /\ d + Size(d) + Size(s) <= SIZE + 1
     /\ Apart(d, Size(d) + Size(s) - 1, s, Size(s))
     /\ Enter("strcat", d, s, 0)
  \/ \E n \in 0 .. SIZE - d - 1 :
       Apart(d, n + 1, s, Size(s)) /\ Enter("strncpy", d, s, n)
CallMemory == \E d \in Address : \E n \in 0 .. SIZE - d :
  \/ \E s \in 0 .. SIZE - n :
       \/ Enter("memmove", d, s, n) \/ Enter("memcmp", d, s, n)
       \/ Apart(d, n, s, n) /\ Enter("memcpy", d, s, n)
  \/ \E c \in Chars : Enter("memset", d, c, n)
CallNumber == \E n \in Ints :
  \/ Enter("vga_print_dec", 0, 0, n)
  \/ \E base \in {10, 16} : Enter("itoa", 0, base, n)

Call ==
  /\ pc = "idle" /\ mem \in Memories
  /\ CallOne \/ CallTwo \/ CallCopy \/ CallMemory \/ CallNumber
  /\ UNCHANGED <<mem, argv, ret, old>>

Return ==
  /\ pc = "done" /\ pc' = "idle"
  /\ call' = NoCall /\ reg' = Regs(NoCall) /\ argv' = <<>> /\ ret' = 0
  /\ old' = mem
  /\ UNCHANGED mem

(* The callers put something else into memory.                             *)
Store ==
  /\ pc = "idle"
  /\ mem' \in Memories /\ old' = mem'
  /\ UNCHANGED <<call, reg, argv, pc, ret>>

-----------------------------------------------------------------------------
(* One turn of a loop.                                                     *)

Runs(fn, label) == call.fn = fn /\ pc = label
Goes(r)    == reg' = r /\ UNCHANGED <<mem, pc, ret, argv>>
To(label)  == pc' = label /\ UNCHANGED <<mem, reg, ret, argv>>
Ends(r)    == ret' = r /\ pc' = "done" /\ UNCHANGED <<mem, reg, argv>>
Puts(a, c) == mem' = [mem EXCEPT ![a] = c]
Both       == [reg EXCEPT !.d = @ + 1, !.s = @ + 1]
Counted    == [Both EXCEPT !.n = @ - 1]

Strlen ==
  /\ Runs("strlen", "loop")
  /\ IF mem[reg.s + reg.n] # NUL THEN Goes([reg EXCEPT !.n = @ + 1]) ELSE Ends(reg.n)

Difference == mem[reg.d] - mem[reg.s]
Alike      == mem[reg.d] # NUL /\ mem[reg.d] = mem[reg.s]
Strcmp ==
  /\ Runs("strcmp", "loop")
  /\ IF Alike THEN Goes(Both) ELSE Ends(Difference)
Strncmp ==
  /\ Runs("strncmp", "loop")
  /\ IF reg.n # 0 /\ Alike THEN Goes(Counted)
                           ELSE Ends(IF reg.n = 0 THEN 0 ELSE Difference)

(* The copy loop of strcpy and strcat, which stores the NUL as well.       *)
CopyString ==
  /\ Puts(reg.d, mem[reg.s]) /\ reg' = Both /\ UNCHANGED argv
  /\ IF mem[reg.s] # NUL THEN UNCHANGED <<pc, ret>> ELSE pc' = "done" /\ ret' = call.d
Strcpy == Runs("strcpy", "loop") /\ CopyString
Strcat ==
  \/ /\ Runs("strcat", "loop")
     /\ IF mem[reg.d] # NUL THEN Goes([reg EXCEPT !.d = @ + 1]) ELSE To("copy")
  \/ Runs("strcat", "copy") /\ CopyString

(* The NUL that ends the first loop is not counted.                        *)
Strncpy ==
  \/ /\ Runs("strncpy", "loop")
     /\ IF reg.n = 0 THEN To("fill")
        ELSE /\ Puts(reg.d, mem[reg.s])
             /\ IF mem[reg.s] # NUL
                THEN reg' = Counted /\ UNCHANGED pc
                ELSE reg' = Both /\ pc' = "fill"
             /\ UNCHANGED <<ret, argv>>
  \/ /\ Runs("strncpy", "fill")
     /\ IF reg.n = 0 THEN Ends(call.d)
        ELSE /\ Puts(reg.d, NUL)
             /\ reg' = [reg EXCEPT !.d = @ + 1, !.n = @ - 1]
             /\ UNCHANGED <<pc, ret, argv>>

Strchr ==
  /\ Runs("strchr", "loop")
  /\ CASE mem[reg.s] = NUL                        -> Ends(IF reg.n = NUL THEN reg.s ELSE NULL)
       [] mem[reg.s] # NUL /\ mem[reg.s] = reg.n -> Ends(reg.s)
       [] OTHER                                  -> Goes([reg EXCEPT !.s = @ + 1])

(* reg.d is last, one more than the address, 0 for NULL.                   *)
Strrchr ==
  /\ Runs("strrchr", "loop")
  /\ IF mem[reg.s] # NUL
     THEN Goes([reg EXCEPT !.s = @ + 1, !.d = IF mem[reg.s] = reg.n THEN reg.s + 1 ELSE @])
     ELSE Ends(IF reg.n = NUL THEN reg.s ELSE reg.d - 1)

(* reg.d is haystack; reg.n counts the characters of needle that agree.    *)
StrstrStays ==
  LET h == mem[reg.d + reg.n]  n == mem[reg.s + reg.n] IN
  /\ Runs("strstr", "loop")
  /\ CASE n = NUL                                  -> Ends(reg.d)
       [] n # NUL /\ mem[reg.d] = NUL              -> Ends(NULL)
       [] n # NUL /\ mem[reg.d] # NUL /\ h = n     -> Goes([reg EXCEPT !.n = @ + 1])
       [] n # NUL /\ mem[reg.d] # NUL /\ h # n     -> Goes([reg EXCEPT !.n = 0])
Strstr ==
  LET h == mem[reg.d + reg.n]  n == mem[reg.s + reg.n] IN
  /\ Runs("strstr", "loop")
  /\ CASE n = NUL                                  -> Ends(reg.d)
       [] n # NUL /\ mem[reg.d] = NUL              -> Ends(NULL)
       [] n # NUL /\ mem[reg.d] # NUL /\ h = n     -> Goes([reg EXCEPT !.n = @ + 1])
       [] n # NUL /\ mem[reg.d] # NUL /\ h # n     -> Goes([reg EXCEPT !.d = @ + 1, !.n = 0])

-----------------------------------------------------------------------------
(* Memory                                                                  *)

Memcpy ==
  /\ Runs("memcpy", "loop")
  /\ IF reg.n = 0 THEN Ends(call.d)
     ELSE Puts(reg.d, mem[reg.s]) /\ reg' = Counted /\ UNCHANGED <<pc, ret, argv>>

Memset ==
  /\ Runs("memset", "loop")
  /\ IF reg.n = 0 THEN Ends(call.d)
     ELSE /\ Puts(reg.d, reg.s)
          /\ reg' = [reg EXCEPT !.d = @ + 1, !.n = @ - 1]
          /\ UNCHANGED <<pc, ret, argv>>

Memcmp ==
  /\ Runs("memcmp", "loop")
  /\ IF reg.n = 0 THEN Ends(0)
     ELSE IF mem[reg.d] # mem[reg.s] THEN Ends(Difference) ELSE Goes(Counted)

(* From the front if dest is below src, else from the back.                *)
MemmoveUp ==
  /\ Runs("memmove", "loop")
  /\ IF reg.n = 0 THEN Ends(call.d)
     ELSE Puts(reg.d, mem[reg.s]) /\ reg' = Counted /\ UNCHANGED <<pc, ret, argv>>
Memmove ==
  /\ Runs("memmove", "loop")
  /\ IF reg.n = 0 THEN Ends(call.d)
     ELSE /\ IF call.d < call.s
             THEN Puts(reg.d, mem[reg.s]) /\ reg' = Counted
             ELSE /\ Puts(reg.d + reg.n - 1, mem[reg.s + reg.n - 1])
                  /\ reg' = [reg EXCEPT !.n = @ - 1]
          /\ UNCHANGED <<pc, ret, argv>>

-----------------------------------------------------------------------------
(* Numbers                                                                 *)

(* reg.d is 1 after a minus; the result wraps.                             *)
Atoi ==
  \/ /\ Runs("atoi", "loop")
     /\ IF mem[reg.s] \in Blanks THEN Goes([reg EXCEPT !.s = @ + 1])
        ELSE /\ reg' = [reg EXCEPT !.d = IF mem[reg.s] = MINUS THEN 1 ELSE 0,
                                   !.s = IF mem[reg.s] \in {MINUS, PLUS} THEN @ + 1 ELSE @]
             /\ pc' = "digits"
             /\ UNCHANGED <<mem, ret, argv>>
  \/ /\ Runs("atoi", "digits")
     /\ IF IsDigit(mem[reg.s])
        THEN Goes([reg EXCEPT !.n = (@ * 10 + mem[reg.s] - ZERO) % WORD, !.s = @ + 1])
        ELSE Ends(Signed(IF reg.d = 1 THEN -reg.n ELSE reg.n))

Digit(k) == IF k < 10 THEN ZERO + k ELSE 97 + k - 10

(* reg.s is start, and reg.d is p; the digits come last first and are then *)
(* reversed.                                                               *)
Itoa ==
  \/ /\ Runs("itoa", "loop")
     /\ LET minus == call.n < 0 /\ call.s = 10
            start == IF minus THEN call.d + 1 ELSE call.d
        IN  /\ mem' = IF minus THEN [mem EXCEPT ![call.d] = MINUS] ELSE mem
            /\ reg' = [d |-> start, s |-> start,
                       n |-> (IF minus THEN -call.n ELSE call.n) % WORD]
     /\ pc' = "digits"
     /\ UNCHANGED <<ret, argv>>
  \/ /\ Runs("itoa", "digits")
     /\ LET rest == reg.n \div call.s
            put  == [mem EXCEPT ![reg.d] = Digit(reg.n % call.s)]
        IN  IF rest # 0
            THEN mem' = put /\ reg' = [reg EXCEPT !.d = @ + 1, !.n = rest] /\ UNCHANGED pc
            ELSE mem' = [put EXCEPT ![reg.d + 1] = NUL] /\ pc' = "reverse" /\ UNCHANGED reg
     /\ UNCHANGED <<ret, argv>>
  \/ /\ Runs("itoa", "reverse")
     /\ IF reg.s < reg.d
        THEN /\ mem' = [mem EXCEPT ![reg.s] = mem[reg.d], ![reg.d] = mem[reg.s]]
             /\ reg' = [reg EXCEPT !.s = @ + 1, !.d = @ - 1]
             /\ UNCHANGED <<pc, ret, argv>>
        ELSE Ends(call.d)

(* argv is the buffer from its end, the order in which it is printed.      *)
PrintDec ==
  \/ /\ Runs("vga_print_dec", "loop")
     /\ reg' = [reg EXCEPT !.n = IF @ < 0 THEN Signed(-@) ELSE @]
     /\ pc' = "digits"
     /\ argv' = IF reg.n = 0 THEN <<ZERO>> ELSE <<>>
     /\ UNCHANGED <<mem, ret>>
  \/ /\ Runs("vga_print_dec", "digits")
     /\ IF reg.n > 0
        THEN /\ argv' = <<Digit(reg.n % 10)>> \o argv
             /\ reg' = [reg EXCEPT !.n = @ \div 10]
             /\ UNCHANGED pc
        ELSE /\ argv' = IF call.n < 0 THEN <<MINUS>> \o argv ELSE argv
             /\ pc' = "done"
             /\ UNCHANGED reg
     /\ UNCHANGED <<mem, ret>>

-----------------------------------------------------------------------------
(* parse_args                                                              *)

Skip ==
  /\ Runs("parse_args", "skip")
  /\ CASE mem[reg.s] \in Blanks -> Goes([reg EXCEPT !.s = @ + 1])
       [] mem[reg.s] = NUL      -> Ends(Len(argv))
       [] OTHER -> argv' = Append(argv, reg.s) /\ pc' = "word" /\ UNCHANGED <<mem, reg, ret>>
Word ==
  /\ Runs("parse_args", "word")
  /\ CASE mem[reg.s] \notin Blanks \cup {NUL} -> Goes([reg EXCEPT !.s = @ + 1])
       [] mem[reg.s] = NUL                    -> To("loop")
       [] OTHER -> /\ Puts(reg.s, NUL)
                   /\ reg' = [reg EXCEPT !.s = @ + 1]
                   /\ pc' = "loop"
                   /\ UNCHANGED <<ret, argv>>
ParseArgs ==
  \/ /\ Runs("parse_args", "loop")
     /\ IF mem[reg.s] # NUL /\ Len(argv) < reg.n THEN To("skip") ELSE Ends(Len(argv))
  \/ Skip \/ Word

-----------------------------------------------------------------------------
Turn ==
  /\ \/ Strlen \/ Strcmp \/ Strncmp \/ Strcpy \/ Strcat \/ Strncpy
     \/ Strchr \/ Strrchr \/ Strstr
     \/ Memcpy \/ Memset \/ Memcmp \/ Memmove
     \/ Atoi \/ Itoa \/ PrintDec \/ ParseArgs
  /\ UNCHANGED <<call, old>>

Next == Call \/ Turn \/ Return \/ Store

Spec == Init /\ [][Next]_vars /\ WF_vars(Turn)
-----------------------------------------------------------------------------
(* Properties                                                              *)

(* Memory is what it was, but for the text put at a.                       *)
Written(a, text) ==
  mem = [b \in Address |-> IF b - a \in 0 .. Len(text) - 1 THEN text[b - a + 1] ELSE old[b]]
Bytes(a, n) == [k \in 1 .. n |-> old[a + k - 1]]

(* The order of texts, where no text is smaller than its beginnings.       *)
Smaller(t, u) ==
  \E k \in 0 .. Len(t) :
    /\ k < Len(u) /\ SubSeq(t, 1, k) = SubSeq(u, 1, k)
    /\ k < Len(t) => t[k + 1] < u[k + 1]
Compares(t, u) == (ret = 0 <=> t = u) /\ (ret < 0 <=> Smaller(t, u))
Begin(text, n) == SubSeq(text, 1, IF n < Len(text) THEN n ELSE Len(text))

DigitValue(c) == IF IsDigit(c) THEN c - ZERO ELSE c - 97 + 10
Value(digits, base) ==
  LET v[k \in 0 .. Len(digits)] ==
        IF k = 0 THEN 0 ELSE v[k - 1] * base + DigitValue(digits[k])
  IN  v[Len(digits)]
(* text is the numeral of v >= 0.                                          *)
Numeral(text, v, base) ==
  /\ text # <<>> /\ Value(text, base) = v
  /\ \A k \in DOMAIN text : \E digit \in 0 .. base - 1 : text[k] = Digit(digit)
  /\ Len(text) > 1 => text[1] # ZERO
Decimal(text, v) ==
  IF v < 0 THEN text # <<>> /\ text[1] = MINUS /\ Numeral(Tail(text), -v, 10)
           ELSE Numeral(text, v, 10)

(* What follows the blanks, what follows the sign, and its digits.         *)
From(text, k)   == SubSeq(text, k, Len(text))
Number(text) ==
  LET first(t, set) == Min({k \in 1 .. Len(t) + 1 : k = Len(t) + 1 \/ t[k] \notin set})
      signed == From(text, first(text, Blanks))
      sign   == IF signed # <<>> /\ signed[1] = MINUS THEN -1 ELSE 1
      bare   == IF signed # <<>> /\ signed[1] \in {MINUS, PLUS} THEN Tail(signed) ELSE signed
  IN  Signed(sign * Value(Begin(bare, first(bare, ZERO .. ZERO + 9) - 1), 10))

Done(fn) == pc = "done" /\ call.fn = fn
Same == mem = old
Dest == Str(old, call.d)
Src  == Str(old, call.s)

(* Where a character is, where a text is, the length of a text             *)
(* (string.c:10-17, 88-140).                                               *)
SearchesSpecified ==
  LET places == {k \in 1 .. Len(Src) : Src[k] = call.n}
      at == {k \in 0 .. Len(Dest) - Len(Src) : SubSeq(Dest, k + 1, k + Len(Src)) = Src}
  IN
  /\ Done("strlen") => Same /\ ret = Len(Src)
  /\ Done("strchr") => Same /\ ret = IF call.n = NUL THEN call.s + Len(Src)
                                     ELSE IF places = {} THEN NULL
                                     ELSE call.s + Min(places) - 1
  /\ Done("strrchr") => Same /\ ret = IF call.n = NUL THEN call.s + Len(Src)
                                      ELSE IF places = {} THEN NULL
                                      ELSE call.s + Max(places) - 1
  /\ Done("strstr") => Same /\ ret = IF at = {} THEN NULL ELSE call.d + Min(at)

(* The comparisons order texts and regions (string.c:22-45,                *)
(* memory.c:232-246).                                                      *)
ComparisonsSpecified ==
  /\ Done("strcmp")  => Same /\ Compares(Dest, Src)
  /\ Done("strncmp") => Same /\ Compares(Begin(Dest, call.n), Begin(Src, call.n))
  /\ Done("memcmp")  => Same /\ Compares(Bytes(call.d, call.n), Bytes(call.s, call.n))

(* The copies put a text or a region at dest and touch nothing else.       *)
(* strncpy fills up to one byte too many when src is shorter than n        *)
(* (string.c:63, 66).                                                      *)
MemmoveSpecified ==
  Done("memmove") => ret = call.d /\ Written(call.d, Bytes(call.s, call.n))
CopiesSpecified ==
  /\ Done("strcpy")  => ret = call.d /\ Written(call.d, Append(Src, NUL))
  /\ Done("strcat")  => ret = call.d /\ Written(call.d, Append(Dest \o Src, NUL))
  /\ Done("strncpy") =>
       ret = call.d /\ Written(call.d, IF Len(Src) < call.n
                                      THEN Src \o [k \in 1 .. call.n + 1 - Len(Src) |-> NUL]
                                      ELSE Begin(Src, call.n))
  /\ Done("memcpy")  => ret = call.d /\ Written(call.d, Bytes(call.s, call.n))
  /\ Done("memset")  => ret = call.d /\ Written(call.d, [k \in 1 .. call.n |-> call.s])
  /\ MemmoveSpecified

(* Numerals are read modulo WORD and written in full, but for the smallest *)
(* number, which vga_print_dec prints as a minus (vga.c:165, 173).         *)
NumbersSpecified ==
  /\ Done("atoi") => Same /\ ret = Number(Src)
  /\ Done("itoa") =>
       LET text == Str(mem, call.d) IN
       /\ ret = call.d /\ Written(call.d, Append(text, NUL))
       /\ IF call.s = 10 THEN Decimal(text, call.n) ELSE Numeral(text, call.n % WORD, call.s)
  /\ Done("vga_print_dec") =>
       Same /\ IF call.n = -(WORD \div 2) THEN argv = <<MINUS>> ELSE Decimal(argv, call.n)

(* parse_args finds the first words of the line and cuts it at blanks.     *)
WordsSpecified ==
  Done("parse_args") =>
    /\ ret = Len(argv)
    /\ [k \in 1 .. ret |-> Str(mem, argv[k])] = Words(Src, Blanks, call.n)
    /\ \A a \in Address : mem[a] # old[a] => old[a] \in Blanks /\ mem[a] = NUL

(* Every function returns what its callers rely on, for all contents and   *)
(* places of its arguments, and leaves the rest of memory alone.  Where    *)
(* that is not what the C library says, it is the code's version.          *)
AsSpecified ==
  SearchesSpecified /\ ComparisonsSpecified /\ CopiesSpecified /\ NumbersSpecified
  /\ WordsSpecified

(* No loop runs for ever: every call returns.                              *)
Returns == pc = "loop" ~> pc = "done"
=============================================================================
