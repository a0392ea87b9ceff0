----------------------------- MODULE HeapProofs -----------------------------
(***************************************************************************)
(* Proofs about module Heap, for every heap size and every set of requests *)
(* that does not come within 64 bytes of the width of size_t.              *)
(***************************************************************************)
EXTENDS Heap, FiniteSetTheorems, TLAPS

(* Sizes for which no addition in kmalloc wraps round.                     *)
NoWrap == \A s \in Wanted : s + 64 <= WORD

-----------------------------------------------------------------------------
(* The inductive invariant: what holds at the top of each loop.            *)

(* kmalloc's loop: the blocks before the cursor do not fit.                *)
Searching ==
  pc = "fit" =>
    /\ block \in Blocks \cup {NULL}
    /\ want \in Wanted /\ want + HDR <= total_size
    /\ total_size + HDR + SLACK < WORD
    /\ \A b \in Blocks : block = NULL \/ b < block => ~Fits(b)
    /\ old # NULL => /\ old \in DOMAIN live
                     /\ mem[old - HDR].size < total_size

(* krealloc between its two calls: both blocks are used.                   *)
Moving ==
  pc = "move" => /\ block \in Blocks
                 /\ mem[block].used
                 /\ old \in DOMAIN live

(* kfree's loop: no block before the cursor precedes the freed block.      *)
Freeing ==
  pc = "prev" =>
    /\ block \in Blocks
    /\ ~mem[block].used
    /\ prev \in Blocks \cup {NULL}
    /\ \A b \in Blocks : prev = NULL \/ b < prev => mem[b].next # block

(* Two free neighbours exist only while kfree looks for the first of them. *)
NearlyCoalesced ==
  \A b \in Blocks :
    ~mem[b].used /\ mem[b].next # NULL /\ ~mem[mem[b].next].used
      => pc = "prev" /\ mem[b].next = block

IInv ==
  /\ TypeOK /\ HeapTiled /\ UsedIffOwned /\ GrantFits
  /\ Searching /\ Moving /\ CopyInBounds /\ Freeing /\ NearlyCoalesced
-----------------------------------------------------------------------------
(* Arithmetic modulo WORD.                                                 *)

(* A size_t result is a size_t, and is exact when it does not wrap.        *)
LEMMA WrapRange == ASSUME NEW x \in Int PROVE Wrap(x) \in 0 .. WORD - 1
  BY HeapAssumption DEF Wrap, HEAP_END

LEMMA WrapExact == ASSUME NEW x \in 0 .. WORD - 1 PROVE Wrap(x) = x
  BY HeapAssumption DEF Wrap, HEAP_END

(* kmalloc's rounding to 8 bytes and its header only add to the request.   *)
LEMMA TotalSizeBound ==
  ASSUME NoWrap, NEW s \in Wanted, s \in Nat
  PROVE  /\ TotalSize(s) \in 0 .. WORD - 1
         /\ s + HDR <= TotalSize(s)
         /\ TotalSize(s) + HDR + SLACK < WORD
<1>1. s + 64 <= WORD
  BY DEF NoWrap
<1>2. Wrap(s + 7) = s + 7
  BY <1>1, WrapExact, HeapAssumption DEF HEAP_END
<1> DEFINE t == s + 7 - ((s + 7) % 8)
<1>3. /\ t \in Nat /\ s <= t /\ t <= s + 7
      /\ AlignUp(s) = t
  BY <1>2 DEF AlignUp
<1>4. Wrap(t + HDR) = t + HDR
  BY <1>1, <1>3, WrapExact, HeapAssumption DEF HEAP_END, HDR
<1>5. TotalSize(s) = t + HDR
  BY <1>3, <1>4 DEF TotalSize
<1> QED
  BY <1>1, <1>3, <1>5, HeapAssumption DEF HDR, SLACK, HEAP_END

-----------------------------------------------------------------------------
(* The three changes memory.c makes to the list keep it a tiling.          *)

Typed(m) ==
  /\ DOMAIN m \subseteq HEAP_START .. HEAP_END - 1
  /\ m \in [DOMAIN m -> [size : 0 .. WORD - 1, used : BOOLEAN, next : 0 .. WORD - 1]]

(* Marking a block used or free touches no size and no link.               *)
LEMMA MarkTiled ==
  ASSUME NEW m, Typed(m), Tiled(m), NEW b \in DOMAIN m, NEW u \in BOOLEAN
  PROVE  LET n == [m EXCEPT ![b].used = u] IN
         /\ Typed(n) /\ Tiled(n)
         /\ DOMAIN n = DOMAIN m
         /\ n[b].used = u
         /\ \A c \in DOMAIN m : n[c].size = m[c].size /\ n[c].next = m[c].next
         /\ \A c \in DOMAIN m \ {b} : n[c] = m[c]
<1> DEFINE n == [m EXCEPT ![b].used = u]
<1>1. DOMAIN n = DOMAIN m
  OBVIOUS
<1>2. Typed(n)
  BY DEF Typed
<1>3. /\ n[b].used = u
      /\ \A c \in DOMAIN m : n[c].size = m[c].size /\ n[c].next = m[c].next
      /\ \A c \in DOMAIN m \ {b} : n[c] = m[c]
  BY DEF Typed
<1>4. Tiled(n)
  BY <1>1, <1>3 DEF Tiled
<1> QED
  BY <1>1, <1>2, <1>3, <1>4

(* Where the blocks of a tiled list are.                                   *)
LEMMA TiledPlaces ==
  ASSUME NEW m, Typed(m), Tiled(m), NEW b \in DOMAIN m
  PROVE  /\ b \in Nat /\ HEAP_START <= b /\ b < HEAP_END /\ b # NULL
         /\ m[b].size \in Nat /\ m[b].size < WORD /\ m[b].used \in BOOLEAN
         /\ HDR <= m[b].size /\ b + m[b].size <= HEAP_END
         /\ m[b].next # NULL => /\ m[b].next \in DOMAIN m
                                /\ m[b].next = b + m[b].size
                                /\ b < m[b].next
         /\ \A c \in DOMAIN m : b < c => m[b].next # NULL /\ m[b].next <= c
         /\ \A c \in DOMAIN m : m[c].next = m[b].next /\ m[b].next # NULL => c = b
  <1>1. /\ b \in Nat /\ HEAP_START <= b /\ b < HEAP_END /\ b # NULL
        /\ m[b].size \in Nat /\ m[b].size < WORD /\ m[b].used \in BOOLEAN
        /\ HDR <= m[b].size /\ b + m[b].size <= HEAP_END
    BY HeapAssumption DEF Typed, Tiled, HEAP_END, NULL
  <1>2. m[b].next # NULL => /\ m[b].next \in DOMAIN m
                            /\ m[b].next = b + m[b].size
                            /\ b < m[b].next
    BY <1>1 DEF Tiled, HDR
  <1>3. ASSUME NEW c \in DOMAIN m, b < c PROVE m[b].next # NULL /\ m[b].next <= c
    <2>1. b + m[b].size <= c /\ c \in Nat /\ c < HEAP_END
      BY <1>3, HeapAssumption DEF Tiled, Typed, HEAP_END
    <2> QED
      BY <1>1, <1>2, <2>1, HeapAssumption DEF Tiled, HEAP_END
  <1>4. ASSUME NEW c \in DOMAIN m, m[c].next = m[b].next, m[b].next # NULL PROVE c = b
    <2>1. /\ c \in Nat /\ m[c].size \in Nat /\ HDR <= m[c].size
          /\ m[c].next = c + m[c].size
      BY <1>4, HeapAssumption DEF Tiled, Typed, HEAP_END
    <2>2. /\ b < c => b + m[b].size <= c
          /\ c < b => c + m[c].size <= b
      BY DEF Tiled
    <2> QED
      BY <1>1, <1>2, <1>4, <2>1, <2>2 DEF HDR
  <1> QED
    BY <1>1, <1>2, <1>3, <1>4

(* Splitting a block: the remainder takes the place behind it.             *)
LEMMA CarveTiled ==
  ASSUME Typed(mem), Tiled(mem), NEW b \in Blocks,
         total_size \in Nat, HDR <= total_size,
         total_size + HDR <= mem[b].size
  PROVE  LET m == Carve(b)
             r == b + total_size
         IN  /\ Typed(m) /\ Tiled(m)
             /\ r \notin Blocks /\ b < r /\ DOMAIN m = Blocks \cup {r}
             /\ m[b] = Header(total_size, mem[b].used, r)
             /\ m[r] = Header(mem[b].size - total_size, FALSE, mem[b].next)
             /\ \A c \in Blocks \ {b} : m[c] = mem[c]
<1> DEFINE m == Carve(b)
           r == b + total_size
<1> USE DEF Blocks
<1>1. /\ b \in Nat /\ HEAP_START <= b /\ mem[b].size \in Nat
      /\ mem[b].size < WORD /\ b + mem[b].size <= HEAP_END
      /\ mem[b].used \in BOOLEAN
  BY TiledPlaces
<1>2. Wrap(mem[b].size - total_size) = mem[b].size - total_size
  <2>1. mem[b].size - total_size \in 0 .. WORD - 1
    BY <1>1, HeapAssumption DEF HEAP_END, HDR
  <2> QED
    BY <2>1, WrapExact
<1>3. /\ b < r /\ r < HEAP_END /\ r \in Nat
      /\ \A c \in Blocks : b < c => r + HDR <= c
  <2>1. ASSUME NEW c \in Blocks, b < c PROVE r + HDR <= c
    <3>1. b + mem[b].size <= c /\ c \in Nat
      BY <2>1, HeapAssumption DEF Tiled, Typed, HEAP_END
    <3> QED
      BY <1>1, <3>1 DEF HDR
  <2> QED
    BY <1>1, <2>1, HeapAssumption DEF HEAP_END, HDR
<1>4. r \notin Blocks
  BY <1>3, HeapAssumption DEF HDR
<1>5. /\ DOMAIN m = Blocks \cup {r}
      /\ m[b] = Header(total_size, mem[b].used, r)
      /\ m[r] = Header(mem[b].size - total_size, FALSE, mem[b].next)
      /\ \A c \in Blocks \ {b} : m[c] = mem[c]
      /\ m = [x \in DOMAIN m |-> m[x]]
  BY <1>1, <1>2, <1>3, <1>4 DEF Carve, CarveLink, Bind
<1>6. Typed(m)
  <2>1. DOMAIN m \subseteq HEAP_START .. HEAP_END - 1
    BY <1>1, <1>3, <1>5, HeapAssumption DEF Typed, HEAP_END
  <2>2. ASSUME NEW c \in DOMAIN m
        PROVE  m[c] \in [size : 0 .. WORD - 1, used : BOOLEAN, next : 0 .. WORD - 1]
    <3>1. CASE c = b
      BY <1>1, <1>3, <1>5, <3>1, HeapAssumption DEF Typed, Header, HEAP_END
    <3>2. CASE c = r
      <4>1. mem[b].size - total_size \in 0 .. WORD - 1
        BY <1>1, HeapAssumption DEF HEAP_END, HDR
      <4>2. mem[b].next \in 0 .. WORD - 1
        BY DEF Typed
      <4>3. Header(mem[b].size - total_size, FALSE, mem[b].next)
              \in [size : 0 .. WORD - 1, used : BOOLEAN, next : 0 .. WORD - 1]
        BY <4>1, <4>2 DEF Header
      <4> QED
        BY Zenon, <1>5, <3>2, <4>3
    <3>3. CASE c \in Blocks \ {b}
      BY <1>5, <3>3 DEF Typed
    <3> QED
      BY <1>5, <3>1, <3>2, <3>3
  <2> QED
    BY <1>5, <2>1, <2>2 DEF Typed
<1>7. Tiled(m)
  <2>1. HEAP_START \in DOMAIN m
    BY <1>5 DEF Tiled
  <2>2. ASSUME NEW c \in DOMAIN m
        PROVE  /\ m[c].size >= HDR
               /\ c + m[c].size <= HEAP_END
               /\ IF m[c].next = NULL
                  THEN c + m[c].size = HEAP_END
                  ELSE m[c].next = c + m[c].size /\ m[c].next \in DOMAIN m
    <3>1. CASE c = b
      BY <1>1, <1>3, <1>5, <3>1, HeapAssumption DEF Header, HDR, NULL, HEAP_END
    <3>2. CASE c = r
      BY <1>1, <1>3, <1>5, <3>2 DEF Tiled, Header, HDR, NULL
    <3>3. CASE c \in Blocks \ {b}
      BY <1>5, <3>3 DEF Tiled
    <3> QED
      BY <1>5, <3>1, <3>2, <3>3
  <2>3. ASSUME NEW c \in DOMAIN m, NEW d \in DOMAIN m, c < d
        PROVE  c + m[c].size <= d
    <3>1. CASE c \in Blocks \ {b} /\ d = r
      <4>1. c < b
        BY <1>1, <1>3, <2>3, <3>1, HeapAssumption DEF Typed, HEAP_END, HDR
      <4>2. c + mem[c].size <= b /\ mem[c].size \in Nat /\ c \in Nat
        BY <4>1, <3>1, TiledPlaces DEF Tiled
      <4> QED
        BY <1>1, <1>3, <1>5, <3>1, <4>2
    <3>2. CASE c = b
      BY <1>1, <1>3, <1>5, <2>3, <3>2, HeapAssumption DEF Header, Typed, HEAP_END, HDR
    <3>3. CASE c = r
      <4>1. d \in Blocks /\ b < d
        BY <1>1, <1>3, <1>5, <2>3, <3>3, HeapAssumption DEF Typed, HEAP_END
      <4>2. b + mem[b].size <= d
        BY <4>1 DEF Tiled
      <4> QED
        BY <1>1, <1>5, <3>3, <4>1, <4>2, HeapAssumption DEF Header, Typed, HEAP_END
    <3>4. CASE c \in Blocks \ {b} /\ d \in Blocks
      BY <1>5, <2>3, <3>4 DEF Tiled
    <3> QED
      BY <1>5, <3>1, <3>2, <3>3, <3>4
  <2> QED
    BY <2>1, <2>2, <2>3 DEF Tiled
<1> QED
  BY <1>3, <1>4, <1>5, <1>6, <1>7

(* Absorbing the next block.                                               *)
LEMMA JoinTiled ==
  ASSUME NEW m, Typed(m), Tiled(m), NEW b \in DOMAIN m, m[b].next # NULL
  PROVE  LET n == m[b].next
             j == Join(m, b)
         IN  /\ Typed(j) /\ Tiled(j)
             /\ n \in DOMAIN m /\ b < n /\ DOMAIN j = DOMAIN m \ {n}
             /\ j[b] = Header(m[b].size + m[n].size, m[b].used, m[n].next)
             /\ \A c \in DOMAIN m \ {b, n} : j[c] = m[c]
<1> DEFINE n == m[b].next
           j == Join(m, b)
<1>1. /\ b \in Nat /\ HEAP_START <= b /\ m[b].size \in Nat
      /\ m[b].used \in BOOLEAN
      /\ n \in DOMAIN m /\ n = b + m[b].size /\ b < n
      /\ \A c \in DOMAIN m : b < c => n <= c
      /\ \A c \in DOMAIN m : m[c].next = n => c = b
  BY TiledPlaces
<1>2. /\ m[n].size \in Nat /\ HDR <= m[n].size /\ n + m[n].size <= HEAP_END
      /\ m[n].next # NULL => /\ m[n].next \in DOMAIN m
                             /\ m[n].next = n + m[n].size
                             /\ n < m[n].next
  BY <1>1, TiledPlaces
<1>3. Wrap(m[b].size + m[n].size) = m[b].size + m[n].size
  BY <1>1, <1>2, WrapExact, HeapAssumption DEF HEAP_END
<1>4. /\ DOMAIN j = DOMAIN m \ {n}
      /\ j[b] = Header(m[b].size + m[n].size, m[b].used, m[n].next)
      /\ \A c \in DOMAIN m \ {b, n} : j[c] = m[c]
      /\ j = [x \in DOMAIN j |-> j[x]]
  BY <1>1, <1>3 DEF Join, Bind, Unbind
<1>5. Typed(j)
  <2>1. ASSUME NEW c \in DOMAIN j
        PROVE  j[c] \in [size : 0 .. WORD - 1, used : BOOLEAN, next : 0 .. WORD - 1]
    <3>1. CASE c = b
      BY <1>1, <1>2, <1>4, <3>1, HeapAssumption DEF Typed, Header, HEAP_END
    <3>2. CASE c # b
      BY <1>4, <3>2 DEF Typed
    <3> QED
      BY <3>1, <3>2
  <2> QED
    BY <1>4, <2>1 DEF Typed
<1>6. Tiled(j)
  <2>1. HEAP_START \in DOMAIN j
    BY <1>1, <1>4, HeapAssumption DEF Tiled
  <2>2. ASSUME NEW c \in DOMAIN j
        PROVE  /\ j[c].size >= HDR
               /\ c + j[c].size <= HEAP_END
               /\ IF j[c].next = NULL
                  THEN c + j[c].size = HEAP_END
                  ELSE j[c].next = c + j[c].size /\ j[c].next \in DOMAIN j
    <3>1. CASE c = b
      BY <1>1, <1>2, <1>4, <3>1 DEF Tiled, Header, HDR
    <3>2. CASE c # b
      BY <1>1, <1>4, <3>2 DEF Tiled
    <3> QED
      BY <3>1, <3>2
  <2>3. ASSUME NEW c \in DOMAIN j, NEW d \in DOMAIN j, c < d
        PROVE  c + j[c].size <= d
    <3>1. CASE c = b
      <4>1. d \in DOMAIN m /\ d # n /\ b < d /\ d \in Nat
        BY <1>4, <2>3, <3>1, HeapAssumption DEF Typed, HEAP_END
      <4>2. n < d /\ n + m[n].size <= d
        BY <1>1, <4>1 DEF Tiled
      <4> QED
        BY <1>1, <1>2, <1>4, <3>1, <4>1, <4>2 DEF Header
    <3>2. CASE c # b
      BY <1>4, <2>3, <3>2 DEF Tiled
    <3> QED
      BY <3>1, <3>2
  <2> QED
    BY <2>1, <2>2, <2>3 DEF Tiled
<1> QED
  BY <1>1, <1>4, <1>5, <1>6

-----------------------------------------------------------------------------
(* The steps.                                                              *)

(* What the type invariant says of the list and of the clients' pointers.  *)
LEMMA HeapFacts ==
  ASSUME IInv
  PROVE  /\ Typed(mem) /\ Tiled(mem)
         /\ \A b \in Blocks : b \in Nat /\ b + HDR - HDR = b
         /\ \A p \in DOMAIN live : p \in Nat /\ p - HDR \in Blocks
                                  /\ p - HDR + HDR = p /\ mem[p - HDR].used
BY HeapAssumption DEF IInv, TypeOK, Typed, HeapTiled, Blocks, UsedIffOwned, HEAP_END, HDR

(* A call of kmalloc, from a client or from krealloc, starts its search.   *)
LEMMA SearchStep ==
  ASSUME NoWrap, IInv, NEW s \in Wanted, s \in Nat, NEW o \in Nat,
         pc = "idle", Search(s, s, o),
         o # NULL => o \in DOMAIN live /\ mem[o - HDR].size < s + HDR
  PROVE  IInv'
<1>1. /\ TotalSize(s) \in 0 .. WORD - 1 /\ s + HDR <= TotalSize(s)
      /\ TotalSize(s) + HDR + SLACK < WORD
  BY TotalSizeBound
<1>2. /\ UNCHANGED <<mem, used_memory, live, prev>>
      /\ pc' = "fit" /\ block' = HEAP_START /\ total_size' = TotalSize(s)
      /\ want' = s /\ old' = o
  BY DEF Search
<1>3. Typed(mem) /\ Tiled(mem)
  BY HeapFacts
<1>4. TypeOK'
  BY <1>1, <1>2, HeapAssumption DEF IInv, TypeOK, Control, Blocks
<1>5. HeapTiled' /\ UsedIffOwned' /\ GrantFits'
  BY <1>2 DEF IInv, HeapTiled, UsedIffOwned, GrantFits, Blocks
<1>6. Searching'
  <2>1. HEAP_START \in Blocks /\ HEAP_START # NULL
    BY <1>3, HeapAssumption DEF Tiled, Blocks, NULL
  <2>2. ~ \E b \in Blocks : b < HEAP_START
    BY <1>3, TiledPlaces, HeapAssumption DEF Blocks
  <2>3. o # NULL => o \in DOMAIN live /\ mem[o - HDR].size < TotalSize(s)
    <3>1. CASE o # NULL
      <4>1. mem[o - HDR].size \in Nat
        BY <3>1, HeapFacts, TiledPlaces DEF Blocks
      <4> QED
        BY <1>1, <4>1 DEF HDR
    <3> QED
      BY <3>1
  <2> QED
    BY <1>1, <1>2, <2>1, <2>2, <2>3 DEF Searching, Blocks, Fits
<1>7. Moving' /\ CopyInBounds' /\ Freeing'
  BY <1>2 DEF Moving, CopyInBounds, Freeing
<1>8. NearlyCoalesced'
  BY <1>2 DEF IInv, NearlyCoalesced, Blocks
<1> QED
  BY <1>4, <1>5, <1>6, <1>7, <1>8 DEF IInv

(* The search moves on, or gives up at the end of the list.                *)
LEMMA KmallocNextStep == ASSUME IInv, KmallocNext PROVE IInv'
<1>1. /\ UNCHANGED <<mem, used_memory, live, pc, prev, total_size, want, old>>
      /\ pc = "fit" /\ block # NULL /\ ~Fits(block) /\ block' = mem[block].next
  BY DEF KmallocNext
<1>2. block \in DOMAIN mem /\ Typed(mem) /\ Tiled(mem)
  BY <1>1, HeapFacts DEF IInv, Searching, Blocks
<1>3. /\ block \in Nat /\ mem[block].next \in DOMAIN mem \cup {NULL}
      /\ \A c \in DOMAIN mem : block < c => mem[block].next # NULL /\ mem[block].next <= c
  BY <1>2, TiledPlaces
<1>4. mem[block].next \in Nat
  BY <1>2, HeapAssumption DEF Typed
<1>5. TypeOK' /\ HeapTiled' /\ UsedIffOwned' /\ GrantFits'
  BY <1>1, <1>4 DEF IInv, TypeOK, HeapTiled, UsedIffOwned, GrantFits, Blocks
<1>6. Searching'
  <2>1. ASSUME NEW b \in Blocks, block' = NULL \/ b < block' PROVE ~Fits(b)
    <3>1. b \in Nat
      BY HeapFacts
    <3>2. ~(block < b)
      BY <1>1, <1>3, <1>4, <2>1, <3>1 DEF Blocks
    <3> QED
      BY <1>1, <1>3, <3>1, <3>2 DEF IInv, Searching
  <2>2. \A b \in Blocks : Fits(b)' <=> Fits(b)
    BY <1>1 DEF Fits, Blocks
  <2> QED
    BY <1>1, <1>3, <2>1, <2>2 DEF IInv, Searching, Blocks
<1>7. Moving' /\ CopyInBounds' /\ Freeing'
  BY <1>1 DEF Moving, CopyInBounds, Freeing
<1>8. NearlyCoalesced'
  BY <1>1 DEF IInv, NearlyCoalesced, Blocks
<1> QED
  BY <1>5, <1>6, <1>7, <1>8 DEF IInv

(* kmalloc's return of NULL at the end of the list leaves the heap alone.  *)
LEMMA KmallocFailStep == ASSUME IInv, KmallocFail PROVE IInv'
<1>1. /\ UNCHANGED <<mem, used_memory, live>>
      /\ pc = "fit" /\ pc' = "idle" /\ block' = NULL /\ prev' = NULL /\ old' = NULL
      /\ total_size' = 0 /\ want' = 0
  BY DEF KmallocFail, Return
<1>2. TypeOK' /\ HeapTiled' /\ UsedIffOwned' /\ GrantFits'
  BY <1>1, HeapAssumption
     DEF IInv, TypeOK, HeapTiled, UsedIffOwned, GrantFits, Blocks, Control, NULL, HEAP_END
<1>3. Searching' /\ Moving' /\ CopyInBounds' /\ Freeing' /\ NearlyCoalesced'
  BY <1>1 DEF IInv, Searching, Moving, CopyInBounds, Freeing, NearlyCoalesced, Blocks
<1> QED
  BY <1>2, <1>3 DEF IInv

(* The block found is taken, whole or split.                               *)
LEMMA KmallocTakeStep == ASSUME IInv, KmallocTake PROVE IInv'
<1>1. /\ pc = "fit" /\ block # NULL /\ Fits(block)
      /\ mem' = [IF Splits(block) THEN Carve(block) ELSE mem EXCEPT ![block].used = TRUE]
      /\ used_memory' = Wrap(used_memory + mem'[block].size)
      /\ live' = Bind(live, block + HDR, want)
  BY DEF KmallocTake
<1>2. /\ block \in DOMAIN mem /\ Typed(mem) /\ Tiled(mem)
      /\ want \in Nat /\ total_size \in Nat /\ want + HDR <= total_size
      /\ total_size + HDR + SLACK < WORD
      /\ used_memory \in Nat
  BY <1>1, HeapFacts, HeapAssumption DEF IInv, Searching, Blocks, TypeOK
<1>3. /\ ~mem[block].used /\ mem[block].size >= total_size
      /\ block \in Nat /\ mem[block].size \in Nat
      /\ mem[block].used \in BOOLEAN
  BY <1>1, <1>2, TiledPlaces DEF Fits
<1>4. Splits(block) => total_size + HDR <= mem[block].size
  <2>1. total_size + HDR \in 0 .. WORD - 1 /\ total_size + HDR + SLACK \in 0 .. WORD - 1
    BY <1>2, HeapAssumption DEF HDR, SLACK, HEAP_END
  <2>2. Wrap(Wrap(total_size + HDR) + SLACK) = total_size + HDR + SLACK
    BY <2>1, WrapExact
  <2> QED
    BY <1>2, <1>3, <2>1, <2>2 DEF Splits, SLACK, HDR
<1> DEFINE m == IF Splits(block) THEN Carve(block) ELSE mem
           r == block + total_size
<1>5. /\ Typed(m) /\ Tiled(m) /\ block \in DOMAIN m
      /\ total_size <= m[block].size /\ m[block].size \in Nat
      /\ \A c \in Blocks \ {block} : c \in DOMAIN m /\ m[c] = mem[c]
      /\ \A c \in DOMAIN m \ Blocks :
           /\ c = r /\ ~m[c].used /\ m[c].next = mem[block].next
           /\ m[block].next = c
  <2>1. CASE Splits(block)
    <3>1. /\ Typed(Carve(block)) /\ Tiled(Carve(block))
          /\ r \notin Blocks /\ DOMAIN Carve(block) = Blocks \cup {r}
          /\ Carve(block)[block] = Header(total_size, mem[block].used, r)
          /\ Carve(block)[r] = Header(mem[block].size - total_size, FALSE, mem[block].next)
          /\ \A c \in Blocks \ {block} : Carve(block)[c] = mem[c]
      <4>1. HDR <= total_size /\ total_size + HDR <= mem[block].size /\ block \in Blocks
        BY <1>2, <1>4, <2>1 DEF HDR, Blocks
      <4> QED
        BY <1>2, <4>1, CarveTiled
    <3> QED
      BY <1>2, <2>1, <3>1 DEF Header, Blocks
  <2>2. CASE ~Splits(block)
    BY <1>2, <1>3, <2>2 DEF Blocks
  <2> QED
    BY <2>1, <2>2
<1> HIDE DEF m, r
<1>5a. mem' = [m EXCEPT ![block].used = TRUE]
  BY <1>1 DEF m
<1>6. /\ Typed(mem') /\ Tiled(mem') /\ DOMAIN mem' = DOMAIN m
      /\ mem'[block].used /\ mem'[block].size = m[block].size
      /\ mem'[block].next = m[block].next
      /\ \A c \in DOMAIN m \ {block} : mem'[c] = m[c]
  BY <1>5a, <1>5, MarkTiled
<1>7. /\ block + HDR \notin DOMAIN live
      /\ DOMAIN live' = DOMAIN live \cup {block + HDR}
      /\ live'[block + HDR] = want
      /\ \A p \in DOMAIN live : live'[p] = live[p]
  BY <1>1, <1>2, <1>3 DEF Bind, IInv, UsedIffOwned, Blocks
<1>8. \A p \in DOMAIN live :
        /\ p \in Nat /\ p - HDR \in Blocks \ {block} /\ p - HDR + HDR = p
        /\ mem'[p - HDR] = mem[p - HDR]
  BY <1>3, <1>5, <1>6, HeapFacts
<1>9. /\ block' \in {block, NULL} /\ prev' \in {prev, NULL} /\ old' \in {old, NULL}
      /\ total_size' \in {total_size, 0} /\ want' \in {want, 0}
      /\ \/ pc' = "idle"
         \/ pc' = "move" /\ old # NULL /\ block' = block /\ old' = old
  BY DEF KmallocTake, Return
<1>10. TypeOK'
  <2>1. used_memory' \in 0 .. WORD - 1
    BY <1>1, <1>2, <1>5, <1>6, WrapRange
  <2>2. DOMAIN live' \subseteq Nat /\ live' \in [DOMAIN live' -> Nat]
    <3>1. live' = [p \in DOMAIN live' |-> live'[p]]
      BY <1>1 DEF Bind
    <3>2. block + HDR \in Nat
      BY <1>3 DEF HDR
    <3> QED
      BY <1>2, <1>7, <3>1, <3>2 DEF IInv, TypeOK
  <2>3. block' \in Nat /\ prev' \in Nat /\ old' \in Nat /\ want' \in Nat
        /\ total_size' \in 0 .. WORD - 1 /\ pc' \in Control
    BY <1>9, HeapAssumption DEF IInv, TypeOK, NULL, Control, HEAP_END
  <2> QED
    BY <1>6, <2>1, <2>2, <2>3 DEF TypeOK, Typed, Blocks
<1>11. HeapTiled'
  BY <1>6 DEF HeapTiled
<1>12. UsedIffOwned'
  <2>1. ASSUME NEW b \in DOMAIN mem'
        PROVE  mem'[b].used <=> b + HDR \in DOMAIN live'
    <3>1. CASE b = block
      BY <1>6, <1>7, <3>1
    <3>2. CASE b \in Blocks \ {block}
      <4>1. mem'[b].used <=> b + HDR \in DOMAIN live
        BY <1>5, <1>6, <3>2 DEF IInv, UsedIffOwned
      <4>2. b + HDR # block + HDR
        BY <1>3, <3>2, HeapFacts DEF HDR
      <4> QED
        BY <1>7, <4>1, <4>2
    <3>3. CASE b \notin Blocks
      <4>1. ~mem'[b].used /\ b # block /\ b \in Int
        BY <1>2, <1>5, <1>6, <3>3, HeapAssumption DEF Blocks, Typed, HEAP_END
      <4>2. b + HDR - HDR = b /\ b + HDR # block + HDR
        BY <1>3, <4>1 DEF HDR
      <4>3. b + HDR \notin DOMAIN live
        BY <3>3, <4>1, HeapFacts DEF HDR
      <4> QED
        BY <1>7, <4>1, <4>2, <4>3
    <3> QED
      BY <3>1, <3>2, <3>3
  <2>2. ASSUME NEW p \in DOMAIN live' PROVE p - HDR \in DOMAIN mem'
    <3>1. CASE p = block + HDR
      BY <1>3, <1>5, <1>6, <3>1 DEF HDR
    <3>2. CASE p \in DOMAIN live
      BY <1>5, <1>6, <1>8, <3>2
    <3> QED
      BY <1>7, <3>1, <3>2
  <2> QED
    BY <2>1, <2>2 DEF UsedIffOwned, Blocks
<1>13. GrantFits'
  <2>1. ASSUME NEW p \in DOMAIN live PROVE live'[p] + HDR <= mem'[p - HDR].size
    BY <1>7, <1>8 DEF IInv, GrantFits
  <2>2. ASSUME NEW p \in DOMAIN live' PROVE live'[p] + HDR <= mem'[p - HDR].size
    <3>1. CASE p = block + HDR
      BY <1>2, <1>3, <1>5, <1>6, <1>7, <3>1 DEF HDR
    <3>2. CASE p \in DOMAIN live
      BY <2>1, <3>2
    <3> QED
      BY <1>7, <3>1, <3>2
  <2> QED
    BY <2>2 DEF GrantFits
<1>14. Searching' /\ Freeing'
  BY <1>9 DEF Searching, Freeing
<1>15. Moving' /\ CopyInBounds'
  <2>1. CASE pc' = "move"
    <3>1. /\ old # NULL /\ old \in DOMAIN live /\ block' = block /\ old' = old
          /\ mem[old - HDR].size < total_size
      BY <1>1, <1>9, <2>1 DEF IInv, Searching
    <3>2. old - HDR # block /\ mem'[old - HDR] = mem[old - HDR]
          /\ mem[old - HDR].size \in Nat
      BY <1>2, <1>8, <3>1, TiledPlaces DEF Blocks
    <3> QED
      BY <1>2, <1>5, <1>6, <1>7, <3>1, <3>2 DEF Moving, CopyInBounds, Blocks
  <2>2. CASE pc' # "move"
    BY <2>2 DEF Moving, CopyInBounds
  <2> QED
    BY <2>1, <2>2
<1>16. NearlyCoalesced'
  <2>1. SUFFICES ASSUME NEW b \in DOMAIN mem', ~mem'[b].used, mem'[b].next # NULL
                 PROVE  mem'[mem'[b].next].used
    BY DEF NearlyCoalesced, Blocks
  <2> DEFINE n == mem'[b].next
  <2>2. PICK a \in Blocks :
          n = block \/ (~mem[a].used /\ mem[a].next = n /\ n # block)
    <3>1. CASE b \in Blocks
      BY <1>5, <1>6, <2>1, <3>1
    <3>2. CASE b \notin Blocks
      BY <1>2, <1>3, <1>5, <1>6, <2>1, <3>2, TiledPlaces DEF Blocks
    <3> QED
      BY <3>1, <3>2
  <2>3. CASE n = block
    BY <1>6, <2>3
  <2>4. CASE ~mem[a].used /\ mem[a].next = n /\ n # block
    <3>1. n \in Blocks /\ mem[n].used
      BY <1>1, <1>2, <2>1, <2>4, TiledPlaces DEF IInv, NearlyCoalesced, Blocks
    <3> QED
      BY <1>5, <1>6, <2>4, <3>1
  <2> QED
    BY <2>2, <2>3, <2>4
<1> QED
  BY <1>10, <1>11, <1>12, <1>13, <1>14, <1>15, <1>16 DEF IInv

(* kfree marks the block and absorbs the next one.                         *)
LEMMA ReleaseStep ==
  ASSUME IInv, pc # "prev", NEW p \in DOMAIN live, Release(p)
  PROVE  IInv'
<1> DEFINE b == p - HDR
           f == [mem EXCEPT ![b].used = FALSE]
           n == mem[b].next
<1>1. /\ mem' = JoinNext(f, b)
      /\ used_memory' = Wrap(used_memory - mem[b].size)
      /\ live' = Unbind(live, p)
      /\ pc' = "prev" /\ block' = b /\ prev' = HEAP_START
      /\ total_size' = total_size /\ want' = want /\ old' = NULL
  BY DEF Release
<1>2. /\ b \in DOMAIN mem /\ b \in Nat /\ b + HDR = p /\ mem[b].used
      /\ Typed(mem) /\ Tiled(mem)
  BY HeapFacts DEF Blocks
<1>3. /\ Typed(f) /\ Tiled(f) /\ DOMAIN f = DOMAIN mem
      /\ ~f[b].used /\ f[b].size = mem[b].size /\ f[b].next = n
      /\ \A c \in DOMAIN mem \ {b} : f[c] = mem[c]
  <2>1. /\ Typed(f) /\ Tiled(f) /\ DOMAIN f = DOMAIN mem
        /\ f[b].used = FALSE
        /\ \A c \in DOMAIN mem : f[c].size = mem[c].size /\ f[c].next = mem[c].next
        /\ \A c \in DOMAIN mem \ {b} : f[c] = mem[c]
    <3> HIDE DEF b
    <3>1. FALSE \in BOOLEAN
      OBVIOUS
    <3> QED
      BY Zenon, <1>2, <3>1, MarkTiled
  <2> QED
    BY <1>2, <2>1
<1> HIDE DEF f
<1>4. \A c \in DOMAIN mem : mem[c].next # NULL =>
        /\ mem[c].next \in DOMAIN mem /\ c < mem[c].next
        /\ \A d \in DOMAIN mem : mem[d].next = mem[c].next => d = c
  BY <1>2, TiledPlaces
<1>5. /\ Typed(mem') /\ Tiled(mem')
      /\ DOMAIN mem' \subseteq DOMAIN mem /\ b \in DOMAIN mem' /\ ~mem'[b].used
      /\ \A c \in DOMAIN mem' \ {b} : mem'[c] = mem[c]
      /\ \A c \in DOMAIN mem \ DOMAIN mem' : ~mem[c].used
      /\ mem'[b].next # NULL => /\ mem'[b].next \in DOMAIN mem' \ {b}
                                /\ mem[mem'[b].next].used
  <2>1. CASE n # NULL /\ ~f[n].used
    <3>1. mem' = Join(f, b)
      BY <1>1, <1>3, <2>1 DEF JoinNext
    <3>2. /\ Typed(mem') /\ Tiled(mem')
          /\ n \in DOMAIN f /\ b < n /\ DOMAIN mem' = DOMAIN f \ {n}
          /\ mem'[b] = Header(f[b].size + f[n].size, f[b].used, f[n].next)
          /\ \A c \in DOMAIN f \ {b, n} : mem'[c] = f[c]
      <4>1. b \in DOMAIN f /\ f[b].next # NULL
        BY <1>2, <1>3, <2>1
      <4> HIDE DEF b, n
      <4>2. f[b].next = n
        BY <1>3
      <4> QED
        BY <1>3, <3>1, <4>1, <4>2, JoinTiled
    <3>3. n # b /\ ~mem[n].used /\ f[n] = mem[n] /\ mem'[b].next = mem[n].next
      BY <1>2, <1>3, <2>1, <3>2, HeapFacts DEF Header, Blocks
    <3>4. mem[n].next # NULL => /\ mem[n].next \in DOMAIN mem \ {b, n}
                                /\ mem[mem[n].next].used
      BY <1>2, <1>3, <1>4, <2>1, <3>2, <3>3, HeapFacts DEF IInv, NearlyCoalesced, Blocks
    <3> QED
      BY <1>2, <1>3, <3>2, <3>3, <3>4 DEF Header
  <2>2. CASE ~(n # NULL /\ ~f[n].used)
    <3>1. mem' = f
      BY <1>1, <1>3, <2>2 DEF JoinNext
    <3>2. n # NULL => n \in DOMAIN mem \ {b} /\ mem[n].used
      BY <1>2, <1>3, <1>4, <2>2, HeapFacts DEF Blocks
    <3> QED
      BY <1>2, <1>3, <3>1, <3>2
  <2> QED
    BY <2>1, <2>2
<1>6. /\ DOMAIN live' = DOMAIN live \ {p}
      /\ \A q \in DOMAIN live' : live'[q] = live[q] /\ q \in Nat
      /\ live' = [q \in DOMAIN live' |-> live'[q]]
      /\ \A q \in DOMAIN live' : q - HDR \in DOMAIN mem' \ {b}
  <2>1. /\ DOMAIN live' = DOMAIN live \ {p}
        /\ \A q \in DOMAIN live' : live'[q] = live[q]
        /\ live' = [q \in DOMAIN live' |-> live'[q]]
    BY <1>1 DEF Unbind
  <2>2. ASSUME NEW q \in DOMAIN live' PROVE q \in Nat /\ q - HDR \in DOMAIN mem' \ {b}
    <3>1. /\ q \in DOMAIN live /\ q # p /\ q \in Nat /\ q - HDR \in DOMAIN mem
          /\ q - HDR + HDR = q /\ mem[q - HDR].used
      BY <2>1, HeapFacts DEF Blocks
    <3>2. q - HDR # b
      BY <1>2, <3>1
    <3> QED
      BY <1>5, <3>1, <3>2
  <2> QED
    BY <2>1, <2>2
<1>7. TypeOK'
  <2>1. used_memory' \in 0 .. WORD - 1
    BY <1>1, <1>2, WrapRange, TiledPlaces, HeapAssumption DEF IInv, TypeOK, HEAP_END
  <2>2. live' \in [DOMAIN live' -> Nat]
    BY <1>6 DEF IInv, TypeOK
  <2> QED
    BY <1>1, <1>2, <1>5, <1>6, <2>1, <2>2, HeapAssumption
       DEF IInv, TypeOK, Typed, Blocks, Control, NULL
<1>8. HeapTiled'
  BY <1>5 DEF HeapTiled
<1>9. UsedIffOwned'
  <2>1. ASSUME NEW c \in DOMAIN mem'
        PROVE  mem'[c].used <=> c + HDR \in DOMAIN live'
    <3>1. CASE c = b
      BY <1>2, <1>5, <1>6, <3>1
    <3>2. CASE c # b
      <4>1. mem'[c].used <=> c + HDR \in DOMAIN live
        BY <1>5, <3>2 DEF IInv, UsedIffOwned, Blocks
      <4>2. c + HDR # p
        BY <1>2, <1>5, <3>2, HeapFacts DEF HDR, Blocks
      <4> QED
        BY <1>6, <4>1, <4>2
    <3> QED
      BY <3>1, <3>2
  <2> QED
    BY <1>6, <2>1 DEF UsedIffOwned, Blocks
<1>10. GrantFits'
  BY <1>5, <1>6 DEF IInv, GrantFits
<1>11. Searching' /\ Moving' /\ CopyInBounds'
  BY <1>1 DEF Searching, Moving, CopyInBounds
<1>12. Freeing'
  <2>1. HEAP_START \in DOMAIN mem' /\ ~ \E c \in DOMAIN mem' : c < HEAP_START
    BY <1>5, TiledPlaces, HeapAssumption DEF Tiled
  <2>2. HEAP_START # NULL
    BY HeapAssumption DEF NULL
  <2> QED
    BY <1>1, <1>5, <2>1, <2>2 DEF Freeing, Blocks
<1>13. NearlyCoalesced'
  <2>1. ASSUME NEW c \in DOMAIN mem', ~mem'[c].used, mem'[c].next # NULL,
               ~mem'[mem'[c].next].used, mem'[c].next # b
        PROVE  FALSE
    <3>1. c # b
      BY <1>5, <2>1
    <3>2. mem'[c] = mem[c] /\ c \in Blocks
      BY <1>5, <3>1 DEF Blocks
    <3>3. mem[c].next \in DOMAIN mem' \ {b}
      BY <1>5, <2>1, <3>2, TiledPlaces
    <3>4. mem'[mem[c].next] = mem[mem[c].next]
      BY <1>5, <3>3
    <3> QED
      BY <2>1, <3>2, <3>4 DEF IInv, NearlyCoalesced
  <2> QED
    BY <1>1, <2>1 DEF NearlyCoalesced, Blocks
<1> QED
  BY <1>7, <1>8, <1>9, <1>10, <1>11, <1>12, <1>13 DEF IInv

(* kfree's search for the predecessor moves to the next block.             *)
LEMMA KfreeNextStep == ASSUME IInv, KfreeNext PROVE IInv'
<1>1. /\ UNCHANGED <<mem, used_memory, live, pc, block, total_size, want, old>>
      /\ pc = "prev" /\ prev # NULL /\ mem[prev].next # block /\ prev' = mem[prev].next
  BY DEF KfreeNext
<1>2. prev \in DOMAIN mem /\ Typed(mem) /\ Tiled(mem)
  BY <1>1, HeapFacts DEF IInv, Freeing, Blocks
<1>3. /\ prev \in Nat /\ mem[prev].next \in DOMAIN mem \cup {NULL}
      /\ \A c \in DOMAIN mem : prev < c => mem[prev].next # NULL /\ mem[prev].next <= c
  BY <1>2, TiledPlaces
<1>4. mem[prev].next \in Nat
  BY <1>2, HeapAssumption DEF Typed
<1>5. TypeOK' /\ HeapTiled' /\ UsedIffOwned' /\ GrantFits'
  BY <1>1, <1>4 DEF IInv, TypeOK, HeapTiled, UsedIffOwned, GrantFits, Blocks
<1>6. Freeing'
  <2>1. ASSUME NEW b \in Blocks, prev' = NULL \/ b < prev' PROVE mem[b].next # block
    <3>1. b \in Nat
      BY HeapFacts
    <3>2. ~(prev < b)
      BY <1>1, <1>3, <1>4, <2>1, <3>1 DEF Blocks
    <3> QED
      BY <1>1, <1>3, <3>1, <3>2 DEF IInv, Freeing
  <2> QED
    BY <1>1, <1>3, <2>1 DEF IInv, Freeing, Blocks
<1>7. Searching' /\ Moving' /\ CopyInBounds' /\ NearlyCoalesced'
  BY <1>1 DEF IInv, Searching, Moving, CopyInBounds, NearlyCoalesced, Blocks
<1> QED
  BY <1>5, <1>6, <1>7 DEF IInv

(* The freed block is absorbed by a free predecessor; after that no two    *)
(* free blocks are neighbours.                                             *)
LEMMA KfreeMergeStep == ASSUME IInv, KfreeMerge PROVE IInv'
<1>1. /\ pc = "prev" /\ (prev # NULL => mem[prev].next = block)
      /\ mem' = JoinPrev
      /\ pc' = "idle" /\ block' = NULL /\ prev' = NULL /\ old' = NULL
      /\ total_size' = 0 /\ want' = 0
      /\ UNCHANGED <<used_memory, live>>
  BY DEF KfreeMerge, Return
<1>2. /\ Typed(mem) /\ Tiled(mem)
      /\ block \in DOMAIN mem /\ ~mem[block].used
      /\ prev \in DOMAIN mem \cup {NULL}
      /\ \A b \in DOMAIN mem : prev = NULL => mem[b].next # block
  BY <1>1, HeapFacts DEF IInv, Freeing, Blocks
<1>3. \A c \in DOMAIN mem : mem[c].next # NULL =>
        /\ mem[c].next \in DOMAIN mem /\ c < mem[c].next /\ c \in Nat
        /\ \A d \in DOMAIN mem : mem[d].next = mem[c].next => d = c
  BY <1>2, TiledPlaces
<1>4. block # NULL
  BY <1>2, TiledPlaces
<1>5. \A c \in DOMAIN mem : /\ ~mem[c].used /\ mem[c].next # NULL
                            /\ ~mem[mem[c].next].used
                            => c = prev
  BY <1>1, <1>2, <1>3, <1>4 DEF IInv, NearlyCoalesced, Blocks
<1>6. /\ Typed(mem') /\ Tiled(mem')
      /\ DOMAIN mem' \subseteq DOMAIN mem
      /\ \A c \in DOMAIN mem' : mem'[c].used = mem[c].used /\ mem'[c].size >= mem[c].size
      /\ \A c \in DOMAIN mem \ DOMAIN mem' : ~mem[c].used
      /\ \A c \in DOMAIN mem' : ~mem'[c].used /\ mem'[c].next # NULL => mem'[mem'[c].next].used
  <2>1. CASE prev # NULL /\ ~mem[prev].used
    <3>1. mem' = Join(mem, prev) /\ prev \in DOMAIN mem /\ mem[prev].next = block
      BY <1>1, <1>2, <2>1 DEF JoinPrev
    <3>2. /\ Typed(mem') /\ Tiled(mem')
          /\ prev < block /\ DOMAIN mem' = DOMAIN mem \ {block}
          /\ mem'[prev] = Header(mem[prev].size + mem[block].size, mem[prev].used, mem[block].next)
          /\ \A c \in DOMAIN mem \ {prev, block} : mem'[c] = mem[c]
      <4>1. Typed(mem) /\ Tiled(mem) /\ prev \in DOMAIN mem /\ mem[prev].next # NULL
        BY <1>2, <1>4, <3>1
      <4> DEFINE j == Join(mem, prev)
      <4>2. /\ Typed(j) /\ Tiled(j)
            /\ prev < mem[prev].next /\ DOMAIN j = DOMAIN mem \ {mem[prev].next}
            /\ j[prev] = Header(mem[prev].size + mem[mem[prev].next].size, mem[prev].used,
                                mem[mem[prev].next].next)
            /\ \A c \in DOMAIN mem \ {prev, mem[prev].next} : j[c] = mem[c]
        BY <4>1, JoinTiled, SMTT(30)
      <4>3. mem' = j
        BY <3>1
      <4> HIDE DEF j
      <4> QED
        BY <3>1, <4>2, <4>3, SMTT(30)
    <3>3. block # prev /\ mem[prev].size \in Nat /\ mem[block].size \in Nat
      BY <1>2, <1>3, <1>4, <3>1, TiledPlaces
    <3>4. \A c \in DOMAIN mem' : mem'[c].used = mem[c].used /\ mem'[c].size >= mem[c].size
      <4>1. \A c \in DOMAIN mem : mem[c].size \in Nat
        BY <1>2, TiledPlaces
      <4> QED
        BY <3>2, <3>3, <4>1 DEF Header
    <3>5. ASSUME NEW c \in DOMAIN mem', ~mem'[c].used, mem'[c].next # NULL
          PROVE  mem'[mem'[c].next].used
      <4>1. CASE c = prev
        <5>1. mem'[c].next = mem[block].next
          BY <3>2, <4>1 DEF Header
        <5>2. mem[block].next \in DOMAIN mem /\ block < mem[block].next /\ block \in Nat
          BY <1>2, <1>3, <3>5, <5>1
        <5>3. mem[mem[block].next].used
          BY <1>2, <1>5, <3>3, <3>5, <5>1
        <5>4. mem[block].next # block
          BY <5>2
        <5> QED
          BY <3>2, <3>4, <5>1, <5>2, <5>3, <5>4
      <4>2. CASE c # prev
        <5>1. mem'[c] = mem[c] /\ c \in DOMAIN mem
          BY <3>2, <4>2
        <5>2. mem[c].next \in DOMAIN mem /\ mem[c].next # block
          BY <1>3, <3>1, <3>5, <4>2, <5>1
        <5>3. mem[mem[c].next].used
          BY <1>5, <3>5, <4>2, <5>1
        <5> QED
          BY <3>2, <3>4, <5>1, <5>2, <5>3
      <4> QED
        BY <4>1, <4>2
    <3> QED
      BY <1>2, <3>2, <3>4, <3>5
  <2>2. CASE ~(prev # NULL /\ ~mem[prev].used)
    <3>1. mem' = mem
      BY <1>1, <2>2 DEF JoinPrev
    <3>2. \A c \in DOMAIN mem : mem[c].size \in Nat /\ c # NULL
      BY <1>2, TiledPlaces
    <3> QED
      BY <1>2, <1>5, <2>2, <3>1, <3>2
  <2> QED
    BY <2>1, <2>2
<1>7. TypeOK'
  BY <1>1, <1>6, HeapAssumption
     DEF IInv, TypeOK, Typed, Blocks, Control, NULL, HEAP_END
<1>8. HeapTiled'
  BY <1>6 DEF HeapTiled
<1>9. \A p \in DOMAIN live : p - HDR \in DOMAIN mem'
  BY <1>6, HeapFacts DEF Blocks
<1>10. UsedIffOwned'
  BY <1>1, <1>6, <1>9 DEF IInv, UsedIffOwned, Blocks
<1>11. GrantFits'
  <2>1. ASSUME NEW p \in DOMAIN live PROVE live[p] + HDR <= mem'[p - HDR].size
    <3>1. /\ live[p] + HDR <= mem[p - HDR].size /\ live[p] \in Nat
          /\ mem[p - HDR].size \in Nat /\ mem'[p - HDR].size \in Nat
          /\ mem'[p - HDR].size >= mem[p - HDR].size
      BY <1>2, <1>6, <1>9, TiledPlaces DEF IInv, GrantFits, TypeOK
    <3> QED
      BY <3>1 DEF HDR
  <2> QED
    BY <1>1, <2>1 DEF GrantFits
<1>12. Searching' /\ Moving' /\ CopyInBounds' /\ Freeing' /\ NearlyCoalesced'
  BY <1>1, <1>6
     DEF Searching, Moving, CopyInBounds, Freeing, NearlyCoalesced, Blocks
<1> QED
  BY <1>7, <1>8, <1>10, <1>11, <1>12 DEF IInv

(* krealloc leaves a block in place only when the request fits in it.      *)
LEMMA KreallocInPlaceStep ==
  ASSUME IInv, NEW p \in DOMAIN live, NEW s \in Nat, KreallocInPlace(p, s)
  PROVE  IInv'
<1>1. /\ pc = "idle" /\ s <= Wrap(mem[p - HDR].size - HDR)
      /\ live' = Bind(live, p, s)
      /\ UNCHANGED <<mem, used_memory, pc, block, prev, total_size, want, old>>
  BY DEF KreallocInPlace
<1>2. DOMAIN live' = DOMAIN live /\ \A q \in DOMAIN live : live'[q] = IF q = p THEN s ELSE live[q]
  BY <1>1 DEF Bind
<1>3. live' \in [DOMAIN live' -> Nat]
  BY <1>1 DEF Bind, IInv, TypeOK
<1>4. TypeOK' /\ HeapTiled' /\ UsedIffOwned'
  BY <1>1, <1>2, <1>3 DEF IInv, TypeOK, HeapTiled, UsedIffOwned, Blocks
<1>5. GrantFits'
  <2>1. /\ mem[p - HDR].size \in Nat /\ mem[p - HDR].size < WORD
        /\ HDR <= mem[p - HDR].size
    BY HeapFacts, TiledPlaces DEF Blocks
  <2>2. mem[p - HDR].size - HDR \in 0 .. WORD - 1
    BY <2>1, HeapAssumption DEF HDR, HEAP_END
  <2>3. s <= mem[p - HDR].size - HDR
    BY <1>1, <2>2, WrapExact
  <2>4. s + HDR <= mem[p - HDR].size
    BY <2>1, <2>3 DEF HDR
  <2> QED
    BY <1>1, <1>2, <2>4 DEF IInv, GrantFits
<1>6. Searching' /\ Moving' /\ CopyInBounds' /\ Freeing' /\ NearlyCoalesced'
  BY <1>1 DEF IInv, Searching, Moving, CopyInBounds, Freeing, NearlyCoalesced, Blocks
<1> QED
  BY <1>4, <1>5, <1>6 DEF IInv

-----------------------------------------------------------------------------
(* memory_init establishes the invariant: one free block, the whole heap.  *)
LEMMA InitIInv == Init => IInv
<1> SUFFICES ASSUME Init PROVE IInv
  OBVIOUS
<1>1. /\ DOMAIN mem = {HEAP_START}
      /\ mem[HEAP_START] = Header(HEAP_SIZE, FALSE, NULL)
      /\ mem = [b \in DOMAIN mem |-> mem[b]]
  BY DEF Init, Bind
<1>2. DOMAIN live = {} /\ live \in [DOMAIN live -> Nat]
  BY DEF Init
<1>3. /\ used_memory = 0 /\ pc = "idle" /\ block = NULL /\ prev = NULL /\ old = NULL
      /\ total_size = 0 /\ want = 0
  BY DEF Init
<1>4. TypeOK
  <2>1. mem[HEAP_START] \in [size : 0 .. WORD - 1, used : BOOLEAN, next : 0 .. WORD - 1]
    BY <1>1, HeapAssumption DEF Header, NULL, HEAP_END, HDR
  <2>2. Blocks \subseteq HEAP_START .. HEAP_END - 1
    BY <1>1, HeapAssumption DEF Blocks, HEAP_END, HDR
  <2>3. mem \in [Blocks -> [size : 0 .. WORD - 1, used : BOOLEAN, next : 0 .. WORD - 1]]
    BY <1>1, <2>1 DEF Blocks
  <2>4. 0 \in 0 .. WORD - 1
    BY HeapAssumption DEF HEAP_END
  <2> QED
    BY <1>2, <1>3, <2>2, <2>3, <2>4 DEF TypeOK, Control, NULL
<1>5. HeapTiled
  BY <1>1, HeapAssumption DEF HeapTiled, Tiled, Header, HEAP_END, HDR, NULL
<1>6. UsedIffOwned /\ GrantFits /\ NearlyCoalesced
  BY <1>1, <1>2 DEF UsedIffOwned, GrantFits, NearlyCoalesced, Blocks, Header
<1>7. Searching /\ Moving /\ CopyInBounds /\ Freeing
  BY <1>3 DEF Searching, Moving, CopyInBounds, Freeing
<1> QED
  BY <1>4, <1>5, <1>6, <1>7 DEF IInv

(* Every step of every call keeps the invariant.                           *)
LEMMA NextIInv == ASSUME NoWrap, IInv, [Next]_vars PROVE IInv'
<1>1. ASSUME NEW s \in Requests, Kmalloc(s) PROVE IInv'
  <2>1. s \in Wanted /\ s \in Nat /\ NULL \in Nat
    BY HeapAssumption DEF Wanted, NULL
  <2> QED
    BY <1>1, <2>1, SearchStep DEF Kmalloc
<1>2. ASSUME NEW num \in Counts, NEW s \in Requests, Kcalloc(num, s) PROVE IInv'
  <2> DEFINE w == num * s
  <2>1. w \in Wanted /\ w \in Nat /\ NULL \in Nat
    BY HeapAssumption DEF Wanted, NULL
  <2>2. pc = "idle" /\ Search(w, Wrap(w), NULL)
    BY <1>2 DEF Kcalloc
  <2> HIDE DEF w
  <2>3. w \in 0 .. WORD - 1
    BY <2>1, HeapAssumption DEF NoWrap, HEAP_END
  <2>4. Search(w, w, NULL)
    BY <2>2, <2>3, WrapExact
  <2> QED
    BY <2>1, <2>2, <2>4, SearchStep
<1>3. ASSUME NEW b \in Blocks, Kfree(b + HDR) PROVE IInv'
  <2> DEFINE p == b + HDR
  <2>1. p - HDR = b /\ (mem[b].used => p \in DOMAIN live) /\ Kfree(p)
    BY <1>3, HeapFacts DEF IInv, UsedIffOwned, HDR
  <2> HIDE DEF p
  <2>2. CASE mem[b].used
    BY <2>1, <2>2, ReleaseStep DEF Kfree
  <2>3. CASE ~mem[b].used
    <3>1. UNCHANGED vars
      BY <2>1, <2>3 DEF Kfree
    <3> QED
      BY <3>1 DEF vars, IInv, TypeOK, HeapTiled, UsedIffOwned, GrantFits, Searching,
                  Moving, CopyInBounds, Freeing, NearlyCoalesced, Blocks, Fits
  <2> QED
    BY <2>2, <2>3
<1>4. ASSUME NEW p \in DOMAIN live, KreallocFree(p) PROVE IInv'
  BY <1>4, ReleaseStep DEF KreallocFree
<1>5. ASSUME NEW p \in DOMAIN live, NEW s \in Requests, KreallocInPlace(p, s) PROVE IInv'
  BY <1>5, KreallocInPlaceStep, HeapAssumption
<1>6. ASSUME NEW p \in DOMAIN live, NEW s \in Requests, KreallocMove(p, s) PROVE IInv'
  <2>1. s \in Wanted /\ s \in Nat /\ p \in Nat
    BY HeapFacts, HeapAssumption DEF Wanted
  <2>2. /\ mem[p - HDR].size \in Nat /\ mem[p - HDR].size < WORD
        /\ HDR <= mem[p - HDR].size
    BY HeapFacts, TiledPlaces DEF Blocks
  <2>3. mem[p - HDR].size - HDR \in 0 .. WORD - 1
    BY <2>2, HeapAssumption DEF HDR, HEAP_END
  <2>4. s > mem[p - HDR].size - HDR
    BY <1>6, <2>3, WrapExact DEF KreallocMove
  <2>5. mem[p - HDR].size < s + HDR
    BY <2>1, <2>2, <2>4 DEF HDR
  <2> QED
    BY <1>6, <2>1, <2>5, SearchStep DEF KreallocMove
<1>7. CASE KreallocCopy
  BY <1>7, ReleaseStep DEF KreallocCopy, IInv, Moving
<1>8. CASE UNCHANGED vars
  BY <1>8 DEF vars, IInv, TypeOK, HeapTiled, UsedIffOwned, GrantFits, Searching,
              Moving, CopyInBounds, Freeing, NearlyCoalesced, Blocks, Fits
<1> QED
  BY <1>1, <1>2, <1>3, <1>4, <1>5, <1>6, <1>7, <1>8,
     KmallocNextStep, KmallocTakeStep, KmallocFailStep, KfreeNextStep, KfreeMergeStep
     DEF Next, Call, Step

-----------------------------------------------------------------------------
(* Theorems                                                                *)

(* The inductive invariant holds in every state of the heap.               *)
THEOREM Invariance == ASSUME NoWrap PROVE Spec => []IInv
<1>1. IInv /\ [Next]_vars => IInv'
  BY NextIInv
<1> QED
  BY InitIInv, <1>1, PTL DEF Spec

(* Type correctness of memory.c's state and of the clients' pointers.      *)
THEOREM TypeCorrect == ASSUME NoWrap PROVE Spec => []TypeOK
<1>1. IInv => TypeOK
  BY DEF IInv
<1> QED
  BY Invariance, <1>1, PTL

(* No split (memory.c:64-70) and no coalescing (memory.c:121-135) loses a  *)
(* byte of the heap or lets two blocks overlap.                            *)
THEOREM ListCoversHeap == ASSUME NoWrap PROVE Spec => []HeapTiled
<1>1. IInv => HeapTiled
  BY DEF IInv
<1> QED
  BY Invariance, <1>1, PTL

(* kmalloc, kfree and krealloc (memory.c:44-174) keep the used flag of a   *)
(* block in step with its owner, and a block is as large as its owner      *)
(* asked for.                                                              *)
THEOREM OwnersKeepBlocks == ASSUME NoWrap PROVE Spec => []OwnersHold
<1>1. IInv => OwnersHold
  BY DEF IInv, OwnersHold
<1> QED
  BY Invariance, <1>1, PTL

(* krealloc's memcpy (memory.c:168) writes inside the new block only.      *)
THEOREM CopyStaysInside == ASSUME NoWrap PROVE Spec => []CopyInBounds
<1>1. IInv => CopyInBounds
  BY DEF IInv
<1> QED
  BY Invariance, <1>1, PTL

(* Between calls there are no two free neighbours, so that a heap that has *)
(* been given back entirely is one block (memory.c:121-135).               *)
THEOREM NoFragmentation == ASSUME NoWrap PROVE Spec => []NoFragments
<1>1. IInv => Coalesced
  BY DEF IInv, NearlyCoalesced, Coalesced
<1>2. IInv => Recovered
  <2> SUFFICES ASSUME IInv, pc = "idle", DOMAIN live = {}
               PROVE  mem = [b \in {HEAP_START} |-> Header(HEAP_SIZE, FALSE, NULL)]
    BY DEF Recovered
  <2>1. Typed(mem) /\ Tiled(mem) /\ HEAP_START \in Blocks
    BY HeapFacts DEF Tiled, Blocks
  <2>2. \A b \in Blocks : ~mem[b].used
    BY DEF IInv, UsedIffOwned
  <2>3. mem[HEAP_START].next = NULL
    BY <2>1, <2>2, TiledPlaces DEF IInv, NearlyCoalesced, Blocks
  <2>4. Blocks = {HEAP_START}
    <3>1. ASSUME NEW c \in Blocks PROVE c = HEAP_START
      <4>1. ~(HEAP_START < c) /\ c \in Nat /\ HEAP_START <= c
        BY <2>1, <2>3, TiledPlaces DEF Blocks
      <4> QED
        BY <4>1, HeapAssumption
    <3> QED
      BY <2>1, <3>1
  <2>5. mem[HEAP_START].size = HEAP_SIZE
    <3>1. HEAP_START + mem[HEAP_START].size = HEAP_END /\ mem[HEAP_START].size \in Nat
      BY <2>1, <2>3, TiledPlaces DEF Tiled, Blocks
    <3> QED
      BY <3>1, HeapAssumption DEF HEAP_END
  <2>6. mem[HEAP_START] = Header(HEAP_SIZE, FALSE, NULL)
    <3>1. /\ mem[HEAP_START] \in [size : 0 .. WORD - 1, used : BOOLEAN, next : 0 .. WORD - 1]
          /\ mem[HEAP_START].used = FALSE
      BY <2>1, <2>2 DEF Typed, Blocks
    <3> QED
      BY <2>3, <2>5, <3>1 DEF Header
  <2> QED
    BY <2>1, <2>4, <2>6 DEF Typed, Blocks
<1>3. IInv => NoFragments
  BY <1>1, <1>2 DEF NoFragments
<1> QED
  BY Invariance, <1>3, PTL

(* kmalloc takes the lowest block that fits and fails only when there is   *)
(* none (memory.c:56-83).                                                  *)
THEOREM SearchIsFirstFit == ASSUME NoWrap PROVE Spec => FirstFit
<1>1. IInv /\ [Next]_vars =>
        [pc = "fit" /\ pc' # "fit" =>
           \A b \in Blocks : live' = live \/ b < block => ~Fits(b)]_vars
  <2> SUFFICES ASSUME IInv, Next, pc = "fit", pc' # "fit"
               PROVE  \A b \in Blocks : live' = live \/ b < block => ~Fits(b)
    OBVIOUS
  <2>1. CASE KmallocTake
    <3>1. block \in Blocks /\ ~mem[block].used
      BY <2>1, HeapFacts DEF KmallocTake, Fits, IInv, Searching
    <3>2. block + HDR \notin DOMAIN live
      BY <3>1 DEF IInv, UsedIffOwned
    <3>3. live' # live
      BY <2>1, <3>2 DEF KmallocTake, Bind
    <3> QED
      BY <3>3 DEF IInv, Searching
  <2>2. CASE KmallocFail
    BY <2>2 DEF KmallocFail, IInv, Searching
  <2> QED
    BY <2>1, <2>2 DEF Next, Call, Step, Kmalloc, Kcalloc, Kfree, KmallocNext,
      KfreeNext, KfreeMerge, KreallocCopy, KreallocFree, KreallocInPlace, KreallocMove
<1> QED
  BY Invariance, <1>1, PTL DEF Spec, FirstFit

(* No pointer is handed out twice (memory.c:59).                           *)
THEOREM PointersAreFresh == ASSUME NoWrap PROVE Spec => GrantedOnce
<1>1. IInv /\ [Next]_vars =>
        [pc = "fit" /\ live' # live => block + HDR \notin DOMAIN live]_vars
  <2> SUFFICES ASSUME IInv, [Next]_vars, pc = "fit", live' # live
               PROVE  block + HDR \notin DOMAIN live
    OBVIOUS
  <2>1. KmallocTake
    BY DEF Next, Call, Step, Kmalloc, Kcalloc, Kfree, KreallocFree, KreallocInPlace,
           KreallocMove, KmallocNext, KmallocFail, KfreeNext, KfreeMerge, KreallocCopy, vars
  <2>2. block \in Blocks /\ ~mem[block].used
    BY <2>1 DEF KmallocTake, IInv, Searching, Fits
  <2> QED
    BY <2>2 DEF IInv, UsedIffOwned
<1> QED
  BY Invariance, <1>1, PTL DEF Spec, GrantedOnce

-----------------------------------------------------------------------------
(* The heap implements the allocator.                                      *)

(* Payloads in different blocks are disjoint.                              *)
LEMMA PayloadsDisjoint ==
  ASSUME NEW m, Typed(m), Tiled(m), NEW b \in DOMAIN m, NEW c \in DOMAIN m, b # c,
         NEW s \in Nat, s + HDR <= m[b].size, NEW t \in Nat, t + HDR <= m[c].size
  PROVE  AllocatorView!Disjoint(b + HDR, s, c + HDR, t)
<1>1. b \in Nat /\ c \in Nat /\ m[b].size \in Nat /\ m[c].size \in Nat
  BY TiledPlaces
<1>2. /\ b < c => b + m[b].size <= c
      /\ c < b => c + m[c].size <= b
  BY DEF Tiled
<1> QED
  BY <1>1, <1>2 DEF AllocatorView!Disjoint, HDR

(* A client's payload lies in the heap, apart from every other's.          *)
LEMMA PayloadAvailable ==
  ASSUME IInv, NEW m, Typed(m), Tiled(m), NEW b \in DOMAIN m,
         NEW s \in Nat, s + HDR <= m[b].size,
         \A q \in DOMAIN live \ {b + HDR} :
            q - HDR \in DOMAIN m /\ live[q] + HDR <= m[q - HDR].size
  PROVE  AllocatorView!Available(b + HDR, s)
<1>1. /\ b \in Nat /\ HEAP_START <= b /\ m[b].size \in Nat /\ b + m[b].size <= HEAP_END
  BY TiledPlaces
<1>2. HEAP_START <= b + HDR /\ b + HDR + s <= HEAP_END
  BY <1>1, HeapAssumption DEF HDR, HEAP_END
<1>3. ASSUME NEW q \in DOMAIN live \ {b + HDR}
      PROVE  AllocatorView!Disjoint(b + HDR, s, q, live[q])
  <2> DEFINE c == q - HDR
  <2>1. /\ q \in Nat /\ c \in DOMAIN m /\ c + HDR = q /\ live[q] \in Nat
        /\ live[q] + HDR <= m[c].size
    BY HeapFacts DEF IInv, TypeOK
  <2>2. b # c
    BY <2>1
  <2> HIDE DEF c
  <2>3. AllocatorView!Disjoint(b + HDR, s, c + HDR, live[q])
    BY <2>1, <2>2, PayloadsDisjoint
  <2> QED
    BY <2>1, <2>3
<1> QED
  BY <1>2, <1>3 DEF AllocatorView!Available

(* kmalloc's last step is an allocation.                                   *)
LEMMA TakeIsAlloc ==
  ASSUME IInv, KmallocTake
  PROVE  \E p \in HEAP_START .. HEAP_END, s \in Wanted : AllocatorView!Alloc(p, s)
<1>1. IInv'
  BY KmallocTakeStep
<1>2. /\ block \in Blocks /\ ~mem[block].used /\ want \in Wanted /\ want \in Nat
      /\ live' = Bind(live, block + HDR, want)
  BY DEF KmallocTake, Fits, IInv, Searching, TypeOK
<1> DEFINE p == block + HDR
<1>3. p \notin DOMAIN live
  BY <1>2 DEF IInv, UsedIffOwned
<1>4. /\ DOMAIN live' = DOMAIN live \cup {p} /\ live'[p] = want
      /\ \A q \in DOMAIN live : live'[q] = live[q]
  BY <1>2, <1>3 DEF Bind
<1>5. Typed(mem') /\ Tiled(mem')
  BY <1>1 DEF IInv, TypeOK, Typed, HeapTiled, Blocks
<1>6. \A q \in DOMAIN live' : q - HDR \in DOMAIN mem' /\ live'[q] + HDR <= mem'[q - HDR].size
  BY <1>1 DEF IInv, UsedIffOwned, GrantFits, Blocks
<1>7. block \in Nat /\ p - HDR = block
  BY <1>2, HeapFacts DEF HDR
<1>8. /\ block \in DOMAIN mem' /\ want + HDR <= mem'[block].size
      /\ \A q \in DOMAIN live \ {p} :
            q - HDR \in DOMAIN mem' /\ live[q] + HDR <= mem'[q - HDR].size
  <2> HIDE DEF p
  <2>1. p \in DOMAIN live'
    BY <1>4
  <2> QED
    BY <1>4, <1>6, <1>7, <2>1
<1>9. AllocatorView!Available(p, want)
  BY <1>2, <1>5, <1>8, PayloadAvailable
<1>10. p \in HEAP_START .. HEAP_END
  BY <1>2, <1>7, <1>9, HeapAssumption DEF AllocatorView!Available, HDR, HEAP_END
<1>11. AllocatorView!Alloc(p, want)
  BY <1>2, <1>3, <1>9 DEF AllocatorView!Alloc, AllocatorView!Bind, Bind
<1> QED
  BY <1>2, <1>10, <1>11

(* kfree's first step, and krealloc's, is a release.                       *)
LEMMA ReleaseIsFree ==
  ASSUME IInv, NEW p \in DOMAIN live, Release(p)
  PROVE  p \in HEAP_START .. HEAP_END /\ AllocatorView!Free(p)
<1>1. /\ p - HDR \in DOMAIN mem /\ p \in Nat /\ Typed(mem) /\ Tiled(mem)
  BY HeapFacts DEF Blocks
<1>2. p \in HEAP_START .. HEAP_END
  <2>1. /\ HEAP_START <= p - HDR /\ HDR <= mem[p - HDR].size /\ mem[p - HDR].size \in Nat
        /\ p - HDR + mem[p - HDR].size <= HEAP_END
    BY <1>1, TiledPlaces
  <2> QED
    BY <1>1, <2>1, HeapAssumption DEF HDR, HEAP_END
<1> QED
  BY <1>2 DEF Release, AllocatorView!Free, AllocatorView!Unbind, Unbind

(* krealloc in place is a resize.                                          *)
LEMMA InPlaceIsResize ==
  ASSUME IInv, NEW p \in DOMAIN live, NEW s \in Requests, KreallocInPlace(p, s)
  PROVE  p \in HEAP_START .. HEAP_END /\ AllocatorView!Resize(p, s)
<1> DEFINE b == p - HDR
<1>1. /\ s \in Nat /\ p \in Nat /\ b \in DOMAIN mem /\ b + HDR = p
      /\ Typed(mem) /\ Tiled(mem)
  BY HeapFacts, HeapAssumption DEF Blocks
<1>2. IInv' /\ mem' = mem /\ live' = Bind(live, p, s)
  BY KreallocInPlaceStep, <1>1 DEF KreallocInPlace
<1>3. /\ \A q \in DOMAIN live \ {p} : q - HDR \in DOMAIN mem /\ live[q] + HDR <= mem[q - HDR].size
      /\ s + HDR <= mem[b].size
  <2>1. s + HDR <= mem[b].size
    BY <1>2 DEF IInv, GrantFits, Bind
  <2> QED
    BY <2>1, HeapFacts DEF IInv, GrantFits, Blocks
<1>4. b \in Nat /\ HEAP_START <= b /\ mem[b].size \in Nat /\ b + mem[b].size <= HEAP_END
  BY <1>1, TiledPlaces
<1> HIDE DEF b
<1>5. AllocatorView!Available(b + HDR, s)
  BY <1>1, <1>3, PayloadAvailable
<1>6. p \in HEAP_START .. HEAP_END
  BY <1>1, <1>3, <1>4, HeapAssumption DEF HDR, HEAP_END
<1> QED
  BY <1>1, <1>2, <1>5, <1>6 DEF AllocatorView!Resize, AllocatorView!Bind, Bind

(* Every step of the heap is a step of the allocator, or one its clients   *)
(* do not see.                                                             *)
LEMMA StepRefines ==
  ASSUME NoWrap, IInv, [Next]_vars
  PROVE  [AllocatorView!Next]_live
<1>1. ASSUME NEW p \in DOMAIN live, Release(p) PROVE AllocatorView!Next
  BY <1>1, ReleaseIsFree DEF AllocatorView!Next
<1>2. CASE KmallocTake
  BY <1>2, TakeIsAlloc DEF AllocatorView!Next
<1>3. ASSUME NEW b \in Blocks, Kfree(b + HDR) PROVE [AllocatorView!Next]_live
  <2> DEFINE p == b + HDR
  <2>1. p - HDR = b /\ (mem[b].used => p \in DOMAIN live) /\ Kfree(p)
    BY <1>3, HeapFacts DEF IInv, UsedIffOwned, HDR
  <2> HIDE DEF p
  <2> QED
    BY <1>1, <2>1 DEF Kfree, vars
<1>4. ASSUME NEW p \in DOMAIN live, KreallocFree(p) PROVE AllocatorView!Next
  BY <1>1, <1>4 DEF KreallocFree
<1>5. ASSUME NEW p \in DOMAIN live, NEW s \in Requests, KreallocInPlace(p, s)
      PROVE  AllocatorView!Next
  BY <1>5, InPlaceIsResize DEF AllocatorView!Next, Wanted
<1>6. CASE KreallocCopy
  BY <1>1, <1>6 DEF KreallocCopy, IInv, Moving
<1>7. ASSUME NEW w, NEW s, NEW o, Search(w, s, o) PROVE UNCHANGED live
  BY <1>7 DEF Search
<1> QED
  BY <1>2, <1>3, <1>4, <1>5, <1>6, <1>7
     DEF Next, Call, Step, Kmalloc, Kcalloc, KreallocMove, KmallocNext, KmallocFail,
         KfreeNext, KfreeMerge, vars

(* The heap of memory.c is an allocator of disjoint regions, for its       *)
(* clients in the kernel (ramfs.c, shell.c).                               *)
THEOREM HeapIsAllocator == ASSUME NoWrap PROVE Spec => ImplementsAllocator
<1>1. Init => AllocatorView!Init
  BY DEF Init, AllocatorView!Init
<1>2. IInv /\ [Next]_vars => [AllocatorView!Next]_live
  BY StepRefines
<1> QED
  BY Invariance, <1>1, <1>2, PTL DEF Spec, ImplementsAllocator, AllocatorView!Spec

-----------------------------------------------------------------------------
(* The bytes of the used blocks                                            *)

Taken(m)  == {b \in DOMAIN m : m[b].used}
Held(m, b) == b .. b + m[b].size - 1

LEMMA HeldBytes ==
  ASSUME NEW m, Typed(m), Tiled(m), NEW b \in DOMAIN m
  PROVE  /\ IsFiniteSet(Held(m, b)) /\ Cardinality(Held(m, b)) = m[b].size
         /\ Held(m, b) \subseteq HEAP_START .. HEAP_END - 1
         /\ \A c \in DOMAIN m : c # b => Held(m, c) \cap Held(m, b) = {}
<1>1. /\ b \in Nat /\ HEAP_START <= b /\ m[b].size \in Nat /\ HDR <= m[b].size
      /\ b + m[b].size <= HEAP_END
  BY TiledPlaces
<1> DEFINE s == m[b].size
           l == b + s - 1
<1>2. l \in Int /\ l - b + 1 = s /\ ~ (b > l)
  BY <1>1 DEF HDR
<1>3. IsFiniteSet(b .. l) /\ Cardinality(b .. l) = s
  <2> HIDE DEF l, s
  <2> QED BY <1>1, <1>2, FS_Interval
<1>4. Held(m, b) \subseteq HEAP_START .. HEAP_END - 1
  BY <1>1, HeapAssumption DEF Held, HEAP_END
<1>5. ASSUME NEW c \in DOMAIN m, c # b PROVE Held(m, c) \cap Held(m, b) = {}
  <2>1. c \in Nat /\ m[c].size \in Nat
    BY TiledPlaces
  <2>2. c + m[c].size <= b \/ b + m[b].size <= c
    BY <1>1, <1>5, <2>1 DEF Tiled
  <2> QED BY <1>1, <2>1, <2>2 DEF Held
<1> QED BY <1>3, <1>4, <1>5 DEF Held

LEMMA UsedBound ==
  ASSUME NEW m, Typed(m), Tiled(m)
  PROVE  /\ UsedBytes(m) = UNION {Held(m, b) : b \in Taken(m)}
         /\ IsFiniteSet(UsedBytes(m))
         /\ Cardinality(UsedBytes(m)) \in Nat /\ Cardinality(UsedBytes(m)) <= HEAP_SIZE
<1> DEFINE all == HEAP_START .. HEAP_END - 1
           S   == UsedBytes(m)
<1>1. S = UNION {Held(m, b) : b \in Taken(m)}
  BY DEF UsedBytes, Held, Taken
<1>2. S \subseteq all
  <2>1. \A b \in Taken(m) : Held(m, b) \subseteq all
    BY HeldBytes DEF Taken
  <2> HIDE DEF S, all
  <2> QED BY <1>1, <2>1
<1>3. IsFiniteSet(all) /\ Cardinality(all) = HEAP_SIZE
  <2> DEFINE l == HEAP_END - 1
  <2>1. HEAP_START \in Int /\ l \in Int /\ ~ (HEAP_START > l) /\ l - HEAP_START + 1 = HEAP_SIZE
    BY HeapAssumption DEF HEAP_END, HDR
  <2> HIDE DEF l
  <2>2. IsFiniteSet(HEAP_START .. l) /\ Cardinality(HEAP_START .. l) = HEAP_SIZE
    BY <2>1, FS_Interval
  <2> QED BY <2>2 DEF l
<1> HIDE DEF S, all
<1>4. IsFiniteSet(S) /\ Cardinality(S) <= HEAP_SIZE
  BY <1>2, <1>3, FS_Subset
<1>5. Cardinality(S) \in Nat
  BY <1>4, FS_CardinalityType
<1> QED BY <1>1, <1>4, <1>5 DEF S

(* A list with one used block more.                                        *)
LEMMA OneMore ==
  ASSUME NEW m, Typed(m), Tiled(m), NEW n, Typed(n), Tiled(n), NEW b \in DOMAIN n,
         b \notin Taken(m), Taken(n) = Taken(m) \cup {b},
         \A c \in Taken(m) : n[c].size = m[c].size
  PROVE  Cardinality(UsedBytes(n)) = Cardinality(UsedBytes(m)) + n[b].size
<1> DEFINE S == UsedBytes(m)
           T == UsedBytes(n)
           H == Held(n, b)
<1>1. T = S \cup H
  <2>1. T = UNION {Held(n, c) : c \in Taken(n)} /\ S = UNION {Held(m, c) : c \in Taken(m)}
    BY UsedBound
  <2>2. \A c \in Taken(m) : Held(n, c) = Held(m, c)
    BY DEF Held
  <2> HIDE DEF T, S
  <2> QED BY <2>1, <2>2
<1>2. S \cap H = {}
  <2>1. S = UNION {Held(m, c) : c \in Taken(m)}
    BY UsedBound
  <2>2. \A c \in Taken(m) : Held(n, c) = Held(m, c) /\ Held(n, c) \cap H = {}
    <3> TAKE c \in Taken(m)
    <3>1. c \in DOMAIN n /\ c # b
      BY DEF Taken
    <3> QED BY <3>1, HeldBytes DEF Held
  <2> HIDE DEF S, H
  <2> QED BY <2>1, <2>2
<1>3. IsFiniteSet(S) /\ Cardinality(S) \in Nat /\ IsFiniteSet(H) /\ Cardinality(H) = n[b].size
      /\ n[b].size \in Nat
  BY UsedBound, HeldBytes, TiledPlaces
<1> HIDE DEF S, T, H
<1>4. Cardinality(S \cup H) = Cardinality(S) + Cardinality(H) - Cardinality(S \cap H)
  BY <1>3, FS_Union
<1>5. Cardinality(S \cap H) = 0
  BY <1>2, FS_EmptySet
<1>6. Cardinality(T) = Cardinality(S) + n[b].size
  BY <1>1, <1>3, <1>4, <1>5
<1> QED BY <1>6 DEF S, T

LEMMA SameUsed ==
  ASSUME NEW m, NEW n, Taken(n) = Taken(m), \A c \in Taken(m) : n[c].size = m[c].size
  PROVE  UsedBytes(n) = UsedBytes(m)
<1>1. UsedBytes(m) = UNION {Held(m, c) : c \in Taken(m)} /\ UsedBytes(n) = UNION {Held(n, c) : c \in Taken(n)}
  BY DEF UsedBytes, Held, Taken
<1>2. \A c \in Taken(m) : Held(n, c) = Held(m, c)
  BY DEF Held
<1> QED BY <1>1, <1>2

(* The used blocks are those whose pointers clients have.                  *)
LEMMA TakenOwned ==
  /\ IInv  => \A b \in Int : b \in Taken(mem) <=> b + HDR \in DOMAIN live
  /\ IInv' => \A b \in Int : b \in Taken(mem') <=> b + HDR \in DOMAIN live'
<1>1. IInv => \A b \in Int : b \in Taken(mem) <=> b + HDR \in DOMAIN live
  <2> SUFFICES ASSUME IInv, NEW b \in Int PROVE b \in Taken(mem) <=> b + HDR \in DOMAIN live
    OBVIOUS
  <2>1. (b + HDR) - HDR = b
    BY DEF HDR
  <2>2. b \in DOMAIN mem => (mem[b].used <=> b + HDR \in DOMAIN live)
    BY DEF IInv, UsedIffOwned, Blocks
  <2>3. b + HDR \in DOMAIN live => (b + HDR) - HDR \in DOMAIN mem
    BY DEF IInv, UsedIffOwned, Blocks
  <2>4. b + HDR \in DOMAIN live => b \in DOMAIN mem
    BY <2>1, <2>3
  <2> QED BY <2>2, <2>4, Zenon DEF Taken
<1>2. IInv' => \A b \in Int : b \in Taken(mem') <=> b + HDR \in DOMAIN live'
  <2> SUFFICES ASSUME IInv', NEW b \in Int PROVE b \in Taken(mem') <=> b + HDR \in DOMAIN live'
    OBVIOUS
  <2>1. (b + HDR) - HDR = b
    BY DEF HDR
  <2>2. b \in DOMAIN mem' => (mem'[b].used <=> b + HDR \in DOMAIN live')
    BY DEF IInv, UsedIffOwned, Blocks
  <2>3. b + HDR \in DOMAIN live' => (b + HDR) - HDR \in DOMAIN mem'
    BY DEF IInv, UsedIffOwned, Blocks
  <2>4. b + HDR \in DOMAIN live' => b \in DOMAIN mem'
    BY <2>1, <2>3
  <2> QED BY <2>2, <2>4, Zenon DEF Taken
<1> QED BY <1>1, <1>2

LEMMA BlocksTyped ==
  /\ IInv  => Typed(mem) /\ Tiled(mem) /\ Taken(mem) \subseteq Int
  /\ IInv' => Typed(mem') /\ Tiled(mem') /\ Taken(mem') \subseteq Int
  BY HeapAssumption DEF IInv, TypeOK, HeapTiled, Blocks, Typed, Taken, HEAP_END

LEMMA AccountedTake ==
  ASSUME IInv, Accounted, KmallocTake, IInv'
  PROVE  Accounted'
<1>1. /\ pc = "fit" /\ block # NULL /\ Fits(block)
      /\ mem' = [IF Splits(block) THEN Carve(block) ELSE mem EXCEPT ![block].used = TRUE]
      /\ used_memory' = Wrap(used_memory + mem'[block].size)
      /\ live' = Bind(live, block + HDR, want)
  BY DEF KmallocTake
<1>2. /\ block \in DOMAIN mem /\ total_size \in Nat /\ HDR <= total_size
      /\ total_size + HDR + SLACK < WORD /\ block \in Int
  BY <1>1, HeapFacts, HeapAssumption DEF IInv, Searching, Blocks, TypeOK, HDR
<1>3. block \in Taken(mem') /\ block \notin Taken(mem) /\ Taken(mem') = Taken(mem) \cup {block}
  <2>1. DOMAIN live' = DOMAIN live \cup {block + HDR} /\ block \notin Taken(mem)
    BY <1>1 DEF Bind, Fits, Taken
  <2>2. \A b \in Int : b + HDR = block + HDR <=> b = block
    BY <1>2 DEF HDR
  <2> QED BY <1>2, <2>1, <2>2, TakenOwned, BlocksTyped
<1>4. \A c \in Taken(mem) : mem'[c].size = mem[c].size
  <2> SUFFICES ASSUME NEW c \in Taken(mem) PROVE mem'[c].size = mem[c].size
    OBVIOUS
  <2>1. c \in DOMAIN mem /\ c # block
    BY <1>3 DEF Taken
  <2>2. CASE ~ Splits(block)
    BY <1>1, <2>1, <2>2
  <2>3. CASE Splits(block)
    <3>1. mem[block].size \in Nat
      BY <1>2, BlocksTyped, TiledPlaces
    <3>2. total_size + HDR \in 0 .. WORD - 1 /\ total_size + HDR + SLACK \in 0 .. WORD - 1
      BY <1>2, HeapAssumption DEF HDR, SLACK, HEAP_END
    <3>3. Wrap(Wrap(total_size + HDR) + SLACK) = total_size + HDR + SLACK
      BY <3>2, WrapExact
    <3>4. total_size + HDR <= mem[block].size
      BY <1>2, <2>3, <3>1, <3>2, <3>3 DEF Splits, SLACK, HDR
    <3>5. Carve(block)[c] = mem[c] /\ c \in DOMAIN Carve(block)
      BY <1>2, <2>1, <3>4, BlocksTyped, CarveTiled DEF Blocks
    <3>6. mem' = [Carve(block) EXCEPT ![block].used = TRUE]
      BY <1>1, <2>3
    <3> QED BY <2>1, <3>5, <3>6
  <2> QED BY <2>2, <2>3
<1>5. block \in DOMAIN mem' /\ mem'[block].size \in Nat
  BY <1>3, BlocksTyped, TiledPlaces DEF Taken
<1> DEFINE m == mem
           n == mem'
           U == Cardinality(UsedBytes(m))
           V == Cardinality(UsedBytes(n))
<1>6. V = U + n[block].size
  <2>1. Typed(m) /\ Tiled(m) /\ Typed(n) /\ Tiled(n)
    BY BlocksTyped
  <2> QED BY <1>3, <1>4, <1>5, <2>1, OneMore
<1>7. V \in Nat /\ V <= HEAP_SIZE /\ U = used_memory
  BY BlocksTyped, UsedBound DEF Accounted
<1>8. V \in 0 .. WORD - 1
  <2> HIDE DEF V
  <2> QED BY <1>7, HeapAssumption DEF HEAP_END
<1>9. used_memory' = V
  <2>1. used_memory + mem'[block].size = V
    BY <1>6, <1>7
  <2> HIDE DEF V
  <2> QED BY <1>1, <1>8, <2>1, WrapExact
<1> QED BY <1>9 DEF Accounted

LEMMA AccountedRelease ==
  ASSUME IInv, Accounted, NEW p \in DOMAIN live, Release(p), IInv'
  PROVE  Accounted'
<1> DEFINE b == p - HDR
           f == [mem EXCEPT ![b].used = FALSE]
<1>1. /\ mem' = JoinNext(f, b)
      /\ used_memory' = Wrap(used_memory - mem[b].size)
      /\ live' = Unbind(live, p)
  BY DEF Release
<1>2. b \in DOMAIN mem /\ b \in Int /\ b + HDR = p /\ mem[b].used /\ b \in Taken(mem)
  BY HeapFacts DEF Blocks, Taken
<1>3. b \notin Taken(mem') /\ Taken(mem) = Taken(mem') \cup {b}
  <2>1. DOMAIN live' = DOMAIN live \ {p}
    BY <1>1 DEF Unbind
  <2>2. \A c \in Int : c + HDR = p <=> c = b
    BY <1>2 DEF HDR
  <2> HIDE DEF b
  <2> QED BY <1>2, <2>1, <2>2, TakenOwned, BlocksTyped
<1>4. \A c \in Taken(mem') : mem[c].size = mem'[c].size
  <2> SUFFICES ASSUME NEW c \in Taken(mem') PROVE mem[c].size = mem'[c].size
    OBVIOUS
  <2>1. c \in DOMAIN mem' /\ c # b /\ c \in DOMAIN mem
    BY <1>3 DEF Taken
  <2>2. f[c] = mem[c]
    BY <2>1
  <2> HIDE DEF f, b
  <2>3. mem'[c] = f[c]
    BY <1>1, <2>1 DEF JoinNext, Join, Bind, Unbind
  <2> QED BY <2>2, <2>3
<1> HIDE DEF b, f
<1> DEFINE m == mem'
           n == mem
           U == Cardinality(UsedBytes(m))
           V == Cardinality(UsedBytes(n))
<1>5. mem[b].size \in Nat
  BY <1>2, BlocksTyped, TiledPlaces
<1>6. V = U + n[b].size
  <2>1. Typed(m) /\ Tiled(m) /\ Typed(n) /\ Tiled(n)
    BY BlocksTyped
  <2> QED BY <1>2, <1>3, <1>4, <2>1, OneMore
<1>7. U \in Nat /\ U <= HEAP_SIZE /\ V = used_memory
  BY BlocksTyped, UsedBound DEF Accounted
<1>8. U \in 0 .. WORD - 1
  <2> HIDE DEF U
  <2> QED BY <1>7, HeapAssumption DEF HEAP_END
<1>9. used_memory' = U
  <2>1. used_memory - mem[b].size = U
    <3> HIDE DEF U
    <3> QED BY <1>5, <1>6, <1>7
  <2> HIDE DEF U
  <2> QED BY <1>1, <1>8, <2>1, WrapExact
<1> QED BY <1>9 DEF Accounted

LEMMA AccountedMerge ==
  ASSUME IInv, Accounted, KfreeMerge, IInv'
  PROVE  Accounted'
<1>1. /\ mem' = JoinPrev /\ UNCHANGED <<used_memory, live>>
  BY DEF KfreeMerge
<1>2. Taken(mem') = Taken(mem)
  BY <1>1, TakenOwned, BlocksTyped
<1>3. \A c \in Taken(mem) : mem'[c].size = mem[c].size
  BY <1>1, <1>2 DEF JoinPrev, Join, Bind, Unbind, Taken
<1>4. UsedBytes(mem') = UsedBytes(mem)
  <2> DEFINE m == mem
             n == mem'
  <2>1. UsedBytes(n) = UsedBytes(m)
    <3> HIDE DEF m, n
    <3> QED BY <1>2, <1>3, SameUsed DEF m, n
  <2> QED BY <2>1
<1> QED BY <1>1, <1>4 DEF Accounted

LEMMA AccountedStep == ASSUME NoWrap, IInv, Accounted, [Next]_vars PROVE Accounted'
<1>1. IInv'
  BY NextIInv
<1>2. CASE UNCHANGED <<mem, used_memory>>
  BY <1>2 DEF Accounted
<1>3. ASSUME NEW p \in DOMAIN live, Release(p) PROVE Accounted'
  BY <1>1, <1>3, AccountedRelease
<1>4. ASSUME NEW b \in Blocks, Kfree(b + HDR) PROVE Accounted'
  <2> DEFINE p == b + HDR
  <2>1. p - HDR = b /\ (mem[b].used => p \in DOMAIN live) /\ Kfree(p)
    BY <1>4, HeapFacts DEF IInv, UsedIffOwned, HDR
  <2> HIDE DEF p
  <2> QED BY <1>2, <1>3, <2>1 DEF Kfree, vars
<1>5. CASE KreallocCopy
  BY <1>3, <1>5 DEF KreallocCopy, IInv, Moving
<1>6. CASE \E p \in DOMAIN live : KreallocFree(p)
  BY <1>3, <1>6 DEF KreallocFree
<1>7. CASE KmallocTake \/ KfreeMerge
  BY <1>1, <1>7, AccountedTake, AccountedMerge
<1>8. CASE KmallocNext \/ KmallocFail \/ KfreeNext
  BY <1>2, <1>8 DEF KmallocNext, KmallocFail, KfreeNext
<1>9. ASSUME NEW s \in Requests,
             \/ Kmalloc(s) \/ \E num \in Counts : Kcalloc(num, s)
             \/ \E p \in DOMAIN live : KreallocInPlace(p, s) \/ KreallocMove(p, s)
      PROVE  Accounted'
  BY <1>2, <1>9 DEF Kmalloc, Kcalloc, KreallocInPlace, KreallocMove, Search
<1> QED BY <1>2, <1>4, <1>5, <1>6, <1>7, <1>8, <1>9 DEF Next, Call, Step, vars

(* memory_get_used reports the bytes of the used blocks, no more and no    *)
(* fewer, whatever was split and joined since (memory.c:75, 113): the      *)
(* counter neither drifts nor wraps round.                                 *)
THEOREM CounterIsExact == ASSUME NoWrap PROVE Spec => []Accounted
<1>1. Init => Accounted
  <2> SUFFICES ASSUME Init PROVE Accounted
    OBVIOUS
  <2>1. DOMAIN mem = {HEAP_START} /\ ~ mem[HEAP_START].used /\ used_memory = 0
    BY DEF Init, Bind, Header
  <2>2. UsedBytes(mem) = {}
    BY <2>1 DEF UsedBytes
  <2> QED BY <2>1, <2>2, FS_EmptySet DEF Accounted
<1>2. IInv /\ Accounted /\ [Next]_vars => Accounted'
  BY AccountedStep
<1> QED BY Invariance, <1>1, <1>2, PTL DEF Spec
=============================================================================
