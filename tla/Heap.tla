-------------------------------- MODULE Heap --------------------------------
(***************************************************************************)
(* The kernel heap, kernel/memory.c.  The heap is one singly linked list   *)
(* of blocks; every block starts with a header (struct mem_block) and the  *)
(* client's bytes follow it.  kmalloc and kfree walk the list, and each    *)
(* turn of either loop is a step here, so that the walk, and not an        *)
(* operator that already knows the answer, finds the block.                *)
(*                                                                         *)
(* Addresses and sizes are numbers of bytes, size_t arithmetic is modulo   *)
(* WORD (2^32 in the kernel).  The variable live is the clients' side of   *)
(* the interface: the pointers handed out and not yet given back, with the *)
(* size that was asked for.                                                *)
(***************************************************************************)
EXTENDS Integers, FiniteSets

CONSTANTS
  HEAP_START,   \* address of the heap, 0x200000 in the kernel
  HEAP_SIZE,    \* its size, 0x400000 in the kernel
  WORD,         \* number of values of size_t
  Requests,     \* the sizes clients ask for
  Counts        \* the element counts clients of kcalloc ask for

NULL     == 0
HDR      == 12  \* sizeof(struct mem_block)
SLACK    == 16  \* payload a remainder must have to be split off
HEAP_END == HEAP_START + HEAP_SIZE

ASSUME HeapAssumption ==
  /\ HEAP_START \in Nat \ {0}
  /\ HEAP_SIZE \in Nat /\ HEAP_SIZE >= HDR
  /\ WORD \in Nat /\ HEAP_END < WORD
  /\ Requests \subseteq 0 .. WORD - 1
  /\ Counts \subseteq 0 .. WORD - 1

VARIABLES
  mem,          \* the headers on the list: address -> [size, used, next]
  used_memory,
  live,
  pc,           \* where the running call is: see Control
  block,        \* kmalloc's cursor; the block being freed in kfree
  prev,         \* kfree's cursor
  total_size,   \* kmalloc's local: bytes needed, header included
  want,         \* the bytes the running call's client asked for
  old           \* the pointer krealloc is moving, NULL in other calls

vars == <<mem, used_memory, live, pc, block, prev, total_size, want, old>>

(* "idle": no call is running.  "fit": kmalloc's search loop.  "move":     *)
(* krealloc between kmalloc's return and its call of kfree.  "prev":       *)
(* kfree's search for the predecessor.                                     *)
Control == {"idle", "fit", "move", "prev"}

Blocks == DOMAIN mem

Header(s, u, n) == [size |-> s, used |-> u, next |-> n]
Bind(f, k, v)   == [x \in DOMAIN f \cup {k} |-> IF x = k THEN v ELSE f[x]]
Unbind(f, k)    == [x \in DOMAIN f \ {k} |-> f[x]]

Wrap(n) == n % WORD

-----------------------------------------------------------------------------
(* memory_init: one free block that is the whole heap.                     *)
Init ==
  /\ mem = Bind([a \in {} |-> 0], HEAP_START, Header(HEAP_SIZE, FALSE, NULL))
  /\ used_memory = 0
  /\ live = [p \in {} |-> 0]
  /\ pc = "idle"
  /\ block = NULL /\ prev = NULL /\ old = NULL
  /\ total_size = 0 /\ want = 0

(* The call returns: its locals are gone.                                  *)
Return ==
  /\ pc' = "idle"
  /\ block' = NULL /\ prev' = NULL /\ old' = NULL
  /\ total_size' = 0 /\ want' = 0

-----------------------------------------------------------------------------
(* kmalloc                                                                 *)

AlignUp(s)   == LET t == Wrap(s + 7) IN t - (t % 8)
TotalSizeNoHeader(s) == AlignUp(s)
TotalSize(s) == Wrap(AlignUp(s) + HDR)

(* Entry of kmalloc(s) for a client that needs w bytes, on behalf of the   *)
(* krealloc of pointer o when o is not NULL.                               *)
Search(w, s, o) ==
  /\ s # 0
  /\ pc' = "fit"
  /\ block' = HEAP_START
  /\ total_size' = TotalSize(s)
  /\ want' = w
  /\ old' = o
  /\ UNCHANGED <<mem, used_memory, live, prev>>

Kmalloc(s) == pc = "idle" /\ Search(s, s, NULL)

(* num * size is a size_t product; the client needs all of num * size.     *)
Kcalloc(num, s) == pc = "idle" /\ Search(num * s, Wrap(num * s), NULL)

FitsFirstFree(b) == ~mem[b].used
Fits(b)          == ~mem[b].used /\ mem[b].size >= total_size

SplitsNoSlack(b) == mem[b].size >= total_size
Splits(b)        == mem[b].size >= Wrap(Wrap(total_size + HDR) + SLACK)

(* The block keeps total_size bytes, the rest becomes a free block.        *)
CarveLink(b, first, second) ==
  LET new  == b + total_size
      rest == Header(Wrap(mem[b].size - total_size), FALSE, second)
  IN  Bind(Bind(mem, b, Header(total_size, mem[b].used, first)), new, rest)
CarveUnlinked(b) == CarveLink(b, mem[b].next, mem[b].next)
Carve(b)         == CarveLink(b, b + total_size, mem[b].next)

KmallocNextPastFree ==
  /\ pc = "fit" /\ block # NULL
  /\ ~Fits(block)
  /\ block' = IF mem[block].used THEN block ELSE mem[block].next
  /\ UNCHANGED <<mem, used_memory, live, pc, prev, total_size, want, old>>
KmallocNext ==
  /\ pc = "fit" /\ block # NULL
  /\ ~Fits(block)
  /\ block' = mem[block].next
  /\ UNCHANGED <<mem, used_memory, live, pc, prev, total_size, want, old>>

KmallocTake ==
  /\ pc = "fit" /\ block # NULL
  /\ Fits(block)
  /\ mem' = [IF Splits(block) THEN Carve(block) ELSE mem EXCEPT ![block].used = TRUE]
  /\ used_memory' = Wrap(used_memory + mem'[block].size)
  /\ live' = Bind(live, block + HDR, want)
  /\ IF old = NULL
     THEN Return
     ELSE pc' = "move" /\ UNCHANGED <<block, prev, total_size, want, old>>

(* The end of the list: kmalloc, or the krealloc that called it, returns   *)
(* NULL and leaves the old block as it was.                                *)
KmallocFailEarly ==
  /\ pc = "fit" /\ (block # NULL => mem[block].next = NULL)
  /\ Return
  /\ UNCHANGED <<mem, used_memory, live>>
KmallocFail ==
  /\ pc = "fit" /\ block = NULL
  /\ Return
  /\ UNCHANGED <<mem, used_memory, live>>

-----------------------------------------------------------------------------
(* kfree                                                                   *)

(* Block b of the list m absorbs the block after it.                       *)
Join(m, b) ==
  LET n == m[b].next
  IN  Unbind(Bind(m, b, Header(Wrap(m[b].size + m[n].size), m[b].used, m[n].next)), n)

JoinNext(m, b) ==
  IF m[b].next # NULL /\ ~m[m[b].next].used THEN Join(m, b) ELSE m

(* kfree(p) up to its loop: mark the block free and absorb the next block  *)
(* if that one is free.                                                    *)
Release(p) ==
  LET b == p - HDR
  IN  /\ mem' = JoinNext([mem EXCEPT ![b].used = FALSE], b)
      /\ used_memory' = Wrap(used_memory - mem[b].size)
      /\ live' = Unbind(live, p)
      /\ pc' = "prev"
      /\ block' = b
      /\ prev' = HEAP_START
      /\ UNCHANGED <<total_size, want>>
      /\ old' = NULL

(* A second kfree of a pointer whose header is still on the list finds     *)
(* used = false and returns.                                               *)
KfreeUnchecked(p) == pc = "idle" /\ Release(p)
Kfree(p) ==
  /\ pc = "idle"
  /\ IF mem[p - HDR].used THEN Release(p) ELSE UNCHANGED vars

KfreeNext ==
  /\ pc = "prev" /\ prev # NULL
  /\ mem[prev].next # block
  /\ prev' = mem[prev].next
  /\ UNCHANGED <<mem, used_memory, live, pc, block, total_size, want, old>>

(* The predecessor is found, or there is none: absorb the freed block into *)
(* a free predecessor and return.                                          *)
JoinPrevNever == mem
JoinPrev == IF prev # NULL /\ ~mem[prev].used THEN Join(mem, prev) ELSE mem

KfreeMerge ==
  /\ pc = "prev"
  /\ prev # NULL => mem[prev].next = block
  /\ mem' = JoinPrev
  /\ Return
  /\ UNCHANGED <<used_memory, live>>

-----------------------------------------------------------------------------
(* krealloc.  krealloc(NULL, s) is Kmalloc(s).                             *)

KreallocFree(p) == pc = "idle" /\ Release(p)

KreallocInPlace(p, s) ==
  /\ pc = "idle"
  /\ s # 0 /\ s <= Wrap(mem[p - HDR].size - HDR)
  /\ live' = Bind(live, p, s)
  /\ UNCHANGED <<mem, used_memory, pc, block, prev, total_size, want, old>>

KreallocMove(p, s) ==
  /\ pc = "idle"
  /\ s > Wrap(mem[p - HDR].size - HDR)
  /\ Search(s, s, p)

(* memcpy of the old payload into the new block, then kfree of the old.    *)
KreallocCopyNoFree ==
  /\ pc = "move"
  /\ live' = Unbind(live, old)
  /\ Return
  /\ UNCHANGED <<mem, used_memory>>
KreallocCopy == pc = "move" /\ Release(old)

-----------------------------------------------------------------------------
Call ==
  \/ \E s \in Requests : Kmalloc(s)
  \/ \E num \in Counts, s \in Requests : Kcalloc(num, s)
  \/ \E b \in Blocks : Kfree(b + HDR)
  \/ \E p \in DOMAIN live :
       \/ KreallocFree(p)
       \/ \E s \in Requests : KreallocInPlace(p, s) \/ KreallocMove(p, s)

(* The steps of a call that is running.                                    *)
Step == \/ KmallocNext \/ KmallocTake \/ KmallocFail
        \/ KfreeNext \/ KfreeMerge
        \/ KreallocCopy

Next == Call \/ Step

(* A call, once made, keeps running: the heap is only used by the one      *)
(* kernel thread, and interrupts return to it.                             *)
Spec == Init /\ [][Next]_vars /\ WF_vars(Step)
-----------------------------------------------------------------------------
(* Properties                                                              *)

(* Every variable has its type.                                            *)
TypeOK ==
  /\ Blocks \subseteq HEAP_START .. HEAP_END - 1
  /\ mem \in [Blocks -> [size : 0 .. WORD - 1, used : BOOLEAN, next : 0 .. WORD - 1]]
  /\ used_memory \in 0 .. WORD - 1
  /\ DOMAIN live \subseteq Nat /\ live \in [DOMAIN live -> Nat]
  /\ pc \in Control
  /\ block \in Nat /\ prev \in Nat /\ old \in Nat
  /\ total_size \in 0 .. WORD - 1
  /\ want \in Nat

(* The list memory.c keeps covers the heap: from HEAP_START on, each block *)
(* is followed by the block its next points to, up to HEAP_END, no header  *)
(* lies inside another block, and none is lost by a split (memory.c:64-70) *)
(* or by either coalescing (memory.c:122-135).                             *)
Tiled(m) ==
  /\ HEAP_START \in DOMAIN m
  /\ \A b \in DOMAIN m :
       /\ m[b].size >= HDR
       /\ b + m[b].size <= HEAP_END
       /\ IF m[b].next = NULL THEN b + m[b].size = HEAP_END
                              ELSE m[b].next = b + m[b].size /\ m[b].next \in DOMAIN m
  /\ \A b, c \in DOMAIN m : b < c => b + m[b].size <= c
HeapTiled == Tiled(mem)

(* A block is marked used exactly while a client holds its pointer.        *)
UsedIffOwned ==
  /\ \A b \in Blocks : mem[b].used <=> b + HDR \in DOMAIN live
  /\ \A p \in DOMAIN live : p - HDR \in Blocks

(* A block has room for the bytes that its owner asked for.                *)
GrantFits == \A p \in DOMAIN live : live[p] + HDR <= mem[p - HDR].size

(* No call of kmalloc, kfree or krealloc loses a block or hands one out    *)
(* that another client still has, and the block kmalloc returns ("Find a   *)
(* free block that fits", memory.c:56) or krealloc leaves in place is      *)
(* large enough for as long as it is owned.                                *)
OwnersHold == UsedIffOwned /\ GrantFits

(* Between calls no two free blocks are neighbours.                        *)
Coalesced ==
  pc = "idle" => \A b \in Blocks : ~mem[b].used /\ mem[b].next # NULL
                                     => mem[mem[b].next].used

(* When all memory has been given back the heap is one block again.        *)
Recovered == pc = "idle" /\ live = [p \in {} |-> 0]
               => mem = [b \in {HEAP_START} |-> Header(HEAP_SIZE, FALSE, NULL)]

(* No sequence of calls fragments the heap for good: the two joins of      *)
(* kfree ("Coalesce with next block if it's free", "Coalesce with previous *)
(* block if it's free", memory.c:121-135) are all that it takes.           *)
NoFragments == Coalesced /\ Recovered

(* memory_get_used and memory_get_free report the bytes of the used        *)
(* blocks, headers included, and the rest, in the middle of calls too.     *)
UsedBytes(m) == UNION {b .. b + m[b].size - 1 : b \in {c \in DOMAIN m : m[c].used}}
Accounted    == used_memory = Cardinality(UsedBytes(mem))

(* krealloc's memcpy of the old block's payload (memory.c:168) stays in    *)
(* the new block, and the two blocks are different ones.                   *)
CopyInBounds ==
  pc = "move" => /\ block # old - HDR
                 /\ mem[old - HDR].size <= mem[block].size

(* kmalloc ends its search only at the lowest block that fits, and returns *)
(* NULL only when no block of the heap fits.                               *)
FirstFit ==
  [][pc = "fit" /\ pc' # "fit" =>
       \A b \in Blocks : live' = live \/ b < block => ~Fits(b)]_vars

(* kmalloc hands out no pointer that a client still has.                   *)
GrantedOnce ==
  [][pc = "fit" /\ live' # live => block + HDR \notin DOMAIN live]_vars

(* Every call returns: neither loop runs for ever on the list.             *)
CallsReturn == pc # "idle" ~> pc = "idle"

(* The heap is an allocator of disjoint regions.                           *)
Wanted == Requests \cup {num * s : num \in Counts, s \in Requests}
AllocatorView ==
  INSTANCE Allocator WITH Lo <- HEAP_START, Hi <- HEAP_END, Sizes <- Wanted
ImplementsAllocator == AllocatorView!Spec
=============================================================================
