---------------------------- MODULE RamFSProofs ----------------------------
(***************************************************************************)
(* Proofs about module RamFS, for every size of the table, every set of    *)
(* names and every set of contents, and with a heap that may fail.         *)
(***************************************************************************)
EXTENDS RamFS, SequenceTheorems, FiniteSetTheorems, Loops, TLAPS

EntryType == [name : Names \cup {BLANK}, data : Pointers \cup {NULL},
              size : 0 .. FS_MAX_FILESIZE, used : BOOLEAN, dir : BOOLEAN]

Byte == (UNION {Range(d) : d \in Data}) \cup {Junk}

(* Every region of h has a pointer and is a sequence of bytes.             *)
HoldsBytes(h) == DOMAIN h \subseteq Pointers /\ \A q \in DOMAIN h : h[q] \in Seq(Byte)

(* The types of the variables the invariants are about.                    *)
Typed ==
  /\ file_table \in [Slots -> EntryType]
  /\ current_dir \in Names \cup {ROOT}
  /\ HoldsBytes(heap)

(* h holds the regions of all files but s, as they are, and p is not one   *)
(* of them.                                                                *)
KeepsOthers(h, s, p) ==
  /\ HoldsBytes(h)
  /\ \A t \in Slots \ {s} :
       file_table[t].data # NULL => /\ file_table[t].data \in DOMAIN h
                                    /\ h[file_table[t].data] = heap[file_table[t].data]
                                    /\ file_table[t].data # p

(* The inductive invariant.                                                *)
IInv == Typed /\ NamesUnique /\ DataOwned /\ DataSize

-----------------------------------------------------------------------------
(* Choosing slots.                                                         *)

LEMMA FirstIsLeast ==
  ASSUME NEW T, T \subseteq Nat, T # {}
  PROVE  First(T) \in T /\ \A t \in T : First(T) <= t
  BY LeastOne DEF First

LEMMA FindIsUsed ==
  ASSUME NEW n, Exists(n)
  PROVE  Find(n) \in Used /\ Find(n) \in Slots /\ file_table[Find(n)].name = n
<1>1. Named(n) # {} /\ Named(n) \subseteq Nat
  BY DEF Exists, Named, Used, Slots
<1>2. Find(n) \in Named(n)
  BY <1>1, FirstIsLeast DEF Find
<1> QED
  BY <1>2 DEF Named, Used

LEMMA FreeSlot ==
  ASSUME Used # Slots
  PROVE  First(Slots \ Used) \in Slots \ Used
<1>1. Slots \ Used # {} /\ Slots \ Used \subseteq Nat
  BY DEF Used, Slots
<1> QED
  BY <1>1, FirstIsLeast

-----------------------------------------------------------------------------
(* What every operation does: one entry and its region change, or nothing  *)
(* does.                                                                   *)

LEMMA NothingChanges ==
  ASSUME IInv, UNCHANGED <<file_table, heap>>, current_dir' \in Names \cup {ROOT}
  PROVE  IInv'
BY DEF IInv, Typed, NamesUnique, DataOwned, DataSize, Used, Slots

LEMMA OneEntryChanges ==
  ASSUME IInv, NEW s \in Slots, NEW r \in EntryType,
         file_table' = [file_table EXCEPT ![s] = r],
         current_dir' = current_dir,
         KeepsOthers(heap', s, r.data),
         r.data # NULL => r.data \in DOMAIN heap' /\ Len(heap'[r.data]) = r.size,
         r.used => /\ r.name \in Names
                   /\ \A t \in Used \ {s} : file_table[t].name # r.name,
         ~r.used => r = FREE
  PROVE  IInv'
<1>1. /\ file_table \in [Slots -> EntryType]
      /\ file_table'[s] = r
      /\ \A t \in Slots \ {s} : file_table'[t] = file_table[t]
  BY DEF IInv, Typed
<1>2. Typed'
  <2>1. file_table' \in [Slots -> EntryType]
    BY <1>1
  <2>2. current_dir' \in Names \cup {ROOT} /\ HoldsBytes(heap')
    BY DEF KeepsOthers, IInv, Typed
  <2> QED
    BY <2>1, <2>2 DEF Typed, EntryType, Slots, HoldsBytes, Byte
<1>3. NamesUnique'
  <2>1. \A t \in Slots : file_table'[t].used => file_table'[t].name \in Names
    BY <1>1 DEF IInv, NamesUnique, Used
  <2>2. \A t, u \in Slots : file_table'[t].used /\ file_table'[u].used
                            /\ file_table'[t].name = file_table'[u].name => t = u
    BY <1>1 DEF IInv, NamesUnique, Used
  <2>3. \A t \in Slots : ~file_table'[t].used => file_table'[t] = FREE
    BY <1>1 DEF IInv, NamesUnique, Used
  <2> QED
    BY <2>1, <2>2, <2>3 DEF NamesUnique, Used, Slots, FREE, Entry
<1>4. DataOwned'
  BY <1>1 DEF IInv, DataOwned, Slots, KeepsOthers
<1>5. DataSize'
  BY <1>1 DEF IInv, DataSize, Slots, KeepsOthers
<1> QED
  BY <1>2, <1>3, <1>4, <1>5 DEF IInv

-----------------------------------------------------------------------------
(* The operations.                                                         *)

LEMMA FreeIsEntry == FREE \in EntryType /\ FREE.data = NULL /\ ~FREE.used
BY RamFSAssumption DEF FREE, Entry, EntryType

(* The heap itself, less the region of s, and with a new region.           *)
LEMMA HeapKeepsOthers ==
  ASSUME IInv, NEW s PROVE KeepsOthers(heap, s, NULL)
BY DEF IInv, Typed, DataOwned, KeepsOthers

LEMMA FreedKeepsOthers ==
  ASSUME IInv, NEW s \in Slots
  PROVE  KeepsOthers(Freed(heap, file_table[s].data), s, NULL)
BY DEF IInv, Typed, DataOwned, KeepsOthers, Freed, HoldsBytes

LEMMA FilledKeepsOthers ==
  ASSUME IInv, NEW s \in Slots, NEW h, KeepsOthers(h, s, NULL),
         NEW p \in Pointers \ DOMAIN h, NEW bytes \in Seq(Byte)
  PROVE  /\ KeepsOthers(Filled(h, p, bytes), s, p)
         /\ p \in DOMAIN Filled(h, p, bytes) /\ Filled(h, p, bytes)[p] = bytes
<1>1. /\ DOMAIN Filled(h, p, bytes) = DOMAIN h \cup {p}
      /\ Filled(h, p, bytes)[p] = bytes
      /\ \A q \in DOMAIN h : Filled(h, p, bytes)[q] = h[q]
  BY DEF Filled
<1> QED
  BY <1>1 DEF KeepsOthers, HoldsBytes

LEMMA MakeStep ==
  ASSUME IInv, NEW n, NEW dir \in BOOLEAN, Make(n, dir) PROVE IInv'
<1>1. CASE UNCHANGED <<file_table, current_dir, heap>>
  BY <1>1, NothingChanges DEF IInv, Typed
<1>2. CASE /\ n \in Names /\ ~Exists(n) /\ Used # Slots
           /\ file_table' = [file_table EXCEPT ![First(Slots \ Used)] = Entry(n, TRUE, dir)]
           /\ UNCHANGED <<current_dir, heap>>
  <2> DEFINE s == First(Slots \ Used)
             r == Entry(n, TRUE, dir)
  <2>1. s \in Slots
    BY <1>2, FreeSlot
  <2>2. /\ r \in EntryType /\ r.data = NULL /\ r.used /\ r.name = n
    BY <1>2, RamFSAssumption DEF Entry, EntryType
  <2>3. KeepsOthers(heap', s, r.data)
    BY <1>2, <2>2, HeapKeepsOthers
  <2>4. \A t \in Used \ {s} : file_table[t].name # r.name
    BY <1>2, <2>2 DEF Exists, Named
  <2> HIDE DEF s, r
  <2>5. file_table' = [file_table EXCEPT ![s] = r]
    BY <1>2 DEF s, r
  <2> QED
    BY <1>2, <2>1, <2>2, <2>3, <2>4, <2>5, OneEntryChanges DEF IInv, Typed
<1> QED
  BY <1>1, <1>2 DEF Make, Nothing

(* The entry is cleared, with or without its region (ramfs.c:87-106, 343). *)
LEMMA ClearStep ==
  ASSUME IInv, NEW n, Exists(n),
         file_table' = [file_table EXCEPT ![Find(n)] = FREE],
         heap' \in {heap, Freed(heap, file_table[Find(n)].data)},
         UNCHANGED current_dir
  PROVE  IInv'
<1> DEFINE s == Find(n)
<1>1. s \in Slots
  BY FindIsUsed
<1>2. file_table' = [file_table EXCEPT ![s] = FREE]
  OBVIOUS
<1>3. heap' \in {heap, Freed(heap, file_table[s].data)}
  OBVIOUS
<1> HIDE DEF s
<1>4. KeepsOthers(heap', s, NULL)
  BY <1>1, <1>3, HeapKeepsOthers, FreedKeepsOthers
<1> QED
  BY <1>1, <1>2, <1>4, FreeIsEntry, OneEntryChanges

LEMMA ChdirStep == ASSUME IInv, NEW n \in Names \cup {BLANK, TooLong, PARENT, ROOT}, Chdir(n)
                   PROVE  IInv'
<1>1. UNCHANGED <<file_table, heap>>
  BY DEF Chdir, Nothing
<1>2. current_dir' \in Names \cup {ROOT}
  <2>1. ASSUME Exists(n) PROVE n \in Names
    BY <2>1, FindIsUsed DEF IInv, NamesUnique
  <2> QED
    BY <2>1 DEF Chdir, Nothing, IInv, Typed
<1> QED
  BY <1>1, <1>2, NothingChanges

(* File s has got the region p, or none, and the size n; the other files   *)
(* keep theirs.                                                            *)
Replaced(s, p, n) ==
  /\ p \in Pointers \cup {NULL} /\ n \in 0 .. FS_MAX_FILESIZE
  /\ SetFile(s, p, n) /\ UNCHANGED current_dir
  /\ KeepsOthers(heap', s, p)
  /\ p # NULL => p \in DOMAIN heap' /\ Len(heap'[p]) = n

LEMMA ReplacedEntry ==
  ASSUME IInv, NEW s \in Used, NEW p, NEW n, Replaced(s, p, n)
  PROVE  \E r \in EntryType :
           /\ file_table' = [file_table EXCEPT ![s] = r]
           /\ r.data = p /\ r.size = n /\ r.used
           /\ r.name = file_table[s].name /\ r.dir = file_table[s].dir
<1> DEFINE r == [file_table[s] EXCEPT !.data = p, !.size = n]
<1>1. s \in Slots /\ file_table[s] \in EntryType /\ file_table[s].used
  BY DEF Used, IInv, Typed
<1>2. /\ r \in EntryType /\ r.data = p /\ r.size = n
      /\ r.used /\ r.name = file_table[s].name /\ r.dir = file_table[s].dir
  BY <1>1 DEF EntryType, Replaced
<1>3. file_table' = [file_table EXCEPT ![s] = r]
  BY <1>1 DEF Replaced, SetFile, IInv, Typed
<1> HIDE DEF r
<1> QED
  BY <1>2, <1>3

LEMMA ReplacedStep ==
  ASSUME IInv, NEW s \in Used, NEW p, NEW n, Replaced(s, p, n)
  PROVE  IInv'
<1>1. PICK r \in EntryType :
        /\ file_table' = [file_table EXCEPT ![s] = r]
        /\ r.data = p /\ r.size = n /\ r.used
        /\ r.name = file_table[s].name
  BY ReplacedEntry
<1>2. s \in Slots
  BY DEF Used
<1>3. r.name \in Names /\ \A t \in Used \ {s} : file_table[t].name # r.name
  BY <1>1 DEF IInv, NamesUnique
<1> QED
  BY <1>1, <1>2, <1>3, OneEntryChanges DEF Replaced

(* What is known of an open file and of what a client writes to it.        *)
LEMMA OpenFile ==
  ASSUME IInv, NEW s \in Used
  PROVE  /\ s \in Slots /\ NULL \notin Pointers
         /\ file_table[s].size \in 0 .. FS_MAX_FILESIZE
         /\ 0 \in 0 .. FS_MAX_FILESIZE
         /\ FREE \in EntryType
BY RamFSAssumption, FreeIsEntry DEF Used, IInv, Typed, EntryType

LEMMA DataIsBytes ==
  ASSUME NEW d \in Data
  PROVE  d \in Seq(Byte) /\ Len(d) \in Nat /\ (d = <<>> => Len(d) = 0)
<1>1. d \in Seq(Range(d)) /\ Range(d) \subseteq Byte
  BY RamFSAssumption DEF Byte
<1>2. d \in Seq(Byte)
  BY <1>1, SeqMonotonic
<1> QED
  BY <1>2, LenProperties, EmptySeq

LEMMA WriteEffect ==
  ASSUME IInv, NEW s \in Used, NEW d \in Data, Write(s, d)
  PROVE  \/ UNCHANGED <<file_table, current_dir, heap>>
         \/ Replaced(s, NULL, file_table[s].size)
         \/ d = <<>> /\ Replaced(s, NULL, 0)
         \/ \E p \in Pointers : Replaced(s, p, Len(d)) /\ heap'[p] = d
<1> DEFINE kept == Freed(heap, file_table[s].data)
<1>0. KeepsOthers(kept, s, NULL)
  BY OpenFile, FreedKeepsOthers
<1>1. /\ \/ Nothing(-2)
         \/ WriteNoMemory(s, d)
         \/ d = <<>> /\ heap' = kept /\ SetFile(s, NULL, 0) /\ UNCHANGED current_dir
         \/ \E p \in Pointers \ DOMAIN kept :
              /\ Len(d) \in 1 .. FS_MAX_FILESIZE
              /\ heap' = Filled(kept, p, d) /\ SetFile(s, p, Len(d)) /\ UNCHANGED current_dir
      /\ WriteNoMemory(s, d) => heap' = kept /\ UNCHANGED current_dir
  BY DEF Write, WriteNoMemory
<1> HIDE DEF kept
<1>2. CASE Nothing(-2)
  BY <1>2 DEF Nothing
<1>3. CASE WriteNoMemory(s, d)
  <2>1. SetFile(s, NULL, file_table[s].size)
    BY <1>3, OpenFile DEF WriteNoMemory, SetFile, IInv, Typed, EntryType
  <2> QED
    BY <1>0, <1>1, <1>3, <2>1, OpenFile DEF Replaced
<1>4. CASE d = <<>> /\ heap' = kept /\ SetFile(s, NULL, 0) /\ UNCHANGED current_dir
  BY <1>0, <1>4, OpenFile DEF Replaced
<1>5. ASSUME NEW p \in Pointers \ DOMAIN kept, Len(d) \in 1 .. FS_MAX_FILESIZE,
             heap' = Filled(kept, p, d), SetFile(s, p, Len(d)), UNCHANGED current_dir
      PROVE  Replaced(s, p, Len(d)) /\ heap'[p] = d
  <2>1. KeepsOthers(heap', s, p) /\ p \in DOMAIN heap' /\ heap'[p] = d
    BY <1>0, <1>5, OpenFile, DataIsBytes, FilledKeepsOthers
  <2>2. Len(d) \in 0 .. FS_MAX_FILESIZE
    BY <1>5
  <2> QED
    BY <1>5, <2>1, <2>2 DEF Replaced
<1> QED
  BY <1>1, <1>2, <1>3, <1>4, <1>5

LEMMA WriteStep ==
  ASSUME IInv, NEW s \in Used, NEW d \in Data, Write(s, d)
  PROVE  IInv'
<1>1. ASSUME UNCHANGED <<file_table, current_dir, heap>> PROVE IInv'
  BY <1>1, NothingChanges DEF IInv, Typed
<1> QED
  BY <1>1, WriteEffect, ReplacedStep

LEMMA OldBytesAreBytes ==
  ASSUME IInv, NEW s \in Used
  PROVE  OldBytes(s) \in Seq(Byte) /\ Len(OldBytes(s)) = file_table[s].size
<1> DEFINE f == file_table[s]
<1>1. f.size \in Nat
  <2>1. FS_MAX_FILESIZE \in Nat /\ f.size \in 0 .. FS_MAX_FILESIZE
    BY OpenFile, RamFSAssumption
  <2> QED
    BY <2>1
<1>2. CASE f.data = NULL
  <2>1. [i \in 1 .. f.size |-> Junk] \in Seq(Byte)
    BY <1>1 DEF Byte
  <2>2. Len([i \in 1 .. f.size |-> Junk]) = f.size
    BY <1>1
  <2> QED
    BY <1>2, <2>1, <2>2 DEF OldBytes
<1>3. CASE f.data # NULL
  <2>1. heap[f.data] \in Seq(Byte) /\ Len(heap[f.data]) = f.size
    BY <1>3, OpenFile DEF IInv, Typed, HoldsBytes, DataOwned, DataSize
  <2>2. \A i \in 1 .. f.size : heap[f.data][i] \in Byte
    BY <2>1, ElementOfSeq
  <2>3. /\ SubSeq(heap[f.data], 1, f.size) \in Seq(Byte)
        /\ Len(SubSeq(heap[f.data], 1, f.size)) = f.size
    BY <1>1, <2>2, SubSeqProperties
  <2> QED
    BY <1>3, <2>3 DEF OldBytes
<1> QED
  BY <1>2, <1>3

LEMMA AppendEffect ==
  ASSUME IInv, NEW s \in Used, NEW d \in Data, AppendTo(s, d)
  PROVE  \/ UNCHANGED <<file_table, current_dir, heap>>
         \/ \E p \in Pointers : /\ d # <<>>
                               /\ Replaced(s, p, file_table[s].size + Len(d))
                               /\ heap'[p] = OldBytes(s) \o d
<1> DEFINE bytes == OldBytes(s) \o d
           size  == file_table[s].size + Len(d)
           old   == file_table[s].data
<1>1. bytes \in Seq(Byte) /\ Len(bytes) = size /\ size \in Nat
  BY OldBytesAreBytes, DataIsBytes, OpenFile, ConcatProperties
<1>2. /\ old \in DOMAIN heap \cup {NULL}
      /\ \A t \in Slots \ {s} : file_table[t].data # NULL => file_table[t].data # old
  BY OpenFile DEF IInv, DataOwned
<1>3. \/ \E r \in {-1, -2, -3} : Nothing(r)
      \/ \E p \in Pointers \ DOMAIN heap :
           /\ d # <<>> /\ size <= FS_MAX_FILESIZE
           /\ heap' = Freed(Filled(heap, p, bytes), old)
           /\ SetFile(s, p, size) /\ UNCHANGED current_dir
  BY DEF AppendTo
<1>4. SUFFICES \/ UNCHANGED <<file_table, current_dir, heap>>
               \/ \E p \in Pointers : d # <<>> /\ Replaced(s, p, size) /\ heap'[p] = bytes
  OBVIOUS
<1> HIDE DEF bytes, size, old
<1>5. ASSUME NEW p \in Pointers \ DOMAIN heap,
             size <= FS_MAX_FILESIZE, heap' = Freed(Filled(heap, p, bytes), old),
             SetFile(s, p, size), UNCHANGED current_dir
      PROVE  Replaced(s, p, size) /\ heap'[p] = bytes
  <2>1. /\ KeepsOthers(Filled(heap, p, bytes), s, p)
        /\ p \in DOMAIN Filled(heap, p, bytes) /\ Filled(heap, p, bytes)[p] = bytes
    BY <1>1, OpenFile, HeapKeepsOthers, FilledKeepsOthers
  <2>2. p # old /\ p # NULL
    BY <1>2, OpenFile
  <2>3. KeepsOthers(heap', s, p) /\ p \in DOMAIN heap' /\ heap'[p] = bytes
    BY <1>2, <1>5, <2>1, <2>2 DEF KeepsOthers, HoldsBytes, Freed
  <2>4. size \in 0 .. FS_MAX_FILESIZE
    BY <1>1, <1>5, OpenFile
  <2> QED
    BY <1>1, <1>5, <2>3, <2>4 DEF Replaced
<1> QED
  BY <1>3, <1>5 DEF Nothing

LEMMA AppendStep ==
  ASSUME IInv, NEW s \in Used, NEW d \in Data, AppendTo(s, d)
  PROVE  IInv'
<1>1. ASSUME UNCHANGED <<file_table, current_dir, heap>> PROVE IInv'
  BY <1>1, NothingChanges DEF IInv, Typed
<1> QED
  BY <1>1, AppendEffect, ReplacedStep

LEMMA TruncateEffect ==
  ASSUME IInv, NEW s \in Used, Truncate(s) PROVE Replaced(s, NULL, 0)
<1>1. KeepsOthers(heap', s, NULL)
  BY OpenFile, FreedKeepsOthers DEF Truncate
<1> QED
  BY <1>1, OpenFile DEF Truncate, Replaced

LEMMA TruncateStep ==
  ASSUME IInv, NEW s \in Used, Truncate(s) PROVE IInv'
BY TruncateEffect, ReplacedStep

-----------------------------------------------------------------------------
(* The invariant.                                                          *)

LEMMA InitIInv == Init => IInv
<1> SUFFICES ASSUME Init PROVE IInv
  OBVIOUS
<1>1. \A s \in Slots : file_table[s] = FREE /\ ~file_table[s].used /\ file_table[s].data = NULL
  BY FreeIsEntry DEF Init
<1>2. Typed
  BY FreeIsEntry DEF Init, Typed, HoldsBytes
<1> QED
  BY <1>1, <1>2 DEF IInv, NamesUnique, DataOwned, DataSize, Used

LEMMA NextIInv == IInv /\ [Next]_vars => IInv'
<1> SUFFICES ASSUME IInv, [Next]_vars PROVE IInv'
  OBVIOUS
<1>1. ASSUME NEW n \in Names \cup {BLANK, TooLong, PARENT, ROOT}, Create(n) \/ Mkdir(n)
      PROVE  IInv'
  BY <1>1, MakeStep DEF Create, Mkdir
<1>2. ASSUME NEW n \in Names \cup {BLANK, TooLong, PARENT, ROOT}, Delete(n) \/ Rmdir(n)
      PROVE  IInv'
  <2>1. CASE UNCHANGED <<file_table, current_dir, heap>>
    BY <2>1, NothingChanges DEF IInv, Typed
  <2>2. CASE /\ Exists(n) /\ file_table' = [file_table EXCEPT ![Find(n)] = FREE]
             /\ heap' \in {heap, Freed(heap, file_table[Find(n)].data)} /\ UNCHANGED current_dir
    BY <2>2, ClearStep
  <2> QED
    BY <1>2, <2>1, <2>2 DEF Delete, Rmdir, Nothing
<1>3. ASSUME NEW n \in Names \cup {BLANK, TooLong, PARENT, ROOT}, Chdir(n) PROVE IInv'
  BY <1>3, ChdirStep
<1>4. ASSUME NEW r, Nothing(r) PROVE IInv'
  BY <1>4, NothingChanges DEF Nothing, IInv, Typed
<1>5. ASSUME NEW n \in Names, Exists(n), NEW d \in Data,
             Write(Find(n), d) \/ AppendTo(Find(n), d) \/ Truncate(Find(n))
      PROVE  IInv'
  <2>1. Find(n) \in Used
    BY <1>5, FindIsUsed
  <2> QED
    BY <1>5, <2>1, WriteStep, AppendStep, TruncateStep
<1>6. ASSUME NEW n \in Names, Exists(n), Truncate(Find(n)) PROVE IInv'
  BY <1>6, FindIsUsed, TruncateStep
<1>7. CASE UNCHANGED vars
  BY <1>7, NothingChanges DEF vars, IInv, Typed
<1> QED
  BY <1>1, <1>2, <1>3, <1>4, <1>5, <1>6, <1>7 DEF Next, Read, List

(* The table, its names and its regions fit together in every state        *)
(* (ramfs.c).                                                              *)
THEOREM Invariance == Spec => []IInv
BY InitIInv, NextIInv, PTL DEF Spec

(* The table never holds a name twice, and fs_find is unambiguous          *)
(* (ramfs.c:20-30).                                                        *)
THEOREM NamesStayUnique == Spec => []NamesUnique
<1>1. IInv => NamesUnique
  BY DEF IInv
<1> QED
  BY <1>1, Invariance, PTL

(* No file's data dangles, no two files share a region, whatever kmalloc   *)
(* refuses, and the copies of fs_read and fs_append stay inside the file's *)
(* region (ramfs.c:137, 142-225).                                          *)
THEOREM FilesOwnTheirData == Spec => []FilesHoldData
<1>1. IInv => FilesHoldData
  BY DEF IInv, FilesHoldData
<1> QED
  BY <1>1, Invariance, PTL

-----------------------------------------------------------------------------
(* Regions nobody owns.                                                    *)

LEMMA NoNewLoss ==
  ASSUME IInv, NEW s \in Slots, NEW r,
         file_table' = [file_table EXCEPT ![s] = r],
         DOMAIN heap' \subseteq (DOMAIN heap \ {file_table[s].data}) \cup {r.data}
  PROVE  Lost' \subseteq Lost
<1>1. file_table'[s] = r /\ \A t \in Slots \ {s} : file_table'[t] = file_table[t]
  BY DEF IInv, Typed
<1> QED
  BY <1>1 DEF Lost, Slots

LEMMA SetFileLosesNothing ==
  ASSUME IInv, NEW s \in Used, NEW p, NEW n, SetFile(s, p, n),
         DOMAIN heap' \subseteq (DOMAIN heap \ {file_table[s].data}) \cup {p}
  PROVE  Lost' \subseteq Lost
<1> DEFINE r == [file_table[s] EXCEPT !.data = p, !.size = n]
<1>1. s \in Slots /\ file_table[s] \in EntryType
  BY OpenFile DEF IInv, Typed
<1>2. r.data = p
  BY <1>1 DEF EntryType
<1>3. file_table' = [file_table EXCEPT ![s] = r]
  BY <1>1 DEF SetFile, IInv, Typed
<1> HIDE DEF r
<1> QED
  BY <1>1, <1>2, <1>3, NoNewLoss

LEMMA MakeLosesNothing ==
  ASSUME IInv, NEW n, NEW dir \in BOOLEAN, Make(n, dir)
  PROVE  Lost' \subseteq Lost
<1>1. CASE UNCHANGED <<file_table, heap>>
  BY <1>1 DEF Lost, Slots
<1>2. CASE /\ Used # Slots
           /\ file_table' = [file_table EXCEPT ![First(Slots \ Used)] = Entry(n, TRUE, dir)]
           /\ UNCHANGED heap
  <2> DEFINE s == First(Slots \ Used)
             r == Entry(n, TRUE, dir)
  <2>1. s \in Slots /\ file_table[s].data = NULL
    BY <1>2, FreeSlot, FreeIsEntry DEF IInv, NamesUnique
  <2>2. NULL \notin DOMAIN heap
    BY RamFSAssumption DEF IInv, Typed, HoldsBytes
  <2>3. file_table' = [file_table EXCEPT ![s] = r]
    BY <1>2
  <2> HIDE DEF s, r
  <2> QED
    BY <1>2, <2>1, <2>2, <2>3, NoNewLoss
<1> QED
  BY <1>1, <1>2 DEF Make, Nothing

LEMMA DeleteLosesNothing ==
  ASSUME IInv, NEW n, Delete(n)
  PROVE  Lost' \subseteq Lost
<1>1. CASE UNCHANGED <<file_table, heap>>
  BY <1>1 DEF Lost, Slots
<1>2. CASE /\ Exists(n) /\ heap' = Freed(heap, file_table[Find(n)].data)
           /\ file_table' = [file_table EXCEPT ![Find(n)] = FREE]
  <2> DEFINE s == Find(n)
  <2>1. s \in Slots
    BY <1>2, FindIsUsed
  <2>2. DOMAIN heap' \subseteq (DOMAIN heap \ {file_table[s].data})
    BY <1>2 DEF Freed
  <2>3. file_table' = [file_table EXCEPT ![s] = FREE]
    BY <1>2
  <2> HIDE DEF s
  <2> QED
    BY <2>1, <2>2, <2>3, NoNewLoss
<1> QED
  BY <1>1, <1>2 DEF Delete, Nothing

LEMMA WriteLosesNothing ==
  ASSUME IInv, NEW s \in Used, NEW d, Write(s, d) \/ AppendTo(s, d) \/ Truncate(s)
  PROVE  Lost' \subseteq Lost
<1> DEFINE old == file_table[s].data
<1>1. CASE UNCHANGED <<file_table, heap>>
  BY <1>1 DEF Lost, Slots
<1>2. CASE WriteNoMemory(s, d)
  <2>1. SetFile(s, NULL, file_table[s].size)
    BY <1>2, OpenFile DEF WriteNoMemory, SetFile, IInv, Typed, EntryType
  <2>2. DOMAIN heap' \subseteq DOMAIN heap \ {old}
    BY <1>2 DEF WriteNoMemory, Freed
  <2> QED
    BY <2>1, <2>2, SetFileLosesNothing
<1>3. CASE heap' = Freed(heap, old) /\ SetFile(s, NULL, 0)
  <2>1. DOMAIN heap' \subseteq DOMAIN heap \ {old}
    BY <1>3 DEF Freed
  <2> QED
    BY <1>3, <2>1, SetFileLosesNothing
<1>4. ASSUME NEW p, NEW n, NEW bytes, SetFile(s, p, n),
             \/ heap' = Filled(Freed(heap, old), p, bytes)
             \/ heap' = Freed(Filled(heap, p, bytes), old)
      PROVE  Lost' \subseteq Lost
  <2>1. DOMAIN heap' \subseteq (DOMAIN heap \ {old}) \cup {p}
    BY <1>4 DEF Freed, Filled
  <2> QED
    BY <1>4, <2>1, SetFileLosesNothing
<1>5. ASSUME Write(s, d) PROVE Lost' \subseteq Lost
  BY <1>1, <1>2, <1>3, <1>4, <1>5 DEF Write, Nothing
<1>6. ASSUME AppendTo(s, d) PROVE Lost' \subseteq Lost
  BY <1>1, <1>4, <1>6 DEF AppendTo, Nothing
<1>7. ASSUME Truncate(s) PROVE Lost' \subseteq Lost
  BY <1>3, <1>7 DEF Truncate
<1> QED
  BY <1>5, <1>6, <1>7

(* Only the removal of a directory leaves a region that no file owns       *)
(* (ramfs.c:341-362).                                                      *)
THEOREM NothingElseLoses == Spec => OnlyRmdirLoses
<1>1. ASSUME IInv, [Next]_vars
      PROVE  [Lost' \subseteq Lost \/ \E n \in Names : Rmdir(n)]_vars
  <2> USE <1>1
  <2>1. ASSUME UNCHANGED <<file_table, heap>> PROVE Lost' \subseteq Lost
    BY <2>1 DEF Lost, Slots
  <2>2. ASSUME NEW n, Create(n) \/ Mkdir(n) PROVE Lost' \subseteq Lost
    BY <2>2, MakeLosesNothing DEF Create, Mkdir
  <2>3. ASSUME NEW n, Rmdir(n)
        PROVE  Lost' \subseteq Lost \/ \E m \in Names : Rmdir(m)
    <3>1. ASSUME Exists(n) PROVE n \in Names
      BY <3>1, FindIsUsed DEF IInv, NamesUnique
    <3> QED
      BY <2>1, <2>3, <3>1 DEF Rmdir, Nothing
  <2>4. ASSUME NEW n, Exists(n), NEW d,
               Write(Find(n), d) \/ AppendTo(Find(n), d) \/ Truncate(Find(n))
        PROVE  Lost' \subseteq Lost
    <3>1. Find(n) \in Used
      BY <2>4, FindIsUsed
    <3> QED
      BY <2>4, <3>1, WriteLosesNothing
  <2>5. ASSUME NEW n, Chdir(n) PROVE UNCHANGED <<file_table, heap>>
    BY <2>5 DEF Chdir, Nothing
  <2>6. ASSUME NEW n, Exists(n), Truncate(Find(n)) PROVE Lost' \subseteq Lost
    BY <2>4, <2>6
  <2>7. CASE Next
    BY <2>1, <2>2, <2>3, <2>4, <2>5, <2>6, <2>7, DeleteLosesNothing
       DEF Next, Read, List, Nothing
  <2> QED
    BY <2>7
<1> QED
  BY <1>1, Invariance, PTL DEF Spec, OnlyRmdirLoses

(* A call that fails has changed nothing, but for the write that had freed *)
(* the old contents (ramfs.c:156-167).                                     *)
THEOREM FailuresChangeNothing == Spec => ErrorsChangeNothing
<1> DEFINE Fails == result' < 0 => \/ UNCHANGED <<file_table, current_dir, heap>>
                                   \/ \E s \in Used, d \in Data : WriteNoMemory(s, d)
<1>1. ASSUME IInv, [Next]_vars PROVE [Fails]_vars
  <2> USE <1>1
  <2>1. ASSUME NEW r, Nothing(r) PROVE Fails
    BY <2>1 DEF Nothing
  <2>2. ASSUME result' = 0 PROVE Fails
    BY <2>2
  <2>3. ASSUME NEW n, NEW dir \in BOOLEAN, Make(n, dir) PROVE Fails
    BY <2>1, <2>2, <2>3 DEF Make, Return
  <2>4. ASSUME NEW n, Delete(n) \/ Rmdir(n) \/ Chdir(n) PROVE Fails
    BY <2>1, <2>2, <2>4 DEF Delete, Rmdir, Chdir, Return
  <2>5. ASSUME NEW n, Exists(n), NEW d \in Data, Write(Find(n), d) \/ AppendTo(Find(n), d)
        PROVE  Fails
    <3>1. Find(n) \in Used /\ Len(d) \in Nat
      BY <2>5, FindIsUsed, DataIsBytes
    <3>2. ASSUME result' = Len(d) PROVE Fails
      BY <3>1, <3>2
    <3>3. ASSUME WriteNoMemory(Find(n), d) PROVE Fails
      BY <3>1, <3>3
    <3> HIDE DEF Fails
    <3> QED
      BY <2>1, <2>2, <2>5, <3>2, <3>3 DEF Write, AppendTo, Return
  <2>6. ASSUME NEW s, Truncate(s) PROVE Fails
    BY <2>2, <2>6 DEF Truncate, Return
  <2> HIDE DEF Fails
  <2>7. CASE Next
    BY <2>1, <2>3, <2>4, <2>5, <2>6, <2>7 DEF Next, Create, Mkdir, Read, List
  <2> QED
    BY <2>7
<1> QED
  BY <1>1, Invariance, PTL DEF Spec, ErrorsChangeNothing

-----------------------------------------------------------------------------
(* The table seen as a map.                                                *)

LEMMA FindsIt ==
  ASSUME IInv, NEW s \in Used
  PROVE  Find(file_table[s].name) = s
<1>1. Named(file_table[s].name) = {s}
  BY DEF Named, IInv, NamesUnique
<1>2. {s} \subseteq Nat
  BY DEF Used, Slots
<1> QED
  BY <1>1, <1>2, FirstIsLeast DEF Find

FilesMatch ==
  /\ DOMAIN Files = {file_table[s].name : s \in Used}
  /\ \A s \in Used : Files[file_table[s].name]
                       = [dir |-> file_table[s].dir, content |-> Contents(s)]
  /\ Files = [n \in DOMAIN Files |-> Files[n]]

LEMMA FilesAreTheTable == IInv => FilesMatch
<1> SUFFICES ASSUME IInv
             PROVE  \A s \in Used : Files[file_table[s].name]
                                      = [dir |-> file_table[s].dir, content |-> Contents(s)]
  BY DEF Files, FilesMatch
<1> QED
  BY FindsIt DEF Files

LEMMA FilesStayTheTable == IInv' => FilesMatch'
BY FilesAreTheTable, PTL

LEMMA ContentsLength ==
  ASSUME IInv, NEW s \in Used
  PROVE  DOMAIN Contents(s) = 1 .. file_table[s].size
<1>1. file_table[s].size \in Nat
  <2>1. file_table[s].size \in 0 .. FS_MAX_FILESIZE /\ FS_MAX_FILESIZE \in Nat
    BY OpenFile, RamFSAssumption
  <2> QED
    BY <2>1
<1>2. CASE file_table[s].data = NULL
  BY <1>2 DEF Contents
<1>3. CASE file_table[s].data # NULL
  <2>1. heap[file_table[s].data] \in Seq(Byte)
        /\ Len(heap[file_table[s].data]) = file_table[s].size
    BY <1>3, OpenFile DEF IInv, Typed, HoldsBytes, DataOwned, DataSize
  <2> QED
    BY <1>3, <2>1, LenProperties DEF Contents
<1> QED
  BY <1>2, <1>3

LEMMA OldBytesAreContents ==
  ASSUME IInv, NEW s \in Used
  PROVE  OldBytes(s) = Contents(s)
<1> DEFINE f == file_table[s]
<1>1. CASE f.data = NULL
  BY <1>1 DEF OldBytes, Contents
<1>2. CASE f.data # NULL
  <2>1. heap[f.data] \in Seq(Byte) /\ Len(heap[f.data]) = f.size
    BY <1>2, OpenFile DEF IInv, Typed, HoldsBytes, DataOwned, DataSize
  <2>2. SubSeq(heap[f.data], 1, Len(heap[f.data])) = heap[f.data]
    BY <2>1, SubSeqFull
  <2> QED
    BY <1>2, <2>1, <2>2 DEF OldBytes, Contents
<1> QED
  BY <1>1, <1>2

(* One entry changes: so does one name of the map, and nothing else.       *)
LEMMA OneNameChanges ==
  ASSUME IInv, IInv', NEW s \in Slots, NEW r \in EntryType,
         file_table' = [file_table EXCEPT ![s] = r],
         KeepsOthers(heap', s, r.data)
  PROVE  /\ DOMAIN Files' = {file_table[t].name : t \in Used \ {s}}
                            \cup {n \in {r.name} : r.used}
         /\ \A t \in Used \ {s} : Files'[file_table[t].name] = Files[file_table[t].name]
         /\ r.used => Files'[r.name] = [dir |-> r.dir, content |-> Contents(s)']
<1>1. /\ file_table'[s] = r
      /\ \A t \in Slots \ {s} : file_table'[t] = file_table[t]
  BY DEF IInv, Typed
<1>2. Used' = (Used \ {s}) \cup {t \in {s} : r.used}
  BY <1>1 DEF Used, Slots
<1>3. \A t \in Used \ {s} : Contents(t)' = Contents(t)
  BY <1>1 DEF Contents, KeepsOthers, Used
<1>4. /\ DOMAIN Files' = {file_table'[t].name : t \in Used'}
      /\ \A t \in Used' : Files'[file_table'[t].name]
                            = [dir |-> file_table'[t].dir, content |-> Contents(t)']
  BY FilesStayTheTable DEF FilesMatch
<1>5. \A t \in Used \ {s} : t \in Used' /\ file_table'[t] = file_table[t]
  BY <1>1, <1>2 DEF Used
<1>6. DOMAIN Files' = {file_table[t].name : t \in Used \ {s}} \cup {n \in {r.name} : r.used}
  BY <1>1, <1>2, <1>4, <1>5
<1>7. \A t \in Used \ {s} : Files'[file_table[t].name] = Files[file_table[t].name]
  <2> SUFFICES ASSUME NEW t \in Used \ {s}
               PROVE  Files'[file_table[t].name] = Files[file_table[t].name]
    OBVIOUS
  <2>1. Files[file_table[t].name] = [dir |-> file_table[t].dir, content |-> Contents(t)]
    BY FilesAreTheTable DEF FilesMatch
  <2>2. Files'[file_table[t].name] = [dir |-> file_table[t].dir, content |-> Contents(t)]
    BY <1>3, <1>4, <1>5
  <2> QED
    BY <2>1, <2>2
<1>8. r.used => Files'[r.name] = [dir |-> r.dir, content |-> Contents(s)']
  BY <1>1, <1>2, <1>4
<1> QED
  BY <1>6, <1>7, <1>8

-----------------------------------------------------------------------------
(* Every step of the table is a step of the map.                           *)

LEMMA MakeAdds ==
  ASSUME IInv, IInv', NEW n \in Names, NEW dir \in BOOLEAN,
         ~Exists(n), Used # Slots,
         file_table' = [file_table EXCEPT ![First(Slots \ Used)] = Entry(n, TRUE, dir)],
         UNCHANGED <<current_dir, heap>>
  PROVE  StoreView!Add(n)
<1> DEFINE r == Entry(n, TRUE, dir)
<1>1. PICK s \in Slots \ Used : s = First(Slots \ Used)
  BY FreeSlot
<1>2. /\ r \in EntryType /\ r.data = NULL /\ r.size = 0 /\ r.used /\ r.name = n
      /\ r.dir = dir
  BY RamFSAssumption DEF Entry, EntryType
<1>3. KeepsOthers(heap', s, r.data)
  BY <1>2, HeapKeepsOthers
<1>4. file_table' = [file_table EXCEPT ![s] = r]
  BY <1>1
<1>5. Used \ {s} = Used
  BY <1>1
<1> HIDE DEF r
<1>6. /\ DOMAIN Files' = DOMAIN Files \cup {n}
      /\ \A t \in Used : Files'[file_table[t].name] = Files[file_table[t].name]
      /\ Files'[n] = [dir |-> dir, content |-> Contents(s)']
  <2>1. /\ DOMAIN Files' = {file_table[t].name : t \in Used \ {s}}
                            \cup {m \in {r.name} : r.used}
        /\ \A t \in Used \ {s} : Files'[file_table[t].name] = Files[file_table[t].name]
        /\ r.used => Files'[r.name] = [dir |-> r.dir, content |-> Contents(s)']
    BY <1>2, <1>3, <1>4, OneNameChanges
  <2>2. DOMAIN Files = {file_table[t].name : t \in Used}
    BY FilesAreTheTable DEF FilesMatch
  <2>3. {m \in {r.name} : r.used} = {n}
    BY <1>2
  <2> QED
    BY <1>2, <1>5, <2>1, <2>2, <2>3
<1>7. Contents(s)' = <<>>
  <2>1. file_table'[s] = r
    BY <1>1, <1>4 DEF IInv, Typed
  <2>2. Contents(s)' = [i \in 1 .. 0 |-> Junk]
    BY <1>2, <2>1 DEF Contents
  <2> QED
    BY <2>2
<1>8. n \notin DOMAIN Files
  BY FilesAreTheTable DEF FilesMatch, Exists, Named
<1>9. Files' = StoreView!Put(n, [dir |-> dir, content |-> <<>>])
  BY <1>6, <1>7, <1>8, FilesAreTheTable, FilesStayTheTable DEF FilesMatch, StoreView!Put
<1>10. Cardinality(DOMAIN Files) < FS_MAX_FILES
  <2>1. IsFiniteSet(Slots) /\ Cardinality(Slots) = FS_MAX_FILES
    BY RamFSAssumption, FS_Interval DEF Slots
  <2>2. /\ Used \in SUBSET Slots /\ IsFiniteSet(Used)
        /\ Cardinality(Used) \in Nat /\ Cardinality(Used) < FS_MAX_FILES
    <3>1. Used \in SUBSET Slots
      BY DEF Used
    <3>2. /\ IsFiniteSet(Used) /\ Cardinality(Used) <= Cardinality(Slots)
          /\ Cardinality(Used) # Cardinality(Slots)
      BY <2>1, <3>1, FS_Subset
    <3>3. Cardinality(Used) \in Nat /\ Cardinality(Slots) \in Nat
      BY <2>1, <3>2, FS_CardinalityType
    <3> QED
      BY <2>1, <3>1, <3>2, <3>3
  <2>3. [t \in Used |-> file_table[t].name] \in Surjection(Used, DOMAIN Files)
    BY FilesAreTheTable DEF FilesMatch, Surjection
  <2>4. IsFiniteSet(DOMAIN Files) /\ Cardinality(DOMAIN Files) <= Cardinality(Used)
    BY <2>2, <2>3, FS_Surjection
  <2>5. Cardinality(DOMAIN Files) \in Nat
    BY <2>4, FS_CardinalityType
  <2> QED
    BY <2>2, <2>4, <2>5, RamFSAssumption
<1> QED
  <2>1. \E d \in BOOLEAN : Files' = StoreView!Put(n, [dir |-> d, content |-> <<>>])
    BY <1>9
  <2>2. StoreView!Cardinality(DOMAIN Files) = Cardinality(DOMAIN Files)
    BY DEF StoreView!Cardinality, Cardinality
  <2> QED
    BY <1>8, <1>10, <2>1, <2>2 DEF StoreView!Add

LEMMA ClearRemoves ==
  ASSUME IInv, IInv', NEW n, Exists(n),
         file_table' = [file_table EXCEPT ![Find(n)] = FREE],
         heap' \in {heap, Freed(heap, file_table[Find(n)].data)},
         UNCHANGED current_dir
  PROVE  StoreView!Remove(n)
<1>1. PICK s \in Used : s \in Slots /\ file_table[s].name = n /\ s = Find(n)
  BY FindIsUsed
<1>2. file_table' = [file_table EXCEPT ![s] = FREE]
  BY <1>1
<1>3. heap' \in {heap, Freed(heap, file_table[s].data)}
  BY <1>1
<1>4. KeepsOthers(heap', s, NULL)
  BY <1>1, <1>3, HeapKeepsOthers, FreedKeepsOthers
<1>5. /\ DOMAIN Files' = {file_table[t].name : t \in Used \ {s}}
      /\ \A t \in Used \ {s} : Files'[file_table[t].name] = Files[file_table[t].name]
  <2>1. KeepsOthers(heap', s, FREE.data)
    BY <1>4, FreeIsEntry
  <2>2. /\ DOMAIN Files' = {file_table[t].name : t \in Used \ {s}}
                            \cup {m \in {FREE.name} : FREE.used}
        /\ \A t \in Used \ {s} : Files'[file_table[t].name] = Files[file_table[t].name]
    BY <1>1, <1>2, <2>1, FreeIsEntry, OneNameChanges
  <2>3. {m \in {FREE.name} : FREE.used} = {}
    BY FreeIsEntry
  <2> QED
    BY <2>2, <2>3
<1>6. n \in DOMAIN Files /\ DOMAIN Files' = DOMAIN Files \ {n}
  BY <1>1, <1>5, FilesAreTheTable DEF FilesMatch, IInv, NamesUnique
<1>7. \A m \in DOMAIN Files' : Files'[m] = Files[m]
  BY <1>5
<1>8. Files' = [m \in DOMAIN Files' |-> Files'[m]]
  BY FilesStayTheTable DEF FilesMatch
<1> QED
  BY <1>6, <1>7, <1>8 DEF StoreView!Remove

LEMMA ReplacedChanges ==
  ASSUME IInv, NEW s \in Used, NEW p, NEW k, Replaced(s, p, k),
         NEW content, content = IF p = NULL THEN [i \in 1 .. k |-> Junk] ELSE heap'[p]
  PROVE  StoreView!Change(file_table[s].name, content)
<1>1. PICK r \in EntryType :
        /\ file_table' = [file_table EXCEPT ![s] = r]
        /\ r.data = p /\ r.size = k /\ r.used
        /\ r.name = file_table[s].name /\ r.dir = file_table[s].dir
  BY ReplacedEntry
<1>2. s \in Slots /\ KeepsOthers(heap', s, r.data) /\ UNCHANGED current_dir
  BY <1>1 DEF Used, Replaced
<1>3. IInv'
  BY ReplacedStep
<1>4. file_table'[s] = r
  BY <1>1, <1>2 DEF IInv, Typed
<1> DEFINE n == file_table[s].name
<1>5. /\ DOMAIN Files' = {file_table[t].name : t \in Used \ {s}} \cup {n}
      /\ \A t \in Used \ {s} : Files'[file_table[t].name] = Files[file_table[t].name]
      /\ Files'[n] = [dir |-> file_table[s].dir, content |-> Contents(s)']
  <2>1. /\ DOMAIN Files' = {file_table[t].name : t \in Used \ {s}}
                            \cup {m \in {r.name} : r.used}
        /\ \A t \in Used \ {s} : Files'[file_table[t].name] = Files[file_table[t].name]
        /\ r.used => Files'[r.name] = [dir |-> r.dir, content |-> Contents(s)']
    BY <1>1, <1>2, <1>3, OneNameChanges
  <2>2. {m \in {r.name} : r.used} = {n}
    BY <1>1
  <2> QED
    BY <1>1, <2>1, <2>2
<1>6. /\ DOMAIN Files = {file_table[t].name : t \in Used}
      /\ Files[n] = [dir |-> file_table[s].dir, content |-> Contents(s)]
  BY FilesAreTheTable DEF FilesMatch
<1>7. Files' = [m \in DOMAIN Files' |-> Files'[m]]
  BY <1>3, FilesStayTheTable DEF FilesMatch
<1>8. DOMAIN Files' = DOMAIN Files \cup {n} /\ n \in DOMAIN Files
  BY <1>5, <1>6
<1>9. \A m \in DOMAIN Files' \ {n} : Files'[m] = Files[m]
  BY <1>5
<1>10. Contents(s)' = content
  <2>1. file_table'[s].data = p /\ file_table'[s].size = k
    BY <1>1, <1>4
  <2>2. Contents(s)' = IF file_table'[s].data = NULL
                       THEN [i \in 1 .. file_table'[s].size |-> Junk]
                       ELSE heap'[file_table'[s].data]
    BY DEF Contents
  <2> QED
    BY <2>1, <2>2
<1>11. Files' = StoreView!Put(n, [dir |-> Files[n].dir, content |-> content])
  BY <1>5, <1>6, <1>7, <1>8, <1>9, <1>10 DEF StoreView!Put
<1> QED
  BY <1>2, <1>8, <1>11 DEF StoreView!Change

LEMMA NothingStutters ==
  ASSUME UNCHANGED <<file_table, heap>>
  PROVE  UNCHANGED Files
BY DEF Files, Used, Find, Named, First, Contents, Slots

(* What a file was before a step that replaces its contents.               *)
LEMMA FileOf ==
  ASSUME IInv, NEW s \in Used
  PROVE  /\ file_table[s].name \in Names /\ file_table[s].name \in DOMAIN Files
         /\ Files[file_table[s].name].content = Contents(s)
         /\ Files[file_table[s].name].dir = file_table[s].dir
<1>1. file_table[s].name \in Names
  BY DEF IInv, NamesUnique
<1>2. file_table[s].name \in DOMAIN Files
  BY FilesAreTheTable DEF FilesMatch
<1>3. Files[file_table[s].name] = [dir |-> file_table[s].dir, content |-> Contents(s)]
  BY FilesAreTheTable DEF FilesMatch
<1> QED
  BY <1>1, <1>2, <1>3

LEMMA WriteMaps ==
  ASSUME IInv, NEW s \in Used, NEW d \in Data, Write(s, d)
  PROVE  \/ UNCHANGED <<Files, current_dir>>
         \/ \E n \in Names : StoreView!Lose(n) \/ StoreView!Write(n, d)
<1> DEFINE n == file_table[s].name
<1>1. n \in Names /\ n \in DOMAIN Files /\ Files[n].content = Contents(s)
  BY FileOf
<1>2. RamFSAssumption /\ NULL \notin Pointers
  BY RamFSAssumption
<1>3. CASE UNCHANGED <<file_table, current_dir, heap>>
  BY <1>3, NothingStutters
<1>4. CASE Replaced(s, NULL, file_table[s].size)
  <2>1. StoreView!Change(n, [i \in 1 .. file_table[s].size |-> Junk])
    BY <1>4, ReplacedChanges
  <2>2. DOMAIN Files[n].content = 1 .. file_table[s].size
    BY <1>1, ContentsLength
  <2>3. StoreView!Lose(n)
    BY <1>1, <2>1, <2>2 DEF StoreView!Lose
  <2> QED
    BY <1>1, <2>3
<1>5. CASE d = <<>> /\ Replaced(s, NULL, 0)
  <2>1. d = [i \in 1 .. 0 |-> Junk]
    BY <1>5
  <2>2. StoreView!Change(n, d)
    BY <1>5, <2>1, ReplacedChanges
  <2>3. StoreView!Write(n, d)
    BY <2>2 DEF StoreView!Write
  <2> QED
    BY <1>1, <2>3
<1>6. ASSUME NEW p \in Pointers, Replaced(s, p, Len(d)), heap'[p] = d
      PROVE  StoreView!Write(n, d)
  <2>1. StoreView!Change(n, d)
    BY <1>2, <1>6, ReplacedChanges
  <2> QED
    BY <2>1 DEF StoreView!Write
<1> HIDE DEF n
<1> QED
  BY <1>1, <1>3, <1>4, <1>5, <1>6, WriteEffect

LEMMA AppendMaps ==
  ASSUME IInv, NEW s \in Used, NEW d \in Data, AppendTo(s, d)
  PROVE  \/ UNCHANGED <<Files, current_dir>>
         \/ \E n \in Names : StoreView!Extend(n, d)
<1> DEFINE n == file_table[s].name
<1>1. n \in Names /\ n \in DOMAIN Files /\ Files[n].content = OldBytes(s)
  BY FileOf, OldBytesAreContents
<1>2. NULL \notin Pointers
  BY RamFSAssumption
<1>3. CASE UNCHANGED <<file_table, current_dir, heap>>
  BY <1>3, NothingStutters
<1>4. ASSUME NEW p \in Pointers, d # <<>>,
             Replaced(s, p, file_table[s].size + Len(d)), heap'[p] = OldBytes(s) \o d
      PROVE  StoreView!Extend(n, d)
  <2>1. StoreView!Change(n, OldBytes(s) \o d)
    BY <1>2, <1>4, ReplacedChanges
  <2> QED
    BY <1>1, <1>4, <2>1 DEF StoreView!Extend
<1> HIDE DEF n
<1> QED
  BY <1>1, <1>3, <1>4, AppendEffect

LEMMA TruncateMaps ==
  ASSUME IInv, NEW s \in Used, Truncate(s)
  PROVE  \E n \in Names : StoreView!Truncate(n)
<1>1. <<>> = [i \in 1 .. 0 |-> Junk]
  OBVIOUS
<1>2. StoreView!Change(file_table[s].name, <<>>)
  BY <1>1, TruncateEffect, ReplacedChanges
<1>3. StoreView!Truncate(file_table[s].name)
  BY <1>2 DEF StoreView!Truncate
<1> QED
  BY <1>3, FileOf

LEMMA ChdirMaps ==
  ASSUME IInv, NEW n, Chdir(n)
  PROVE  \/ UNCHANGED <<Files, current_dir>>
         \/ \E m \in Names \cup {ROOT} : StoreView!Enter(m)
<1>1. UNCHANGED Files
  BY NothingStutters DEF Chdir, Nothing
<1>2. ASSUME current_dir' = ROOT PROVE StoreView!Enter(ROOT)
  BY <1>1, <1>2 DEF StoreView!Enter
<1>3. ASSUME Exists(n), file_table[Find(n)].dir, current_dir' = n
      PROVE  n \in Names /\ StoreView!Enter(n)
  <2>1. PICK s \in Used : s = Find(n) /\ file_table[s].name = n
    BY <1>3, FindIsUsed
  <2>2. n \in Names /\ n \in DOMAIN Files /\ Files[n].dir
    BY <1>3, <2>1, FileOf
  <2> QED
    BY <1>1, <1>3, <2>2 DEF StoreView!Enter
<1> QED
  BY <1>1, <1>2, <1>3 DEF Chdir, Nothing

LEMMA StepMaps ==
  ASSUME IInv, IInv', [Next]_vars
  PROVE  [StoreView!Next]_(StoreView!vars)
<1>1. ASSUME UNCHANGED <<Files, current_dir>> PROVE UNCHANGED StoreView!vars
  BY <1>1 DEF StoreView!vars
<1>2. ASSUME UNCHANGED <<file_table, current_dir, heap>> PROVE UNCHANGED StoreView!vars
  BY <1>1, <1>2, NothingStutters
<1>3. ASSUME NEW n \in Names, NEW d \in Data,
             \/ StoreView!Add(n) \/ StoreView!Remove(n) \/ StoreView!Truncate(n)
             \/ StoreView!Lose(n) \/ StoreView!Write(n, d) \/ StoreView!Extend(n, d)
      PROVE  StoreView!Next
  BY <1>3 DEF StoreView!Next
<1>4. ASSUME NEW n \in Names, StoreView!Add(n) \/ StoreView!Remove(n) \/ StoreView!Truncate(n)
      PROVE  StoreView!Next
  BY <1>4 DEF StoreView!Next
<1>5. ASSUME NEW n, Create(n) \/ Mkdir(n) PROVE StoreView!Next \/ UNCHANGED StoreView!vars
  <2>1. ASSUME NEW dir \in BOOLEAN, Make(n, dir)
        PROVE  \/ UNCHANGED <<file_table, current_dir, heap>>
               \/ n \in Names /\ StoreView!Add(n)
    BY <2>1, MakeAdds DEF Make, Nothing
  <2> QED
    BY <1>2, <1>4, <1>5, <2>1 DEF Create, Mkdir
<1>6. ASSUME NEW n, Delete(n) \/ Rmdir(n) PROVE StoreView!Next \/ UNCHANGED StoreView!vars
  <2>1. ASSUME Exists(n) PROVE n \in Names
    BY <2>1, FindIsUsed DEF IInv, NamesUnique
  <2>2. \/ UNCHANGED <<file_table, current_dir, heap>>
        \/ Exists(n) /\ StoreView!Remove(n)
    BY <1>6, ClearRemoves DEF Delete, Rmdir, Nothing
  <2> QED
    BY <1>2, <1>4, <2>1, <2>2
<1>7. ASSUME NEW n, Chdir(n) PROVE StoreView!Next \/ UNCHANGED StoreView!vars
  BY <1>1, <1>7, ChdirMaps DEF StoreView!Next
<1>8. ASSUME NEW n, Exists(n), NEW d \in Data, Write(Find(n), d) \/ AppendTo(Find(n), d)
      PROVE  StoreView!Next \/ UNCHANGED StoreView!vars
  <2>1. PICK s \in Used : s = Find(n)
    BY <1>8, FindIsUsed
  <2> QED
    BY <1>1, <1>3, <1>8, <2>1, WriteMaps, AppendMaps
<1>9. ASSUME NEW n, Exists(n), Truncate(Find(n)) PROVE StoreView!Next
  <2>1. PICK s \in Used : s = Find(n)
    BY <1>9, FindIsUsed
  <2> QED
    BY <1>4, <1>9, <2>1, TruncateMaps
<1>10. CASE UNCHANGED vars
  BY <1>2, <1>10 DEF vars
<1>11. ASSUME NEW r, Nothing(r) PROVE UNCHANGED StoreView!vars
  BY <1>2, <1>11 DEF Nothing
<1> QED
  BY <1>5, <1>6, <1>7, <1>8, <1>9, <1>10, <1>11 DEF Next, Read, List

(* The table and its heap regions are a map from names to contents: every  *)
(* call is a step of the map or leaves it as it is, also a write that      *)
(* finds no memory (ramfs.c:30-362).                                       *)
THEOREM TableIsAMap == Spec => ImplementsFileStore
<1>1. Init => StoreView!Init
  <2>1. ASSUME Init PROVE Used = {}
    BY <2>1, FreeIsEntry DEF Init, Used
  <2>2. ASSUME Init PROVE Files = [n \in {} |-> <<>>]
    BY <2>1, <2>2 DEF Files
  <2> QED
    BY <2>2 DEF Init, StoreView!Init
<1>2. IInv /\ IInv' /\ [Next]_vars => [StoreView!Next]_(StoreView!vars)
  BY StepMaps
<1> QED
  BY <1>1, <1>2, Invariance, PTL DEF Spec, ImplementsFileStore, StoreView!Spec

-----------------------------------------------------------------------------
(* fs_list                                                                 *)

NoNames == [pos |-> 0, names |-> <<>>]
Lists   == [pos : Nat, names : Seq(Names)]

LEMMA AddsName ==
  ASSUME IInv, NEW s \in Used, NEW l \in Lists
  PROVE  AddName(l, s) \in Lists
<1>1. NameLength[file_table[s].name] \in Nat /\ file_table[s].name \in Names
  BY RamFSAssumption DEF IInv, NamesUnique
<1>2. l.pos \in Nat /\ l.names \in Seq(Names)
  BY DEF Lists
<1> DEFINE n == NameLength[file_table[s].name]
<1>3. l.pos + n + 1 \in Nat /\ Append(l.names, file_table[s].name) \in Seq(Names)
  BY <1>1, <1>2
<1> HIDE DEF n
<1> QED BY <1>3 DEF AddName, Lists, n

(* The loop does what it says, one entry after the other.                  *)
LEMMA ListLoop ==
  ASSUME IInv
  PROVE  /\ ListedUpTo \in [0 .. FS_MAX_FILES -> Lists] /\ ListedUpTo[0] = NoNames
         /\ \A s \in Slots : ListedUpTo[s] = IF s \in Used THEN AddName(ListedUpTo[s - 1], s)
                                                            ELSE ListedUpTo[s - 1]
<1> DEFINE Is(f) == f = [s \in 0 .. FS_MAX_FILES |->
                         IF s = 0 THEN NoNames
                         ELSE IF s \in Used THEN AddName(f[s - 1], s) ELSE f[s - 1]]
           step == [x \in Slots \X Lists |-> IF x[1] \in Used THEN AddName(x[2], x[1]) ELSE x[2]]
<1>1. step \in [Slots \X Lists -> Lists]
  BY AddsName
<1>2. FS_MAX_FILES \in Nat /\ NoNames \in Lists /\ Slots = 1 .. FS_MAX_FILES
  BY RamFSAssumption DEF NoNames, Lists, Slots
<1>3. PICK f \in [0 .. FS_MAX_FILES -> Lists] :
        f[0] = NoNames /\ \A k \in 1 .. FS_MAX_FILES : f[k] = step[<<k, f[k - 1]>>]
  <2> HIDE DEF step
  <2>1. \E f : Computes(f, FS_MAX_FILES, Lists, NoNames, step)
    BY <1>1, <1>2, LoopExists
  <2> QED BY <2>1 DEF Computes
<1>4. Is(f)
  <2>1. ASSUME NEW s \in 0 .. FS_MAX_FILES, s # 0
        PROVE  f[s] = IF s \in Used THEN AddName(f[s - 1], s) ELSE f[s - 1]
    <3>1. s \in Slots /\ f[s - 1] \in Lists
      BY <1>2, <2>1
    <3> QED BY <1>2, <1>3, <3>1
  <2> QED BY <1>3, <2>1
<1>5. Is(ListedUpTo)
  <2>1. ListedUpTo = CHOOSE g : Is(g)
    BY DEF ListedUpTo, NoNames
  <2> HIDE DEF Is
  <2> QED BY <1>4, <2>1
<1>6. ListedUpTo[0] = NoNames
  BY <1>2, <1>5
<1>7. ASSUME NEW s \in Slots
      PROVE  ListedUpTo[s] = IF s \in Used THEN AddName(ListedUpTo[s - 1], s)
                                           ELSE ListedUpTo[s - 1]
  BY <1>2, <1>5
<1>8. \A k \in 0 .. FS_MAX_FILES : ListedUpTo[k] \in Lists
  <2> DEFINE T == {k \in 0 .. FS_MAX_FILES : ListedUpTo[k] \in Lists}
  <2>1. 0 \in T
    BY <1>2, <1>6
  <2>2. ASSUME NEW k \in 0 .. FS_MAX_FILES - 1, k \in T PROVE k + 1 \in T
    <3>1. k + 1 \in Slots /\ k + 1 - 1 = k
      BY <1>2
    <3> QED BY <1>7, <2>2, <3>1, AddsName DEF Slots
  <2>3. \A k \in 0 .. FS_MAX_FILES : k \in T
    <3> HIDE DEF T
    <3> QED BY <1>2, <2>1, <2>2, EveryRound
  <2> QED BY <2>3
<1> QED BY <1>5, <1>6, <1>7, <1>8

(* What every round keeps: the names fit, they are those of used entries   *)
(* before this one, each once.                                             *)
ListedSafely(l, s) ==
  /\ l.pos + 1 <= BufferSize /\ Len(l.names) <= s
  /\ \A i \in 1 .. Len(l.names) : \E t \in Used : t <= s /\ l.names[i] = file_table[t].name
  /\ \A i, j \in 1 .. Len(l.names) : l.names[i] = l.names[j] => i = j

LEMMA AddsSafely ==
  ASSUME IInv, NEW s \in Used, NEW l \in Lists, ListedSafely(l, s - 1)
  PROVE  ListedSafely(AddName(l, s), s)
<1> DEFINE n == NameLength[file_table[s].name]
           name == file_table[s].name
           m == Append(l.names, name)
<1>1. n \in Nat /\ name \in Names /\ s \in Nat
  BY RamFSAssumption DEF IInv, NamesUnique, Used, Slots
<1>2. l.pos \in Nat /\ l.names \in Seq(Names) /\ BufferSize \in Nat /\ Len(l.names) \in Nat
  BY RamFSAssumption DEF Lists
<1>3. CASE ~(l.pos + n + 2 < BufferSize)
  <2>1. AddName(l, s) = l
    BY <1>3 DEF AddName
  <2>2. \A t \in Used : t <= s - 1 => t <= s
    BY <1>1 DEF Used, Slots
  <2>3. Len(l.names) <= s
    BY <1>1, <1>2 DEF ListedSafely
  <2> HIDE DEF n, m, name
  <2> QED BY <2>1, <2>2, <2>3 DEF ListedSafely
<1>4. CASE l.pos + n + 2 < BufferSize
  <2>1. AddName(l, s) = [pos |-> l.pos + n + 1, names |-> m]
    BY <1>4 DEF AddName
  <2> HIDE DEF n
  <2>2. /\ Len(m) = Len(l.names) + 1 /\ m[Len(l.names) + 1] = name
        /\ \A i \in 1 .. Len(l.names) : m[i] = l.names[i]
    BY <1>1, <1>2
  <2> HIDE DEF m
  <2>3. l.pos + n + 1 + 1 <= BufferSize
    BY <1>1, <1>2, <1>4
  <2>4. Len(m) <= s
    BY <1>1, <1>2, <2>2 DEF ListedSafely
  <2>5. ASSUME NEW i \in 1 .. Len(m)
        PROVE  \E t \in Used : t <= s /\ m[i] = file_table[t].name
    <3>1. CASE i = Len(l.names) + 1
      BY <1>1, <2>2, <3>1
    <3>2. CASE i # Len(l.names) + 1
      <4>1. i \in 1 .. Len(l.names)
        BY <1>2, <2>2, <3>2
      <4>2. PICK t \in Used : t <= s - 1 /\ l.names[i] = file_table[t].name
        BY <4>1 DEF ListedSafely
      <4>3. t <= s
        BY <1>1, <4>2 DEF Used, Slots
      <4> QED BY <2>2, <4>1, <4>2, <4>3
    <3> QED BY <3>1, <3>2
  <2>6. ASSUME NEW i \in 1 .. Len(l.names) PROVE l.names[i] # name
    <3>1. PICK t \in Used : t <= s - 1 /\ l.names[i] = file_table[t].name
      BY DEF ListedSafely
    <3>2. t # s
      BY <1>1, <3>1 DEF Used, Slots
    <3> QED BY <3>1, <3>2 DEF IInv, NamesUnique
  <2>7. ASSUME NEW i \in 1 .. Len(m), NEW j \in 1 .. Len(m), m[i] = m[j] PROVE i = j
    <3>1. (i = Len(l.names) + 1 \/ i \in 1 .. Len(l.names))
          /\ (j = Len(l.names) + 1 \/ j \in 1 .. Len(l.names))
      BY <1>2, <2>2
    <3> QED BY <2>2, <2>6, <2>7, <3>1 DEF ListedSafely
  <2> QED BY <2>1, <2>3, <2>4, <2>5, <2>7 DEF ListedSafely
<1> QED BY <1>3, <1>4

LEMMA ListingSafe == ASSUME IInv PROVE ListedSafely(Listing, FS_MAX_FILES) /\ Listing \in Lists
<1> DEFINE T == {k \in 0 .. FS_MAX_FILES : ListedSafely(ListedUpTo[k], k)}
<1>1. FS_MAX_FILES \in Nat /\ BufferSize \in Nat /\ 1 <= BufferSize
  BY RamFSAssumption
<1>2. 0 \in T
  <2>1. ListedUpTo[0] = NoNames
    BY ListLoop
  <2>2. Len(NoNames.names) = 0 /\ NoNames.pos = 0
    BY DEF NoNames
  <2>3. ListedSafely(NoNames, 0)
    BY <1>1, <2>2 DEF ListedSafely
  <2> QED BY <1>1, <2>1, <2>3
<1>3. ASSUME NEW k \in 0 .. FS_MAX_FILES - 1, k \in T PROVE k + 1 \in T
  <2>1. k + 1 \in Slots /\ k + 1 - 1 = k /\ k + 1 \in 0 .. FS_MAX_FILES
    BY <1>1 DEF Slots
  <2>2. ListedUpTo[k] \in Lists /\ ListedSafely(ListedUpTo[k], k)
    BY <1>1, <1>3, ListLoop
  <2>3. CASE k + 1 \in Used
    BY <2>1, <2>2, <2>3, ListLoop, AddsSafely
  <2>4. CASE k + 1 \notin Used
    <3>1. ListedUpTo[k + 1] = ListedUpTo[k]
      BY <2>1, <2>4, ListLoop
    <3>2. Len(ListedUpTo[k].names) \in Nat
      BY <2>2 DEF Lists
    <3>3. \A t \in Used : t <= k => t <= k + 1
      BY DEF Used, Slots
    <3>4. ListedSafely(ListedUpTo[k], k + 1)
      BY <2>2, <3>2, <3>3 DEF ListedSafely
    <3> QED BY <2>1, <3>1, <3>4
  <2> QED BY <2>3, <2>4
<1>4. \A k \in 0 .. FS_MAX_FILES : k \in T
  <2> HIDE DEF T
  <2> QED BY <1>1, <1>2, <1>3, EveryRound
<1>5. FS_MAX_FILES \in 0 .. FS_MAX_FILES
  BY <1>1
<1> QED BY <1>4, <1>5, ListLoop DEF Listing

(* fs_list stays inside its buffer and names every file once, whatever the *)
(* lengths of the names are (ramfs.c:248-287).                             *)
THEOREM ListStaysInBuffer == Spec => []ListSafe
<1>1. IInv => ListSafe
  <2> SUFFICES ASSUME IInv PROVE ListSafe
    OBVIOUS
  <2>1. DOMAIN Listing.names = 1 .. Len(Listing.names)
    BY ListingSafe DEF Lists
  <2> QED BY <2>1, ListingSafe DEF ListedSafely, ListSafe
<1> QED BY <1>1, Invariance, PTL

(* What the functions return.                                              *)
Results == -3 .. FS_MAX_FILESIZE + FS_MAX_FILES

LEMMA InResults ==
  /\ {0, -1, -2, -3} \subseteq Results /\ 0 .. FS_MAX_FILESIZE \subseteq Results
  /\ 0 .. FS_MAX_FILES \subseteq Results
  BY RamFSAssumption DEF Results

Returned == result \in Results

LEMMA ReturnsResult == IInv /\ Returned /\ [Next]_vars => Returned'
<1> SUFFICES ASSUME IInv, result \in Results, [Next]_vars PROVE result' \in Results
  BY DEF Returned
<1>1. ASSUME NEW n, Create(n) \/ Mkdir(n) \/ Delete(n) \/ Rmdir(n) \/ Chdir(n)
      PROVE  result' \in Results
  <2>1. result' \in {0, -1, -2, -3}
    BY <1>1 DEF Create, Mkdir, Make, Delete, Rmdir, Chdir, Nothing, Return
  <2> QED BY <2>1, InResults
<1>2. ASSUME NEW n \in Names, Exists(n), NEW size \in 0 .. FS_MAX_FILESIZE,
             NEW offset \in 0 .. FS_MAX_FILESIZE, Read(Find(n), size, offset)
      PROVE  result' \in Results
  <2>1. file_table[Find(n)].size \in 0 .. FS_MAX_FILESIZE
    BY <1>2, FindIsUsed, OpenFile
  <2>2. result' \in 0 .. FS_MAX_FILESIZE
    <3> DEFINE z == file_table[Find(n)].size
    <3>1. result' = CASE offset >= z -> 0
                      [] offset < z /\ size < z - offset -> size
                      [] OTHER -> z - offset
      BY <1>2 DEF Read, Nothing, Return
    <3>2. z \in 0 .. FS_MAX_FILESIZE
      BY <2>1
    <3> HIDE DEF z
    <3>3. CASE offset >= z
      <4>1. ~(offset < z)
        BY <3>2, <3>3
      <4>2. result' = 0
        BY <3>1, <3>3, <4>1
      <4>3. 0 \in 0 .. FS_MAX_FILESIZE
        BY RamFSAssumption
      <4> QED BY <4>2, <4>3
    <3>4. CASE ~(offset >= z) /\ size < z - offset
      <4>1. offset < z
        BY <3>2, <3>4
      <4> QED BY <3>1, <3>2, <3>4, <4>1
    <3>5. CASE ~(offset >= z) /\ ~(size < z - offset)
      <4>1. result' = z - offset
        BY <3>1, <3>5
      <4>2. z - offset \in 0 .. FS_MAX_FILESIZE
        BY <3>2, <3>5, RamFSAssumption
      <4> QED BY <4>1, <4>2
    <3> QED BY <3>3, <3>4, <3>5
  <2> QED BY <2>2, InResults
<1>3. ASSUME NEW n \in Names, Exists(n), NEW d \in Data, Write(Find(n), d)
      PROVE  result' \in Results
  <2>1. \/ result' \in {0, -2, -3}
        \/ Len(d) \in 1 .. FS_MAX_FILESIZE /\ result' = Len(d)
    BY <1>3 DEF Write, WriteNoMemory, Nothing, Return
  <2> QED BY <2>1, InResults
<1>4. ASSUME NEW n \in Names, Exists(n), NEW d \in Data, AppendTo(Find(n), d)
      PROVE  result' \in Results
  <2>1. file_table[Find(n)].size \in 0 .. FS_MAX_FILESIZE /\ Len(d) \in Nat
    BY <1>4, FindIsUsed, OpenFile, DataIsBytes
  <2>2. \/ result' \in {-1, -2, -3}
        \/ file_table[Find(n)].size + Len(d) <= FS_MAX_FILESIZE /\ result' = Len(d)
    BY <1>4 DEF AppendTo, Nothing, Return
  <2>3. ASSUME file_table[Find(n)].size + Len(d) <= FS_MAX_FILESIZE
        PROVE  Len(d) \in 0 .. FS_MAX_FILESIZE
    BY <2>1, <2>3, RamFSAssumption
  <2> QED BY <2>2, <2>3, InResults
<1>5. ASSUME NEW n, Truncate(Find(n)) PROVE result' \in Results
  BY <1>5, InResults DEF Truncate, Return
<1>6. CASE List
  <2>1. result' = Len(Listing.names) /\ Len(Listing.names) <= FS_MAX_FILES
    BY <1>6, ListingSafe DEF List, Nothing, Return, ListedSafely
  <2>2. Len(Listing.names) \in Nat /\ FS_MAX_FILES \in Nat
    BY ListingSafe, RamFSAssumption DEF Lists
  <2> QED BY <2>1, <2>2, InResults
<1>7. CASE UNCHANGED vars
  BY <1>7 DEF vars
<1> QED BY <1>1, <1>2, <1>3, <1>4, <1>5, <1>6, <1>7 DEF Next

(* Every variable keeps its type, and every function returns an error of   *)
(* its own or a number that the table and its files bound.                 *)
THEOREM TypeCorrect == Spec => []TypeOK
<1>1. Init => Returned
  BY InResults DEF Init, Returned
<1>2. IInv /\ Returned => TypeOK
  BY DEF IInv, Typed, HoldsBytes, EntryType, Returned, Results, TypeOK
<1> QED BY <1>1, <1>2, ReturnsResult, Invariance, PTL DEF Spec
=============================================================================
