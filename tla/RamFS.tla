------------------------------- MODULE RamFS -------------------------------
(***************************************************************************)
(* The RAM file system, fs/ramfs.c: a table of files whose contents are    *)
(* regions of the kernel heap, and the name of the current directory.      *)
(*                                                                         *)
(* Of the heap this module uses what module Allocator promises: kmalloc    *)
(* returns a pointer nobody has, or NULL, and the fresh region holds bytes *)
(* nobody wrote.  A file handle is the index fs_open returned; as in the   *)
(* shell, a command opens the file and uses the handle before it returns.  *)
(***************************************************************************)
EXTENDS Integers, Sequences, FiniteSets, SequencesExt

CONSTANTS
  FS_MAX_FILES, FS_MAX_FILESIZE,
  Names,       \* names shorter than FS_MAX_FILENAME
  TooLong,     \* a name that is not
  NameLength,  \* the length of each of Names
  Data,        \* what clients write: sequences of bytes
  Junk,        \* a byte nobody wrote
  Pointers,    \* what kmalloc can return besides NULL
  NULL,
  BufferSize   \* the size of the buffer cmd_ls passes to fs_list

ROOT   == "/"
PARENT == ".."
BLANK  == ""
Slots  == 1 .. FS_MAX_FILES

ASSUME RamFSAssumption ==
  /\ FS_MAX_FILES \in Nat /\ FS_MAX_FILESIZE \in Nat
  /\ BLANK \notin Names /\ TooLong \notin Names \cup {BLANK, ROOT, PARENT}
  /\ NameLength \in [Names -> Nat \ {0}]
  /\ \A d \in Data : d \in Seq(Range(d))
  /\ NULL \notin Pointers
  /\ BufferSize \in Nat \ {0}

VARIABLES
  file_table,   \* slot -> [name, data, size, used, dir]
  current_dir,
  heap,         \* the live regions ramfs.c asked for: pointer -> bytes
  result        \* what the last call returned

vars == <<file_table, current_dir, heap, result>>

Entry(n, u, d) == [name |-> n, data |-> NULL, size |-> 0, used |-> u, dir |-> d]
FREE == Entry(BLANK, FALSE, FALSE)

(* fs_init *)
Init ==
  /\ file_table = [s \in Slots |-> FREE]
  /\ current_dir = ROOT
  /\ heap = [p \in {} |-> <<>>]
  /\ result = 0

-----------------------------------------------------------------------------
Used      == {s \in Slots : file_table[s].used}
First(S)  == CHOOSE s \in S : \A t \in S : s <= t
Named(n)  == {s \in Used : file_table[s].name = n}
Exists(n) == Named(n) # {}
Find(n)   == First(Named(n))

Return(r)  == result' = r
Nothing(r) == Return(r) /\ UNCHANGED <<file_table, current_dir, heap>>

(* The bytes fs_read copies: none when the file has lost its region.       *)
Copied(s, size, offset) ==
  LET f == file_table[s]
  IN  IF offset >= f.size \/ f.data = NULL THEN <<>>
      ELSE SubSeq(heap[f.data], offset + 1,
                  IF size < f.size - offset THEN offset + size ELSE f.size)

-----------------------------------------------------------------------------
(* fs_create and fs_mkdir differ in the flag only.                         *)
MakeAgain(n, dir) ==
  /\ n \in Names /\ Used # Slots
  /\ file_table' = [file_table EXCEPT ![First(Slots \ Used)] = Entry(n, TRUE, dir)]
  /\ Return(0)
  /\ UNCHANGED <<current_dir, heap>>
Make(n, dir) ==
  \/ n \in {BLANK, TooLong} /\ Nothing(-1)
  \/ n \in Names /\ Exists(n) /\ Nothing(-2)
  \/ n \in Names /\ ~Exists(n) /\ Used = Slots /\ Nothing(-3)
  \/ /\ n \in Names /\ ~Exists(n) /\ Used # Slots
     /\ file_table' = [file_table EXCEPT ![First(Slots \ Used)] = Entry(n, TRUE, dir)]
     /\ Return(0)
     /\ UNCHANGED <<current_dir, heap>>

Create(n) == Make(n, FALSE)
Mkdir(n)  == Make(n, TRUE)

Freed(h, p) == [q \in DOMAIN h \ {p} |-> h[q]]

DeleteKeepsData(n) ==
  /\ Exists(n)
  /\ file_table' = [file_table EXCEPT ![Find(n)] = FREE]
  /\ Return(0)
  /\ UNCHANGED <<heap, current_dir>>
Delete(n) ==
  \/ ~Exists(n) /\ Nothing(-1)
  \/ /\ Exists(n)
     /\ heap' = Freed(heap, file_table[Find(n)].data)
     /\ file_table' = [file_table EXCEPT ![Find(n)] = FREE]
     /\ Return(0)
     /\ UNCHANGED current_dir

(* fs_rmdir clears the entry and leaves its data where it is.              *)
Rmdir(n) ==
  \/ ~Exists(n) /\ Nothing(-1)
  \/ Exists(n) /\ ~file_table[Find(n)].dir /\ Nothing(-2)
  \/ /\ Exists(n) /\ file_table[Find(n)].dir
     /\ file_table' = [file_table EXCEPT ![Find(n)] = FREE]
     /\ Return(0)
     /\ UNCHANGED <<current_dir, heap>>

Chdir(n) ==
  \/ /\ n \in {ROOT, PARENT}
     /\ current_dir' = ROOT
     /\ Return(0)
     /\ UNCHANGED <<file_table, heap>>
  \/ n \notin {ROOT, PARENT} /\ ~Exists(n) /\ Nothing(-1)
  \/ n \notin {ROOT, PARENT} /\ Exists(n) /\ ~file_table[Find(n)].dir /\ Nothing(-2)
  \/ /\ n \notin {ROOT, PARENT} /\ Exists(n) /\ file_table[Find(n)].dir
     /\ current_dir' = n
     /\ Return(0)
     /\ UNCHANGED <<file_table, heap>>

-----------------------------------------------------------------------------
(* The operations on an open file s.                                       *)

Read(s, size, offset) ==
  LET f == file_table[s]
  IN  Nothing(CASE offset >= f.size -> 0
                [] offset < f.size /\ size < f.size - offset -> size
                [] OTHER -> f.size - offset)

SetFile(s, p, n) == file_table' = [file_table EXCEPT ![s].data = p, ![s].size = n]
Filled(h, p, bytes) == [q \in DOMAIN h \cup {p} |-> IF q = p THEN bytes ELSE h[q]]

(* kmalloc fails when it likes: the heap is not the file system's alone.   *)
WriteNoMemory(s, d) ==
  /\ Len(d) \in 1 .. FS_MAX_FILESIZE
  /\ heap' = Freed(heap, file_table[s].data)
  /\ file_table' = [file_table EXCEPT ![s].data = NULL]
  /\ Return(-3)
  /\ UNCHANGED current_dir

WriteUnbounded(s, d) ==
  \E p \in Pointers \ DOMAIN heap :
    /\ heap' = Filled(Freed(heap, file_table[s].data), p, d)
    /\ SetFile(s, p, Len(d))
    /\ Return(Len(d))
    /\ UNCHANGED current_dir
Write(s, d) ==
  LET kept == Freed(heap, file_table[s].data)
  IN  \/ Len(d) > FS_MAX_FILESIZE /\ Nothing(-2)
      \/ WriteNoMemory(s, d)
      \/ /\ d = <<>>
         /\ heap' = kept
         /\ SetFile(s, NULL, 0)
         /\ Return(0)
         /\ UNCHANGED current_dir
      \/ \E p \in Pointers \ DOMAIN kept :
           /\ Len(d) \in 1 .. FS_MAX_FILESIZE
           /\ heap' = Filled(kept, p, d)
           /\ SetFile(s, p, Len(d))
           /\ Return(Len(d))
           /\ UNCHANGED current_dir

(* What a fresh region holds after fs_append has copied the old bytes.     *)
OldBytesNever(s) == [i \in 1 .. file_table[s].size |-> Junk]
OldBytes(s) == IF file_table[s].data = NULL
               THEN [i \in 1 .. file_table[s].size |-> Junk]
               ELSE SubSeq(heap[file_table[s].data], 1, file_table[s].size)

AppendToFreesFirst(s, d) ==
  /\ d # <<>>
  /\ heap' = Freed(heap, file_table[s].data)
  /\ Return(-3)
  /\ UNCHANGED <<file_table, current_dir>>
AppendToOnlyNewSize(s, d) ==
  \E p \in Pointers \ DOMAIN heap :
    /\ d # <<>> /\ file_table[s].size + Len(d) <= FS_MAX_FILESIZE
    /\ heap' = Freed(Filled(heap, p, OldBytes(s) \o d), file_table[s].data)
    /\ SetFile(s, p, Len(d))
    /\ Return(Len(d))
    /\ UNCHANGED current_dir
AppendTo(s, d) ==
  LET size == file_table[s].size + Len(d)
  IN  \/ d = <<>> /\ Nothing(-1)
      \/ d # <<>> /\ size > FS_MAX_FILESIZE /\ Nothing(-2)
      \/ d # <<>> /\ size <= FS_MAX_FILESIZE /\ Nothing(-3)
      \/ \E p \in Pointers \ DOMAIN heap :
           /\ d # <<>> /\ size <= FS_MAX_FILESIZE
           /\ heap' = Freed(Filled(heap, p, OldBytes(s) \o d), file_table[s].data)
           /\ SetFile(s, p, size)
           /\ Return(Len(d))
           /\ UNCHANGED current_dir

Truncate(s) ==
  /\ heap' = Freed(heap, file_table[s].data)
  /\ SetFile(s, NULL, 0)
  /\ Return(0)
  /\ UNCHANGED current_dir

-----------------------------------------------------------------------------
(* fs_list goes through the table and copies the names that still fit.     *)
AddNameTooFar(l, s) ==
  LET n == NameLength[file_table[s].name]
  IN  IF l.pos + n < BufferSize
      THEN [pos |-> l.pos + n + 1, names |-> Append(l.names, file_table[s].name)]
      ELSE l
AddName(l, s) ==
  LET n == NameLength[file_table[s].name]
  IN  IF l.pos + n + 2 < BufferSize
      THEN [pos |-> l.pos + n + 1, names |-> Append(l.names, file_table[s].name)]
      ELSE l
ListedUpTo[s \in 0 .. FS_MAX_FILES] ==
  IF s = 0 THEN [pos |-> 0, names |-> <<>>]
  ELSE IF s \in Used THEN AddName(ListedUpTo[s - 1], s) ELSE ListedUpTo[s - 1]
Listing == ListedUpTo[FS_MAX_FILES]

List == Nothing(Len(Listing.names))

-----------------------------------------------------------------------------
Next ==
  \/ \E n \in Names \cup {BLANK, TooLong, PARENT, ROOT} :
       \/ Create(n) \/ Mkdir(n)
       \/ Delete(n) \/ Rmdir(n) \/ Chdir(n)
  \/ \E n \in Names : Exists(n) /\
       \/ \E size, offset \in 0 .. FS_MAX_FILESIZE : Read(Find(n), size, offset)
       \/ \E d \in Data : Write(Find(n), d) \/ AppendTo(Find(n), d)
       \/ Truncate(Find(n))
  \/ List

Spec == Init /\ [][Next]_vars
-----------------------------------------------------------------------------
(* Properties                                                              *)

(* Every variable has its type.                                            *)
TypeOK ==
  /\ file_table \in [Slots -> [name : Names \cup {BLANK}, data : Pointers \cup {NULL},
                               size : 0 .. FS_MAX_FILESIZE, used : BOOLEAN, dir : BOOLEAN]]
  /\ current_dir \in Names \cup {ROOT}
  /\ DOMAIN heap \subseteq Pointers
  /\ result \in -3 .. FS_MAX_FILESIZE + FS_MAX_FILES

(* fs_find's first match is the only one: no name is in the table twice,   *)
(* however creations, deletions and removals follow each other, and a free *)
(* slot keeps nothing of the file it held (ramfs.c:99-103, 355-359).       *)
NamesUnique ==
  /\ \A s \in Used : file_table[s].name \in Names
  /\ \A s, t \in Used : file_table[s].name = file_table[t].name => s = t
  /\ \A s \in Slots \ Used : file_table[s] = FREE

(* A file's data pointer is a live region of its own.                      *)
DataOwned ==
  /\ \A s \in Slots : file_table[s].data \in DOMAIN heap \cup {NULL}
  /\ \A s, t \in Slots : file_table[s].data = file_table[t].data
                         /\ file_table[s].data # NULL => s = t

(* A file's region is as long as its size says.                            *)
DataSize ==
  \A s \in Slots : file_table[s].data # NULL
                     => Len(heap[file_table[s].data]) = file_table[s].size

(* Also after a call that ran out of memory half-way (ramfs.c:156-167,     *)
(* 190) no file's pointer dangles, no two files share a region, hence none *)
(* is freed twice, and the copies of fs_read and fs_append (ramfs.c:137,   *)
(* 197) stay inside the region.                                            *)
FilesHoldData == DataOwned /\ DataSize

(* What fs_list writes, with the final NUL, is no longer than the buffer,  *)
(* and it names no file twice.                                             *)
ListSafe ==
  /\ Listing.pos + 1 <= BufferSize
  /\ \A i, j \in DOMAIN Listing.names : Listing.names[i] = Listing.names[j] => i = j

(* A call that returns an error has changed nothing, except the write that *)
(* found no memory after it had freed the old contents (ramfs.c:156-167).  *)
ErrorsChangeNothing ==
  [][result' < 0 => \/ UNCHANGED <<file_table, current_dir, heap>>
                    \/ \E s \in Used, d \in Data : WriteNoMemory(s, d)]_vars

(* Regions no file owns any more: nothing can free them.                   *)
Lost == DOMAIN heap \ {file_table[s].data : s \in Slots}

(* No call loses a region but fs_rmdir, of a directory that was written.   *)
OnlyRmdirLoses ==
  [][Lost' \subseteq Lost \/ \E n \in Names : Rmdir(n)]_vars

(* The table and its regions are a map from names to contents.             *)
Contents(s) == IF file_table[s].data = NULL
               THEN [i \in 1 .. file_table[s].size |-> Junk]
               ELSE heap[file_table[s].data]
Files ==
  [n \in {file_table[s].name : s \in Used} |->
     [dir |-> file_table[Find(n)].dir, content |-> Contents(Find(n))]]
StoreView ==
  INSTANCE FileStore WITH
    Capacity <- FS_MAX_FILES, Root <- ROOT, cwd <- current_dir, files <- Files
ImplementsFileStore == StoreView!Spec

-----------------------------------------------------------------------------
(* What the comments say and the code does not do.                         *)

(* "Current working directory" (ramfs.c:307): it is a directory.           *)
CwdIsDirectory ==
  current_dir # ROOT => Exists(current_dir) /\ file_table[Find(current_dir)].dir
=============================================================================
