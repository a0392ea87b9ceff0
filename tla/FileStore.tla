----------------------------- MODULE FileStore -----------------------------
(***************************************************************************)
(* What the shell may rely on of the file system: a bounded map from names *)
(* to files and directories, and a current directory.  Module RamFS is     *)
(* shown to implement it.                                                  *)
(***************************************************************************)
EXTENDS Sequences, FiniteSets, Integers

CONSTANTS
  Names,      \* names a file can have
  Capacity,   \* how many files there can be
  Data,       \* what clients write
  Junk,       \* a byte nobody wrote
  Root        \* the name of the root directory

VARIABLES
  files,      \* name -> [dir : is it a directory, content : its bytes]
  cwd

vars == <<files, cwd>>

Put(n, f) == [m \in DOMAIN files \cup {n} |-> IF m = n THEN f ELSE files[m]]

Add(n) ==
  /\ n \notin DOMAIN files
  /\ Cardinality(DOMAIN files) < Capacity
  /\ \E dir \in BOOLEAN : files' = Put(n, [dir |-> dir, content |-> <<>>])
  /\ UNCHANGED cwd

Remove(n) ==
  /\ n \in DOMAIN files
  /\ files' = [m \in DOMAIN files \ {n} |-> files[m]]
  /\ UNCHANGED cwd

Change(n, content) ==
  /\ n \in DOMAIN files
  /\ files' = Put(n, [dir |-> files[n].dir, content |-> content])
  /\ UNCHANGED cwd

Write(n, d)  == Change(n, d)
Extend(n, d) == d # <<>> /\ n \in DOMAIN files /\ Change(n, files[n].content \o d)
Truncate(n)  == Change(n, <<>>)

(* A write for which there was no memory: the file keeps its length and    *)
(* nothing else.                                                           *)
Lose(n) == n \in DOMAIN files
           /\ Change(n, [i \in DOMAIN files[n].content |-> Junk])

Enter(n) ==
  /\ n # Root => n \in DOMAIN files /\ files[n].dir
  /\ cwd' = n
  /\ UNCHANGED files

Init == files = [n \in {} |-> <<>>] /\ cwd = Root

Next ==
  \/ \E n \in Names :
       \/ Add(n) \/ Remove(n) \/ Truncate(n) \/ Lose(n)
       \/ \E d \in Data : Write(n, d) \/ Extend(n, d)
  \/ \E n \in Names \cup {Root} : Enter(n)

Spec == Init /\ [][Next]_vars
=============================================================================
