------------------------------ MODULE MCRamFS ------------------------------
(* The file system with a table of two files.  One name is that of the     *)
(* parent directory; the data is empty, a byte, and more than a file holds. *)
EXTENDS RamFS, TLC

CONSTANTS p1, p2

MCNames      == {"a", "..", "def"}
MCNameLength == [n \in MCNames |-> CASE n = "a" -> 1 [] n = ".." -> 2 [] n = "def" -> 3]
MCData       == {<<>>, <<"x">>, <<"x", "x", "x">>}
MCPointers   == {p1, p2}
Symmetry     == Permutations(MCPointers)
=============================================================================
