------------------------------- MODULE Words -------------------------------
(* The words of a text, as parse_args of kernel/shell.c promises them:     *)
(* what the blanks leave, from the left, and no more than max of them.     *)
EXTENDS Integers, Sequences, FiniteSets, SequencesExt

Starts(text, blanks) ==
  {i \in DOMAIN text : text[i] \notin blanks /\ (i > 1 => text[i - 1] \in blanks)}

WordAt(text, blanks, i) ==
  SubSeq(text, i, Max({j \in i .. Len(text) : \A k \in i .. j : text[k] \notin blanks}))

(* Where the n-th word starts.                                             *)
Start(text, blanks, n) ==
  LET at == Starts(text, blanks)
  IN  CHOOSE i \in at : Cardinality({j \in at : j <= i}) = n

Words(text, blanks, max) ==
  [n \in 1 .. Min({Cardinality(Starts(text, blanks)), max}) |->
     WordAt(text, blanks, Start(text, blanks, n))]
=============================================================================
