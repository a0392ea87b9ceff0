----------------------------- MODULE TextBuffer -----------------------------
(***************************************************************************)
(* What a user may rely on of the editor: a text with a cursor in it.      *)
(* Keys change the text in front of the cursor only, the text behind it is *)
(* kept, and the text is what a save stores.  Module Nano is shown to      *)
(* implement it.                                                           *)
(***************************************************************************)
EXTENDS Integers, Sequences, SequencesExt

CONSTANTS
  Chars,      \* the characters a text can have
  NL,         \* the one that ends a line
  Junk        \* a byte nobody wrote

VARIABLES
  open,       \* is a text being edited
  before,     \* the text in front of the cursor
  after,      \* the text behind it
  stored      \* the file: its bytes, or the empty sequence without one

vars == <<open, before, after, stored>>

Init == open = FALSE /\ before = <<>> /\ after = <<>> /\ stored = <<>>

(* Others use the file while the editor is closed.                         *)
Elsewhere == ~open /\ ~open' /\ UNCHANGED <<before, after>>

Open ==
  /\ ~open /\ open'
  /\ before' = <<>>
  /\ after' \in Seq(Chars)

Edit(text) == open /\ before' = text /\ UNCHANGED <<open, after, stored>>

Insert(ch) == Edit(Append(before, ch))
Delete     == before # <<>> /\ Edit(Front(before))

(* A save stores the whole text, or fails with the file as it was or with  *)
(* nothing of it left but its length.                                      *)
Save ==
  /\ open
  /\ \/ stored' = before \o after \o <<NL>>
     \/ stored' \in {stored, [i \in DOMAIN stored |-> Junk]}
  /\ UNCHANGED <<open, before, after>>

Close == open /\ ~open' /\ UNCHANGED stored

Next ==
  \/ Elsewhere \/ Open \/ Delete \/ Save \/ Close
  \/ \E ch \in Chars : Insert(ch)

Spec == Init /\ [][Next]_vars
=============================================================================
