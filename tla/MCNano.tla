------------------------------- MODULE MCNano -------------------------------
(* The editor with three lines of two characters, two of which are shown,  *)
(* and one file; a buffer that was not filled may hold nothing, lines that *)
(* fit, lines too long and too many, or a control character.               *)
EXTENDS Nano

MCStale == {<<>>, <<"a", NL, NL>>, <<"b", "b", "b", NL, "a", NL, NL, NL>>, <<"CR", "b">>}
MCTitle  == <<"a">>
MCMark   == <<"b">>
MCStatus == <<"b", "a">>

(* With the name that is too long the title is wider than two rows: it has *)
(* a character on the second line's row, and two once the text is modified,*)
(* the mark being behind the name.  Its CR is at the end of a row.         *)
MCNameText == [n \in Names \cup {TooLong} |->
  IF n = TooLong THEN <<"a", "b", "CR", "b", "b", "a", "a">> ELSE <<"b">>]

(* A screen full of text, in which the cursor is hidden at the end.        *)
MCBefore == {[row |-> 4, col |-> 2, color |-> WHITE, cursor |-> 14, shown |-> FALSE,
              buffer |-> [i \in 0 .. 14 |-> [char |-> "b", color |-> WHITE]]]}
=============================================================================
