----------------------------- MODULE MCStrings -----------------------------
(* Five bytes, of the end, a blank and a letter, or a numeral.             *)
EXTENDS Strings

Numerals ==
  {<<32, 45, 49, 54, 0>>, <<45, 49, 53, 0, 0>>, <<43, 49, 53, 97, 0>>, <<50, 48, 32, 49, 0>>,
   <<32, 9, 56, 0, 0>>, <<45, 45, 49, 0, 0>>, <<49, 49, 49, 49, 0>>}
MCMemories ==
  [Address -> {0, 32, 97}] \cup {[a \in Address |-> t[a + 1]] : t \in Numerals}
=============================================================================
