------------------------------- MODULE MCBoot -------------------------------
(* Two gates of exceptions, the timer, the keyboard and a disk of the       *)
(* slave PIC; the loader is checked with its own numbers.                  *)
EXTENDS PowerOn

MCVectors == {DOUBLE_FAULT, PROTECTION, 32, 33, 46}
=============================================================================
