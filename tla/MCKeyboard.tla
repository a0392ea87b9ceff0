----------------------------- MODULE MCKeyboard -----------------------------
(* The keyboard driver with one key of each kind, and both shift keys. *)
EXTENDS Keyboard

MCKeys == {"a", "enter", "erase", LShift, RShift, LCtrl, Caps}
=============================================================================
