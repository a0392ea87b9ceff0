------------------------------- MODULE MCHeap -------------------------------
(* The heap of module Heap at a size TLC can exhaust. *)
EXTENDS Heap
=============================================================================
