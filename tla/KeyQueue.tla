------------------------------ MODULE KeyQueue ------------------------------
(***************************************************************************)
(* What a reader of the keyboard may rely on: characters come in the order *)
(* they were typed, each once, and one is lost only when Capacity others   *)
(* are waiting; then it is the newest.  Module Keyboard implements this.   *)
(***************************************************************************)
EXTENDS Naturals, Sequences

CONSTANTS Char, Capacity

VARIABLES
  queue,      \* characters typed and not read
  last        \* the character read last

Put(c) ==
  /\ queue' = IF Len(queue) < Capacity THEN Append(queue, c) ELSE queue
  /\ UNCHANGED last

Get ==
  /\ queue # <<>>
  /\ last' = Head(queue)
  /\ queue' = Tail(queue)

Init == queue = <<>> /\ last \in Char

Next == Get \/ \E c \in Char : Put(c)

Spec == Init /\ [][Next]_<<queue, last>>
=============================================================================
