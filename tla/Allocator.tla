----------------------------- MODULE Allocator -----------------------------
(***************************************************************************)
(* What a caller of the kernel heap may rely on, and nothing about how it  *)
(* is done: a set of regions [p, p + live[p]) inside [Lo, Hi), pairwise    *)
(* disjoint, that only the calls of the clients change.  Module Heap is    *)
(* shown to implement this, and the modules of the heap's clients are      *)
(* written against it.                                                     *)
(***************************************************************************)
EXTENDS Integers

CONSTANTS
  Lo, Hi,     \* first byte of the arena, first byte after it
  Sizes       \* the sizes clients ask for

VARIABLE live      \* the regions clients own: pointer -> size in bytes

Disjoint(p, s, q, t) == p + s <= q \/ q + t <= p

Bind(f, k, v) == [x \in DOMAIN f \cup {k} |-> IF x = k THEN v ELSE f[x]]
Unbind(f, k)  == [x \in DOMAIN f \ {k} |-> f[x]]

(* The region [p, p + s) lies in the arena and meets no region of another  *)
(* pointer.                                                                *)
Available(p, s) ==
  /\ Lo <= p
  /\ p + s <= Hi
  /\ \A q \in DOMAIN live \ {p} : Disjoint(p, s, q, live[q])

Alloc(p, s) ==
  /\ p \notin DOMAIN live
  /\ Available(p, s)
  /\ live' = Bind(live, p, s)

Free(p) ==
  /\ p \in DOMAIN live
  /\ live' = Unbind(live, p)

(* Growing or shrinking in place.                                          *)
Resize(p, s) ==
  /\ p \in DOMAIN live
  /\ Available(p, s)
  /\ live' = Bind(live, p, s)

Init == live = [p \in {} |-> 0]

Next == \E p \in Lo .. Hi :
          \/ Free(p)
          \/ \E s \in Sizes : Alloc(p, s) \/ Resize(p, s)

Spec == Init /\ [][Next]_live
=============================================================================
