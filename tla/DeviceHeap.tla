----------------------------- MODULE DeviceHeap -----------------------------
(***************************************************************************)
(* What DeviceAllocator promises (allocator.hpp:43-73): polynomials of one *)
(* size that do not overlap, each with all of its coefficients or none.    *)
(* Which addresses are given out, recycled or new, is left open.           *)
(***************************************************************************)
EXTENDS Integers, Tables

CONSTANT Words   \* values of one coefficient

VARIABLES
  live,    \* the allocated addresses
  bytes,   \* those of them that hold data -> their coefficients
  size     \* coefficients in a polynomial, 0 before a ring dimension is set

heap == <<live, bytes, size>>

Init == live = {} /\ bytes = Empty /\ size = 0

Configure == size = 0 /\ size' \in Nat \ {0} /\ UNCHANGED <<live, bytes>>

Apart(a, b) == a + size <= b \/ b + size <= a

(* One call may acquire several; none has data before it is written. *)
Acquire ==
  /\ live \subseteq live' /\ live' \subseteq Nat
  /\ \A a \in live' \ live, b \in live' : a # b => Apart(a, b)
  /\ UNCHANGED <<bytes, size>>

Release ==
  /\ live' \subseteq live
  /\ bytes' = Drop(bytes, live \ live')
  /\ UNCHANGED size

Store ==
  /\ \E a \in live : \E p \in [1..size -> Words] : bytes' = Put(bytes, [x \in {a} |-> p])
  /\ UNCHANGED <<live, size>>

Evict ==
  /\ \E a \in live : bytes' = Drop(bytes, {a})
  /\ UNCHANGED <<live, size>>

Reset == live' = {} /\ bytes' = Empty /\ size' = 0

Next == Configure \/ Acquire \/ Release \/ Store \/ Evict \/ Reset

Spec == Init /\ [][Next]_heap
=============================================================================
