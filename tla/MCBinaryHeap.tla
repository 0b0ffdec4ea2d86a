----------------------------- MODULE MCBinaryHeap -----------------------------
(***************************************************************************)
(* Instance of BinaryHeap for TLC: five slots, one fewer than there are    *)
(* elements to push, are three levels, so that a sift passes an inner node *)
(* and the heap fills up; two pairs of elements share a key.               *)
(***************************************************************************)
EXTENDS BinaryHeap

Keyed(key, id) == [key |-> key, id |-> id]
SixElements == {Keyed(1, 1), Keyed(2, 1), Keyed(2, 2), Keyed(3, 1), Keyed(3, 2), Keyed(4, 1)}
None == Keyed(0, 0)
===============================================================================
