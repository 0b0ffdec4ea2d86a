------------------------------- MODULE HeapTree -------------------------------
(***************************************************************************)
(* The array underneath libdxwifi/details/heap.c: where the relatives of a *)
(* slot are, and the comparisons heapify makes.  A tree is a function from *)
(* 0..n-1 to elements; an element is what the comparator sees of it, a     *)
(* key, and an id that tells equal keys apart.                             *)
(***************************************************************************)
EXTENDS Integers

Parent(i) == (i - 1) \div 2
Left(i)   == 2 * i + 1
Right(i)  == 2 * i + 2

\* order_by_frame_number_desc, the comparator the receiver gives its heap.
Less(a, b) == a.key < b.key

Swap(tree, i, j) == [tree EXCEPT ![i] = tree[j], ![j] = tree[i]]

\* The right child is compared with slot i instead of the lesser of the two.
SlipDescend(tree, count, i) ==
    LET left  == IF Left(i) < count /\ Less(tree[Left(i)], tree[i]) THEN Left(i) ELSE i
    IN  IF Right(i) < count /\ Less(tree[Right(i)], tree[i]) THEN Right(i) ELSE left

\* Lines 33-42: the slot whose element belongs at slot i, i itself if none does.
Descend(tree, count, i) ==
    LET left  == IF Left(i) < count /\ Less(tree[Left(i)], tree[i]) THEN Left(i) ELSE i
    IN  IF Right(i) < count /\ Less(tree[Right(i)], tree[left]) THEN Right(i) ELSE left

\* No element of the first count is before its parent.
Ordered(tree, count) ==
    \A j \in 1..(count - 1) : ~Less(tree[j], tree[Parent(j)])
===============================================================================
