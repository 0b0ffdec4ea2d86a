------------------------------ MODULE BinaryHeap ------------------------------
(***************************************************************************)
(* The binary heap of libdxwifi/details/heap.c: heap_push with its sift    *)
(* from the bottom up, heap_pop with its recursive heapify, one comparison *)
(* and swap to a step.  A slot at or above count keeps what was last in    *)
(* it, as the array does.                                                  *)
(***************************************************************************)
EXTENDS HeapTree, FiniteSets

CONSTANTS
    Elements,       \* what can be pushed: records with a key
    Capacity,       \* heap->capacity
    NoElement       \* the contents of a slot never written, and of a pop never made

ASSUME CapacityAssumption == Capacity \in Nat \ {0}
ASSUME ElementAssumption ==
    /\ \A e \in Elements : e.key \in Int
    /\ NoElement \notin Elements

VARIABLES
    tree,           \* heap->tree
    count,          \* heap->count
    pc,             \* "idle", "up" in the sift of a push, "down" in heapify
    i,              \* the slot the sift or heapify is at
    popped          \* what the last pop copied out

vars == <<tree, count, pc, i, popped>>

Slots == 0..(Capacity - 1)
Contents == {tree[j] : j \in 0..(count - 1)}

Init ==
    /\ tree = [j \in Slots |-> NoElement] /\ count = 0
    /\ pc = "idle" /\ i = 0
    /\ popped = NoElement

\* Lines 77-80: the element is put behind the last one.
Push(e) ==
    /\ pc = "idle" /\ count < Capacity /\ e \notin Contents
    /\ tree' = [tree EXCEPT ![count] = e]
    /\ count' = count + 1
    /\ i' = count
    /\ pc' = "up"
    /\ UNCHANGED popped

\* Lines 83-86: while it is before its parent, they change places.
SiftUp ==
    /\ pc = "up" /\ i # 0 /\ Less(tree[i], tree[Parent(i)])
    /\ tree' = Swap(tree, i, Parent(i))
    /\ i' = Parent(i)
    /\ UNCHANGED <<count, pc, popped>>

EndSiftUp ==
    /\ pc = "up" /\ (i # 0 => ~Less(tree[i], tree[Parent(i)]))
    /\ pc' = "idle"
    /\ UNCHANGED <<tree, count, i, popped>>

\* The root is filled from the slot behind the last one.
SlipPop ==
    /\ pc = "idle" /\ count > 0
    /\ popped' = tree[0]
    /\ tree' = [tree EXCEPT ![0] = tree[count % Capacity]]
    /\ count' = count - 1
    /\ i' = 0
    /\ pc' = "down"

\* Lines 101-105: the root is copied out and the last element takes its place.
Pop ==
    /\ pc = "idle" /\ count > 0
    /\ popped' = tree[0]
    /\ tree' = [tree EXCEPT ![0] = tree[count - 1]]
    /\ count' = count - 1
    /\ i' = 0
    /\ pc' = "down"

\* Lines 43-46: one call of heapify, and the recursive call it makes.
Heapify ==
    /\ pc = "down" /\ Descend(tree, count, i) # i
    /\ tree' = Swap(tree, i, Descend(tree, count, i))
    /\ i' = Descend(tree, count, i)
    /\ UNCHANGED <<count, pc, popped>>

EndHeapify ==
    /\ pc = "down" /\ Descend(tree, count, i) = i
    /\ pc' = "idle"
    /\ UNCHANGED <<tree, count, i, popped>>

Next ==
    \/ \E e \in Elements : Push(e)
    \/ SiftUp \/ EndSiftUp
    \/ Pop \/ Heapify \/ EndHeapify

Spec == Init /\ [][Next]_vars

-------------------------------------------------------------------------------
(* Properties                                                              *)

\* Type invariant: every slot below count holds an element.
TypeOK ==
    /\ tree \in [Slots -> Elements \cup {NoElement}]
    /\ count \in 0..Capacity
    /\ pc \in {"idle", "up", "down"} /\ i \in Slots
    /\ popped \in Elements \cup {NoElement}
    /\ \A j \in 0..(count - 1) : tree[j] \in Elements

\* While a sift is at slot i the heap is ordered everywhere else, and around i: what
\* hangs below i is not before what i hangs from.  Outside a sift it is ordered.
AboveNotAfterBelow ==
    i > 0 => \A j \in 1..(count - 1) : Parent(j) = i => ~Less(tree[j], tree[Parent(i)])
HeapOrder ==
    /\ pc = "idle" => Ordered(tree, count)
    /\ pc = "up"   => /\ i < count /\ AboveNotAfterBelow
                      /\ \A j \in 1..(count - 1) : j # i => ~Less(tree[j], tree[Parent(j)])
    /\ pc = "down" => /\ i < count \/ i = 0
                      /\ AboveNotAfterBelow
                      /\ \A j \in 1..(count - 1) : Parent(j) # i => ~Less(tree[j], tree[Parent(j)])

\* No element is in two slots: the swaps and the copies over the root lose nothing and
\* double nothing.
Distinct == \A j, k \in 0..(count - 1) : tree[j] = tree[k] => j = k

\* heap.c implements what the receiver relies on: a push adds the element, every pop
\* returns one with the least key among all that were pushed and not popped.
Queue == INSTANCE PriorityQueue WITH queue <- Contents
ImplementsQueue == Queue!Spec
===============================================================================
