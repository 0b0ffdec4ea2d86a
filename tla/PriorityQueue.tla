---------------------------- MODULE PriorityQueue ----------------------------
(***************************************************************************)
(* What heap_push and heap_pop of libdxwifi/details/heap.h promise, and    *)
(* all the receiver relies on: a bounded set of elements of which a pop    *)
(* takes one with the least key.  A push that finds it full is dropped.    *)
(***************************************************************************)
EXTENDS Naturals, FiniteSets

CONSTANTS
    Elements,       \* what can be pushed: records with a key
    Capacity,       \* the number of elements that fit
    NoElement       \* popped, before the first pop

VARIABLES
    queue,          \* the elements pushed and not popped
    popped          \* what the last pop returned

Init == queue = {} /\ popped = NoElement

Push(e) ==
    /\ Cardinality(queue) < Capacity
    /\ e \notin queue
    /\ queue' = queue \cup {e}
    /\ UNCHANGED popped

Pop ==
    \E e \in queue :
        /\ \A f \in queue : e.key <= f.key
        /\ queue' = queue \ {e}
        /\ popped' = e

Next == (\E e \in Elements : Push(e)) \/ Pop

Spec == Init /\ [][Next]_<<queue, popped>>
===============================================================================
