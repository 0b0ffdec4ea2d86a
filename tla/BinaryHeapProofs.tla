--------------------------- MODULE BinaryHeapProofs ---------------------------
(***************************************************************************)
(* Theorems about BinaryHeap, for every capacity and every set of          *)
(* elements: the heap is ordered around the slot being sifted, loses and   *)
(* doubles nothing, and implements the priority queue.                     *)
(***************************************************************************)
EXTENDS BinaryHeap, FiniteSetTheorems, TLAPS

\* heap.c:18-20: the parent of a slot is before it, and it is one of its two children.
LEMMA ParentFacts ==
    \A k \in Nat \ {0} :
        /\ Parent(k) \in Nat /\ Parent(k) < k
        /\ \A p \in Nat : Parent(k) = p <=> k = Left(p) \/ k = Right(p)
  BY DEF Parent, Left, Right

\* heap.c:33-42: what heapify chooses is slot i or a lesser child, and neither child is
\* before it.
LEMMA DescendFacts ==
    ASSUME NEW t, NEW n \in Nat, NEW k \in Nat, k < n \/ n = 0,
           \A j \in 0..(n - 1) : t[j].key \in Int
    PROVE  LET d == Descend(t, n, k)
           IN  /\ d \in Nat
               /\ d # k => d \in 1..(n - 1) /\ Parent(d) = k /\ Less(t[d], t[k])
               /\ \A j \in 1..(n - 1) : Parent(j) = k => ~Less(t[j], t[d])
<1> DEFINE l == Left(k)
           r == Right(k)
           left == IF l < n /\ Less(t[l], t[k]) THEN l ELSE k
           d == Descend(t, n, k)
<1>1. l \in Nat \ {0} /\ r \in Nat \ {0} /\ l # r /\ l # k /\ r # k
  BY DEF Left, Right
<1>2. Parent(l) = k /\ Parent(r) = k
  BY <1>1, ParentFacts
<1>3. \A j \in 1..(n - 1) : Parent(j) = k => j = l \/ j = r
  BY ParentFacts
<1>4. d = IF r < n /\ Less(t[r], t[left]) THEN r ELSE left
  BY DEF Descend
<1> QED
  BY <1>1, <1>2, <1>3, <1>4 DEF Less

-------------------------------------------------------------------------------
(* Type correctness and the order of the heap                              *)

IInv == TypeOK /\ HeapOrder

\* The elements below count have integer keys.
LEMMA Keys == TypeOK => \A j \in 0..(count - 1) : tree[j].key \in Int
  BY ElementAssumption DEF TypeOK

\* An empty heap is ordered.
LEMMA InitIInv == Init => IInv
  BY CapacityAssumption DEF Init, IInv, TypeOK, HeapOrder, Ordered, Slots

\* heap_push, line 80: the new element is the only one that may be out of order.
LEMMA PushIInv == ASSUME IInv, NEW e \in Elements, Push(e) PROVE IInv'
<1> USE DEF IInv, Push
<1>1. TypeOK'
  BY CapacityAssumption DEF TypeOK, Slots
<1>2. HeapOrder'
  <2>1. count \in Nat /\ pc' = "up" /\ i' = count /\ count' = count + 1 /\ Ordered(tree, count)
    BY DEF TypeOK, HeapOrder
  <2>2. \A j \in 0..(count - 1) : tree'[j] = tree[j]
    BY <2>1 DEF TypeOK, Slots
  <2>3. \A j \in 1..count : Parent(j) \in Nat /\ Parent(j) < j
    BY <2>1, ParentFacts
  <2> QED
    BY <2>1, <2>2, <2>3 DEF HeapOrder, Ordered, AboveNotAfterBelow
<1> QED
  BY <1>1, <1>2

\* What the swap of two slots does to the tree.
LEMMA SwapFacts ==
    ASSUME TypeOK, NEW a \in Slots, NEW b \in Slots
    PROVE  /\ Swap(tree, a, b) \in [Slots -> Elements \cup {NoElement}]
           /\ Swap(tree, a, b)[a] = tree[b] /\ Swap(tree, a, b)[b] = tree[a]
           /\ \A j \in Slots \ {a, b} : Swap(tree, a, b)[j] = tree[j]
  BY DEF TypeOK, Swap

\* heap_push, lines 83-86: an exchange moves the disorder one level up.
LEMMA SiftUpIInv == ASSUME IInv, SiftUp PROVE IInv'
<1> USE DEF IInv, SiftUp
<1> DEFINE p == Parent(i)
<1>0. count \in 0..Capacity /\ Capacity \in Nat /\ i \in 0..(Capacity - 1) /\ i < count
  BY CapacityAssumption DEF TypeOK, HeapOrder, Slots
<1>1. i \in 1..(count - 1) /\ p \in 0..(count - 1) /\ p < i /\ i \in Slots /\ p \in Slots
  BY <1>0, ParentFacts DEF Slots
<1>2. /\ tree' \in [Slots -> Elements \cup {NoElement}]
      /\ tree'[i] = tree[p] /\ tree'[p] = tree[i]
      /\ \A j \in Slots \ {i, p} : tree'[j] = tree[j]
  BY <1>1, SwapFacts
<1>3. 0..(count - 1) \subseteq Slots /\ count \in Nat
  BY <1>0 DEF Slots
<1>4. TypeOK'
  BY <1>1, <1>2, <1>3 DEF TypeOK
<1>5. \A j \in 1..(count - 1) : Parent(j) \in 0..(count - 1) /\ Parent(j) < j
  BY <1>3, ParentFacts
<1>6. \A j \in 0..(count - 1) : tree[j].key \in Int
  BY Keys
<1>7. tree[i].key < tree[p].key
  BY DEF Less
<1>8. /\ \A j \in 1..(count - 1) : j # i => ~(tree[j].key < tree[Parent(j)].key)
      /\ \A j \in 1..(count - 1) : Parent(j) = i => ~(tree[j].key < tree[p].key)
  BY <1>1 DEF HeapOrder, AboveNotAfterBelow, Less
<1>9. p > 0 => \A j \in 1..(count - 1) : Parent(j) = p => ~(tree'[j].key < tree'[Parent(p)].key)
  BY <1>1, <1>2, <1>3, <1>5, <1>6, <1>7, <1>8
<1>10. \A j \in 1..(count - 1) : j # p => ~(tree'[j].key < tree'[Parent(j)].key)
  <2> TAKE j \in 1..(count - 1)
  <2> HAVE j # p
  <2>1. CASE j = i
    BY <2>1, <1>2, <1>7, <1>6, <1>1
  <2>2. CASE j # i /\ Parent(j) = p
    BY <2>2, <1>1, <1>2, <1>3, <1>5, <1>6, <1>7, <1>8
  <2>3. CASE j # i /\ Parent(j) = i
    BY <2>3, <1>1, <1>2, <1>3, <1>5, <1>6, <1>7, <1>8
  <2>4. CASE j # i /\ Parent(j) # i /\ Parent(j) # p
    BY <2>4, <1>1, <1>2, <1>3, <1>5, <1>8
  <2> QED
    BY <2>1, <2>2, <2>3, <2>4
<1>11. pc' = "up" /\ i' = p /\ count' = count
  OBVIOUS
<1> HIDE DEF SiftUp, IInv
<1>12. HeapOrder'
  BY <1>0, <1>1, <1>9, <1>10, <1>11 DEF HeapOrder, AboveNotAfterBelow, Less
<1> QED
  BY <1>4, <1>12 DEF IInv

\* heap_push, line 83: at the root, or not before its parent, the element is in place.
LEMMA EndSiftUpIInv == ASSUME IInv, EndSiftUp PROVE IInv'
<1> USE DEF IInv, EndSiftUp
<1>1. TypeOK'
  BY DEF TypeOK
<1>2. HeapOrder'
  BY DEF TypeOK, HeapOrder, Ordered
<1> QED
  BY <1>1, <1>2

\* heap_pop, lines 101-103: the last element at the root is the only one out of order.
LEMMA PopIInv == ASSUME IInv, Pop PROVE IInv'
<1> USE DEF IInv, Pop
<1>1. TypeOK'
  BY CapacityAssumption DEF TypeOK, Slots
<1>2. HeapOrder'
  <2>1. count \in Nat \ {0} /\ pc' = "down" /\ i' = 0 /\ count' = count - 1 /\ Ordered(tree, count)
    BY DEF TypeOK, HeapOrder
  <2>2. \A j \in 1..(count - 1) : tree'[j] = tree[j]
    BY <2>1 DEF TypeOK, Slots
  <2>3. \A j \in 1..(count - 1) : Parent(j) \in Nat /\ Parent(j) < j
    BY <2>1, ParentFacts
  <2> QED
    BY <2>1, <2>2, <2>3 DEF HeapOrder, Ordered, AboveNotAfterBelow
<1> QED
  BY <1>1, <1>2

\* heapify, lines 43-46: an exchange with the lesser child moves the disorder one level
\* down.
LEMMA HeapifyIInv == ASSUME IInv, Heapify PROVE IInv'
<1> USE DEF IInv, Heapify
<1> DEFINE d == Descend(tree, count, i)
<1>1. count \in Nat /\ i \in Nat /\ i \in Slots /\ 0..(count - 1) \subseteq Slots
  BY CapacityAssumption DEF TypeOK, Slots
<1>2. \A j \in 0..(count - 1) : tree[j].key \in Int
  BY Keys
<1>3. i < count \/ count = 0
  BY <1>1 DEF HeapOrder
<1>4. /\ d \in 1..(count - 1) /\ Parent(d) = i /\ tree[d].key < tree[i].key
      /\ \A j \in 1..(count - 1) : Parent(j) = i => ~(tree[j].key < tree[d].key)
  BY <1>1, <1>2, <1>3, DescendFacts DEF Less
<1>5. d \in Slots /\ i \in 0..(count - 1) /\ i < d
  BY <1>1, <1>4, ParentFacts
<1>6. /\ tree' \in [Slots -> Elements \cup {NoElement}]
      /\ tree'[i] = tree[d] /\ tree'[d] = tree[i]
      /\ \A j \in Slots \ {i, d} : tree'[j] = tree[j]
  <2>1. tree' = Swap(tree, i, d) /\ TypeOK
    OBVIOUS
  <2> HIDE DEF d, Heapify, IInv
  <2> QED
    BY <1>1, <1>5, <2>1, SwapFacts
<1>7. TypeOK'
  <2>1. \A j \in 0..(count - 1) : tree'[j] \in Elements
    BY <1>1, <1>4, <1>5, <1>6 DEF TypeOK
  <2> QED
    BY <2>1, <1>5, <1>6 DEF TypeOK
<1>8. \A j \in 1..(count - 1) : Parent(j) \in 0..(count - 1) /\ Parent(j) < j
  BY <1>1, ParentFacts
<1>9. /\ \A j \in 1..(count - 1) : Parent(j) # i => ~(tree[j].key < tree[Parent(j)].key)
      /\ i > 0 => ~(tree[d].key < tree[Parent(i)].key)
  BY <1>4 DEF HeapOrder, AboveNotAfterBelow, Less
<1>10. \A j \in 1..(count - 1) : Parent(j) = d => ~(tree'[j].key < tree'[i].key)
  BY <1>1, <1>2, <1>4, <1>5, <1>6, <1>8, <1>9
<1>11. \A j \in 1..(count - 1) : Parent(j) # d => ~(tree'[j].key < tree'[Parent(j)].key)
  <2> TAKE j \in 1..(count - 1)
  <2> HAVE Parent(j) # d
  <2>1. CASE j = d
    BY <2>1, <1>2, <1>4, <1>5, <1>6
  <2>2. CASE j # d /\ Parent(j) = i
    BY <2>2, <1>1, <1>4, <1>5, <1>6, <1>8
  <2>3. CASE j = i
    BY <2>3, <1>1, <1>4, <1>5, <1>6, <1>8, <1>9
  <2>4. CASE j # d /\ j # i /\ Parent(j) # i
    BY <2>4, <1>1, <1>6, <1>8, <1>9
  <2> QED
    BY <2>1, <2>2, <2>3, <2>4
<1>12. pc' = "down" /\ i' = d /\ count' = count
  OBVIOUS
<1> HIDE DEF Heapify, IInv
<1>13. HeapOrder'
  BY <1>1, <1>4, <1>10, <1>11, <1>12 DEF HeapOrder, AboveNotAfterBelow, Less
<1> QED
  BY <1>7, <1>13 DEF IInv

\* heapify, line 43: when slot i is not after its children the heap is ordered.
LEMMA EndHeapifyIInv == ASSUME IInv, EndHeapify PROVE IInv'
<1> USE DEF IInv, EndHeapify
<1>1. TypeOK'
  BY DEF TypeOK
<1>2. count \in Nat /\ i \in Nat
  BY DEF TypeOK, Slots
<1>3. \A j \in 0..(count - 1) : tree[j].key \in Int
  BY Keys
<1>4. i < count \/ count = 0
  BY <1>2 DEF HeapOrder
<1>5. \A j \in 1..(count - 1) : Parent(j) = i => ~Less(tree[j], tree[i])
  BY <1>2, <1>3, <1>4, DescendFacts
<1>6. \A j \in 1..(count - 1) : Parent(j) # i => ~Less(tree[j], tree[Parent(j)])
  BY DEF HeapOrder
<1>7. HeapOrder'
  BY <1>5, <1>6 DEF HeapOrder, Ordered
<1> QED
  BY <1>1, <1>7

\* Every step keeps the heap typed and ordered.
LEMMA StepIInv == IInv /\ [Next]_vars => IInv'
<1> SUFFICES ASSUME IInv, [Next]_vars PROVE IInv'
  OBVIOUS
<1>1. CASE \E e \in Elements : Push(e)
  BY <1>1, PushIInv
<1>2. CASE SiftUp
  BY <1>2, SiftUpIInv
<1>3. CASE EndSiftUp
  BY <1>3, EndSiftUpIInv
<1>4. CASE Pop
  BY <1>4, PopIInv
<1>5. CASE Heapify
  BY <1>5, HeapifyIInv
<1>6. CASE EndHeapify
  BY <1>6, EndHeapifyIInv
<1>7. CASE UNCHANGED vars
  BY <1>7 DEF vars, IInv, TypeOK, HeapOrder, Ordered, AboveNotAfterBelow
<1> QED
  BY <1>1, <1>2, <1>3, <1>4, <1>5, <1>6, <1>7 DEF Next

\* Type correctness, and the order of the heap around the slot a sift is at, of
\* heap_push and heap_pop (heap.c:73-110).
THEOREM HeapStaysOrdered == Spec => [](TypeOK /\ HeapOrder)
<1>1. Init => IInv
  BY InitIInv
<1>2. IInv /\ [Next]_vars => IInv'
  BY StepIInv
<1> QED
  BY <1>1, <1>2, PTL DEF Spec, IInv

\* Every slot below the count holds an element, whatever is pushed and popped: heap_pop
\* never hands out a slot that was not filled (heap.c:90-110).
THEOREM HeapTypeOK == Spec => []TypeOK
BY HeapStaysOrdered, PTL

-------------------------------------------------------------------------------
(* Nothing is lost and nothing doubled                                     *)

QInv == IInv /\ Distinct

\* An exchange of two slots keeps what the heap holds.
LEMMA SwapKeeps ==
    ASSUME TypeOK, Distinct, NEW a \in 0..(count - 1), NEW b \in 0..(count - 1), a # b,
           tree' = Swap(tree, a, b), count' = count
    PROVE  Distinct' /\ Contents' = Contents
<1>1. 0..(count - 1) \subseteq Slots
  BY CapacityAssumption DEF TypeOK, Slots
<1>2. /\ tree'[a] = tree[b] /\ tree'[b] = tree[a]
      /\ \A j \in 0..(count - 1) : j # a /\ j # b => tree'[j] = tree[j]
  <2>1. a \in Slots /\ b \in Slots
    BY <1>1
  <2> QED
    BY <1>1, <2>1, SwapFacts
<1>3. Distinct'
  BY <1>2 DEF Distinct
<1>4. Contents' = {tree'[j] : j \in 0..(count - 1)}
  BY DEF Contents
<1>5. Contents' \subseteq Contents
  BY <1>2, <1>4 DEF Contents
<1>6. Contents \subseteq Contents'
  BY <1>2, <1>4 DEF Contents
<1> QED
  BY <1>3, <1>5, <1>6

\* heap_push, line 80: the element joins the contents.
LEMMA PushKeeps ==
    ASSUME QInv, NEW e \in Elements, Push(e)
    PROVE  Distinct' /\ Contents' = Contents \cup {e}
<1>1. count \in Nat /\ count \in Slots /\ tree \in [Slots -> Elements \cup {NoElement}]
  BY CapacityAssumption DEF QInv, IInv, TypeOK, Push, Slots
<1>2. /\ count' = count + 1 /\ tree'[count] = e
      /\ \A j \in 0..(count - 1) : tree'[j] = tree[j]
  BY <1>1, CapacityAssumption DEF Push, Slots
<1>3. e \notin Contents /\ Distinct
  BY DEF Push, QInv
<1>4. \A j \in 0..(count - 1) : tree[j] # e
  BY <1>3 DEF Contents
<1>5. Distinct'
  BY <1>1, <1>2, <1>3, <1>4 DEF Distinct
<1>6. Contents' = {tree'[j] : j \in 0..count}
  BY <1>1, <1>2 DEF Contents
<1>7. Contents' \subseteq Contents \cup {e}
  BY <1>1, <1>2, <1>6 DEF Contents
<1>8. Contents \cup {e} \subseteq Contents'
  BY <1>1, <1>2, <1>6 DEF Contents
<1> QED
  BY <1>5, <1>7, <1>8

\* heap_pop, lines 101-103: what was at the root leaves the contents.
LEMMA PopKeeps ==
    ASSUME QInv, Pop
    PROVE  Distinct' /\ Contents' = Contents \ {tree[0]}
<1> DEFINE last == count - 1
<1>1. count \in Nat \ {0} /\ 0 \in Slots /\ tree \in [Slots -> Elements \cup {NoElement}]
  BY CapacityAssumption DEF QInv, IInv, TypeOK, Pop, Slots
<1>2. /\ count' = last /\ tree'[0] = tree[last]
      /\ \A j \in 1..last : tree'[j] = tree[j]
  BY <1>1, CapacityAssumption DEF QInv, IInv, TypeOK, Pop, Slots
<1>3. \A j, k \in 0..last : tree[j] = tree[k] => j = k
  BY DEF QInv, Distinct
<1>4. Distinct'
  BY <1>1, <1>2, <1>3 DEF Distinct
<1>5. Contents' = {tree'[j] : j \in 0..(last - 1)}
  BY <1>2 DEF Contents
<1>6. Contents' \subseteq Contents \ {tree[0]}
  BY <1>1, <1>2, <1>3, <1>5 DEF Contents
<1>7. ASSUME NEW x \in Contents \ {tree[0]} PROVE x \in Contents'
  <2>1. PICK j \in 1..last : x = tree[j]
    BY <1>1 DEF Contents
  <2>2. CASE j = last
    BY <2>1, <2>2, <1>1, <1>2, <1>5
  <2>3. CASE j < last
    BY <2>1, <2>3, <1>1, <1>2, <1>5
  <2> QED
    BY <2>1, <2>2, <2>3, <1>1
<1> QED
  BY <1>4, <1>6, <1>7

\* heap_push, lines 83-86, only exchanges.
LEMMA SiftUpKeeps == ASSUME QInv, SiftUp PROVE Distinct' /\ Contents' = Contents
<1>1. i \in 1..(count - 1) /\ Parent(i) \in 0..(count - 1) /\ Parent(i) # i
  BY CapacityAssumption, ParentFacts DEF QInv, IInv, TypeOK, HeapOrder, SiftUp, Slots
<1> QED
  BY <1>1, SwapKeeps DEF QInv, IInv, SiftUp

\* heapify, lines 43-46, only exchanges.
LEMMA HeapifyKeeps == ASSUME QInv, Heapify PROVE Distinct' /\ Contents' = Contents
<1> DEFINE d == Descend(tree, count, i)
<1>1. count \in Nat /\ i \in Nat /\ (i < count \/ count = 0)
  BY CapacityAssumption DEF QInv, IInv, TypeOK, HeapOrder, Heapify, Slots
<1>2. d \in 1..(count - 1)
  BY <1>1, Keys, DescendFacts DEF QInv, IInv, Heapify
<1>3. i \in 0..(count - 1) /\ d # i /\ tree' = Swap(tree, i, d) /\ count' = count
  BY <1>1, <1>2 DEF Heapify
<1> HIDE DEF d
<1> QED
  BY <1>2, <1>3, SwapKeeps DEF QInv, IInv

\* Every step keeps the elements apart.
LEMMA StepQInv == QInv /\ [Next]_vars => QInv'
<1> SUFFICES ASSUME QInv, [Next]_vars PROVE Distinct'
  BY StepIInv DEF QInv
<1>1. CASE \E e \in Elements : Push(e)
  BY <1>1, PushKeeps
<1>2. CASE Pop
  BY <1>2, PopKeeps
<1>3. CASE SiftUp
  BY <1>3, SiftUpKeeps
<1>4. CASE Heapify
  BY <1>4, HeapifyKeeps
<1>5. CASE EndSiftUp \/ EndHeapify \/ UNCHANGED vars
  BY <1>5 DEF EndSiftUp, EndHeapify, vars, QInv, Distinct
<1> QED
  BY <1>1, <1>2, <1>3, <1>4, <1>5 DEF Next

\* The invariant of the refinement holds of every behaviour.
LEMMA AlwaysQInv == Spec => []QInv
<1>1. Init => QInv
  BY InitIInv DEF QInv, Distinct, Init
<1> QED
  BY <1>1, StepQInv, PTL DEF Spec

\* The swaps and copies of heap.c lose no element and double none.
THEOREM ElementsStayDistinct == Spec => []Distinct
<1>1. QInv => Distinct
  BY DEF QInv
<1> QED
  BY <1>1, AlwaysQInv, PTL

-------------------------------------------------------------------------------
(* The heap implements the priority queue                                  *)

\* Every set of numbers that is not empty has a least one.  The initial segments of
\* its members are finite sets, of which one has no proper subset among the others.
LEMMA LeastNumber ==
    ASSUME NEW S \in SUBSET Nat, S # {}
    PROVE  \E m \in S : \A k \in S : m <= k
<1> DEFINE T == {0..k : k \in S}
<1>1. T \subseteq FiniteSubsetsOf(Nat) /\ T # {}
  <2>1. \A k \in S : IsFiniteSet(0..k) /\ 0..k \subseteq Nat
    BY FS_Interval
  <2> QED
    BY <2>1 DEF FiniteSubsetsOf
<1>2. PICK x \in T : \A y \in T : ~ (<<y, x>> \in StrictSubsetOrdering(Nat))
  <2> HIDE DEF T
  <2> QED
    BY <1>1, WFMin, FS_StrictSubsetOrderingWellFounded
<1>3. PICK m \in S : x = 0..m
  BY <1>2
<1>4. ASSUME NEW k \in S, k < m PROVE FALSE
  <2>1. 0..k \subseteq 0..m /\ m \in 0..m /\ m \notin 0..k
    BY <1>4
  <2>2. <<0..k, 0..m>> \in StrictSubsetOrdering(Nat)
    BY <2>1 DEF StrictSubsetOrdering
  <2> QED
    BY <1>2, <1>3, <2>2
<1> QED
  BY <1>4

\* In an ordered heap no element is before the root.
LEMMA RootIsLeast ==
    ASSUME TypeOK, Ordered(tree, count), NEW j \in 0..(count - 1)
    PROVE  tree[0].key <= tree[j].key
<1> DEFINE S == {k \in 0..(count - 1) : tree[k].key < tree[0].key}
<1>1. count \in Nat /\ \A k \in 0..(count - 1) : tree[k].key \in Int
  BY Keys, CapacityAssumption DEF TypeOK
<1>2. SUFFICES ASSUME S # {} PROVE FALSE
  BY <1>1
<1>3. PICK m \in S : \A k \in S : m <= k
  <2>1. S \in SUBSET Nat
    BY <1>1
  <2> HIDE DEF S
  <2> QED
    BY <1>2, <2>1, LeastNumber
<1>4. m \in 1..(count - 1)
  BY <1>1, <1>3
<1>5. Parent(m) \in 0..(count - 1) /\ Parent(m) < m
  BY <1>1, <1>4, ParentFacts
<1>6. tree[Parent(m)].key <= tree[m].key
  BY <1>1, <1>4, <1>5 DEF Ordered, Less
<1>7. Parent(m) \in S
  BY <1>1, <1>3, <1>5, <1>6
<1> QED
  BY <1>3, <1>4, <1>5, <1>7

\* A heap of count elements holds at most count.
LEMMA ContentsBounded ==
    TypeOK => IsFiniteSet(Contents) /\ Cardinality(Contents) <= count
<1> SUFFICES ASSUME TypeOK PROVE IsFiniteSet(Contents) /\ Cardinality(Contents) <= count
  OBVIOUS
<1> DEFINE D == 0..(count - 1)
           f == [j \in D |-> tree[j]]
<1>1. count \in Nat
  BY CapacityAssumption DEF TypeOK
<1>2. IsFiniteSet(D) /\ Cardinality(D) = count
  BY <1>1, FS_Interval
<1>3. f \in Surjection(D, Contents)
  BY DEF Surjection, Contents
<1> HIDE DEF f, D
<1> QED
  BY <1>2, <1>3, FS_Surjection

\* heap_push and heap_pop, with all the swaps in between, implement the bounded priority
\* queue the receiver relies on (receiver.c:315, 400): a push adds the element, a pop
\* takes out one with the least key, a swap is not seen.
THEOREM HeapImplementsQueue == Spec => ImplementsQueue
<1>1. Init => Queue!Init
  BY DEF Init, Queue!Init, Contents
<1>2. QInv /\ [Next]_vars => [Queue!Next]_<<Contents, popped>>
  <2> SUFFICES ASSUME QInv, [Next]_vars PROVE [Queue!Next]_<<Contents, popped>>
    OBVIOUS
  <2>1. ASSUME NEW e \in Elements, Push(e) PROVE Queue!Push(e)
    <3>1. Contents' = Contents \cup {e}
      BY <2>1, PushKeeps
    <3>2. Cardinality(Contents) < Capacity
      BY <2>1, ContentsBounded, FS_CardinalityType, CapacityAssumption
         DEF Push, QInv, IInv, TypeOK
    <3>3. Queue!Cardinality(Contents) = Cardinality(Contents)
      BY Zenon DEF Queue!Cardinality, Cardinality
    <3> QED
      BY <2>1, <3>1, <3>2, <3>3 DEF Push, Queue!Push
  <2>2. ASSUME Pop PROVE Queue!Pop
    <3>1. Contents' = Contents \ {tree[0]} /\ popped' = tree[0]
      BY <2>2, PopKeeps DEF Pop
    <3>2. Ordered(tree, count) /\ TypeOK /\ count \in Nat \ {0}
      BY <2>2, CapacityAssumption DEF Pop, QInv, IInv, HeapOrder, TypeOK
    <3>3. tree[0] \in Contents
      BY <3>2 DEF Contents
    <3>4. \A f \in Contents : tree[0].key <= f.key
      BY <3>2, RootIsLeast DEF Contents
    <3> QED
      BY <3>1, <3>3, <3>4 DEF Queue!Pop
  <2>3. CASE SiftUp
    BY <2>3, SiftUpKeeps DEF SiftUp
  <2>4. CASE Heapify
    BY <2>4, HeapifyKeeps DEF Heapify
  <2>5. CASE EndSiftUp \/ EndHeapify \/ UNCHANGED vars
    BY <2>5 DEF EndSiftUp, EndHeapify, vars, Contents
  <2> QED
    BY <2>1, <2>2, <2>3, <2>4, <2>5 DEF Next, Queue!Next
<1> QED
  BY <1>1, <1>2, AlwaysQInv, PTL DEF Spec, ImplementsQueue, Queue!Spec
===============================================================================
