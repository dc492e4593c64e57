--------------------------- MODULE MsgHeapProofs ---------------------------
(***************************************************************************)
(* The heap of MsgHeap, proved for every set of messages and due times,    *)
(* every capacity and whether or not realloc fails.                        *)
(***************************************************************************)
EXTENDS MsgHeap, WellFoundedInduction, TLAPS

(* Index arithmetic of a binary heap: a node other than the root has its parent
   below it, and is one of its two children. *)
LEMMA ParentIndex ==
  ASSUME NEW i \in Nat, i > 0
  PROVE  /\ HEAP_PARENT(i) \in Nat
         /\ HEAP_PARENT(i) < i
         /\ i = HEAP_LEFT_IX(HEAP_PARENT(i)) \/ i = HEAP_RIGHT_IX(HEAP_PARENT(i))
  BY DEF HEAP_PARENT, HEAP_LEFT_IX, HEAP_RIGHT_IX

LEMMA ChildIndex ==
  ASSUME NEW i \in Nat
  PROVE  /\ HEAP_LEFT_IX(i) \in Nat /\ HEAP_LEFT_IX(i) > i
         /\ HEAP_RIGHT_IX(i) \in Nat /\ HEAP_RIGHT_IX(i) > i
         /\ HEAP_PARENT(HEAP_LEFT_IX(i)) = i
         /\ HEAP_PARENT(HEAP_RIGHT_IX(i)) = i
  BY DEF HEAP_PARENT, HEAP_LEFT_IX, HEAP_RIGHT_IX
-----------------------------------------------------------------------------
(* The steps that leave the slots alone, and those that end a loop. *)
LEMMA QuietStep ==
  ASSUME HeapInv, UNCHANGED <<heap, c_items>>,
         n_items' = n_items, growable' = growable, ix' = ix, null' \in BOOLEAN,
         ret' \in Msg \cup {NULL, 0, 1},
         \/ op' = op /\ (null' => op \in {"idle", "undefined"})
         \/ op' = "undefined"
         \/ op' = "idle" /\ (\A i \in 1 .. c_items - 1 : InOrder(i))
  PROVE  HeapInv'
<1>1. TypeOK' /\ IxInHeap' /\ Distinct'
  BY DEF HeapInv, TypeOK, IxInHeap, Distinct
<1>2. (null => op \in {"idle", "undefined"})'
  BY DEF HeapInv, TypeOK
<1>3. (op # "undefined" => OrderedButIx /\ HoleInOrder)'
  BY DEF HeapInv, OrderedButIx, HoleInOrder, InOrder, HEAP_P
<1> QED
  BY <1>1, <1>2, <1>3 DEF HeapInv

(* A new last message: every other message keeps its place, and the hole is at
   a leaf. *)
LEMMA AddInsertStep ==
  ASSUME HeapInv, NEW msg \in Msg, AddInsert(msg)
  PROVE  HeapInv'
<1> USE DEF HeapInv, AddInsert
<1>1. TypeOK'
  <2>1. n_items' \in Nat /\ c_items' \in Nat /\ ix' \in Nat
    BY DEF TypeOK
  <2>2. heap' \in [0 .. c_items' - 1 -> Msg]
    BY DEF TypeOK
  <2> QED
    BY <2>1, <2>2 DEF TypeOK
<1>2. IxInHeap' /\ (null => op \in {"idle", "undefined"})'
  BY DEF IxInHeap, TypeOK
<1>3. OrderedButIx'
  <2> SUFFICES ASSUME NEW i \in 1 .. c_items' - 1, i # c_items
               PROVE  InOrder(i)'
    BY DEF OrderedButIx
  <2>1. i \in 1 .. c_items - 1 /\ HEAP_PARENT(i) \in 0 .. c_items - 1
    BY ParentIndex DEF TypeOK
  <2>2. InOrder(i)
    BY <2>1 DEF OrderedButIx
  <2> QED
    BY <2>1, <2>2 DEF InOrder, HEAP_P, TypeOK
<1>4. HoleInOrder'
  BY ParentIndex DEF HoleInOrder, TypeOK
<1>5. Distinct'
  <2>1. \A i \in 0 .. c_items - 1 : heap[i] # msg
    BY DEF Stored
  <2> QED
    BY <2>1 DEF Distinct, TypeOK
<1> QED
  BY <1>1, <1>2, <1>3, <1>4, <1>5

(* An exchange of two slots keeps the messages apart. *)
LEMMA ExchangeDistinct ==
  ASSUME TypeOK, Distinct, c_items' = c_items,
         NEW i \in 0 .. c_items - 1, NEW j \in 0 .. c_items - 1,
         heap' = Exchange(i, j)
  PROVE  Distinct' /\ heap' \in [0 .. c_items' - 1 -> Msg]
  BY DEF TypeOK, Distinct, Exchange

(* A turn of the loop of an add: the hole moves to the parent. *)
LEMMA SiftUpStep ==
  ASSUME HeapInv, SiftUp
  PROVE  HeapInv'
<1> DEFINE p == HEAP_PARENT(ix)
<1> USE DEF HeapInv, SiftUp
<1>1. ix \in 1 .. c_items - 1 /\ p \in 0 .. c_items - 1 /\ p < ix
  BY ParentIndex DEF TypeOK, IxInHeap
<1>2. Distinct' /\ heap' \in [0 .. c_items' - 1 -> Msg]
  BY <1>1, ExchangeDistinct
<1>3. TypeOK' /\ IxInHeap' /\ (null => op \in {"idle", "undefined"})'
  BY <1>1, <1>2 DEF TypeOK, IxInHeap
<1>4. /\ heap'[p] = heap[ix]
      /\ heap'[ix] = heap[p]
      /\ \A i \in 0 .. c_items - 1 : i # p /\ i # ix => heap'[i] = heap[i]
  BY <1>1 DEF Exchange, TypeOK
<1>5. HEAP_P(ix) < HEAP_P(p)
  BY <1>1, MsgHeapAssumption DEF TypeOK, HEAP_P
<1>6. \A i \in 0 .. c_items - 1 : HEAP_P(i) \in Int
  BY MsgHeapAssumption DEF TypeOK, HEAP_P
<1>7. OrderedButIx'
  <2> SUFFICES ASSUME NEW i \in 1 .. c_items - 1, i # p
               PROVE  InOrder(i)'
    BY DEF OrderedButIx
  <2> DEFINE q == HEAP_PARENT(i)
  <2>1. q \in 0 .. c_items - 1 /\ q < i
    BY ParentIndex DEF TypeOK
  <2>2. i # ix => Due[heap[q]] <= Due[heap[i]]
    BY DEF OrderedButIx, InOrder, HEAP_P
  <2>3. q = ix => Due[heap[p]] <= Due[heap[i]]
    BY <1>1 DEF HoleInOrder, HEAP_P
  <2>4. Due[heap'[q]] <= Due[heap'[i]]
    BY <2>1, <2>2, <2>3, <1>1, <1>4, <1>5, <1>6 DEF HEAP_P
  <2> QED
    BY <2>4 DEF InOrder, HEAP_P
<1>8. HoleInOrder'
  <2> SUFFICES ASSUME NEW i \in 1 .. c_items - 1, p > 0, HEAP_PARENT(i) = p
               PROVE  Due[heap'[HEAP_PARENT(p)]] <= Due[heap'[i]]
    BY DEF HoleInOrder, HEAP_P
  <2> DEFINE g == HEAP_PARENT(p)
  <2>1. g \in 0 .. c_items - 1 /\ g < p /\ i > p
    BY <1>1, ParentIndex DEF TypeOK
  <2>2. Due[heap[g]] <= Due[heap[p]]
    BY <1>1 DEF OrderedButIx, InOrder, HEAP_P
  <2>3. i # ix => Due[heap[p]] <= Due[heap[i]]
    BY DEF OrderedButIx, InOrder, HEAP_P
  <2> QED
    BY <2>1, <2>2, <2>3, <1>1, <1>4, <1>5, <1>6 DEF HEAP_P
<1> QED
  BY <1>2, <1>3, <1>7, <1>8

(* The last message moves to the root: the hole is the root. *)
LEMMA RemoveRootStep ==
  ASSUME HeapInv, RemoveRoot
  PROVE  HeapInv'
<1> USE DEF HeapInv, RemoveRoot
<1>1. TypeOK'
  BY DEF TypeOK
<1>2. IxInHeap' /\ (null => op \in {"idle", "undefined"})' /\ HoleInOrder'
  BY DEF IxInHeap, HoleInOrder
<1>3. OrderedButIx'
  <2> SUFFICES ASSUME NEW i \in 1 .. c_items' - 1, HEAP_PARENT(i) # 0
               PROVE  InOrder(i)'
    BY DEF OrderedButIx
  <2>1. i \in 1 .. c_items - 1 /\ HEAP_PARENT(i) \in 1 .. c_items - 2 /\ i # 0
    BY ParentIndex DEF TypeOK
  <2>2. InOrder(i)
    BY <2>1 DEF OrderedButIx
  <2> QED
    BY <2>1, <2>2 DEF InOrder, HEAP_P, TypeOK
<1>4. Distinct'
  BY DEF Distinct, TypeOK
<1> QED
  BY <1>1, <1>2, <1>3, <1>4

(* The due times that the loops compare are integers. *)
LEMMA DueIsInt ==
  ASSUME TypeOK
  PROVE  \A i \in 0 .. c_items - 1 : HEAP_P(i) \in Int
  BY MsgHeapAssumption DEF TypeOK, HEAP_P

(* One comparison of a turn of the loop of a removal. *)
LEMMA SmallerIsEarlier ==
  ASSUME TypeOK, NEW i \in 0 .. c_items - 1, NEW j \in Nat
  PROVE  LET s == Smaller(i, j) IN
         /\ s \in 0 .. c_items - 1
         /\ s = i \/ (s = j /\ HEAP_P(s) < HEAP_P(i))
         /\ HEAP_P(s) <= HEAP_P(i)
         /\ j < c_items => HEAP_P(s) <= HEAP_P(j)
<1>1. HEAP_P(i) \in Int
  BY DueIsInt
<1>2. CASE j < c_items /\ HEAP_P(j) < HEAP_P(i)
  <2>1. j \in 0 .. c_items - 1 /\ HEAP_P(j) \in Int
    BY <1>2, DueIsInt DEF TypeOK
  <2>2. Smaller(i, j) = j
    BY <1>2 DEF Smaller
  <2>3. HEAP_P(j) <= HEAP_P(i) /\ HEAP_P(j) <= HEAP_P(j)
    BY ONLY <1>1, <1>2, <2>1
  <2> QED
    BY <1>2, <2>1, <2>2, <2>3
<1>3. CASE ~(j < c_items /\ HEAP_P(j) < HEAP_P(i))
  <2>1. Smaller(i, j) = i
    BY <1>3 DEF Smaller
  <2>2. j < c_items => HEAP_P(j) \in Int
    BY DueIsInt DEF TypeOK
  <2>3. HEAP_P(i) <= HEAP_P(i) /\ (j < c_items => HEAP_P(i) <= HEAP_P(j))
    BY ONLY <1>1, <1>3, <2>2
  <2> QED
    BY <2>1, <2>3
<1> QED
  BY <1>2, <1>3

(* What a turn of the loop of a removal picks: ix itself or a child of ix that
   is earlier than ix, and in either case nothing later than a child. *)
LEMMA SmallestIsEarliest ==
  ASSUME TypeOK, NEW i \in 0 .. c_items - 1
  PROVE  LET s == Smallest(i) IN
         /\ s \in 0 .. c_items - 1
         /\ s = i \/ (HEAP_PARENT(s) = i /\ s > i /\ HEAP_P(s) < HEAP_P(i))
         /\ \A j \in 1 .. c_items - 1 : HEAP_PARENT(j) = i => HEAP_P(s) <= HEAP_P(j)
<1> DEFINE l == HEAP_LEFT_IX(i)
           r == HEAP_RIGHT_IX(i)
           a == Smaller(i, l)
           s == Smaller(a, r)
<1>0. i \in Nat
  BY DEF TypeOK
<1>1. /\ l \in Nat /\ l > i /\ HEAP_PARENT(l) = i
      /\ r \in Nat /\ r > i /\ HEAP_PARENT(r) = i
  BY <1>0, ChildIndex
<1>3. \A j \in 1 .. c_items - 1 : HEAP_PARENT(j) = i => j = l \/ j = r
  BY ParentIndex DEF TypeOK
<1> HIDE DEF l, r
<1>4. /\ a \in 0 .. c_items - 1
      /\ a = i \/ (a = l /\ HEAP_P(a) < HEAP_P(i))
      /\ HEAP_P(a) <= HEAP_P(i)
      /\ l < c_items => HEAP_P(a) <= HEAP_P(l)
  BY <1>1, SmallerIsEarlier
<1> HIDE DEF a
<1>5. /\ s \in 0 .. c_items - 1
      /\ s = a \/ (s = r /\ HEAP_P(s) < HEAP_P(a))
      /\ HEAP_P(s) <= HEAP_P(a)
      /\ r < c_items => HEAP_P(s) <= HEAP_P(r)
  BY <1>1, <1>4, SmallerIsEarlier
<1> HIDE DEF s
<1>6. /\ HEAP_P(s) \in Int /\ HEAP_P(a) \in Int /\ HEAP_P(i) \in Int
      /\ \A j \in 0 .. c_items - 1 : HEAP_P(j) \in Int
  BY <1>4, <1>5, DueIsInt
<1>7. s = i \/ (HEAP_PARENT(s) = i /\ s > i /\ HEAP_P(s) < HEAP_P(i))
  <2>1. CASE s = a
    BY <2>1, <1>1, <1>4
  <2>2. CASE s = r /\ HEAP_P(s) < HEAP_P(a)
    <3>1. HEAP_P(s) < HEAP_P(i)
      BY ONLY <2>2, <1>4, <1>6
    <3> QED
      BY <3>1, <2>2, <1>1
  <2> QED
    BY <2>1, <2>2, <1>5
<1>8. \A j \in 1 .. c_items - 1 : HEAP_PARENT(j) = i => HEAP_P(s) <= HEAP_P(j)
  <2> SUFFICES ASSUME NEW j \in 1 .. c_items - 1, HEAP_PARENT(j) = i
               PROVE  HEAP_P(s) <= HEAP_P(j)
    OBVIOUS
  <2>1. CASE j = l
    <3>1. HEAP_P(a) <= HEAP_P(l) /\ HEAP_P(l) \in Int
      BY <2>1, <1>4, <1>6 DEF TypeOK
    <3>2. HEAP_P(s) <= HEAP_P(l)
      BY ONLY <3>1, <1>5, <1>6
    <3> QED
      BY <3>2, <2>1
  <2>2. CASE j = r
    BY <2>2, <1>5 DEF TypeOK
  <2> QED
    BY <1>3, <2>1, <2>2
<1> QED
  BY <1>5, <1>7, <1>8 DEF Smallest, s, a, l, r

(* A removal that empties the queue exchanges nothing. *)
LEMMA SiftDownInHeap ==
  ASSUME HeapInv, SiftDown
  PROVE  ix \in 0 .. c_items - 1
<1>1. ASSUME c_items = 0
      PROVE  FALSE
  <2>1. ix = 0
    BY <1>1 DEF SiftDown, HeapInv, IxInHeap, TypeOK
  <2> QED
    BY <1>1, <2>1 DEF SiftDown, Smallest, Smaller, HEAP_LEFT_IX, HEAP_RIGHT_IX
<1> QED
  BY <1>1 DEF SiftDown, HeapInv, IxInHeap, TypeOK

(* A turn of the loop of a removal: the hole moves to the earlier child. *)
LEMMA SiftDownStep ==
  ASSUME HeapInv, SiftDown
  PROVE  HeapInv'
<1> DEFINE s == Smallest(ix)
<1> USE DEF HeapInv, SiftDown
<1>0. ix \in 0 .. c_items - 1
  BY SiftDownInHeap
<1>1. /\ s \in 1 .. c_items - 1 /\ s > ix /\ HEAP_PARENT(s) = ix
      /\ HEAP_P(s) < HEAP_P(ix)
      /\ \A j \in 1 .. c_items - 1 : HEAP_PARENT(j) = ix => HEAP_P(s) <= HEAP_P(j)
  BY <1>0, SmallestIsEarliest
<1> HIDE DEF s
<1>2. Distinct' /\ heap' \in [0 .. c_items' - 1 -> Msg]
  BY <1>0, <1>1, ExchangeDistinct DEF s
<1>3. TypeOK' /\ IxInHeap' /\ (null => op \in {"idle", "undefined"})'
  BY <1>1, <1>2 DEF TypeOK, IxInHeap, s
<1>4. /\ heap'[s] = heap[ix]
      /\ heap'[ix] = heap[s]
      /\ \A i \in 0 .. c_items - 1 : i # s /\ i # ix => heap'[i] = heap[i]
  BY <1>0, <1>1 DEF Exchange, TypeOK, s
<1>6. \A i \in 0 .. c_items - 1 : Due[heap[i]] \in Int
  BY MsgHeapAssumption DEF TypeOK
<1>7. OrderedButIx'
  <2> SUFFICES ASSUME NEW i \in 1 .. c_items - 1, HEAP_PARENT(i) # s
               PROVE  Due[heap'[HEAP_PARENT(i)]] <= Due[heap'[i]]
    BY DEF OrderedButIx, InOrder, HEAP_P, s
  <2> DEFINE q == HEAP_PARENT(i)
  <2>1. q \in 0 .. c_items - 1 /\ q < i
    BY ParentIndex DEF TypeOK
  <2>2. q # ix => Due[heap[q]] <= Due[heap[i]]
    BY DEF OrderedButIx, InOrder, HEAP_P
  <2>3. q = ix => Due[heap[s]] <= Due[heap[i]]
    BY <1>1 DEF HEAP_P
  <2>4. i = ix => Due[heap[q]] <= Due[heap[s]]
    BY <1>1 DEF HoleInOrder, HEAP_P
  <2>5. Due[heap[s]] < Due[heap[ix]]
    BY <1>1 DEF HEAP_P
  <2> QED
    BY <2>1, <2>2, <2>3, <2>4, <2>5, <1>0, <1>1, <1>4, <1>6
<1>8. HoleInOrder'
  <2> SUFFICES ASSUME NEW i \in 1 .. c_items - 1, HEAP_PARENT(i) = s
               PROVE  Due[heap'[HEAP_PARENT(s)]] <= Due[heap'[i]]
    BY DEF HoleInOrder, HEAP_P, s
  <2>1. i > s
    BY ParentIndex DEF TypeOK
  <2>2. Due[heap[s]] <= Due[heap[i]]
    BY <1>1 DEF OrderedButIx, InOrder, HEAP_P
  <2> QED
    BY <2>1, <2>2, <1>0, <1>1, <1>4
<1> QED
  BY <1>2, <1>3, <1>7, <1>8

(* The end of either loop leaves no hole. *)
LEMMA SiftDoneStep ==
  ASSUME HeapInv, SiftUpDone \/ SiftDownDone
  PROVE  HeapInv'
<1> USE DEF HeapInv
<1>1. CASE SiftUpDone
  <2>1. \A i \in 1 .. c_items - 1 : InOrder(i)
    BY <1>1 DEF SiftUpDone, OrderedButIx, InOrder
  <2> QED
    BY <1>1, <2>1, QuietStep DEF SiftUpDone, TypeOK
<1>2. CASE SiftDownDone
  <2>1. ASSUME NEW i \in 1 .. c_items - 1
        PROVE  InOrder(i)
    <3>1. ix \in 0 .. c_items - 1
      BY <1>2 DEF SiftDownDone, IxInHeap, TypeOK
    <3>2. CASE HEAP_PARENT(i) = ix
      BY <1>2, <3>1, <3>2, SmallestIsEarliest DEF SiftDownDone, InOrder
    <3>3. CASE HEAP_PARENT(i) # ix
      BY <1>2, <3>3 DEF SiftDownDone, OrderedButIx
    <3> QED
      BY <3>2, <3>3
  <2> QED
    BY <1>2, <2>1, QuietStep DEF SiftDownDone, TypeOK
<1> QED
  BY <1>1, <1>2
-----------------------------------------------------------------------------
(* Every reachable state of a queue satisfies the inductive invariant: the heap
   is in order but for the hole of the loop in progress, and holds no message
   twice. *)
THEOREM HeapInvariant == Spec => []HeapInv
<1>1. Init => HeapInv
  <2> SUFFICES ASSUME Init
               PROVE  HeapInv
    OBVIOUS
  <2> USE DEF Init
  <2>1. 0 .. c_items - 1 = {}
    OBVIOUS
  <2>2. heap \in [0 .. c_items - 1 -> Msg]
    BY <2>1
  <2>3. TypeOK
    BY <2>2, MsgHeapAssumption DEF TypeOK
  <2> QED
    BY <2>1, <2>3 DEF HeapInv, IxInHeap, OrderedButIx, HoleInOrder, Distinct
<1>2. HeapInv /\ [Next]_vars => HeapInv'
  <2> SUFFICES ASSUME HeapInv, [Next]_vars
               PROVE  HeapInv'
    OBVIOUS
  <2>1. CASE AddRefused
    BY <2>1, QuietStep DEF AddRefused, HeapInv, TypeOK
  <2>2. CASE AddGrowFails
    BY <2>2, QuietStep DEF AddGrowFails, HeapInv, TypeOK
  <2>3. CASE \E msg \in Msg : AddInsert(msg)
    BY <2>3, AddInsertStep
  <2>4. CASE RemoveEmpty
    BY <2>4, QuietStep DEF RemoveEmpty, HeapInv, TypeOK
  <2>5. CASE RemoveRoot
    BY <2>5, RemoveRootStep
  <2>6. CASE UseLostHeap
    BY <2>6, QuietStep DEF UseLostHeap, HeapInv, TypeOK
  <2>7. CASE Loop
    BY <2>7, SiftUpStep, SiftDownStep, SiftDoneStep DEF Loop
  <2>8. CASE UNCHANGED vars
    BY <2>8, QuietStep DEF vars, HeapInv, TypeOK
  <2> QED
    BY <2>1, <2>2, <2>3, <2>4, <2>5, <2>6, <2>7, <2>8 DEF Next
<1> QED
  BY <1>1, <1>2, PTL DEF Spec

(* Between calls the heap is in heap order, for every number of messages. *)
THEOREM HeapOrder == Spec => []HeapOrdered
<1>1. HeapInv => HeapOrdered
  BY ParentIndex DEF HeapInv, HeapOrdered, OrderedButIx, InOrder
<1> QED
  BY <1>1, HeapInvariant, PTL
-----------------------------------------------------------------------------
(* In a heap in order the root is due no later than any message: following the
   parents from a slot ends at the root. *)
LEMMA RootIsEarliest ==
  ASSUME TypeOK, \A i \in 1 .. c_items - 1 : InOrder(i),
         NEW j \in 0 .. c_items - 1
  PROVE  HEAP_P(0) <= HEAP_P(j)
<1> DEFINE T == {k \in 0 .. c_items - 1 : HEAP_P(k) < HEAP_P(0)}
<1>1. T \subseteq Nat
  BY DEF TypeOK
<1>2. \A k \in 0 .. c_items - 1 : HEAP_P(k) \in Int
  BY DueIsInt
<1>3. 0 \in 0 .. c_items - 1
  BY DEF TypeOK
<1>4. ASSUME T # {}
      PROVE  FALSE
  <2>1. PICK x \in T : \A y \in T : ~ (<<y, x>> \in OpToRel(<, Nat))
    BY <1>1, <1>4, WFMin, NatLessThanWellFounded
  <2>2. x \in 0 .. c_items - 1 /\ HEAP_P(x) < HEAP_P(0) /\ HEAP_P(x) \in Int
    BY <1>2
  <2>3. x # 0
    BY <1>2, <1>3, <2>2
  <2> DEFINE p == HEAP_PARENT(x)
  <2>4. x \in Nat /\ x > 0
    BY <2>2, <2>3
  <2>5. p \in Nat /\ p < x
    BY <2>4, ParentIndex
  <2>6. HEAP_P(p) <= HEAP_P(x) /\ x \in 1 .. c_items - 1
    BY <2>2, <2>4 DEF InOrder, TypeOK
  <2> HIDE DEF p
  <2>7. p \in 0 .. c_items - 1
    BY <2>2, <2>5, <2>6 DEF TypeOK
  <2>8. HEAP_P(p) < HEAP_P(0)
    <3>1. HEAP_P(p) \in Int /\ HEAP_P(0) \in Int
      BY <2>7, <1>2, <1>3
    <3> QED
      BY ONLY <3>1, <2>2, <2>6
  <2>9. p \in T
    BY <2>7, <2>8
  <2>10. <<p, x>> \in OpToRel(<, Nat)
    BY <2>4, <2>5 DEF OpToRel
  <2> QED
    BY <2>1, <2>9, <2>10
<1>5. ~(HEAP_P(j) < HEAP_P(0))
  BY <1>4
<1> QED
  BY ONLY <1>5, <1>2, <1>3, j \in 0 .. c_items - 1

(* A removal answers a message that no message of the queue precedes. *)
LEMMA RemovedIsEarliest ==
  ASSUME HeapInv, RemoveRoot
  PROVE  heap[0] \in Queue!Earliest(Stored)
<1>1. \A i \in 1 .. c_items - 1 : InOrder(i)
  BY DEF HeapInv, OrderedButIx, RemoveRoot
<1>2. \A j \in 0 .. c_items - 1 : HEAP_P(0) <= HEAP_P(j)
  BY <1>1, RootIsEarliest DEF HeapInv
<1>3. 0 \in 0 .. c_items - 1
  BY DEF RemoveRoot, HeapInv, TypeOK
<1> QED
  BY <1>2, <1>3 DEF Queue!Earliest, Stored, HEAP_P, RemoveRoot

(* An exchange of two slots keeps the messages of the queue. *)
LEMMA ExchangeStored ==
  ASSUME TypeOK, c_items' = c_items,
         NEW i \in 0 .. c_items - 1, NEW j \in 0 .. c_items - 1,
         heap' = Exchange(i, j)
  PROVE  Stored' = Stored
<1>1. \A k \in 0 .. c_items - 1 :
        heap'[k] = IF k = j THEN heap[i] ELSE IF k = i THEN heap[j] ELSE heap[k]
  BY DEF TypeOK, Exchange
<1>2. {heap'[k] : k \in 0 .. c_items - 1} = {heap[k] : k \in 0 .. c_items - 1}
  BY <1>1
<1> QED
  BY <1>2 DEF Stored
-----------------------------------------------------------------------------
(* How each kind of step looks to the callers of the queue. *)
LEMMA AddInsertIsAdd ==
  ASSUME HeapInv, NEW msg \in Msg, AddInsert(msg)
  PROVE  Queue!Add(msg)
<1>1. c_items \in Nat
  BY DEF HeapInv, TypeOK
<1>2. 0 .. c_items' - 1 = (0 .. c_items - 1) \cup {c_items}
  BY <1>1 DEF AddInsert
<1>3. /\ heap'[c_items] = msg
      /\ \A i \in 0 .. c_items - 1 : heap'[i] = heap[i]
  BY <1>1 DEF AddInsert
<1>4. {heap'[i] : i \in 0 .. c_items' - 1}
        = {heap[i] : i \in 0 .. c_items - 1} \cup {msg}
  BY <1>2, <1>3
<1> QED
  BY <1>4 DEF AddInsert, Stored, Queue!Add

LEMMA RemoveRootIsRemove ==
  ASSUME HeapInv, RemoveRoot
  PROVE  Queue!Remove
<1>1. c_items \in Nat \ {0} /\ c_items' = c_items - 1
  BY DEF HeapInv, TypeOK, RemoveRoot
<1>2. \A i \in 0 .. c_items - 2 :
        heap'[i] = IF i = 0 THEN heap[c_items - 1] ELSE heap[i]
  BY <1>1 DEF RemoveRoot
<1>3. {heap'[i] : i \in 0 .. c_items' - 1} = {heap[i] : i \in 1 .. c_items - 1}
  <2>1. ASSUME NEW i \in 0 .. c_items' - 1
        PROVE  heap'[i] \in {heap[k] : k \in 1 .. c_items - 1}
    BY <1>1, <1>2
  <2>2. ASSUME NEW k \in 1 .. c_items - 1
        PROVE  heap[k] \in {heap'[i] : i \in 0 .. c_items' - 1}
    <3>1. CASE k = c_items - 1
      BY <1>1, <1>2, <3>1
    <3>2. CASE k # c_items - 1
      BY <1>1, <1>2, <3>2
    <3> QED
      BY <3>1, <3>2
  <2> QED
    BY <2>1, <2>2
<1>4. {heap[i] : i \in 1 .. c_items - 1}
        = {heap[i] : i \in 0 .. c_items - 1} \ {heap[0]}
  BY <1>1 DEF HeapInv, Distinct
<1>5. Stored' = Stored \ {heap[0]}
  BY <1>3, <1>4 DEF Stored, RemoveRoot
<1> QED
  BY <1>5, RemovedIsEarliest DEF Queue!Remove, RemoveRoot

LEMMA SiftIsStutter ==
  ASSUME HeapInv, Loop
  PROVE  UNCHANGED <<Stored, ret>>
<1>1. CASE SiftUp
  <2>1. ix \in 0 .. c_items - 1 /\ HEAP_PARENT(ix) \in 0 .. c_items - 1
    BY <1>1, ParentIndex DEF SiftUp, HeapInv, TypeOK, IxInHeap
  <2> QED
    BY <1>1, <2>1, ExchangeStored DEF SiftUp, HeapInv
<1>2. CASE SiftDown
  <2>1. ix \in 0 .. c_items - 1
    BY <1>2, SiftDownInHeap
  <2>2. Smallest(ix) \in 0 .. c_items - 1
    BY <2>1, SmallestIsEarliest DEF HeapInv
  <2> QED
    BY <1>2, <2>1, <2>2, ExchangeStored DEF SiftDown, HeapInv
<1>3. CASE SiftUpDone \/ SiftDownDone
  BY <1>3 DEF SiftUpDone, SiftDownDone, Stored
<1> QED
  BY <1>1, <1>2, <1>3 DEF Loop

(* The heap implements the priority queue, for every set of messages, every
   assignment of due times, every capacity, and whether or not realloc fails. *)
THEOREM HeapImplementsQueue == Spec => ImplementsQueue
<1>1. Init => Queue!Init
  <2> SUFFICES ASSUME Init
               PROVE  Queue!Init
    OBVIOUS
  <2>1. 0 .. c_items - 1 = {}
    BY DEF Init
  <2> QED
    BY <2>1 DEF Init, Queue!Init, Stored
<1>2. HeapInv /\ [Next]_vars => [Queue!Next]_(Queue!vars)
  <2> SUFFICES ASSUME HeapInv, [Next]_vars
               PROVE  [Queue!Next]_(Queue!vars)
    OBVIOUS
  <2>1. CASE AddRefused
    BY <2>1 DEF AddRefused, Stored, Queue!Next, Queue!Refuse
  <2>2. CASE AddGrowFails
    BY <2>2 DEF AddGrowFails, Stored, Queue!Next, Queue!Refuse
  <2>3. CASE \E msg \in Msg : AddInsert(msg)
    BY <2>3, AddInsertIsAdd DEF Queue!Next
  <2>4. CASE RemoveEmpty
    <3>1. 0 .. c_items - 1 = {}
      BY <2>4 DEF RemoveEmpty
    <3> QED
      BY <2>4, <3>1 DEF RemoveEmpty, Stored, Queue!Next, Queue!RemoveEmpty
  <2>5. CASE RemoveRoot
    BY <2>5, RemoveRootIsRemove DEF Queue!Next
  <2>6. CASE UseLostHeap
    BY <2>6 DEF UseLostHeap, Stored, Queue!vars
  <2>7. CASE Loop
    BY <2>7, SiftIsStutter DEF Queue!vars
  <2>8. CASE UNCHANGED vars
    BY <2>8 DEF vars, Stored, Queue!vars
  <2> QED
    BY <2>1, <2>2, <2>3, <2>4, <2>5, <2>6, <2>7, <2>8 DEF Next
<1> QED
  BY <1>1, <1>2, HeapInvariant, PTL
     DEF Spec, ImplementsQueue, Queue!Spec

(* A queue that starts with room for a message never holds more than its block
   has slots.  Doubling a capacity of 0 makes no room, hence the condition. *)
THEOREM HeapFits ==
  ASSUME 0 \notin Capacities
  PROVE  Spec => []Fits
<1> DEFINE Room == n_items > 0 /\ c_items <= n_items
<1>1. Init => Room
  BY MsgHeapAssumption DEF Init
<1>2. HeapInv /\ Room /\ [Next]_vars => Room'
  <2> SUFFICES ASSUME HeapInv, Room, [Next]_vars
               PROVE  Room'
    OBVIOUS
  <2>1. n_items \in Nat /\ c_items \in Nat
    BY DEF HeapInv, TypeOK
  <2>2. CASE \E msg \in Msg : AddInsert(msg)
    BY <2>1, <2>2 DEF AddInsert, Full
  <2>3. CASE RemoveRoot
    BY <2>1, <2>3 DEF RemoveRoot
  <2>4. CASE UNCHANGED <<n_items, c_items>>
    BY <2>4
  <2> QED
    BY <2>2, <2>3, <2>4
       DEF Next, vars, AddRefused, AddGrowFails, RemoveEmpty, UseLostHeap,
           Loop, SiftUp, SiftUpDone, SiftDown, SiftDownDone
<1>3. Room => Fits
  BY DEF Fits
<1> QED
  BY <1>1, <1>2, <1>3, HeapInvariant, PTL DEF Spec

(* A queue without its block is a full one, whatever realloc answers. *)
THEOREM LostHeapIsFull == Spec => []LostOnlyWhenFull
<1>1. Init => LostOnlyWhenFull
  BY DEF Init, LostOnlyWhenFull
<1>2. HeapInv /\ LostOnlyWhenFull /\ [Next]_vars => LostOnlyWhenFull'
  BY DEF HeapInv, LostOnlyWhenFull, Full, Next, vars, AddRefused, AddGrowFails,
         AddInsert, RemoveEmpty, RemoveRoot, UseLostHeap, Loop, SiftUp, SiftUpDone,
         SiftDown, SiftDownDone
<1> QED
  BY <1>1, <1>2, HeapInvariant, PTL DEF Spec

(* The loops of osc_msg_queue_add and osc_msg_queue_remove take a number of turns that
   is logarithmic in the size of the heap: counted from 1, a turn of the one at
   least halves the index it is at, a turn of the other at least doubles it, inside
   of the heap (queue.c:63-69, 86-111). *)
THEOREM SiftsAreLogarithmic ==
  Spec => [][/\ SiftUp => ix' \in Nat /\ 2 * (ix' + 1) <= ix + 1
             /\ SiftDown => ix' < c_items' /\ ix' + 1 >= 2 * (ix + 1)]_vars
<1>1. ASSUME HeapInv, SiftUp
      PROVE  ix' \in Nat /\ 2 * (ix' + 1) <= ix + 1
  <2>1. ix \in Nat /\ ix > 0 /\ ix' = (ix - 1) \div 2
    BY <1>1 DEF HeapInv, TypeOK, SiftUp, HEAP_PARENT
  <2> QED
    BY <2>1
<1>2. ASSUME HeapInv, SiftDown
      PROVE  ix' < c_items' /\ ix' + 1 >= 2 * (ix + 1)
  <2>1. ix \in Nat /\ c_items \in Nat /\ c_items' = c_items /\ ix' = Smallest(ix) /\ ix' # ix
    BY <1>2 DEF HeapInv, TypeOK, SiftDown
  <2>2. \/ ix' = 2 * ix + 1 /\ ix' < c_items
        \/ ix' = 2 * ix + 2 /\ ix' < c_items
    BY <2>1 DEF Smallest, Smaller, HEAP_LEFT_IX, HEAP_RIGHT_IX
  <2> QED
    BY <2>1, <2>2
<1> QED
  BY <1>1, <1>2, HeapInvariant, PTL
=============================================================================
