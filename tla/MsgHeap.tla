------------------------------ MODULE MsgHeap ------------------------------
(***************************************************************************)
(* The message queue of ideas/queue/queue.c as one thread at a time sees   *)
(* it: osc_msg_queue_init, _size, _add and _remove over a binary heap of   *)
(* message pointers ordered by due time.                                   *)
(*                                                                         *)
(* A call is several steps: the step that decides its answer and changes   *)
(* the number of items, then one step for each turn of its sift loop.  No  *)
(* other call starts before the loop ends (op = "idle"), which is what the *)
(* lock of the *_s functions ensures.                                      *)
(***************************************************************************)
EXTENDS Integers

CONSTANTS
  Msg,           \* the messages, distinct osc_msg_t objects
  Due,           \* msg->due; the timeval order is that of the integers
  NULL,
  Capacities,    \* the initial capacities a caller asks for
  ReallocFails   \* whether memory may run out, so that realloc returns NULL

ASSUME MsgHeapAssumption ==
  /\ Due \in [Msg -> Int]
  /\ Capacities \subseteq Nat
  /\ ReallocFails \in BOOLEAN

VARIABLES
  heap,        \* queue->heap, the slots in use: 0 .. c_items - 1
  null,        \* queue->heap is NULL
  n_items,     \* slots allocated
  c_items,     \* slots in use
  growable,    \* queue->flags & OSC_QUEUE_GROWABLE
  op,          \* the call in progress
  ix,          \* the index of its sift loop
  ret          \* what the call answers

vars == <<heap, null, n_items, c_items, growable, op, ix, ret>>

HEAP_PARENT(i)   == (i - 1) \div 2
HEAP_LEFT_IX(i)  == 2 * i + 1
HEAP_RIGHT_IX(i) == 2 * i + 2

HEAP_P(i) == Due[heap[i]]

(* Mutant of Exchange: without the variable tmp. *)
ExchangeNoTmp(i, j) == [heap EXCEPT ![i] = heap[j]]

Exchange(i, j) == [heap EXCEPT ![i] = heap[j], ![j] = heap[i]]

(* The messages in the queue: those that it counts. *)
Stored == {heap[i] : i \in 0 .. c_items - 1}
-----------------------------------------------------------------------------
(* osc_msg_queue_init. *)
Init ==
  /\ heap = [i \in {} |-> NULL]
  /\ null = FALSE
  /\ n_items \in Capacities
  /\ c_items = 0
  /\ growable \in BOOLEAN
  /\ op = "idle"
  /\ ix = 0
  /\ ret = NULL

(* Mutant of Full: noticed one add too late. *)
FullLate == c_items > n_items

Full == c_items = n_items

(* osc_msg_queue_add, queue full and not growable. *)
AddRefused ==
  /\ op = "idle"
  /\ Full
  /\ ~growable
  /\ ret' = 0
  /\ UNCHANGED <<heap, null, n_items, c_items, growable, op, ix>>

(* Mutant of AddGrowFails: the doubled capacity stays. *)
AddGrowFailsKept ==
  /\ op = "idle"
  /\ Full
  /\ growable
  /\ ReallocFails \/ n_items = 0
  /\ null' = TRUE
  /\ n_items' = 2 * n_items
  /\ ret' = 0
  /\ UNCHANGED <<heap, c_items, growable, op, ix>>

(* osc_msg_queue_add, realloc returns NULL into queue->heap: the capacity is
   put back, the pointer is not.  A realloc to no bytes may return NULL too. *)
AddGrowFails ==
  /\ op = "idle"
  /\ Full
  /\ growable
  /\ ReallocFails \/ n_items = 0
  /\ null' = TRUE
  /\ ret' = 0
  /\ UNCHANGED <<heap, n_items, c_items, growable, op, ix>>

(* osc_msg_queue_add up to its loop, growing the heap when it is full.  The
   caller adds no message that is still in the queue (main.c adds each of its
   items once); it may add one again that was removed. *)
AddInsert(msg) ==
  /\ op = "idle"
  /\ msg \notin Stored
  /\ Full => growable
  /\ null => c_items = 0
  /\ n_items' = IF Full THEN 2 * n_items ELSE n_items
  /\ heap' = [i \in 0 .. c_items |-> IF i = c_items THEN msg ELSE heap[i]]
  /\ null' = FALSE
  /\ c_items' = c_items + 1
  /\ ix' = c_items
  /\ op' = "add"
  /\ ret' = 1
  /\ UNCHANGED growable

(* One turn of the loop of osc_msg_queue_add. *)
SiftUp ==
  /\ op = "add"
  /\ ix > 0
  /\ HEAP_P(HEAP_PARENT(ix)) > HEAP_P(ix)
  /\ heap' = Exchange(HEAP_PARENT(ix), ix)
  /\ ix' = HEAP_PARENT(ix)
  /\ UNCHANGED <<null, n_items, c_items, growable, op, ret>>

SiftUpDone ==
  /\ op = "add"
  /\ ix > 0 => HEAP_P(HEAP_PARENT(ix)) <= HEAP_P(ix)
  /\ op' = "idle"
  /\ UNCHANGED <<heap, null, n_items, c_items, growable, ix, ret>>
-----------------------------------------------------------------------------
RemoveEmpty ==
  /\ op = "idle"
  /\ c_items = 0
  /\ ret' = NULL
  /\ UNCHANGED <<heap, null, n_items, c_items, growable, op, ix>>

(* osc_msg_queue_remove up to its loop: the last message becomes the root. *)
RemoveRoot ==
  /\ op = "idle"
  /\ c_items > 0
  /\ ~null
  /\ ret' = heap[0]
  /\ heap' = [i \in 0 .. c_items - 2 |-> IF i = 0 THEN heap[c_items - 1]
                                                  ELSE heap[i]]
  /\ c_items' = c_items - 1
  /\ ix' = 0
  /\ op' = "remove"
  /\ UNCHANGED <<null, n_items, growable>>

(* smallest_ix of a turn: the left child if it is earlier than the parent,
   then the right child if it is earlier than that. *)
Smaller(i, j) == IF j < c_items /\ HEAP_P(j) < HEAP_P(i) THEN j ELSE i

(* Mutants of Smallest: the right child is never looked at; it is compared with
   the parent instead of the left child. *)
SmallestLeft(i) == Smaller(i, HEAP_LEFT_IX(i))

SmallestRightFirst(i) ==
  IF Smaller(i, HEAP_RIGHT_IX(i)) # i THEN HEAP_RIGHT_IX(i)
  ELSE Smaller(i, HEAP_LEFT_IX(i))

Smallest(i) == Smaller(Smaller(i, HEAP_LEFT_IX(i)), HEAP_RIGHT_IX(i))

(* One turn of the loop of osc_msg_queue_remove.  With no message left the loop
   reads no slot. *)
SiftDown ==
  /\ op = "remove"
  /\ Smallest(ix) # ix
  /\ heap' = Exchange(ix, Smallest(ix))
  /\ ix' = Smallest(ix)
  /\ UNCHANGED <<null, n_items, c_items, growable, op, ret>>

(* Mutant of SiftDownDone: no break, the loop exchanges ix with itself. *)
SiftDownNoBreak == op = "remove" /\ Smallest(ix) = ix /\ UNCHANGED vars

SiftDownDone ==
  /\ op = "remove"
  /\ Smallest(ix) = ix
  /\ op' = "idle"
  /\ UNCHANGED <<heap, null, n_items, c_items, growable, ix, ret>>
-----------------------------------------------------------------------------
(* A call that follows the NULL pointer, or the indeterminate slots of the
   block a second realloc(NULL, ...) returns, has no defined behaviour: the
   model stops there. *)
UseLostHeap ==
  /\ op = "idle"
  /\ null
  /\ c_items > 0
  /\ op' = "undefined"
  /\ UNCHANGED <<heap, null, n_items, c_items, growable, ix, ret>>

Loop == SiftUp \/ SiftUpDone \/ SiftDown \/ SiftDownDone

Next ==
  \/ AddRefused
  \/ AddGrowFails
  \/ \E msg \in Msg : AddInsert(msg)
  \/ RemoveEmpty
  \/ RemoveRoot
  \/ UseLostHeap
  \/ Loop

Spec == Init /\ [][Next]_vars

(* The thread inside a call keeps running. *)
FairSpec == Spec /\ WF_vars(Loop)
-----------------------------------------------------------------------------
(* The state of a queue, in and between calls. *)
TypeOK ==
  /\ c_items \in Nat
  /\ n_items \in Nat
  /\ heap \in [0 .. c_items - 1 -> Msg]
  /\ null \in BOOLEAN
  /\ growable \in BOOLEAN
  /\ op \in {"idle", "add", "remove", "undefined"}
  /\ ix \in Nat
  /\ ret \in Msg \cup {NULL, 0, 1}

(* Between calls no message is due before its parent in the heap: both sift
   loops (queue.c:63-69 and 86-111) leave the heap ordered. *)
HeapOrdered ==
  op = "idle" => \A i \in 1 .. c_items - 1 : HEAP_P(HEAP_PARENT(i)) <= HEAP_P(i)

(* No slot holds a message a second slot holds: the exchanges and the move of
   the last message to the root (queue.c:64-66, 82, 104-106) neither duplicate
   a pointer nor drop one. *)
Distinct ==
  \A i, j \in 0 .. c_items - 1 : heap[i] = heap[j] => i = j

(* An add stays in the allocated block (queue.c:46-61, "fails if no space",
   queue.h:89). *)
Fits == c_items <= n_items

(* While the queue counts messages, the block that holds them is reachable, so
   that a removal can answer the head (queue.h:92, "NULL if queue is empty"). *)
HeadReachable == c_items > 0 => ~null

(* Only a full queue is without its block: the capacity is put back after a
   failed realloc (queue.c:50-55), so a later add asks realloc again and does
   not write through the NULL pointer. *)
LostOnlyWhenFull == null => Full

(* The heap does what a priority queue promises: a removal answers a message
   that no queued message precedes and takes out only that one, an add that
   answers 1 puts in its message, one that answers 0 changes nothing, also when
   it answers 0 for want of memory (queue.c:44-115). *)
Queue == INSTANCE PriorityQueue WITH items <- Stored

ImplementsQueue == Queue!Spec

(* Every call ends: the sift loops stop (queue.c:63, 103-110). *)
CallsReturn == op \in {"add", "remove"} ~> op = "idle"
-----------------------------------------------------------------------------
(* The heap order with a hole at ix: a sift up may find ix out of order with its
   parent, a sift down with its children; everything under the hole is in order
   with what is above it. *)
InOrder(i) == HEAP_P(HEAP_PARENT(i)) <= HEAP_P(i)

OrderedButIx ==
  \A i \in 1 .. c_items - 1 :
    \/ op = "add" /\ i = ix
    \/ op = "remove" /\ HEAP_PARENT(i) = ix
    \/ InOrder(i)

HoleInOrder ==
  \A i \in 1 .. c_items - 1 :
    op # "idle" /\ ix > 0 /\ HEAP_PARENT(i) = ix
      => HEAP_P(HEAP_PARENT(ix)) <= HEAP_P(i)

IxInHeap ==
  /\ op = "add" => ix < c_items
  /\ op = "remove" => ix = 0 \/ ix < c_items

(* The inductive invariant that the theorems of MsgHeapProofs rest on. *)
HeapInv ==
  /\ TypeOK
  /\ IxInHeap
  /\ null => op \in {"idle", "undefined"}
  /\ op # "undefined" => OrderedButIx /\ HoleInOrder
  /\ Distinct
=============================================================================
