--------------------------- MODULE PriorityQueue ---------------------------
(***************************************************************************)
(* What a message queue promises to its callers, without the heap: a set   *)
(* of messages from which a removal takes one that no other precedes.      *)
(* MsgHeap implements it, and the critical sections of MsgQueueThreads are *)
(* written with its operators.                                             *)
(***************************************************************************)
EXTENDS Integers

CONSTANTS
  Msg,      \* the messages (osc_msg_t objects of the callers)
  Due,      \* the time each message is due
  NULL      \* the answer of a removal from an empty queue

VARIABLES
  items,    \* the messages in the queue
  ret       \* what the last call answered: 1 or 0 (an add), a message or NULL

vars == <<items, ret>>

(* Mutant of Earliest: a heap with the comparison turned round. *)
Latest(Q) == {m \in Q : \A n \in Q : Due[m] >= Due[n]}

(* The messages of Q that no message of Q precedes. *)
Earliest(Q) == {m \in Q : \A n \in Q : Due[m] <= Due[n]}

Init == items = {} /\ ret = NULL

Add(m) ==
  /\ m \notin items
  /\ items' = items \cup {m}
  /\ ret' = 1

(* An add that finds no space answers 0, and the queue is as it was. *)
Refuse ==
  /\ ret' = 0
  /\ UNCHANGED items

Remove ==
  /\ \E m \in Earliest(items) : items' = items \ {m} /\ ret' = m

RemoveEmpty ==
  /\ items = {}
  /\ ret' = NULL
  /\ UNCHANGED items

Next == (\E m \in Msg : Add(m)) \/ Refuse \/ Remove \/ RemoveEmpty

Spec == Init /\ [][Next]_vars
=============================================================================
