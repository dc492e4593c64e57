-------------------------- MODULE MsgQueueThreads --------------------------
(***************************************************************************)
(* Threads that share one osc_msg_queue_t through the thread-safe          *)
(* functions of ideas/queue/queue.c, as ideas/queue/main.c runs them:      *)
(* producers add the messages of their scripts, consumers call one of      *)
(* remove_s, remove_due_s, take_s and take_due_s.                          *)
(*                                                                         *)
(* The queue inside the lock is the priority queue that MsgHeap            *)
(* implements.  A step is what a thread does between two points where      *)
(* another thread, the clock or the scheduler can come in between; the     *)
(* test of the head and the removal are two steps although the lock is     *)
(* held from one to the other.                                             *)
(***************************************************************************)
EXTENDS Integers, Sequences, FiniteSets

CONSTANTS
  Producers, Consumers,
  Msg, Due, NULL,
  Script,      \* the messages a producer adds, in order
  Call,        \* the function a consumer calls
  Loops,       \* the consumers that call it again after it returns
  Threshold,   \* the threshold argument of the *_due_s calls, 0 for NULL
  Capacity,    \* n_items of a queue that is not growable
  Growable,
  Spurious,    \* whether pthread_cond_wait may return without a signal
  MaxTime      \* where the clock stops

Threads == Producers \cup Consumers

Takes == {"take_s", "take_due_s"}
WantsDue == {"remove_due_s", "take_due_s"}

ASSUME ThreadsAssumption ==
  /\ Producers \cap Consumers = {}
  /\ NULL \notin Threads \cup Msg
  /\ Due \in [Msg -> Int]
  /\ Script \in [Producers -> Seq(Msg)]
  /\ Call \in [Consumers -> Takes \cup {"remove_s", "remove_due_s"}]
  /\ Loops \subseteq Consumers
  /\ Threshold \in Nat
  /\ Growable \in BOOLEAN
  /\ Spurious \in BOOLEAN
  /\ MaxTime \in Nat

(* No message is added twice: items[] of main.c. *)
ASSUME ScriptsAddOnce ==
  \A p, q \in Producers :
    \A i \in DOMAIN Script[p], j \in DOMAIN Script[q] :
      Script[p][i] = Script[q][j] => p = q /\ i = j

VARIABLES
  items,       \* the messages in the heap
  ret,         \* what the last call on the heap answered
  lock,        \* the thread that holds queue->lock, or NULL
  pc,          \* where each thread is
  msg,         \* the local msg of each consumer's call
  next,        \* the index of each producer's next message
  now,         \* the clock of gettimeofday
  delivered,   \* the messages that calls have returned
  refused      \* the messages an add answered 0 for

vars == <<items, ret, lock, pc, msg, next, now, delivered, refused>>

Queue == INSTANCE PriorityQueue

(* The threads blocked in pthread_cond_wait. *)
Waiting == {c \in Consumers : pc[c] = "wait"}

(* Mutant of IsDue: the difference taken the other way round. *)
IsDueSwapped(m) == now - Due[m] <= Threshold

(* _osc_is_msg_due, over one number for a struct timeval. *)
IsDue(m) == Due[m] - now <= Threshold

HeadIsDue == \E h \in Queue!Earliest(items) : IsDue(h)

Full == ~Growable /\ Cardinality(items) = Capacity

StartOf(p, i) == IF i <= Len(Script[p]) THEN "call" ELSE "done"

Init ==
  /\ Queue!Init
  /\ lock = NULL
  /\ pc = [t \in Threads |-> IF t \in Producers THEN StartOf(t, 1) ELSE "call"]
  /\ msg = [c \in Consumers |-> NULL]
  /\ next = [p \in Producers |-> 1]
  /\ now = 0
  /\ delivered = {}
  /\ refused = {}
-----------------------------------------------------------------------------
(* Mutants of Lock: no mutual exclusion; a wait in an if in place of a while. *)
LockFree(t) ==
  /\ pc[t] \in {"call", "woken", "nap"}
  /\ lock' = t
  /\ pc' = [pc EXCEPT ![t] = IF t \in Producers THEN "add"
                             ELSE IF Call[t] = "remove_s" THEN "remove"
                             ELSE "check"]
  /\ UNCHANGED <<items, ret, msg, next, now, delivered, refused>>

LockTestOnce(t) ==
  /\ pc[t] \in {"call", "woken", "nap"}
  /\ lock = NULL
  /\ lock' = t
  /\ pc' = [pc EXCEPT ![t] = IF t \in Producers THEN "add"
                             ELSE IF Call[t] = "remove_s" \/ pc[t] = "woken"
                             THEN "remove"
                             ELSE "check"]
  /\ UNCHANGED <<items, ret, msg, next, now, delivered, refused>>

(* LOCK, at the start of a call, when pthread_cond_wait comes back and after
   usleep. *)
Lock(t) ==
  /\ pc[t] \in {"call", "woken", "nap"}
  /\ lock = NULL
  /\ lock' = t
  /\ pc' = [pc EXCEPT ![t] = IF t \in Producers THEN "add"
                             ELSE IF Call[t] = "remove_s" THEN "remove"
                             ELSE "check"]
  /\ UNCHANGED <<items, ret, msg, next, now, delivered, refused>>

(* Mutant of SignalOne: was_empty is read after the add, and is never true. *)
NoSignal(p) == pc' = [pc EXCEPT ![p] = "unlock"]

(* pthread_cond_signal wakes one of the waiting threads, if there is one. *)
SignalOne(p) ==
  IF Waiting = {}
  THEN pc' = [pc EXCEPT ![p] = "unlock"]
  ELSE \E w \in Waiting : pc' = [pc EXCEPT ![p] = "unlock", ![w] = "woken"]

(* osc_msg_queue_add_s: a signal only for the message that ends emptiness. *)
Add(p) ==
  /\ pc[p] = "add"
  /\ ~Full
  /\ Queue!Add(Script[p][next[p]])
  /\ IF items = {} THEN SignalOne(p) ELSE pc' = [pc EXCEPT ![p] = "unlock"]
  /\ next' = [next EXCEPT ![p] = @ + 1]
  /\ UNCHANGED <<lock, msg, now, delivered, refused>>

(* osc_msg_queue_add_s of a full queue that may not grow.  (The growth that fails is
   MsgHeap's AddGrowFails: the next call on the queue that lost its block ends the
   program.) *)
AddRefused(p) ==
  /\ pc[p] = "add"
  /\ Full
  /\ Queue!Refuse
  /\ pc' = [pc EXCEPT ![p] = "unlock"]
  /\ refused' = refused \cup {Script[p][next[p]]}
  /\ next' = [next EXCEPT ![p] = @ + 1]
  /\ UNCHANGED <<lock, msg, now, delivered>>

(* The producer ignores the answer and goes on to its next message. *)
AddReturns(p) ==
  /\ pc[p] = "unlock"
  /\ lock' = NULL
  /\ pc' = [pc EXCEPT ![p] = StartOf(p, next[p])]
  /\ UNCHANGED <<items, ret, msg, next, now, delivered, refused>>
-----------------------------------------------------------------------------
(* take_s and take_due_s find no message: pthread_cond_wait releases the lock. *)
WaitForItem(c) ==
  /\ pc[c] = "check"
  /\ Call[c] \in Takes
  /\ items = {}
  /\ lock' = NULL
  /\ pc' = [pc EXCEPT ![c] = "wait"]
  /\ UNCHANGED <<items, ret, msg, next, now, delivered, refused>>

(* Mutant of NapTillDue: it sleeps with the lock. *)
NapHoldingLock(c) ==
  /\ pc[c] = "check"
  /\ Call[c] = "take_due_s"
  /\ items # {}
  /\ ~HeadIsDue
  /\ pc' = [pc EXCEPT ![c] = "nap"]
  /\ UNCHANGED <<items, ret, lock, msg, next, now, delivered, refused>>

(* take_due_s finds a head that is not due: it unlocks and sleeps. *)
NapTillDue(c) ==
  /\ pc[c] = "check"
  /\ Call[c] = "take_due_s"
  /\ items # {}
  /\ ~HeadIsDue
  /\ lock' = NULL
  /\ pc' = [pc EXCEPT ![c] = "nap"]
  /\ UNCHANGED <<items, ret, msg, next, now, delivered, refused>>

(* remove_due_s finds no head that is due, and will return NULL. *)
NoneDue(c) ==
  /\ pc[c] = "check"
  /\ Call[c] = "remove_due_s"
  /\ items # {} => ~HeadIsDue
  /\ pc' = [pc EXCEPT ![c] = "unlock"]
  /\ UNCHANGED <<items, ret, lock, msg, next, now, delivered, refused>>

(* Mutant of HeadFound: take_due_s takes what it waited for, due or not. *)
HeadFoundUntested(c) ==
  /\ pc[c] = "check"
  /\ items # {}
  /\ Call[c] = "remove_due_s" => HeadIsDue
  /\ pc' = [pc EXCEPT ![c] = "remove"]
  /\ UNCHANGED <<items, ret, lock, msg, next, now, delivered, refused>>

(* The three functions that test the head find one that they may remove. *)
HeadFound(c) ==
  /\ pc[c] = "check"
  /\ items # {}
  /\ Call[c] \in WantsDue => HeadIsDue
  /\ pc' = [pc EXCEPT ![c] = "remove"]
  /\ UNCHANGED <<items, ret, lock, msg, next, now, delivered, refused>>

(* Mutant of Remove: the head is read and stays in the heap. *)
Peek(c) ==
  /\ pc[c] = "remove"
  /\ ret' \in Queue!Earliest(items) \cup {NULL}
  /\ msg' = [msg EXCEPT ![c] = ret']
  /\ pc' = [pc EXCEPT ![c] = "unlock"]
  /\ UNCHANGED <<items, lock, next, now, delivered, refused>>

(* msg = osc_msg_queue_remove(queue). *)
Remove(c) ==
  /\ pc[c] = "remove"
  /\ Queue!Remove \/ Queue!RemoveEmpty
  /\ msg' = [msg EXCEPT ![c] = ret']
  /\ pc' = [pc EXCEPT ![c] = "unlock"]
  /\ UNCHANGED <<lock, next, now, delivered, refused>>

(* UNLOCK and return msg. *)
Return(c) ==
  /\ pc[c] = "unlock"
  /\ lock' = NULL
  /\ delivered' = delivered \cup ({msg[c]} \ {NULL})
  /\ msg' = [msg EXCEPT ![c] = NULL]
  /\ pc' = [pc EXCEPT ![c] = IF c \in Loops THEN "call" ELSE "done"]
  /\ UNCHANGED <<items, ret, next, now, refused>>

SpuriousWakeup(c) ==
  /\ Spurious
  /\ pc[c] = "wait"
  /\ pc' = [pc EXCEPT ![c] = "woken"]
  /\ UNCHANGED <<items, ret, lock, msg, next, now, delivered, refused>>

Tick ==
  /\ now < MaxTime
  /\ now' = now + 1
  /\ UNCHANGED <<items, ret, lock, pc, msg, next, delivered, refused>>
-----------------------------------------------------------------------------
(* What a thread does while it holds the lock. *)
Produce(p) == Add(p) \/ AddRefused(p) \/ AddReturns(p)

Consume(c) ==
  \/ WaitForItem(c)
  \/ NapTillDue(c)
  \/ NoneDue(c)
  \/ HeadFound(c)
  \/ Remove(c)
  \/ Return(c)

Next ==
  \/ \E t \in Threads : Lock(t)
  \/ \E p \in Producers : Produce(p)
  \/ \E c \in Consumers : Consume(c) \/ SpuriousWakeup(c)
  \/ Tick

Spec == Init /\ [][Next]_vars

(* Running threads run on, time passes, and a thread that keeps asking for a
   mutex that keeps becoming free gets it. *)
Fairness ==
  /\ \A t \in Threads : SF_vars(Lock(t))
  /\ \A p \in Producers : WF_vars(Produce(p))
  /\ \A c \in Consumers : WF_vars(Consume(c))
  /\ WF_vars(Tick)

FairSpec == Spec /\ Fairness
-----------------------------------------------------------------------------
Places ==
  {"call", "add", "check", "remove", "unlock", "wait", "woken", "nap", "done"}

(* The state of the queue and of the threads. *)
TypeOK ==
  /\ items \subseteq Msg
  /\ ret \in Msg \cup {NULL, 0, 1}
  /\ lock \in Threads \cup {NULL}
  /\ pc \in [Threads -> Places]
  /\ msg \in [Consumers -> Msg \cup {NULL}]
  /\ next \in [Producers -> Nat \ {0}]
  /\ now \in Nat
  /\ delivered \subseteq Msg
  /\ refused \subseteq Msg

Inside == {"add", "check", "remove", "unlock"}

(* Exactly the thread inside a locked region holds the lock: pthread_cond_wait
   and usleep are reached without it, each return gives it back
   (queue.c:131-223). *)
LockHeldInside == \A t \in Threads : pc[t] \in Inside <=> lock = t

(* take_s and take_due_s return a message, never NULL: the head that was tested
   is still there when it is removed, and a thread that wakes tests again
   (queue.c:178-185, 193-219; queue.h:98, 101). *)
TakeReturnsMessage ==
  \A c \in Consumers :
    pc[c] = "unlock" /\ Call[c] \in Takes => msg[c] # NULL

(* remove_due_s and take_due_s return no message before it is due, whatever
   other threads take or add while they wait, nap or test (queue.c:165-170,
   197-200). *)
NeverEarly ==
  \A c \in Consumers :
    msg[c] # NULL /\ Call[c] \in WantsDue => IsDue(msg[c])

Held == {msg[c] : c \in Consumers} \ {NULL}

Added == UNION {{Script[p][i] : i \in 1 .. next[p] - 1} : p \in Producers}

(* A message whose add answered is in one place: refused, in the heap, in the
   hands of one call, or returned by one call.  None is lost between a removal
   and its return, none is given to two consumers (queue.c:131-223). *)
EachInOnePlace ==
  /\ Added = refused \cup items \cup Held \cup delivered
  /\ items \cap (Held \cup delivered) = {}
  /\ refused \cap (items \cup Held \cup delivered) = {}
  /\ Held \cap delivered = {}
  /\ \A c, d \in Consumers : msg[c] = msg[d] /\ msg[c] # NULL => c = d

(* When consumers call again for ever (main.c:30-37), they do not all wait while
   the queue holds a message, although only the add that ends emptiness signals
   and wakes only one of them (queue.c:133-137). *)
SomeoneAwake ==
  items # {} => \E c \in Consumers : pc[c] \notin {"wait", "done"}

(* One producer that adds in order of due time (main.c:15-27) has its messages
   taken in that order, by however many consumers (queue.c:190-223). *)
TakenInOrder ==
  \A taken \in Held \cup delivered, m \in items : Due[taken] <= Due[m]

(* What consumers of due messages are promised: each message once, not before it
   is due. *)
Delivery == INSTANCE TimedDelivery WITH pending <- items \cup Held

ImplementsDelivery == Delivery!Spec

(* ... and every message that was added, in the end. *)
DeliversAll == Delivery!Promise

(* A thread that waits for an item (queue.h:98, 101) while there is one does not
   wait for ever: it is woken or another thread takes the items. *)
WaitEnds ==
  \A c \in Consumers :
    pc[c] = "wait" /\ items # {} ~> pc[c] # "wait" \/ items = {}
-----------------------------------------------------------------------------
(* Between its test and its removal no other thread moves the head, and time only
   makes it more due. *)
HeadStays ==
  \A c \in Consumers :
    pc[c] = "remove" /\ Call[c] # "remove_s" =>
      /\ items # {}
      /\ Call[c] \in WantsDue => \A h \in Queue!Earliest(items) : IsDue(h)

(* The local msg is set only between a removal and the return. *)
MsgAtUnlock ==
  \A c \in Consumers : pc[c] # "unlock" => msg[c] = NULL

PlacesFit ==
  /\ \A p \in Producers :
       /\ pc[p] \in {"call", "add", "unlock", "done"}
       /\ next[p] <= Len(Script[p]) + 1
       /\ pc[p] \in {"call", "add"} => next[p] <= Len(Script[p])
  /\ \A c \in Consumers :
       /\ pc[c] # "add"
       /\ pc[c] = "check" => Call[c] # "remove_s"
       /\ pc[c] \in {"wait", "woken"} => Call[c] \in Takes
       /\ c \in Loops => pc[c] # "done"

(* The inductive invariant of MsgQueueThreadsProofs. *)
ThreadsInv ==
  /\ TypeOK
  /\ PlacesFit
  /\ LockHeldInside
  /\ HeadStays
  /\ MsgAtUnlock
  /\ TakeReturnsMessage
  /\ NeverEarly
  /\ EachInOnePlace
=============================================================================
