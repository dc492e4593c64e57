----------------------- MODULE MsgQueueThreadsProofs -----------------------
(***************************************************************************)
(* The threads of MsgQueueThreads, proved for every number of producers    *)
(* and consumers, every script, every mix of the four functions, every     *)
(* threshold and capacity, with and without spurious wakeups.              *)
(***************************************************************************)
EXTENDS MsgQueueThreads, TLAPS

(* At most one thread is inside a locked region. *)
LEMMA Exclusion ==
  ASSUME LockHeldInside, NEW s \in Threads, NEW t \in Threads,
         pc[s] \in Inside, pc[t] \in Inside
  PROVE  s = t
  BY DEF LockHeldInside

(* The earliest messages are due together. *)
LEMMA EarliestAgree ==
  ASSUME ThreadsAssumption, items \subseteq Msg, now \in Nat, HeadIsDue
  PROVE  /\ items # {}
         /\ \A h \in Queue!Earliest(items) : IsDue(h)
<1>1. PICK g \in Queue!Earliest(items) : IsDue(g)
  BY DEF HeadIsDue
<1>2. g \in items /\ \A m \in items : Due[g] <= Due[m] /\ Due[m] \in Int
  BY <1>1 DEF Queue!Earliest, ThreadsAssumption
<1>3. ASSUME NEW h \in Queue!Earliest(items)
      PROVE  IsDue(h)
  <2>1. h \in items /\ Due[h] <= Due[g]
    BY <1>2 DEF Queue!Earliest
  <2> QED
    BY <1>1, <1>2, <2>1 DEF IsDue, ThreadsAssumption
<1> QED
  BY <1>2, <1>3
-----------------------------------------------------------------------------
(* A step that only moves one thread, and takes or gives the lock with it. *)
LEMMA MoveStep ==
  ASSUME ThreadsInv, NEW t \in Threads, NEW to \in Places,
         UNCHANGED <<items, ret, msg, next, now, delivered, refused>>,
         pc' = [pc EXCEPT ![t] = to],
         \/ lock \in {t, NULL} /\ lock' = IF to \in Inside THEN t ELSE NULL
         \/ pc[t] \notin Inside /\ to \notin Inside /\ lock' = lock,
         t \in Producers =>
           /\ to \in {"call", "add", "unlock", "done"}
           /\ to \in {"call", "add"} => next[t] <= Len(Script[t]),
         t \in Consumers =>
           /\ to # "add"
           /\ to = "check" => Call[t] # "remove_s"
           /\ to \in {"wait", "woken"} => Call[t] \in Takes
           /\ t \in Loops => to # "done"
           /\ msg[t] = NULL
           /\ to = "unlock" => Call[t] \notin Takes
           /\ to = "remove" /\ Call[t] # "remove_s" =>
                /\ items # {}
                /\ Call[t] \in WantsDue => \A h \in Queue!Earliest(items) : IsDue(h)
  PROVE  ThreadsInv'
<1> USE ThreadsAssumption DEF ThreadsInv
<1>1. \A s \in Threads : pc'[s] = IF s = t THEN to ELSE pc[s]
  BY DEF TypeOK
<1>2. TypeOK'
  BY DEF TypeOK
<1>3. PlacesFit'
  BY <1>1 DEF PlacesFit, Threads
<1>4. LockHeldInside'
  BY <1>1 DEF LockHeldInside, ThreadsAssumption
<1>5. HeadStays'
  BY <1>1 DEF HeadStays, Threads, IsDue, Queue!Earliest
<1>6. MsgAtUnlock' /\ TakeReturnsMessage'
  BY <1>1 DEF MsgAtUnlock, TakeReturnsMessage, Threads
<1>7. NeverEarly'
  BY DEF NeverEarly, IsDue
<1>8. EachInOnePlace'
  <2>1. Added' = Added /\ Held' = Held
    BY DEF Added, Held
  <2> QED
    BY <2>1 DEF EachInOnePlace
<1> QED
  BY <1>2, <1>3, <1>4, <1>5, <1>6, <1>7, <1>8

(* The step of an add: its message is a new one, and the thread it wakes, if any,
   was waiting. *)
LEMMA NextMessage ==
  ASSUME ThreadsInv, NEW p \in Producers, pc[p] = "add"
  PROVE  /\ Script[p][next[p]] \in Msg
         /\ Script[p][next[p]] \notin Added
         /\ next' = [next EXCEPT ![p] = @ + 1]
              => Added' = Added \cup {Script[p][next[p]]}
<1> DEFINE n == next[p]
<1>1. n \in 1 .. Len(Script[p]) /\ Script[p] \in Seq(Msg)
  BY ThreadsAssumption DEF ThreadsInv, TypeOK, PlacesFit, ThreadsAssumption
<1>2. \A q \in Producers : /\ next[q] \in Nat \ {0} /\ Script[q] \in Seq(Msg)
                           /\ next[q] <= Len(Script[q]) + 1
  BY ThreadsAssumption DEF ThreadsInv, TypeOK, PlacesFit, ThreadsAssumption
<1>3. \A q \in Producers : \A i \in 1 .. next[q] - 1 : i \in DOMAIN Script[q]
  BY <1>2
<1>4. Script[p][n] \in Msg /\ n \in DOMAIN Script[p]
  BY <1>1
<1>5. Script[p][n] \notin Added
  <2> SUFFICES ASSUME NEW q \in Producers, NEW i \in 1 .. next[q] - 1,
                      Script[q][i] = Script[p][n]
               PROVE  FALSE
    BY DEF Added
  <2>1. q = p /\ i = n
    BY <1>3, <1>4, ScriptsAddOnce
  <2> QED
    BY <2>1, <1>1
<1>6. ASSUME next' = [next EXCEPT ![p] = @ + 1]
      PROVE  Added' = Added \cup {Script[p][n]}
  <2>1. \A q \in Producers : next'[q] = IF q = p THEN n + 1 ELSE next[q]
    BY <1>6 DEF ThreadsInv, TypeOK
  <2>2. 1 .. n + 1 - 1 = (1 .. n - 1) \cup {n}
    BY <1>1
  <2>3. \A q \in Producers :
          1 .. next'[q] - 1 = IF q = p THEN (1 .. n - 1) \cup {n} ELSE 1 .. next[q] - 1
    <3> TAKE q \in Producers
    <3>1. CASE q = p
      BY <3>1, <2>1, <2>2
    <3>2. CASE q # p
      <4>1. next'[q] = next[q]
        BY <3>2, <2>1
      <4> QED
        BY <4>1, <3>2
    <3> QED
      BY <3>1, <3>2
  <2> HIDE DEF n
  <2>4. ASSUME NEW m
        PROVE  m \in Added' <=> m \in Added \cup {Script[p][n]}
    <3>1. m \in Added' <=> \E q \in Producers : \E i \in 1 .. next'[q] - 1 : m = Script[q][i]
      BY DEF Added
    <3>2. m \in Added <=> \E q \in Producers : \E i \in 1 .. next[q] - 1 : m = Script[q][i]
      BY DEF Added
    <3> QED
      BY <3>1, <3>2, <2>3 DEF n
  <2> QED
    BY <2>4
<1> QED
  BY <1>4, <1>5, <1>6
-----------------------------------------------------------------------------
(* An add outside a full queue, with the signal for the message that ends
   emptiness. *)
LEMMA AddStep ==
  ASSUME ThreadsInv, NEW p \in Producers, Add(p)
  PROVE  ThreadsInv'
<1> DEFINE m == Script[p][next[p]]
<1> USE ThreadsAssumption
<1>0. /\ p \in Threads /\ p \notin Consumers /\ lock = p /\ pc[p] = "add"
      /\ m \in Msg /\ m \notin Added /\ m # NULL
      /\ Added' = Added \cup {m}
      /\ next[p] <= Len(Script[p]) /\ Script[p] \in Seq(Msg)
  BY NextMessage
     DEF Add, ThreadsInv, LockHeldInside, Inside, PlacesFit, ThreadsAssumption, Threads
<1>1. /\ items' = items \cup {m} /\ m \notin items /\ ret' = 1
      /\ UNCHANGED <<lock, msg, now, delivered, refused>>
      /\ next' = [next EXCEPT ![p] = @ + 1]
  BY DEF Add, Queue!Add
<1>2. /\ pc' \in [Threads -> Places]
      /\ pc'[p] = "unlock"
      /\ \A s \in Threads \ {p} :
           \/ pc'[s] = pc[s]
           \/ s \in Consumers /\ pc[s] = "wait" /\ pc'[s] = "woken"
  <2>1. pc \in [Threads -> Places]
    BY DEF ThreadsInv, TypeOK
  <2>2. CASE pc' = [pc EXCEPT ![p] = "unlock"]
    BY <1>0, <2>1, <2>2 DEF Places
  <2>3. ASSUME NEW w \in Waiting, pc' = [pc EXCEPT ![p] = "unlock", ![w] = "woken"]
        PROVE  <1>2!:
    <3>1. w \in Consumers /\ pc[w] = "wait" /\ w # p /\ w \in Threads
      BY <1>0, <2>3 DEF Waiting, Threads
    <3> QED
      BY <1>0, <2>1, <2>3, <3>1 DEF Places
  <2> QED
    BY <2>2, <2>3 DEF Add, SignalOne
<1> HIDE DEF m
<1>3. \A s \in Threads \ {p} : pc[s] \notin Inside
  BY <1>0, Exclusion DEF ThreadsInv, Inside
<1>4. TypeOK'
  BY <1>0, <1>1, <1>2 DEF ThreadsInv, TypeOK
<1>5. PlacesFit'
  <2>1. next'[p] = next[p] + 1 /\ next[p] \in Nat
        /\ \A q \in Producers \ {p} : next'[q] = next[q]
    BY <1>1 DEF ThreadsInv, TypeOK
  <2>2. ASSUME NEW q \in Producers
        PROVE  /\ pc'[q] \in {"call", "add", "unlock", "done"}
               /\ next'[q] <= Len(Script[q]) + 1
               /\ pc'[q] \in {"call", "add"} => next'[q] <= Len(Script[q])
    <3>1. /\ pc[q] \in {"call", "add", "unlock", "done"}
          /\ next[q] <= Len(Script[q]) + 1
          /\ pc[q] \in {"call", "add"} => next[q] <= Len(Script[q])
      BY DEF ThreadsInv, PlacesFit
    <3>2. CASE q = p
      <4>1. Len(Script[p]) \in Nat
        BY <1>0
      <4>2. next'[p] <= Len(Script[p]) + 1
        BY ONLY <1>0, <2>1, <4>1
      <4> QED
        BY <1>2, <3>2, <4>2
    <3>3. CASE q # p
      <4>1. pc'[q] = pc[q] /\ next'[q] = next[q]
        BY <1>2, <2>1, <3>3 DEF Threads, ThreadsAssumption
      <4> QED
        BY <3>1, <4>1
    <3> QED
      BY <3>2, <3>3
  <2>3. ASSUME NEW c \in Consumers
        PROVE  /\ pc'[c] # "add"
               /\ pc'[c] = "check" => Call[c] # "remove_s"
               /\ pc'[c] \in {"wait", "woken"} => Call[c] \in Takes
               /\ c \in Loops => pc'[c] # "done"
    BY <1>0, <1>2 DEF ThreadsInv, PlacesFit, Threads
  <2> QED
    BY <2>2, <2>3 DEF PlacesFit
<1>6. LockHeldInside'
  BY <1>0, <1>1, <1>2, <1>3 DEF ThreadsInv, LockHeldInside, Inside
<1>7. HeadStays'
  BY <1>0, <1>2, <1>3 DEF HeadStays, Inside, Threads
<1>8. MsgAtUnlock' /\ TakeReturnsMessage' /\ NeverEarly'
  BY <1>0, <1>1, <1>2
     DEF ThreadsInv, MsgAtUnlock, TakeReturnsMessage, NeverEarly, IsDue, Threads
<1>9. EachInOnePlace'
  <2>1. Held' = Held
    BY <1>1 DEF Held
  <2> QED
    BY <2>1, <1>0, <1>1 DEF ThreadsInv, EachInOnePlace
<1> QED
  BY <1>4, <1>5, <1>6, <1>7, <1>8, <1>9 DEF ThreadsInv

(* An add of a full queue. *)
LEMMA AddRefusedStep ==
  ASSUME ThreadsInv, NEW p \in Producers, AddRefused(p)
  PROVE  ThreadsInv'
<1> DEFINE m == Script[p][next[p]]
<1> USE ThreadsAssumption
<1>0. /\ p \in Threads /\ p \notin Consumers /\ lock = p /\ pc[p] = "add"
      /\ m \in Msg /\ m \notin Added
      /\ Added' = Added \cup {m}
      /\ next[p] <= Len(Script[p]) /\ Script[p] \in Seq(Msg)
  BY NextMessage
     DEF AddRefused, ThreadsInv, LockHeldInside, Inside, PlacesFit,
         ThreadsAssumption, Threads
<1>1. /\ ret' = 0 /\ refused' = refused \cup {m}
      /\ UNCHANGED <<items, lock, msg, now, delivered>>
      /\ next' = [next EXCEPT ![p] = @ + 1]
  BY DEF AddRefused, Queue!Refuse
<1>2. /\ pc' \in [Threads -> Places]
      /\ pc'[p] = "unlock"
      /\ \A s \in Threads \ {p} : pc'[s] = pc[s]
  BY <1>0 DEF AddRefused, ThreadsInv, TypeOK, Places
<1> HIDE DEF m
<1>4. TypeOK'
  BY <1>0, <1>1, <1>2 DEF ThreadsInv, TypeOK
<1>5. PlacesFit'
  <2>1. next'[p] = next[p] + 1 /\ next[p] \in Nat
        /\ \A q \in Producers \ {p} : next'[q] = next[q]
    BY <1>1 DEF ThreadsInv, TypeOK
  <2>2. ASSUME NEW q \in Producers
        PROVE  /\ pc'[q] \in {"call", "add", "unlock", "done"}
               /\ next'[q] <= Len(Script[q]) + 1
               /\ pc'[q] \in {"call", "add"} => next'[q] <= Len(Script[q])
    <3>1. /\ pc[q] \in {"call", "add", "unlock", "done"}
          /\ next[q] <= Len(Script[q]) + 1
          /\ pc[q] \in {"call", "add"} => next[q] <= Len(Script[q])
      BY DEF ThreadsInv, PlacesFit
    <3>2. CASE q = p
      <4>1. Len(Script[p]) \in Nat
        BY <1>0
      <4>2. next'[p] <= Len(Script[p]) + 1
        BY ONLY <1>0, <2>1, <4>1
      <4> QED
        BY <1>2, <3>2, <4>2
    <3>3. CASE q # p
      <4>1. pc'[q] = pc[q] /\ next'[q] = next[q]
        BY <1>2, <2>1, <3>3 DEF Threads, ThreadsAssumption
      <4> QED
        BY <3>1, <4>1
    <3> QED
      BY <3>2, <3>3
  <2>3. \A c \in Consumers : pc'[c] = pc[c]
    BY <1>0, <1>2 DEF Threads
  <2> QED
    BY <2>2, <2>3 DEF PlacesFit, ThreadsInv
<1>6. LockHeldInside'
  BY <1>0, <1>1, <1>2 DEF ThreadsInv, LockHeldInside, Inside
<1>7. HeadStays' /\ MsgAtUnlock' /\ TakeReturnsMessage' /\ NeverEarly'
  BY <1>0, <1>1, <1>2
     DEF ThreadsInv, HeadStays, MsgAtUnlock, TakeReturnsMessage, NeverEarly, IsDue,
         Queue!Earliest, Threads
<1>8. EachInOnePlace'
  <2>1. Held' = Held
    BY <1>1 DEF Held
  <2> QED
    BY <2>1, <1>0, <1>1 DEF ThreadsInv, EachInOnePlace
<1> QED
  BY <1>4, <1>5, <1>6, <1>7, <1>8 DEF ThreadsInv
-----------------------------------------------------------------------------
(* A removal moves a message from the heap to the hands of the call.  Only
   remove_s can find the heap empty. *)
LEMMA RemoveStep ==
  ASSUME ThreadsInv, NEW c \in Consumers, Remove(c)
  PROVE  ThreadsInv'
<1> USE ThreadsAssumption
<1>0. /\ c \in Threads /\ c \notin Producers /\ lock = c /\ pc[c] = "remove"
      /\ msg[c] = NULL
  BY DEF Remove, ThreadsInv, LockHeldInside, Inside, MsgAtUnlock, ThreadsAssumption,
         Threads
<1>1. /\ UNCHANGED <<lock, next, now, delivered, refused>>
      /\ pc' \in [Threads -> Places]
      /\ pc'[c] = "unlock"
      /\ \A s \in Threads \ {c} : pc'[s] = pc[s]
      /\ msg' = [msg EXCEPT ![c] = ret']
  BY <1>0 DEF Remove, ThreadsInv, TypeOK, Places
<1>2. \A s \in Threads \ {c} : pc[s] \notin Inside
  BY <1>0, Exclusion DEF ThreadsInv, Inside
<1>3. \/ /\ ret' \in Queue!Earliest(items) /\ ret' \in items
         /\ items' = items \ {ret'}
      \/ /\ items = {} /\ items' = items /\ ret' = NULL
  BY DEF Remove, Queue!Remove, Queue!RemoveEmpty, Queue!Earliest
<1>4. TypeOK'
  BY <1>1, <1>3 DEF ThreadsInv, TypeOK
<1>5. PlacesFit'
  BY <1>0, <1>1 DEF ThreadsInv, PlacesFit, Threads
<1>6. LockHeldInside'
  BY <1>0, <1>1 DEF ThreadsInv, LockHeldInside, Inside
<1>7. HeadStays'
  BY <1>1, <1>2 DEF HeadStays, Inside, Threads
<1>8. \A d \in Consumers : msg'[d] = IF d = c THEN ret' ELSE msg[d]
  BY <1>1 DEF ThreadsInv, TypeOK
<1>9. MsgAtUnlock'
  BY <1>0, <1>1, <1>8 DEF ThreadsInv, MsgAtUnlock, Threads
<1>10. TakeReturnsMessage'
  <2> SUFFICES ASSUME NEW d \in Consumers, pc'[d] = "unlock", Call[d] \in Takes
               PROVE  msg'[d] # NULL
    BY DEF TakeReturnsMessage
  <2>1. CASE d = c
    <3>1. items # {}
      BY <1>0, <2>1 DEF ThreadsInv, HeadStays, Takes
    <3>2. ret' \in Msg
      BY <3>1, <1>3 DEF ThreadsInv, TypeOK
    <3> QED
      BY <2>1, <3>2, <1>8 DEF ThreadsAssumption
  <2>2. CASE d # c
    BY <2>2, <1>1, <1>2 DEF Inside, Threads
  <2> QED
    BY <2>1, <2>2
<1>11. NeverEarly'
  <2> SUFFICES ASSUME NEW d \in Consumers, msg'[d] # NULL, Call[d] \in WantsDue
               PROVE  IsDue(msg'[d])
    BY <1>1 DEF NeverEarly, IsDue
  <2>1. CASE d = c
    <3>1. ret' \in Queue!Earliest(items)
      BY <2>1, <1>3, <1>8
    <3>2. \A h \in Queue!Earliest(items) : IsDue(h)
      BY <1>0, <2>1 DEF ThreadsInv, HeadStays, WantsDue
    <3> QED
      BY <2>1, <3>1, <3>2, <1>8
  <2>2. CASE d # c
    BY <2>2, <1>8 DEF ThreadsInv, NeverEarly
  <2> QED
    BY <2>1, <2>2
<1>12. EachInOnePlace'
  <2>1. Added' = Added
    BY <1>1 DEF Added
  <2>2. Held' = Held \cup ({ret'} \ {NULL})
    BY <1>0, <1>8 DEF Held
  <2>3. ret' # NULL => ret' \in items /\ items' = items \ {ret'}
    BY <1>3
  <2>4. ret' = NULL => items' = items
    BY <1>3 DEF ThreadsInv, TypeOK, ThreadsAssumption
  <2>5. \A d \in Consumers : msg[d] # NULL => msg[d] \in Held
    BY DEF Held
  <2> USE DEF ThreadsInv, EachInOnePlace
  <2>6. Held \cap items = {}
    OBVIOUS
  <2>7. Added' = (refused \cup items \cup Held \cup delivered)'
    BY <1>1, <2>1, <2>2, <2>3, <2>4
  <2>8. (items \cap (Held \cup delivered) = {})'
    BY <1>1, <2>2, <2>3, <2>4
  <2>9. (refused \cap (items \cup Held \cup delivered) = {})'
    BY <1>1, <2>2, <2>3, <2>4
  <2>10. (Held \cap delivered = {})'
    BY <1>1, <2>2, <2>3
  <2>11. (\A d, e \in Consumers : msg[d] = msg[e] /\ msg[d] # NULL => d = e)'
    BY <1>8, <2>3, <2>5, <2>6
  <2> QED
    BY <2>7, <2>8, <2>9, <2>10, <2>11
<1> QED
  BY <1>4, <1>5, <1>6, <1>7, <1>9, <1>10, <1>11, <1>12 DEF ThreadsInv

(* A return gives the lock back and hands the message to the caller. *)
LEMMA ReturnStep ==
  ASSUME ThreadsInv, NEW c \in Consumers, Return(c)
  PROVE  ThreadsInv'
<1> USE ThreadsAssumption
<1>0. c \in Threads /\ c \notin Producers /\ lock = c /\ pc[c] = "unlock"
  BY DEF Return, ThreadsInv, LockHeldInside, Inside, ThreadsAssumption, Threads
<1>1. /\ UNCHANGED <<items, ret, next, now, refused>>
      /\ lock' = NULL
      /\ delivered' = delivered \cup ({msg[c]} \ {NULL})
      /\ pc' \in [Threads -> Places]
      /\ pc'[c] = IF c \in Loops THEN "call" ELSE "done"
      /\ \A s \in Threads \ {c} : pc'[s] = pc[s]
  BY <1>0 DEF Return, ThreadsInv, TypeOK, Places
<1>2. \A d \in Consumers : msg'[d] = IF d = c THEN NULL ELSE msg[d]
  BY DEF Return, ThreadsInv, TypeOK
<1>3. msg[c] \in Msg \cup {NULL} /\ msg' \in [Consumers -> Msg \cup {NULL}]
  BY DEF Return, ThreadsInv, TypeOK
<1>4. TypeOK'
  BY <1>1, <1>3 DEF ThreadsInv, TypeOK
<1>5. PlacesFit'
  BY <1>0, <1>1 DEF ThreadsInv, PlacesFit, Threads
<1>6. LockHeldInside'
  BY <1>0, <1>1 DEF ThreadsInv, LockHeldInside, Inside, ThreadsAssumption
<1>7. HeadStays'
  BY <1>0, <1>1 DEF ThreadsInv, HeadStays, IsDue, Queue!Earliest, Threads
<1>8. MsgAtUnlock' /\ TakeReturnsMessage' /\ NeverEarly'
  BY <1>0, <1>1, <1>2
     DEF ThreadsInv, MsgAtUnlock, TakeReturnsMessage, NeverEarly, IsDue, Threads
<1>9. EachInOnePlace'
  <2>1. Added' = Added
    BY <1>1 DEF Added
  <2> USE DEF ThreadsInv, EachInOnePlace
  <2>2. Held' = Held \ {msg[c]}
    BY <1>2 DEF Held
  <2>3. {msg[c]} \ {NULL} \subseteq Held
    BY DEF Held
  <2>4. Held' \cup delivered' = Held \cup delivered
    BY <1>1, <2>2, <2>3 DEF Held
  <2>5. (Held \cap delivered = {})'
    BY <1>1, <2>2
  <2>6. (\A d, e \in Consumers : msg[d] = msg[e] /\ msg[d] # NULL => d = e)'
    BY <1>2
  <2> QED
    BY <1>1, <2>1, <2>4, <2>5, <2>6
<1> QED
  BY <1>4, <1>5, <1>6, <1>7, <1>8, <1>9 DEF ThreadsInv

(* Time makes messages more due. *)
LEMMA TickStep ==
  ASSUME ThreadsInv, Tick
  PROVE  ThreadsInv'
<1> USE ThreadsAssumption
<1>1. /\ UNCHANGED <<items, ret, lock, pc, msg, next, delivered, refused>>
      /\ now' = now + 1 /\ now \in Nat
  BY DEF Tick, ThreadsInv, TypeOK
<1>2. \A m \in Msg : IsDue(m) => IsDue(m)'
  BY <1>1 DEF IsDue, ThreadsAssumption
<1>3. items \subseteq Msg /\ msg \in [Consumers -> Msg \cup {NULL}]
  BY DEF ThreadsInv, TypeOK
<1>4. TypeOK' /\ PlacesFit' /\ LockHeldInside' /\ MsgAtUnlock' /\ TakeReturnsMessage'
  BY <1>1 DEF ThreadsInv, TypeOK, PlacesFit, LockHeldInside, MsgAtUnlock,
              TakeReturnsMessage
<1>5. HeadStays'
  BY <1>1, <1>2, <1>3 DEF ThreadsInv, HeadStays, Queue!Earliest
<1>6. NeverEarly'
  BY <1>1, <1>2, <1>3 DEF ThreadsInv, NeverEarly
<1>7. EachInOnePlace'
  <2>1. Added' = Added /\ Held' = Held
    BY <1>1 DEF Added, Held
  <2> QED
    BY <1>1, <2>1 DEF ThreadsInv, EachInOnePlace
<1> QED
  BY <1>4, <1>5, <1>6, <1>7 DEF ThreadsInv
-----------------------------------------------------------------------------
(* The steps that only move a thread. *)
LEMMA MovingSteps ==
  ASSUME ThreadsInv, NEW t \in Threads,
         \/ Lock(t)
         \/ t \in Producers /\ AddReturns(t)
         \/ t \in Consumers /\
              (WaitForItem(t) \/ NapTillDue(t) \/ NoneDue(t) \/ HeadFound(t)
                \/ SpuriousWakeup(t))
  PROVE  ThreadsInv'
<1> USE ThreadsAssumption
<1>1. /\ t \in Consumers => t \notin Producers
      /\ pc[t] \in Inside <=> lock = t
      /\ t \in Consumers /\ pc[t] # "unlock" => msg[t] = NULL
      /\ t \in Producers => pc[t] \in {"call", "add", "unlock", "done"}
      /\ t \in Producers /\ pc[t] \in {"call", "add"} => next[t] <= Len(Script[t])
      /\ t \in Consumers /\ pc[t] = "check" => Call[t] # "remove_s"
      /\ t \in Consumers /\ pc[t] \in {"wait", "woken"} => Call[t] \in Takes
  BY DEF ThreadsInv, LockHeldInside, MsgAtUnlock, PlacesFit, ThreadsAssumption
<1> USE DEF Inside
<1>2. CASE Lock(t) /\ t \in Producers
  <2>1. pc' = [pc EXCEPT ![t] = "add"] /\ "add" \in Places /\ pc[t] \in {"call", "add"}
    BY <1>1, <1>2 DEF Lock, Places
  <2> QED
    BY <1>1, <1>2, <2>1, MoveStep DEF Lock, ThreadsAssumption
<1>3. CASE Lock(t) /\ t \in Consumers /\ Call[t] = "remove_s"
  <2>1. pc' = [pc EXCEPT ![t] = "remove"] /\ "remove" \in Places
    BY <1>1, <1>3 DEF Lock, Places
  <2> QED
    BY <1>1, <1>3, <2>1, MoveStep DEF Lock
<1>4. CASE Lock(t) /\ t \in Consumers /\ Call[t] # "remove_s"
  <2>1. pc' = [pc EXCEPT ![t] = "check"] /\ "check" \in Places
    BY <1>1, <1>4 DEF Lock, Places
  <2> QED
    BY <1>1, <1>4, <2>1, MoveStep DEF Lock
<1>5. CASE t \in Producers /\ AddReturns(t)
  <2>1. /\ StartOf(t, next[t]) \in {"call", "done"} /\ t \notin Consumers
        /\ StartOf(t, next[t]) = "call" => next[t] <= Len(Script[t])
    BY <1>1, <1>5 DEF StartOf
  <2>2. StartOf(t, next[t]) \in Places
    BY <2>1 DEF Places
  <2> QED
    BY <1>1, <1>5, <2>1, <2>2, MoveStep DEF AddReturns
<1>6. CASE t \in Consumers /\ WaitForItem(t)
  <2>1. "wait" \in Places
    BY DEF Places
  <2> QED
    BY <1>1, <1>6, <2>1, MoveStep DEF WaitForItem
<1>7. CASE t \in Consumers /\ NapTillDue(t)
  <2>1. "nap" \in Places
    BY DEF Places
  <2> QED
    BY <1>1, <1>7, <2>1, MoveStep DEF NapTillDue
<1>8. CASE t \in Consumers /\ NoneDue(t)
  <2>1. "unlock" \in Places
    BY DEF Places
  <2> QED
    BY <1>1, <1>8, <2>1, MoveStep DEF NoneDue, Takes
<1>9. CASE t \in Consumers /\ HeadFound(t)
  <2>1. "remove" \in Places
    BY DEF Places
  <2>2. Call[t] \in WantsDue => \A h \in Queue!Earliest(items) : IsDue(h)
    BY <1>9, EarliestAgree DEF HeadFound, ThreadsInv, TypeOK
  <2> QED
    BY <1>1, <1>9, <2>1, <2>2, MoveStep DEF HeadFound
<1>10. CASE t \in Consumers /\ SpuriousWakeup(t)
  <2>1. "woken" \in Places
    BY DEF Places
  <2> QED
    BY <1>1, <1>10, <2>1, MoveStep DEF SpuriousWakeup
<1>11. CASE Lock(t)
  BY <1>2, <1>3, <1>4, <1>11, Zenon DEF Threads
<1> QED
  BY <1>5, <1>6, <1>7, <1>8, <1>9, <1>10, <1>11

(* Every reachable state of the threads satisfies the inductive invariant. *)
THEOREM ThreadsInvariant == Spec => []ThreadsInv
<1> USE ThreadsAssumption
<1>1. Init => ThreadsInv
  <2> SUFFICES ASSUME Init
               PROVE  ThreadsInv
    OBVIOUS
  <2>1. \A t \in Threads : pc[t] = IF t \in Producers THEN StartOf(t, 1) ELSE "call"
    BY DEF Init
  <2>2. \A p \in Producers : /\ next[p] = 1 /\ Len(Script[p]) \in Nat
                             /\ StartOf(p, 1) \in {"call", "done"}
                             /\ StartOf(p, 1) = "call" => 1 <= Len(Script[p])
    BY DEF Init, StartOf, ThreadsAssumption
  <2>3. TypeOK
    BY <2>2 DEF Init, TypeOK, Queue!Init, Places
  <2>4. PlacesFit
    BY <2>1, <2>2 DEF PlacesFit, Threads, ThreadsAssumption
  <2>5. LockHeldInside
    BY <2>1, <2>2 DEF Init, LockHeldInside, Inside, ThreadsAssumption
  <2>6. HeadStays /\ MsgAtUnlock /\ TakeReturnsMessage /\ NeverEarly
    BY <2>1 DEF Init, HeadStays, MsgAtUnlock, TakeReturnsMessage, NeverEarly, Threads,
                ThreadsAssumption
  <2>7. Added = {} /\ Held = {}
    BY <2>2 DEF Init, Added, Held
  <2> QED
    BY <2>3, <2>4, <2>5, <2>6, <2>7 DEF Init, Queue!Init, EachInOnePlace, ThreadsInv
<1>2. ThreadsInv /\ [Next]_vars => ThreadsInv'
  <2> SUFFICES ASSUME ThreadsInv, [Next]_vars
               PROVE  ThreadsInv'
    OBVIOUS
  <2>1. CASE \E t \in Threads : Lock(t)
    BY <2>1, MovingSteps
  <2>2. CASE \E p \in Producers : Produce(p)
    BY <2>2, AddStep, AddRefusedStep, MovingSteps DEF Produce, Threads
  <2>3. CASE \E c \in Consumers : Consume(c) \/ SpuriousWakeup(c)
    BY <2>3, RemoveStep, ReturnStep, MovingSteps DEF Consume, Threads
  <2>4. CASE Tick
    BY <2>4, TickStep
  <2>5. CASE UNCHANGED vars
    <3>1. Added' = Added /\ Held' = Held
      BY <2>5 DEF vars, Added, Held
    <3>2. EachInOnePlace'
      BY <2>5, <3>1 DEF vars, EachInOnePlace, ThreadsInv
    <3> QED
      BY <2>5, <3>2
         DEF vars, ThreadsInv, TypeOK, PlacesFit, LockHeldInside, HeadStays,
             MsgAtUnlock, TakeReturnsMessage, NeverEarly, IsDue, Queue!Earliest
  <2> QED
    BY <2>1, <2>2, <2>3, <2>4, <2>5 DEF Next
<1> QED
  BY <1>1, <1>2, PTL DEF Spec

(* take_s and take_due_s never return NULL. *)
THEOREM TakeNeverNull == Spec => []TakeReturnsMessage
  BY ThreadsInvariant, PTL DEF ThreadsInv

(* No consumer of due messages gets one early. *)
THEOREM NoneEarly == Spec => []NeverEarly
  BY ThreadsInvariant, PTL DEF ThreadsInv

(* A thread is in a locked region when it holds the lock, and at no other time. *)
THEOREM MutualExclusion == Spec => []LockHeldInside
  BY ThreadsInvariant, PTL DEF ThreadsInv

(* No message is lost, none is delivered twice. *)
THEOREM Conservation == Spec => []EachInOnePlace
  BY ThreadsInvariant, PTL DEF ThreadsInv
-----------------------------------------------------------------------------
(* When every consumer calls again for ever, they never all wait while there is
   a message: a signal for the message that ends emptiness is enough. *)
THEOREM NoneStranded ==
  ASSUME Loops = Consumers, Consumers # {}
  PROVE  Spec => []SomeoneAwake
<1> USE ThreadsAssumption
<1>1. Init => SomeoneAwake
  BY DEF Init, Queue!Init, SomeoneAwake
<1>2. ThreadsInv /\ SomeoneAwake /\ [Next]_vars => SomeoneAwake'
  <2> SUFFICES ASSUME ThreadsInv, SomeoneAwake, [Next]_vars
               PROVE  SomeoneAwake'
    OBVIOUS
  <2>1. /\ pc \in [Threads -> Places] /\ Consumers \subseteq Threads
        /\ \A c \in Consumers : pc[c] # "done" /\ c \notin Producers
    BY DEF ThreadsInv, TypeOK, PlacesFit, Threads, ThreadsAssumption
  <2>2. ASSUME NEW t \in Threads, Lock(t)
        PROVE  SomeoneAwake'
    BY <2>1, <2>2 DEF Lock, SomeoneAwake
  <2>3. ASSUME NEW p \in Producers, Add(p)
        PROVE  SomeoneAwake'
    <3>1. CASE items # {}
      BY <2>1, <2>3, <3>1 DEF Add, SomeoneAwake
    <3>2. CASE items = {} /\ Waiting = {}
      BY <2>1, <2>3, <3>2 DEF Add, SignalOne, Waiting, SomeoneAwake
    <3>3. CASE items = {} /\ Waiting # {}
      <4>1. PICK w \in Waiting : pc' = [pc EXCEPT ![p] = "unlock", ![w] = "woken"]
        BY <2>3, <3>3 DEF Add, SignalOne
      <4>2. w \in Consumers /\ pc'[w] = "woken"
        BY <2>1, <4>1 DEF Waiting
      <4> QED
        BY <4>2 DEF SomeoneAwake
    <3> QED
      BY <3>1, <3>2, <3>3
  <2>4. ASSUME NEW p \in Producers, AddRefused(p) \/ AddReturns(p)
        PROVE  SomeoneAwake'
    BY <2>1, <2>4 DEF AddRefused, AddReturns, Queue!Refuse, SomeoneAwake
  <2>5. ASSUME NEW c \in Consumers, WaitForItem(c)
        PROVE  SomeoneAwake'
    BY <2>5 DEF WaitForItem, SomeoneAwake
  <2>6. ASSUME NEW c \in Consumers,
               \/ NapTillDue(c) \/ NoneDue(c) \/ HeadFound(c) \/ Remove(c)
               \/ Return(c) \/ SpuriousWakeup(c)
        PROVE  SomeoneAwake'
    <3>1. pc'[c] \notin {"wait", "done"}
      BY <2>1, <2>6
         DEF NapTillDue, NoneDue, HeadFound, Remove, Return, SpuriousWakeup
    <3> QED
      BY <3>1 DEF SomeoneAwake
  <2>7. CASE Tick \/ UNCHANGED vars
    BY <2>7 DEF Tick, vars, SomeoneAwake
  <2> QED
    BY <2>2, <2>3, <2>4, <2>5, <2>6, <2>7 DEF Next, Produce, Consume
<1> QED
  BY <1>1, <1>2, ThreadsInvariant, PTL DEF Spec

(* One producer that adds in order of due time has its messages taken in that
   order, by however many consumers of whatever functions. *)
THEOREM OneProducerInOrder ==
  ASSUME \A p, q \in Producers : p = q,
         \A p \in Producers : \A i, j \in DOMAIN Script[p] :
           i <= j => Due[Script[p][i]] <= Due[Script[p][j]]
  PROVE  Spec => []TakenInOrder
<1> USE ThreadsAssumption
<1>1. Init => TakenInOrder
  BY DEF Init, Queue!Init, TakenInOrder
<1>2. ThreadsInv /\ TakenInOrder /\ [Next]_vars => TakenInOrder'
  <2> SUFFICES ASSUME ThreadsInv, TakenInOrder, [Next]_vars
               PROVE  TakenInOrder'
    OBVIOUS
  <2>1. ASSUME UNCHANGED <<items, msg, delivered>>
        PROVE  TakenInOrder'
    BY <2>1 DEF TakenInOrder, Held
  <2>2. ASSUME NEW p \in Producers, Add(p)
        PROVE  TakenInOrder'
    <3> DEFINE m == Script[p][next[p]]
    <3>1. /\ items' = items \cup {m} /\ Held' = Held /\ delivered' = delivered
          /\ next[p] \in DOMAIN Script[p] /\ next[p] \in Nat /\ Len(Script[p]) \in Nat
      <4>1. next[p] <= Len(Script[p]) /\ next[p] \in Nat \ {0} /\ Script[p] \in Seq(Msg)
        BY <2>2 DEF Add, ThreadsInv, TypeOK, PlacesFit, ThreadsAssumption
      <4> QED
        BY <2>2, <4>1 DEF Add, Queue!Add, Held
    <3>2. ASSUME NEW taken \in Held \cup delivered
          PROVE  Due[taken] <= Due[m]
      <4>1. taken \in Added
        BY DEF ThreadsInv, EachInOnePlace
      <4>2. PICK i \in 1 .. next[p] - 1 : taken = Script[p][i]
        BY <4>1 DEF Added
      <4>3. i \in DOMAIN Script[p] /\ i <= next[p]
        <5>1. Script[p] \in Seq(Msg)
          BY DEF ThreadsAssumption
        <5>2. next[p] \in 1 .. Len(Script[p])
          BY <3>1, <5>1
        <5> QED
          BY <5>1, <5>2
      <4> QED
        BY <3>1, <4>2, <4>3
    <3> QED
      BY <3>1, <3>2 DEF TakenInOrder
  <2>3. ASSUME NEW c \in Consumers, Remove(c)
        PROVE  TakenInOrder'
    <3>1. msg[c] = NULL /\ \A d \in Consumers : msg'[d] = IF d = c THEN ret' ELSE msg[d]
      BY <2>3 DEF Remove, ThreadsInv, TypeOK, MsgAtUnlock
    <3>2. Held' = Held \cup ({ret'} \ {NULL}) /\ delivered' = delivered
      BY <2>3, <3>1 DEF Held, Remove
    <3>3. \/ /\ items' = items \ {ret'}
             /\ \A m \in items : Due[ret'] <= Due[m]
          \/ ret' = NULL /\ items' = items
      BY <2>3 DEF Remove, Queue!Remove, Queue!RemoveEmpty, Queue!Earliest
    <3> QED
      BY <3>2, <3>3 DEF TakenInOrder
  <2>4. ASSUME NEW c \in Consumers, Return(c)
        PROVE  TakenInOrder'
    <3>1. /\ \A d \in Consumers : msg'[d] = IF d = c THEN NULL ELSE msg[d]
          /\ items' = items
          /\ delivered' = delivered \cup ({msg[c]} \ {NULL})
      BY <2>4 DEF Return, ThreadsInv, TypeOK
    <3>2. Held' \cup delivered' \subseteq Held \cup delivered
      BY <3>1 DEF Held
    <3> QED
      BY <3>1, <3>2 DEF TakenInOrder
  <2>5. CASE \E t \in Threads : Lock(t)
    BY <2>1, <2>5 DEF Lock
  <2>6. CASE \E p \in Producers : AddRefused(p) \/ AddReturns(p)
    BY <2>1, <2>6 DEF AddRefused, AddReturns, Queue!Refuse
  <2>7. CASE \E c \in Consumers :
               \/ WaitForItem(c) \/ NapTillDue(c) \/ NoneDue(c) \/ HeadFound(c)
               \/ SpuriousWakeup(c)
    BY <2>1, <2>7 DEF WaitForItem, NapTillDue, NoneDue, HeadFound, SpuriousWakeup
  <2>8. CASE Tick \/ UNCHANGED vars
    BY <2>1, <2>8 DEF Tick, vars
  <2> QED
    BY <2>2, <2>3, <2>4, <2>5, <2>6, <2>7, <2>8 DEF Next, Produce, Consume
<1> QED
  BY <1>1, <1>2, ThreadsInvariant, PTL DEF Spec

(* Threads that ask for due messages deliver each once and when it is due. *)
THEOREM ThreadsImplementDelivery ==
  ASSUME \A c \in Consumers : Call[c] \in WantsDue
  PROVE  Spec => ImplementsDelivery
<1> USE ThreadsAssumption
<1> DEFINE Pending == items \cup Held
<1>1. Init => Delivery!Init
  BY DEF Init, Queue!Init, Delivery!Init, Held
<1>2. ThreadsInv /\ [Next]_vars => [Delivery!Next]_(Delivery!vars)
  <2> SUFFICES ASSUME ThreadsInv, [Next]_vars
               PROVE  [Delivery!Next]_(Delivery!vars)
    OBVIOUS
  <2>1. ASSUME UNCHANGED <<items, msg, now, delivered>>
        PROVE  UNCHANGED Delivery!vars
    BY <2>1 DEF Delivery!vars, Held
  <2>2. ASSUME NEW p \in Producers, Add(p)
        PROVE  Delivery!Next
    <3> DEFINE m == Script[p][next[p]]
    <3>1. m \in Msg /\ m \notin Added
      BY <2>2, NextMessage DEF Add
    <3>2. m \notin Pending \cup delivered
      BY <3>1 DEF ThreadsInv, EachInOnePlace
    <3>3. Pending' = Pending \cup {m}
      BY <2>2 DEF Add, Queue!Add, Held
    <3>4. Delivery!Post(m)
      BY <2>2, <3>2, <3>3 DEF Add, Delivery!Post
    <3> QED
      BY <3>1, <3>4 DEF Delivery!Next
  <2>3. ASSUME NEW c \in Consumers, Remove(c)
        PROVE  UNCHANGED Delivery!vars
    <3>1. msg[c] = NULL /\ \A d \in Consumers : msg'[d] = IF d = c THEN ret' ELSE msg[d]
      BY <2>3 DEF Remove, ThreadsInv, TypeOK, MsgAtUnlock
    <3>2. Held' = Held \cup ({ret'} \ {NULL})
      BY <3>1 DEF Held
    <3>3. \/ ret' \in items /\ items' = items \ {ret'}
          \/ ret' = NULL /\ items' = items
      BY <2>3 DEF Remove, Queue!Remove, Queue!RemoveEmpty, Queue!Earliest
    <3>4. NULL \notin items
      BY DEF ThreadsInv, TypeOK, ThreadsAssumption
    <3>5. Pending' = Pending
      BY <3>2, <3>3, <3>4
    <3> QED
      BY <2>3, <3>5 DEF Remove, Delivery!vars
  <2>4. ASSUME NEW c \in Consumers, Return(c)
        PROVE  [Delivery!Next]_(Delivery!vars)
    <3>1. /\ \A d \in Consumers : msg'[d] = IF d = c THEN NULL ELSE msg[d]
          /\ UNCHANGED <<items, now>>
          /\ delivered' = delivered \cup ({msg[c]} \ {NULL})
      BY <2>4 DEF Return, ThreadsInv, TypeOK
    <3>2. CASE msg[c] = NULL
      <4>1. Held' = Held
        BY <3>1, <3>2 DEF Held
      <4> QED
        BY <3>1, <3>2, <4>1 DEF Delivery!vars
    <3>3. CASE msg[c] # NULL
      <4>1. msg[c] \in Msg /\ msg[c] \in Held
        BY <3>3 DEF ThreadsInv, TypeOK, Held
      <4>2. Held' = Held \ {msg[c]}
        <5>1. \A d, e \in Consumers : msg[d] = msg[e] /\ msg[d] # NULL => d = e
          BY DEF ThreadsInv, EachInOnePlace
        <5>2. \A x : x \in Held' <=> x # NULL /\ \E d \in Consumers : x = msg'[d]
          BY DEF Held
        <5>3. \A x : x \in Held <=> x # NULL /\ \E d \in Consumers : x = msg[d]
          BY DEF Held
        <5> QED
          BY ONLY <5>1, <5>2, <5>3, <3>1, <3>3, c \in Consumers
      <4>3. Pending' = Pending \ {msg[c]}
        BY <3>1, <4>1, <4>2 DEF ThreadsInv, EachInOnePlace
      <4>4. Due[msg[c]] <= now + Threshold
        BY <3>3, <4>1 DEF ThreadsInv, TypeOK, NeverEarly, IsDue, ThreadsAssumption
      <4>5. Delivery!Deliver(msg[c])
        BY <3>1, <3>3, <4>1, <4>3, <4>4 DEF Delivery!Deliver
      <4> QED
        BY <4>1, <4>5 DEF Delivery!Next
    <3> QED
      BY <3>2, <3>3
  <2>5. CASE Tick
    <3>1. Held' = Held
      BY <2>5 DEF Tick, Held
    <3> QED
      BY <2>5, <3>1 DEF Tick, Delivery!Tick, Delivery!Next
  <2>6. CASE \E t \in Threads : Lock(t)
    BY <2>1, <2>6 DEF Lock
  <2>7. CASE \E p \in Producers : AddRefused(p) \/ AddReturns(p)
    BY <2>1, <2>7 DEF AddRefused, AddReturns, Queue!Refuse
  <2>8. CASE \E c \in Consumers :
               \/ WaitForItem(c) \/ NapTillDue(c) \/ NoneDue(c) \/ HeadFound(c)
               \/ SpuriousWakeup(c)
    BY <2>1, <2>8 DEF WaitForItem, NapTillDue, NoneDue, HeadFound, SpuriousWakeup
  <2>9. CASE UNCHANGED vars
    BY <2>1, <2>9 DEF vars
  <2> QED
    BY <2>2, <2>3, <2>4, <2>5, <2>6, <2>7, <2>8, <2>9 DEF Next, Produce, Consume
<1> QED
  BY <1>1, <1>2, ThreadsInvariant, PTL DEF Spec, ImplementsDelivery, Delivery!Spec
=============================================================================
