--------------------------- MODULE TimedDelivery ---------------------------
(***************************************************************************)
(* What the threads that share a message queue get out of it: every        *)
(* message posted is delivered once, to one of them, and not before it is  *)
(* due.  MsgQueueThreads implements it when its consumers ask for due      *)
(* messages.                                                               *)
(***************************************************************************)
EXTENDS Integers

CONSTANTS
  Msg,
  Due,
  Threshold,   \* how long before its time a message counts as due
  MaxTime      \* where the clock stops

VARIABLES
  now,         \* the clock
  pending,     \* messages posted and not yet delivered
  delivered    \* messages delivered

vars == <<now, pending, delivered>>

Init == now = 0 /\ pending = {} /\ delivered = {}

Post(m) ==
  /\ m \notin pending \cup delivered
  /\ pending' = pending \cup {m}
  /\ UNCHANGED <<now, delivered>>

Deliver(m) ==
  /\ m \in pending
  /\ Due[m] <= now + Threshold
  /\ pending' = pending \ {m}
  /\ delivered' = delivered \cup {m}
  /\ UNCHANGED now

Tick ==
  /\ now < MaxTime
  /\ now' = now + 1
  /\ UNCHANGED <<pending, delivered>>

Next == (\E m \in Msg : Post(m) \/ Deliver(m)) \/ Tick

Spec == Init /\ [][Next]_vars

(* No message is kept for ever. *)
Promise == \A m \in Msg : m \in pending ~> m \in delivered
=============================================================================
