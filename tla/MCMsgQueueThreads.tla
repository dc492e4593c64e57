------------------------- MODULE MCMsgQueueThreads -------------------------
(* Threads around small queues for TLC.  Main* is main.c with three messages, of
   which two are due together, and three consumers; Mixed* has one consumer for
   each of the four functions and two producers out of order; OneShot* two
   consumers that call take_s once. *)
EXTENDS MsgQueueThreads, TLC

CONSTANTS p1, p2, c1, c2, c3, c4, m1, m2, m3

MCMsg == {m1, m2, m3}
MCDue == m1 :> 1 @@ m2 :> 2 @@ m3 :> 2

MainScript == p1 :> <<m1, m2, m3>>
MainConsumers == {c1, c2, c3}
MainCall == [c \in MainConsumers |-> "take_due_s"]

MixedScript == p1 :> <<m3, m1>> @@ p2 :> <<m2>>
MixedConsumers == {c1, c2, c3, c4}
MixedCall == c1 :> "remove_s" @@ c2 :> "remove_due_s" @@ c3 :> "take_s" @@
             c4 :> "take_due_s"
MixedLoops == {c2, c4}

OneShotConsumers == {c1, c2}
OneShotCall == [c \in OneShotConsumers |-> "take_s"]
=============================================================================
