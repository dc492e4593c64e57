----------------------------- MODULE MCMsgHeap -----------------------------
(* Small queues for TLC: six messages, two pairs of them due together, so that
   the heap is three levels deep and ties occur on each level. *)
EXTENDS MsgHeap, TLC

CONSTANTS m1, m2, m3, m4, m5, m6

MCMsg == {m1, m2, m3, m4, m5, m6}

MCDue == m1 :> 0 @@ m2 :> 1 @@ m3 :> 1 @@ m4 :> 2 @@ m5 :> 2 @@ m6 :> 3

MCFewMsg == {m1, m2, m3, m4}

MCFewDue == m1 :> 0 @@ m2 :> 1 @@ m3 :> 1 @@ m4 :> 2
=============================================================================
