------------------------------ MODULE MCMsgDue ------------------------------
(* Times around second boundaries, to borrow and not to borrow. *)
EXTENDS MsgDue

MCTimes == [tv_sec : 0 .. 2, tv_usec : {0, 1, 500000, 999999}]

MCThresholds == [tv_sec : 0 .. 1, tv_usec : {0, 1, 999999}] \cup {NULL}
=============================================================================
