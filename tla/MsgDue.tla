------------------------------- MODULE MsgDue -------------------------------
(***************************************************************************)
(* The struct timeval arithmetic of ideas/queue/queue.h and the test       *)
(* _osc_is_msg_due of queue.c, against one number for a time.  MsgHeap and *)
(* MsgQueueThreads take times as numbers; this module is why they may.     *)
(***************************************************************************)
EXTENDS Integers

CONSTANTS
  Times,       \* the struct timevals of the clock and of messages
  Thresholds,  \* the threshold arguments that callers pass, NULL among them
  NULL

Million == 1000000

Timeval == [tv_sec : Int, tv_usec : 0 .. Million - 1]

Micros(t) == Million * t.tv_sec + t.tv_usec

(* A threshold is how long before its time a message may be taken. *)
ASSUME MsgDueAssumption ==
  /\ Times \subseteq Timeval
  /\ NULL \notin Timeval
  /\ \A t \in Thresholds \ {NULL} : t \in Timeval /\ t.tv_sec >= 0

VARIABLES
  now,        \* what OSC_TIME_MK_NOW reads
  due,        \* the due time of the message at the root
  threshold,
  diff,       \* the caller's struct timeval diff
  answer,     \* what _osc_is_msg_due answers
  pc          \* "idle", or what _osc_is_msg_due does next

vars == <<now, due, threshold, diff, answer, pc>>

(* Mutants of TimevalDiff: negative microseconds stay; no second is borrowed. *)
DiffNegative(t1, t2) ==
  [tv_sec |-> t2.tv_sec - t1.tv_sec, tv_usec |-> t2.tv_usec - t1.tv_usec]

DiffNoBorrow(t1, t2) ==
  LET usec == t2.tv_usec - t1.tv_usec
  IN [tv_sec  |-> t2.tv_sec - t1.tv_sec,
      tv_usec |-> IF usec < 0 THEN usec + Million ELSE usec]

(* OSC_TIMEVAL_DIFF, where out may be t2. *)
TimevalDiff(t1, t2) ==
  LET sec  == t2.tv_sec - t1.tv_sec
      usec == t2.tv_usec - t1.tv_usec
  IN IF usec < 0
     THEN [tv_sec |-> sec - 1, tv_usec |-> usec + Million]
     ELSE [tv_sec |-> sec, tv_usec |-> usec]

(* Mutant of TimeLater: the microseconds count first. *)
LaterUsecFirst(t1, t2) ==
  IF t1.tv_usec = t2.tv_usec THEN t1.tv_sec > t2.tv_sec ELSE t1.tv_usec > t2.tv_usec

(* OSC_TIME_CMP(t1, >, t2), as both sift loops use it. *)
TimeLater(t1, t2) ==
  IF t1.tv_sec = t2.tv_sec THEN t1.tv_usec > t2.tv_usec ELSE t1.tv_sec > t2.tv_sec

IsZero(t) == t.tv_sec = 0 /\ t.tv_usec = 0

Init ==
  /\ now \in Times /\ due \in Times /\ threshold \in Thresholds
  /\ diff = [tv_sec |-> 0, tv_usec |-> 0]
  /\ answer = FALSE
  /\ pc = "idle"

Answer(a) == answer' = a /\ pc' = "idle"

(* OSC_TIME_DIFF(now, HEAP_MSG_P(msg), diff), and the two answers it decides. *)
IsMsgDue ==
  /\ pc = "idle"
  /\ now' \in Times /\ due' \in Times /\ threshold' \in Thresholds
  /\ diff' = TimevalDiff(now', due')
  /\ IF diff'.tv_sec < 0 THEN Answer(TRUE)
     ELSE IF threshold' = NULL THEN Answer(IsZero(diff'))
     ELSE pc' = "threshold" /\ UNCHANGED answer

(* OSC_TIMEVAL_DIFF(threshold, diff, diff). *)
WithinThreshold ==
  /\ pc = "threshold"
  /\ diff' = TimevalDiff(threshold, diff)
  /\ Answer(diff'.tv_sec < 0 \/ IsZero(diff'))
  /\ UNCHANGED <<now, due, threshold>>

Spec == Init /\ [][IsMsgDue \/ WithinThreshold]_vars
-----------------------------------------------------------------------------
Early == IF threshold = NULL THEN 0 ELSE Micros(threshold)

(* A message is due from its time less the threshold on, to the microsecond
   (queue.c:149-160): what MsgQueueThreads!IsDue says of numbers. *)
DueInTime ==
  [][pc' = "idle" => (answer' <=> Micros(due') - Micros(now') <= Early')]_vars

(* "out->tv_usec is always +ve ... negative results can therefore be identified by
   checking sign of out->tv_sec only" (queue.h:10-13), also of a difference of
   differences. *)
SignInSeconds ==
  /\ diff \in Timeval
  /\ diff.tv_sec < 0 <=> Micros(diff) < 0

(* The comparison of the heap orders times as their numbers are (queue.h:37-39). *)
ComparesAsNumbers == TimeLater(now, due) <=> Micros(now) > Micros(due)
=============================================================================
