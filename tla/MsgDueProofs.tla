---------------------------- MODULE MsgDueProofs ----------------------------
(***************************************************************************)
(* The time arithmetic of MsgDue for all times and thresholds.             *)
(***************************************************************************)
EXTENDS MsgDue, TLAPS

(* All that the proofs need to know of the number. *)
LEMMA SecondPositive == Million \in Nat /\ Million > 0
  BY SMT DEF Million

(* OSC_TIMEVAL_DIFF keeps the microseconds in a second and is the difference of the
   numbers. *)
LEMMA Difference ==
  ASSUME NEW t1 \in Timeval, NEW t2 \in Timeval
  PROVE  /\ TimevalDiff(t1, t2) \in Timeval
         /\ Micros(TimevalDiff(t1, t2)) = Micros(t2) - Micros(t1)
  BY SecondPositive DEF TimevalDiff, Timeval, Micros

LEMMA Sign ==
  ASSUME NEW t \in Timeval
  PROVE  /\ t.tv_sec < 0 <=> Micros(t) < 0
         /\ IsZero(t) <=> Micros(t) = 0
  BY SecondPositive DEF Timeval, Micros, IsZero

(* OSC_TIME_CMP orders all times as their numbers are. *)
THEOREM TimeOrder ==
  ASSUME NEW t1 \in Timeval, NEW t2 \in Timeval
  PROVE  TimeLater(t1, t2) <=> Micros(t1) > Micros(t2)
<1> DEFINE s1 == t1.tv_sec  s2 == t2.tv_sec
           u1 == t1.tv_usec u2 == t2.tv_usec
<1>1. /\ s1 \in Int /\ s2 \in Int /\ u1 \in Int /\ u2 \in Int
      /\ 0 <= u1 /\ u1 < Million /\ 0 <= u2 /\ u2 < Million
  BY SecondPositive DEF Timeval
<1>2. Micros(t1) = Million * s1 + u1 /\ Micros(t2) = Million * s2 + u2
  BY DEF Micros
<1>3. TimeLater(t1, t2) <=> IF s1 = s2 THEN u1 > u2 ELSE s1 > s2
  BY DEF TimeLater
<1> HIDE DEF s1, s2, u1, u2
<1>4. CASE s1 = s2
  BY <1>1, <1>2, <1>3, <1>4, SecondPositive
<1>5. ASSUME NEW a \in Int, NEW b \in Int, a > b
      PROVE  Million * a >= Million * b + Million
  <2>1. Million * (a - b - 1) >= 0
    BY <1>5, SecondPositive
  <2> QED
    BY <1>5, <2>1, SecondPositive
<1>6. CASE s1 > s2
  <2>1. Million * s1 >= Million * s2 + Million
    BY <1>1, <1>5, <1>6
  <2> QED
    BY <1>1, <1>2, <1>3, <1>6, <2>1, SecondPositive
<1>7. CASE s1 < s2
  <2>1. Million * s2 >= Million * s1 + Million
    BY <1>1, <1>5, <1>7
  <2> QED
    BY <1>1, <1>2, <1>3, <1>7, <2>1, SecondPositive
<1> QED
  BY <1>1, <1>4, <1>6, <1>7

DueInv ==
  /\ now \in Times /\ due \in Times /\ threshold \in Thresholds
  /\ diff \in Timeval
  /\ pc \in {"idle", "threshold"}
  /\ pc = "threshold" =>
       /\ threshold # NULL
       /\ Micros(diff) = Micros(due) - Micros(now) /\ Micros(diff) >= 0

LEMMA FirstDiff ==
  ASSUME IsMsgDue
  PROVE  /\ diff' \in Timeval
         /\ Micros(diff') = Micros(due') - Micros(now')
         /\ now' \in Times /\ due' \in Times /\ threshold' \in Thresholds
  BY Difference, MsgDueAssumption DEF IsMsgDue, MsgDueAssumption

LEMMA SecondDiff ==
  ASSUME DueInv, WithinThreshold
  PROVE  /\ diff' \in Timeval
         /\ Micros(diff') = Micros(due) - Micros(now) - Micros(threshold)
         /\ threshold # NULL /\ Micros(threshold) \in Int
<1>1. threshold \in Timeval /\ threshold # NULL /\ diff \in Timeval
  BY MsgDueAssumption DEF DueInv, WithinThreshold, MsgDueAssumption
<1>2. Micros(threshold) \in Int
  BY <1>1, SecondPositive DEF Micros, Timeval
<1> QED
  BY <1>1, <1>2, Difference DEF DueInv, WithinThreshold

LEMMA DueInvariant == Spec => []DueInv
<1>1. Init => DueInv
  BY SecondPositive DEF Init, DueInv, Timeval
<1>2. DueInv /\ [IsMsgDue \/ WithinThreshold]_vars => DueInv'
  <2> SUFFICES ASSUME DueInv, [IsMsgDue \/ WithinThreshold]_vars
               PROVE  DueInv'
    OBVIOUS
  <2>1. CASE IsMsgDue
    <3>1. pc' \in {"idle", "threshold"}
          /\ (pc' = "threshold" => threshold' # NULL /\ ~(diff'.tv_sec < 0))
      BY <2>1 DEF IsMsgDue, Answer
    <3>2. pc' = "threshold" => Micros(diff') >= 0
      <4>1. Micros(diff') \in Int
        BY <2>1, FirstDiff, SecondPositive DEF Micros, Timeval
      <4> QED
        BY <2>1, <3>1, <4>1, FirstDiff, Sign
    <3> QED
      BY <2>1, <3>1, <3>2, FirstDiff DEF DueInv
  <2>2. CASE WithinThreshold
    BY <2>2, SecondDiff DEF DueInv, WithinThreshold, Answer
  <2>3. CASE UNCHANGED vars
    BY <2>3 DEF DueInv, vars
  <2> QED
    BY <2>1, <2>2, <2>3
<1> QED
  BY <1>1, <1>2, PTL DEF Spec

(* The sign of every difference is that of its seconds. *)
THEOREM SignOfDifference == Spec => []SignInSeconds
<1>1. DueInv => SignInSeconds
  BY Sign DEF DueInv, SignInSeconds
<1> QED
  BY <1>1, DueInvariant, PTL

(* ... and the heap's comparison is right of all its messages. *)
THEOREM ComparisonRight == Spec => []ComparesAsNumbers
<1>1. DueInv => ComparesAsNumbers
  BY TimeOrder, MsgDueAssumption DEF DueInv, ComparesAsNumbers, MsgDueAssumption
<1> QED
  BY <1>1, DueInvariant, PTL

(* A message is due from its time less the threshold on, for every clock and every
   threshold that is not negative. *)
THEOREM DueOnTime == Spec => DueInTime
<1> DEFINE OnTime == pc' = "idle" => (answer' <=> Micros(due') - Micros(now') <= Early')
<1>1. DueInv /\ [IsMsgDue \/ WithinThreshold]_vars => [OnTime]_vars
  <2> SUFFICES ASSUME DueInv, IsMsgDue \/ WithinThreshold
               PROVE  OnTime
    OBVIOUS
  <2>1. CASE IsMsgDue
    <3>1. /\ diff'.tv_sec < 0 <=> Micros(diff') < 0
          /\ IsZero(diff') <=> Micros(diff') = 0
          /\ Micros(diff') = Micros(due') - Micros(now') /\ Micros(diff') \in Int
      <4>1. Micros(diff') \in Int
        BY <2>1, FirstDiff, SecondPositive DEF Micros, Timeval
      <4> QED
        BY <2>1, <4>1, FirstDiff, Sign
    <3>2. threshold' # NULL => Micros(threshold') >= 0 /\ Micros(threshold') \in Int
      <4>1. threshold' \in Thresholds
        BY <2>1, FirstDiff
      <4>2. ASSUME threshold' # NULL
            PROVE  threshold' \in Timeval /\ threshold'.tv_sec >= 0
        <5>1. threshold' \in Thresholds \ {NULL}
          BY <4>1, <4>2
        <5> QED
          BY <5>1, MsgDueAssumption DEF MsgDueAssumption
      <4>3. ASSUME NEW t \in Timeval, t.tv_sec >= 0
            PROVE  Micros(t) >= 0 /\ Micros(t) \in Int
        BY <4>3, SecondPositive DEF Micros, Timeval
      <4> QED
        BY <4>2, <4>3
    <3>3. CASE diff'.tv_sec < 0
      <4>1. answer' = TRUE
        BY <2>1, <3>3 DEF IsMsgDue, Answer
      <4> QED
        BY <3>1, <3>2, <3>3, <4>1 DEF Early
    <3>4. CASE ~(diff'.tv_sec < 0) /\ threshold' = NULL
      <4>1. answer' = IsZero(diff')
        BY <2>1, <3>4 DEF IsMsgDue, Answer
      <4> QED
        BY <3>1, <3>4, <4>1 DEF Early
    <3>5. CASE ~(diff'.tv_sec < 0) /\ threshold' # NULL
      BY <2>1, <3>5 DEF IsMsgDue
    <3> QED
      BY <3>3, <3>4, <3>5
  <2>2. CASE WithinThreshold
    <3>1. /\ diff'.tv_sec < 0 <=> Micros(diff') < 0
          /\ IsZero(diff') <=> Micros(diff') = 0
          /\ Micros(diff') \in Int
      <4>1. Micros(diff') \in Int
        BY <2>2, SecondDiff, SecondPositive DEF Micros, Timeval
      <4> QED
        BY <2>2, <4>1, SecondDiff, Sign
    <3>2. /\ answer' = (diff'.tv_sec < 0 \/ IsZero(diff'))
          /\ UNCHANGED <<now, due, threshold>>
      BY <2>2 DEF WithinThreshold, Answer
    <3>3. Micros(due) \in Int /\ Micros(now) \in Int
      BY MsgDueAssumption, SecondPositive DEF DueInv, MsgDueAssumption, Micros, Timeval
    <3>4. Micros(due') - Micros(now') <= Early' <=> Micros(diff') <= 0
      <4>1. Early' = Micros(threshold)
        BY <2>2, <3>2, SecondDiff DEF Early
      <4> QED
        BY <2>2, <3>2, <3>3, <4>1, SecondDiff
    <3>5. Micros(diff') <= 0 <=> diff'.tv_sec < 0 \/ IsZero(diff')
      BY <3>1
    <3> QED
      BY <3>2, <3>4, <3>5
  <2> QED
    BY <2>1, <2>2
<1> QED
  BY <1>1, DueInvariant, PTL DEF Spec, DueInTime
=============================================================================
