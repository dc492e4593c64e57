-------------------------- MODULE SequenceLemmas --------------------------
(***************************************************************************)
(* Induction over numbers, as facts about sets of them, and with it what   *)
(* FlattenSeq returns, which is defined by recursion; parts of sequences.  *)
(***************************************************************************)
EXTENDS Integers, SequencesExt, TLAPS, FiniteSetTheorems, SequenceTheorems

(* A set of natural numbers has a least one. *)
LEMMA Least ==
  ASSUME NEW T \in SUBSET Nat, T # {}
  PROVE  \E x \in T : \A y \in T : x <= y
<1> DEFINE R == StrictSubsetOrdering(Nat)
           F == FiniteSubsetsOf(Nat)
           U == {0 .. n : n \in T}
<1>1. IsWellFoundedOn(R, F)
  BY FS_StrictSubsetOrderingWellFounded
<1>2. U \subseteq F
  <2>1. ASSUME NEW n \in T
        PROVE  0 .. n \in F
    <3>1. IsFiniteSet(0 .. n)
      BY FS_Interval
    <3>2. 0 .. n \subseteq Nat
      OBVIOUS
    <3> QED
      BY <3>1, <3>2 DEF FiniteSubsetsOf
  <2> QED
    BY <2>1
<1>3. \E A \in U : \A B \in U : <<B, A>> \notin R
  <2>1. U # {}
    OBVIOUS
  <2> HIDE DEF R, F, U
  <2> QED
    BY <1>1, <1>2, <2>1, WFMin
<1>4. PICK x \in T : \A y \in T : <<0 .. y, 0 .. x>> \notin R
  BY <1>3
<1>5. ASSUME NEW y \in T, y < x
      PROVE  FALSE
  <2> DEFINE Y == 0 .. y
             X == 0 .. x
  <2>1. Y \subseteq X /\ Y # X /\ X \subseteq Nat /\ Y \subseteq Nat
    <3>1. x \in 0 .. x /\ x \notin 0 .. y
      BY <1>5
    <3> QED
      BY <1>5, <3>1
  <2>2. <<Y, X>> \notin R
    BY <1>4
  <2> HIDE DEF Y, X
  <2> QED
    BY <2>1, <2>2 DEF StrictSubsetOrdering
<1> QED
  BY <1>5

(* Induction over the numbers up to n. *)
LEMMA UpTo ==
  ASSUME NEW n \in Nat, NEW T, 0 \in T, \A k \in 0 .. n - 1 : k \in T => k + 1 \in T
  PROVE  \A k \in 0 .. n : k \in T
<1> DEFINE Bad == {k \in 0 .. n : k \notin T}
<1> SUFFICES ASSUME Bad # {} PROVE FALSE
  OBVIOUS
<1>1. PICK k \in Bad : \A j \in Bad : k <= j
  <2>1. Bad \in SUBSET Nat OBVIOUS
  <2> QED
    BY <2>1, Least
<1>2. k # 0 /\ k - 1 \in 0 .. n - 1 /\ k - 1 \notin Bad /\ k - 1 \in 0 .. n
  BY <1>1
<1> QED
  BY <1>1, <1>2

(* f is defined by recursion: from b, by turns of G. *)
ByTurns(f, n, S, b, G) ==
  /\ f \in [1 .. n -> S]
  /\ \A i \in 1 .. n : f[i] = IF i = 1 THEN b ELSE G[<<i, f[i - 1]>>]

(* There is such a function. *)
LEMMA Recursion ==
  ASSUME NEW n \in Nat, NEW S, NEW b \in S, NEW G \in [(1 .. n) \X S -> S]
  PROVE  \E f : ByTurns(f, n, S, b, G)
<1> DEFINE Ok(f, k) == \A i \in 1 .. k : f[i] = IF i = 1 THEN b ELSE G[<<i, f[i - 1]>>]
           Done == {k \in 0 .. n : \E f \in [1 .. k -> S] : Ok(f, k)}
<1>1. 0 \in Done
  <2>1. [i \in 1 .. 0 |-> b] \in [1 .. 0 -> S]
    OBVIOUS
  <2>2. \A f : Ok(f, 0)
    OBVIOUS
  <2>3. \E f \in [1 .. 0 -> S] : Ok(f, 0)
    BY <2>1, <2>2
  <2>4. 0 \in 0 .. n
    OBVIOUS
  <2> HIDE DEF Ok
  <2> QED
    BY <2>3, <2>4, Zenon
<1>2. ASSUME NEW k \in 0 .. n - 1, k \in Done
      PROVE  k + 1 \in Done
  <2>1. PICK f \in [1 .. k -> S] : Ok(f, k)
    BY <1>2
  <2> DEFINE x == IF k = 0 THEN b ELSE G[<<k + 1, f[k]>>]
             g == [i \in 1 .. k + 1 |-> IF i = k + 1 THEN x ELSE f[i]]
  <2>2. x \in S
    <3>1. CASE k = 0
      BY <3>1
    <3>2. CASE k # 0
      <4>1. f[k] \in S /\ k + 1 \in 1 .. n
        BY <3>2
      <4>2. <<k + 1, f[k]>> \in (1 .. n) \X S
        BY <4>1
      <4>3. G[<<k + 1, f[k]>>] \in S
        BY <4>2
      <4> QED
        BY <4>3, <3>2
    <3> QED
      BY <3>1, <3>2
  <2>3. g \in [1 .. k + 1 -> S]
    <3> HIDE DEF x
    <3> QED
      BY <2>2
  <2>4. Ok(g, k + 1)
    <3> SUFFICES ASSUME NEW i \in 1 .. k + 1
                 PROVE  g[i] = IF i = 1 THEN b ELSE G[<<i, g[i - 1]>>]
      OBVIOUS
    <3>1. CASE i = k + 1
      <4>1. g[i] = x /\ (k # 0 => g[i - 1] = f[k])
        BY <3>1
      <4>2. CASE k = 0
        BY <3>1, <4>1, <4>2
      <4>3. CASE k # 0
        <5>1. i # 1 /\ x = G[<<k + 1, f[k]>>] /\ g[i - 1] = f[k] /\ g[i] = x
          BY <3>1, <4>1, <4>3
        <5> HIDE DEF x, g
        <5> QED
          BY <3>1, <5>1
      <4> QED
        BY <4>2, <4>3
    <3>2. CASE i # k + 1
      <4>1. g[i] = f[i] /\ (i # 1 => g[i - 1] = f[i - 1]) /\ i \in 1 .. k
        BY <3>2
      <4> QED
        BY <4>1, <2>1
    <3> QED
      BY <3>1, <3>2
  <2> HIDE DEF Ok, g
  <2> QED
    BY <2>3, <2>4
<1>3. \A k \in 0 .. n : k \in Done
  <2> HIDE DEF Done
  <2> QED
    BY <1>1, <1>2, UpTo
<1>4. n \in Done
  <2> HIDE DEF Done
  <2> QED
    BY <1>3
<1> QED
  BY <1>4 DEF ByTurns

(* h is the function inside FlattenSeq(seqs). *)
Turns(h, seqs, S) ==
  /\ h \in [1 .. Len(seqs) -> Seq(S)]
  /\ \A i \in 1 .. Len(seqs) : h[i] = IF i = 1 THEN seqs[1] ELSE h[i - 1] \o seqs[i]

(* FlattenSeq of sequences of S is what the turns of its recursion give. *)
LEMMA FlattenTurns ==
  ASSUME NEW S, NEW seqs \in Seq(Seq(S)), Len(seqs) # 0
  PROVE  \E h : Turns(h, seqs, S) /\ FlattenSeq(seqs) = h[Len(seqs)]
<1> DEFINE n == Len(seqs)
           Turn(f) == [i \in 1 .. n |-> IF i = 1 THEN seqs[i] ELSE f[i - 1] \o seqs[i]]
           h == CHOOSE f : f = Turn(f)
           G == [p \in (1 .. n) \X Seq(S) |-> p[2] \o seqs[p[1]]]
<1>1. n \in Nat /\ n # 0 /\ \A i \in 1 .. n : seqs[i] \in Seq(S)
  OBVIOUS
<1>2. G \in [(1 .. n) \X Seq(S) -> Seq(S)]
  <2>1. ASSUME NEW p \in (1 .. n) \X Seq(S)
        PROVE  p[2] \o seqs[p[1]] \in Seq(S)
    <3>1. p[1] \in 1 .. n /\ p[2] \in Seq(S) /\ seqs[p[1]] \in Seq(S)
      BY <1>1
    <3> QED
      BY <3>1
  <2> HIDE DEF n
  <2> QED
    BY <2>1
<1>3. PICK g \in [1 .. n -> Seq(S)] :
        \A i \in 1 .. n : g[i] = IF i = 1 THEN seqs[1] ELSE G[<<i, g[i - 1]>>]
  <2> DEFINE Q == Seq(S)
             b == seqs[1]
  <2>1. b \in Q /\ n \in Nat /\ G \in [(1 .. n) \X Q -> Q]
    BY <1>1, <1>2
  <2> HIDE DEF n, G, Q, b
  <2>2. \E g : ByTurns(g, n, Q, b, G)
    BY <2>1, Recursion
  <2> QED
    BY <2>2 DEF ByTurns, Q, b
<1>4. ASSUME NEW i \in 1 .. n
      PROVE  g[i] = IF i = 1 THEN seqs[i] ELSE g[i - 1] \o seqs[i]
  <2>1. CASE i = 1
    BY <1>3, <2>1
  <2>2. CASE i # 1
    <3>1. <<i, g[i - 1]>> \in (1 .. n) \X Seq(S)
      <4>1. i - 1 \in 1 .. n
        BY <2>2, <1>1
      <4> HIDE DEF n
      <4> QED
        BY <4>1
    <3>2. G[<<i, g[i - 1]>>] = g[i - 1] \o seqs[i]
      BY <3>1
    <3>3. g[i] = G[<<i, g[i - 1]>>]
      <4> HIDE DEF G, n
      <4> QED
        BY <1>3, <2>2
    <3> QED
      BY <3>2, <3>3, <2>2
  <2> QED
    BY <2>1, <2>2
<1>5. g = Turn(g)
  <2>1. g = [i \in 1 .. n |-> g[i]]
    OBVIOUS
  <2> HIDE DEF n, G
  <2> QED
    BY <1>4, <2>1
<1>6. h = Turn(h)
  <2> HIDE DEF Turn
  <2> QED
    BY <1>5
<1>7. \A i \in 1 .. n : h[i] = IF i = 1 THEN seqs[i] ELSE h[i - 1] \o seqs[i]
  <2> HIDE DEF h, n
  <2> QED
    BY <1>6
<1>8. \A k \in 0 .. n : k \in {0} \cup {i \in 1 .. n : h[i] = g[i]}
  <2> HIDE DEF h, n, G
  <2> DEFINE T == {0} \cup {i \in 1 .. n : h[i] = g[i]}
  <2>1. ASSUME NEW k \in 0 .. n - 1, k \in T
        PROVE  k + 1 \in T
    <3>1. k + 1 \in 1 .. n /\ (k # 0 => h[k] = g[k])
      BY <1>1, <2>1
    <3>2. h[k + 1] = g[k + 1]
      <4> DEFINE i == k + 1
      <4>1. i \in 1 .. n /\ i - 1 = k /\ (i # 1 => k # 0)
        BY <3>1
      <4>2. i # 1 => h[i - 1] = g[i - 1]
        BY <3>1, <4>1
      <4> HIDE DEF i
      <4>3. h[i] = IF i = 1 THEN seqs[i] ELSE h[i - 1] \o seqs[i]
        BY <1>7, <4>1
      <4>4. g[i] = IF i = 1 THEN seqs[i] ELSE g[i - 1] \o seqs[i]
        BY <1>4, <4>1
      <4>5. h[i] = g[i]
        BY <4>2, <4>3, <4>4
      <4> QED
        BY <4>5 DEF i
    <3> QED
      BY <3>1, <3>2
  <2>2. 0 \in T
    OBVIOUS
  <2> HIDE DEF T
  <2>3. \A k \in 0 .. n : k \in T
    BY <1>1, <2>1, <2>2, UpTo
  <2> QED
    BY <2>3 DEF T
<1>9. \A i \in 1 .. n : h[i] = g[i]
  <2> HIDE DEF h, n, G
  <2> QED
    BY <1>1, <1>8
<1>10. FlattenSeq(seqs) = h[n]
  BY <1>1 DEF FlattenSeq
<1>11. FlattenSeq(seqs) = g[n]
  <2> HIDE DEF h, n
  <2> QED
    BY <1>1, <1>9, <1>10
<1> QED
  <2> HIDE DEF h, G
  <2> QED
    BY <1>4, <1>11 DEF Turns

(* FlattenSeq of sequences of S is a sequence of S. *)
LEMMA FlattenType ==
  ASSUME NEW S, NEW seqs \in Seq(Seq(S))
  PROVE  FlattenSeq(seqs) \in Seq(S)
<1>1. CASE Len(seqs) = 0
  <2>1. FlattenSeq(seqs) = seqs /\ seqs = << >>
    BY <1>1 DEF FlattenSeq
  <2> QED
    BY <2>1
<1>2. CASE Len(seqs) # 0
  <2>1. Len(seqs) \in 1 .. Len(seqs)
    BY <1>2
  <2> QED
    BY <1>2, <2>1, FlattenTurns DEF Turns
<1> QED
  BY <1>1, <1>2
-----------------------------------------------------------------------------
(* What FlattenSeq returns of the first i sequences. *)
FlatTo(seqs, i) == FlattenSeq(SubSeq(seqs, 1, i))

(* It follows the turns of the whole. *)
LEMMA FlatToTurns ==
  ASSUME NEW S, NEW seqs \in Seq(Seq(S)), NEW h, Turns(h, seqs, S),
         NEW i \in 1 .. Len(seqs)
  PROVE  FlatTo(seqs, i) = h[i]
<1> DEFINE s == SubSeq(seqs, 1, i)
<1>1. /\ s \in Seq(Seq(S)) /\ Len(s) = i /\ i # 0 /\ i \in Nat
      /\ \A j \in 1 .. i : s[j] = seqs[j] /\ j \in 1 .. Len(seqs)
  OBVIOUS
<1> HIDE DEF s
<1>2. PICK g : Turns(g, s, S) /\ FlattenSeq(s) = g[i]
  BY <1>1, FlattenTurns
<1> DEFINE T == {0} \cup {j \in 1 .. i : g[j] = h[j]}
<1>3. ASSUME NEW k \in 0 .. i - 1, k \in T
      PROVE  k + 1 \in T
  <2> DEFINE j == k + 1
  <2>1. j \in 1 .. i /\ j - 1 = k /\ (j # 1 => k # 0) /\ 1 \in 1 .. i
    BY <1>1
  <2>2. j # 1 => h[j - 1] = g[j - 1]
    BY <1>3, <2>1
  <2> HIDE DEF j
  <2>3. h[j] = IF j = 1 THEN s[1] ELSE h[j - 1] \o s[j]
    BY <1>1, <2>1 DEF Turns
  <2>4. g[j] = IF j = 1 THEN s[1] ELSE g[j - 1] \o s[j]
    BY <1>1, <1>2, <2>1 DEF Turns
  <2>5. h[j] = g[j]
    BY <2>2, <2>3, <2>4
  <2> QED
    BY <2>1, <2>5 DEF j
<1>4. \A k \in 0 .. i : k \in T
  <2>1. 0 \in T
    OBVIOUS
  <2> HIDE DEF T
  <2> QED
    BY <1>1, <1>3, <2>1, UpTo
<1>5. g[i] = h[i]
  BY <1>1, <1>4
<1> QED
  BY <1>2, <1>5 DEF FlatTo, s

(* Each sequence is appended to those before it, and stays there. *)
LEMMA FlatToNext ==
  ASSUME NEW S, NEW seqs \in Seq(Seq(S)), NEW i \in 0 .. Len(seqs) - 1
  PROVE  FlatTo(seqs, i + 1) = FlatTo(seqs, i) \o seqs[i + 1]
<1>1. Len(seqs) \in Nat /\ Len(seqs) # 0 /\ seqs[i + 1] \in Seq(S)
  OBVIOUS
<1>2. PICK h : Turns(h, seqs, S)
  BY <1>1, FlattenTurns
<1>3. i + 1 \in 1 .. Len(seqs) /\ FlatTo(seqs, i + 1) = h[i + 1]
  <2>1. i + 1 \in 1 .. Len(seqs)
    BY <1>1
  <2> QED
    BY <1>2, <2>1, FlatToTurns
<1>4. CASE i = 0
  <2>1. SubSeq(seqs, 1, 0) = << >> /\ FlattenSeq(<< >>) = << >>
    BY DEF FlattenSeq
  <2>2. FlatTo(seqs, i) = << >>
    BY <1>4, <2>1 DEF FlatTo
  <2>3. h[1] = seqs[1] /\ FlatTo(seqs, 1) = h[1] /\ seqs[1] \in Seq(S)
    <3>1. 1 \in 1 .. Len(seqs) /\ i + 1 = 1
      BY <1>1, <1>4
    <3>2. h[1] = seqs[1]
      BY <1>2, <3>1 DEF Turns
    <3>3. FlatTo(seqs, 1) = h[1] /\ seqs[1] \in Seq(S)
      BY <1>1, <1>3, <3>1
    <3> QED
      BY <3>2, <3>3
  <2>4. << >> \o seqs[1] = seqs[1]
    BY <2>3
  <2> QED
    BY <1>4, <2>2, <2>3, <2>4
<1>5. CASE i # 0
  <2>1. i \in 1 .. Len(seqs)
    BY <1>1, <1>5
  <2>2. FlatTo(seqs, i) = h[i]
    BY <1>2, <2>1, FlatToTurns
  <2>3. i + 1 \in 1 .. Len(seqs) /\ i + 1 # 1 /\ (i + 1) - 1 = i
    BY <1>1, <1>5
  <2>4. h[i + 1] = h[i] \o seqs[i + 1]
    BY <1>2, <2>3 DEF Turns
  <2> QED
    BY <1>3, <2>2, <2>4
<1> QED
  BY <1>4, <1>5

(* What is flattened first is a prefix of the whole. *)
LEMMA FlatToWhole ==
  ASSUME NEW S, NEW seqs \in Seq(Seq(S)), NEW i \in 0 .. Len(seqs)
  PROVE  /\ FlatTo(seqs, i) \in Seq(S) /\ FlattenSeq(seqs) \in Seq(S)
         /\ Len(FlatTo(seqs, i)) <= Len(FlattenSeq(seqs))
         /\ \A k \in 1 .. Len(FlatTo(seqs, i)) : FlattenSeq(seqs)[k] = FlatTo(seqs, i)[k]
<1> DEFINE n == Len(seqs)
           Extends(a, b) == /\ Len(a) <= Len(b)
                            /\ \A k \in 1 .. Len(a) : b[k] = a[k]
           T == {j \in Nat : i + j <= n => Extends(FlatTo(seqs, i), FlatTo(seqs, i + j))}
<1>1. n \in Nat /\ \A j \in 0 .. n : FlatTo(seqs, j) \in Seq(S)
  <2>1. ASSUME NEW j \in 0 .. n
        PROVE  FlatTo(seqs, j) \in Seq(S)
    <3>1. SubSeq(seqs, 1, j) \in Seq(Seq(S))
      OBVIOUS
    <3> QED
      BY <3>1, FlattenType DEF FlatTo
  <2> QED
    BY <2>1
<1>2. 0 \in T
  <2>1. Len(FlatTo(seqs, i)) \in Nat
    BY <1>1
  <2> QED
    BY <2>1
<1>3. ASSUME NEW j \in 0 .. (n - i) - 1, j \in T
      PROVE  j + 1 \in T
  <2> DEFINE a == FlatTo(seqs, i)
             b == FlatTo(seqs, i + j)
             x == seqs[(i + j) + 1]
  <2>1. i + j \in 0 .. n - 1 /\ i + (j + 1) = (i + j) + 1
    BY <1>1
  <2>2. FlatTo(seqs, i + (j + 1)) = b \o x
    BY <2>1, FlatToNext
  <2>3. a \in Seq(S) /\ b \in Seq(S) /\ x \in Seq(S)
    BY <1>1, <2>1
  <2>4. Extends(a, b)
    BY <1>3, <2>1
  <2> HIDE DEF a, b, x
  <2>5. /\ Len(a) \in Nat /\ Len(b) \in Nat /\ Len(x) \in Nat
        /\ Len(b \o x) = Len(b) + Len(x)
        /\ \A k \in 1 .. Len(b) : (b \o x)[k] = b[k]
    BY <2>3
  <2>6. Extends(a, b \o x)
    <3>1. Len(a) <= Len(b \o x)
      BY <2>4, <2>5
    <3>2. ASSUME NEW k \in 1 .. Len(a)
          PROVE  (b \o x)[k] = a[k]
      <4>1. k \in 1 .. Len(b)
        BY <2>4, <2>5
      <4> QED
        BY <2>4, <2>5, <4>1
    <3> QED
      BY <3>1, <3>2
  <2>7. Extends(a, FlatTo(seqs, i + (j + 1)))
    BY <2>2, <2>6
  <2> HIDE DEF Extends
  <2> QED
    BY <2>7 DEF a
<1>4. \A j \in 0 .. n - i : j \in T
  <2>1. n - i \in Nat
    BY <1>1
  <2> HIDE DEF T
  <2> QED
    BY <1>2, <1>3, <2>1, UpTo
<1>5. Extends(FlatTo(seqs, i), FlatTo(seqs, n))
  <2>1. n - i \in 0 .. n - i /\ i + (n - i) = n /\ n <= n
    BY <1>1
  <2>2. n - i \in T
    <3> HIDE DEF T
    <3> QED
      BY <1>4, <2>1
  <2> HIDE DEF Extends, n
  <2> QED
    BY <2>1, <2>2
<1>6. FlatTo(seqs, n) = FlattenSeq(seqs)
  <2>1. SubSeq(seqs, 1, n) = seqs
    OBVIOUS
  <2> QED
    BY <2>1 DEF FlatTo
<1> QED
  BY <1>1, <1>5, <1>6
-----------------------------------------------------------------------------
(* FlattenSeq of one sequence more. *)
LEMMA FlattenOneMore ==
  ASSUME NEW S, NEW seqs \in Seq(Seq(S)), NEW e \in Seq(S)
  PROVE  FlattenSeq(Append(seqs, e)) = FlattenSeq(seqs) \o e
<1> DEFINE s == Append(seqs, e)
<1>1. s \in Seq(Seq(S)) /\ Len(s) = Len(seqs) + 1 /\ Len(seqs) \in Nat /\ s[Len(seqs) + 1] = e
  OBVIOUS
<1>2. SubSeq(s, 1, Len(seqs)) = seqs /\ SubSeq(s, 1, Len(s)) = s
  OBVIOUS
<1> HIDE DEF s
<1>3. Len(seqs) \in 0 .. Len(s) - 1
  BY <1>1
<1>4. FlatTo(s, Len(seqs) + 1) = FlatTo(s, Len(seqs)) \o s[Len(seqs) + 1]
  BY <1>1, <1>3, FlatToNext
<1>5. FlattenSeq(s) = FlattenSeq(seqs) \o e
  BY <1>1, <1>2, <1>4 DEF FlatTo
<1> QED
  BY <1>5 DEF s

LEMMA FlattenNone == FlattenSeq(<< >>) = << >>
  BY DEF FlattenSeq

LEMMA AppendAsFunction ==
  ASSUME NEW S, NEW s \in Seq(S), NEW e \in S
  PROVE  Append(s, e) = [i \in 1 .. Len(s) + 1 |-> IF i = Len(s) + 1 THEN e ELSE s[i]]
<1> DEFINE g == [i \in 1 .. Len(s) + 1 |-> IF i = Len(s) + 1 THEN e ELSE s[i]]
<1>1. /\ Append(s, e) \in Seq(S) /\ Len(Append(s, e)) = Len(s) + 1 /\ Len(s) \in Nat
      /\ \A i \in 1 .. Len(s) + 1 : Append(s, e)[i] = IF i = Len(s) + 1 THEN e ELSE s[i]
  OBVIOUS
<1>2. \A q \in Seq(S) : q = [i \in 1 .. Len(q) |-> q[i]]
  OBVIOUS
<1>3. Append(s, e) = [i \in 1 .. Len(s) + 1 |-> Append(s, e)[i]]
  BY <1>1, <1>2
<1> QED
  BY <1>1, <1>3

(* A concatenation with one element more of the second sequence. *)
LEMMA OneFurther ==
  ASSUME NEW S, NEW a \in Seq(S), NEW b \in Seq(S), NEW k \in 0 .. Len(b) - 1
  PROVE  a \o SubSeq(b, 1, k + 1) = Append(a \o SubSeq(b, 1, k), b[k + 1])
<1>1. Len(b) \in Nat /\ k + 1 \in 1 .. Len(b) /\ 1 \in 1 .. Len(b) /\ k + 1 \in 1 .. Len(b)
      /\ b[k + 1] \in S /\ (k + 1) - 1 = k
  OBVIOUS
<1>2. SubSeq(b, 1, k + 1) = SubSeq(b, 1, (k + 1) - 1) \o <<b[k + 1]>>
  BY <1>1, SubSeqRecursiveSecond
<1>3. SubSeq(b, 1, k) \in Seq(S) /\ <<b[k + 1]>> \in Seq(S)
  BY <1>1
<1>4. a \o (SubSeq(b, 1, k) \o <<b[k + 1]>>) = (a \o SubSeq(b, 1, k)) \o <<b[k + 1]>>
  BY <1>3, ConcatAssociative
<1>5. \A s \in Seq(S), e \in S : s \o <<e>> = Append(s, e)
  BY AppendIsConcat
<1>6. a \o SubSeq(b, 1, k) \in Seq(S)
  BY <1>3, ConcatProperties
<1> QED
  BY <1>1, <1>2, <1>4, <1>5, <1>6

(* FlattenSeq of two sequences of sequences, one behind the other. *)
LEMMA FlattenConcat ==
  ASSUME NEW S, NEW a \in Seq(Seq(S)), NEW b \in Seq(Seq(S))
  PROVE  FlattenSeq(a \o b) = FlattenSeq(a) \o FlattenSeq(b)
<1> DEFINE T == {k \in Nat : k <= Len(b) => FlattenSeq(a \o SubSeq(b, 1, k)) = FlattenSeq(a) \o FlatTo(b, k)}
<1>1. Len(b) \in Nat /\ FlattenSeq(a) \in Seq(S)
  BY FlattenType
<1>2. 0 \in T
  <2>1. SubSeq(b, 1, 0) = << >> /\ a \o << >> = a
    OBVIOUS
  <2>2. FlatTo(b, 0) = << >>
    BY <2>1, FlattenNone DEF FlatTo
  <2>3. FlattenSeq(a) \o << >> = FlattenSeq(a)
    BY <1>1
  <2> QED
    BY <2>1, <2>2, <2>3
<1>3. ASSUME NEW k \in 0 .. Len(b) - 1, k \in T
      PROVE  k + 1 \in T
  <2>1. FlatTo(b, k + 1) = FlatTo(b, k) \o b[k + 1]
    BY FlatToNext
  <2>2. FlatTo(b, k) \in Seq(S) /\ b[k + 1] \in Seq(S)
    <3>1. k \in 0 .. Len(b)
      BY <1>1
    <3> QED
      BY <1>1, <3>1, FlatToWhole
  <2>3. PICK c \in Seq(Seq(S)) : c = a \o SubSeq(b, 1, k)
    <3>1. SubSeq(b, 1, k) \in Seq(Seq(S))
      OBVIOUS
    <3> QED
      BY <3>1, ConcatProperties, Zenon
  <2>4. a \o SubSeq(b, 1, k + 1) = Append(c, b[k + 1])
    BY <2>3, OneFurther
  <2>5. FlattenSeq(Append(c, b[k + 1])) = FlattenSeq(c) \o b[k + 1]
    BY <2>2, FlattenOneMore
  <2>6. FlattenSeq(c) = FlattenSeq(a) \o FlatTo(b, k)
    <3>1. k <= Len(b)
      BY <1>1
    <3> QED
      BY <1>3, <2>3, <3>1
  <2>7. (FlattenSeq(a) \o FlatTo(b, k)) \o b[k + 1] = FlattenSeq(a) \o (FlatTo(b, k) \o b[k + 1])
    <3>1. \A x \in Seq(S), y \in Seq(S), z \in Seq(S) : (x \o y) \o z = x \o (y \o z)
      OBVIOUS
    <3> QED
      BY <1>1, <2>2, <3>1, Zenon
  <2>8. FlattenSeq(a \o SubSeq(b, 1, k + 1)) = FlattenSeq(a) \o FlatTo(b, k + 1)
    BY <2>1, <2>4, <2>5, <2>6, <2>7, Zenon
  <2> QED
    BY <2>8
<1>4. \A k \in 0 .. Len(b) : k \in T
  <2> HIDE DEF T
  <2> QED
    BY <1>1, <1>2, <1>3, UpTo
<1>5. SubSeq(b, 1, Len(b)) = b
  BY SubSeqFull
<1>6. Len(b) <= Len(b) /\ Len(b) \in 0 .. Len(b)
  BY <1>1
<1>7. FlattenSeq(a \o SubSeq(b, 1, Len(b))) = FlattenSeq(a) \o FlatTo(b, Len(b))
  BY <1>4, <1>6
<1> QED
  BY <1>5, <1>7, Zenon DEF FlatTo

(* FlattenSeq twice. *)
LEMMA FlattenTwice ==
  ASSUME NEW S, NEW s \in Seq(Seq(Seq(S)))
  PROVE  /\ [i \in DOMAIN s |-> FlattenSeq(s[i])] \in Seq(Seq(S))
         /\ FlattenSeq(FlattenSeq(s)) = FlattenSeq([i \in DOMAIN s |-> FlattenSeq(s[i])])
<1> DEFINE f == [i \in DOMAIN s |-> FlattenSeq(s[i])]
           T == {k \in Nat : k <= Len(s) => FlattenSeq(FlatTo(s, k)) = FlatTo(f, k)}
<1>1. /\ Len(s) \in Nat /\ DOMAIN s = 1 .. Len(s)
      /\ \A i \in 1 .. Len(s) : s[i] \in Seq(Seq(S))
  OBVIOUS
<1>2. \A i \in 1 .. Len(s) : FlattenSeq(s[i]) \in Seq(S)
  BY <1>1, FlattenType
<1>3. f \in Seq(Seq(S)) /\ Len(f) = Len(s) /\ \A i \in 1 .. Len(s) : f[i] = FlattenSeq(s[i])
  BY <1>1, <1>2
<1> HIDE DEF f
<1>4. 0 \in T
  <2>1. SubSeq(s, 1, 0) = << >> /\ SubSeq(f, 1, 0) = << >>
    BY <1>3
  <2> QED
    BY <2>1, FlattenNone DEF FlatTo
<1>5. ASSUME NEW k \in 0 .. Len(s) - 1, k \in T
      PROVE  k + 1 \in T
  <2>1. k + 1 \in 1 .. Len(s) /\ k \in 0 .. Len(s)
    BY <1>1
  <2>2. FlatTo(s, k + 1) = FlatTo(s, k) \o s[k + 1]
    BY FlatToNext
  <2>3. FlatTo(f, k + 1) = FlatTo(f, k) \o f[k + 1]
    BY <1>3, FlatToNext
  <2>4. FlatTo(s, k) \in Seq(Seq(S)) /\ s[k + 1] \in Seq(Seq(S))
    BY <1>1, <2>1, FlatToWhole
  <2>5. FlattenSeq(FlatTo(s, k + 1)) = FlattenSeq(FlatTo(s, k)) \o FlattenSeq(s[k + 1])
    BY <2>2, <2>4, FlattenConcat
  <2>6. FlattenSeq(FlatTo(s, k)) = FlatTo(f, k)
    BY <1>5, <2>1
  <2>7. f[k + 1] = FlattenSeq(s[k + 1])
    BY <1>3, <2>1
  <2>8. FlattenSeq(FlatTo(s, k + 1)) = FlatTo(f, k + 1)
    BY <2>3, <2>5, <2>6, <2>7, Zenon
  <2> QED
    BY <2>8
<1>6. \A k \in 0 .. Len(s) : k \in T
  <2> HIDE DEF T
  <2> QED
    BY <1>1, <1>4, <1>5, UpTo
<1>7. SubSeq(s, 1, Len(s)) = s /\ SubSeq(f, 1, Len(s)) = f
  BY <1>3, SubSeqFull
<1>8. FlattenSeq(FlattenSeq(s)) = FlattenSeq(f)
  <2>1. Len(s) <= Len(s) /\ Len(s) \in 0 .. Len(s)
    BY <1>1
  <2>2. FlattenSeq(FlatTo(s, Len(s))) = FlatTo(f, Len(s))
    BY <1>6, <2>1
  <2> QED
    BY <1>7, <2>2, Zenon DEF FlatTo
<1> QED
  BY <1>3, <1>8 DEF f

(* Tuples of one and of two. *)
LEMMA AppendOfTuples ==
  ASSUME NEW a, NEW b
  PROVE  Append(<< >>, a) = <<a>> /\ Append(<<a>>, b) = <<a, b>>
<1> DEFINE S == {a, b}
<1>1. << >> \in Seq(S) /\ <<a>> \in Seq(S) /\ <<a, b>> \in Seq(S) /\ a \in S /\ b \in S
  OBVIOUS
<1>2. Append(<< >>, a) = <<a>>
  OBVIOUS
<1>3. Append(<<a>>, b) = <<a, b>>
  <2>1. Append(<<a>>, b) \in Seq(S) /\ Len(Append(<<a>>, b)) = 2 /\ Len(<<a, b>>) = 2
    BY <1>1
  <2>2. \A i \in 1 .. 2 : Append(<<a>>, b)[i] = <<a, b>>[i]
    <3>1. Append(<<a>>, b)[1] = a /\ Append(<<a>>, b)[2] = b
      BY <1>1
    <3>2. <<a, b>>[1] = a /\ <<a, b>>[2] = b
      OBVIOUS
    <3> QED
      BY <3>1, <3>2
  <2> QED
    BY <1>1, <2>1, <2>2, SeqEqual
<1> QED
  BY <1>2, <1>3

(* Where the parts of a concatenation lie. *)
LEMMA TwoParts ==
  ASSUME NEW S, NEW a \in Seq(S), NEW b \in Seq(S)
  PROVE  /\ a \o b \in Seq(S) /\ Len(a \o b) = Len(a) + Len(b) /\ Len(a) \in Nat /\ Len(b) \in Nat
         /\ \A w \in 1 .. Len(a) : (a \o b)[w] = a[w]
         /\ \A w \in 1 .. Len(b) : (a \o b)[Len(a) + w] = b[w]
  OBVIOUS

(* An item more, or as many as there are. *)
LEMMA PrefixFacts ==
  ASSUME NEW S, NEW r \in Seq(S)
  PROVE  /\ IsPrefix(<< >>, r) /\ IsPrefix(r, r)
         /\ \A k \in 1 .. Len(r) : IsPrefix(SubSeq(r, 1, k), r)
         /\ \A k \in 1 .. Len(r) - 1 : SubSeq(r, 1, k + 1) = Append(SubSeq(r, 1, k), r[k + 1])
         /\ SubSeq(r, 1, Len(r)) = r
<1>1. SubSeq(r, 1, Len(r)) = r
  BY SubSeqFull
<1>2. Len(r) \in Nat
  OBVIOUS
<1>3. IsPrefix(<< >>, r)
  BY <1>2 DEF IsPrefix
<1>4. ASSUME NEW k \in 1 .. Len(r)
      PROVE  IsPrefix(SubSeq(r, 1, k), r)
  <2>1. SubSeq(r, 1, k) \in Seq(S) /\ Len(SubSeq(r, 1, k)) = k
    BY <1>2
  <2>2. SubSeq(SubSeq(r, 1, k), 1, k) = SubSeq(r, 1, k)
    BY <2>1, SubSeqFull
  <2> QED
    BY <2>1, <2>2 DEF IsPrefix
<1>5. IsPrefix(r, r)
  BY <1>2 DEF IsPrefix
<1>6. ASSUME NEW k \in 1 .. Len(r) - 1
      PROVE  SubSeq(r, 1, k + 1) = Append(SubSeq(r, 1, k), r[k + 1])
  <2>1. k \in 0 .. Len(r) - 1 /\ << >> \in Seq(S)
    BY <1>2
  <2>2. << >> \o SubSeq(r, 1, k + 1) = Append(<< >> \o SubSeq(r, 1, k), r[k + 1])
    BY <2>1, OneFurther
  <2>3. SubSeq(r, 1, k) \in Seq(S) /\ SubSeq(r, 1, k + 1) \in Seq(S)
    BY <1>2
  <2>4. \A s \in Seq(S) : << >> \o s = s
    OBVIOUS
  <2> QED
    BY <2>2, <2>3, <2>4
<1> QED
  BY <1>1, <1>3, <1>4, <1>5, <1>6, Zenon

LEMMA OneIsNotEmpty == \A c : << >> # <<c>>
  OBVIOUS
=============================================================================
