--------------------------- MODULE PatternProofs ---------------------------
(* Proofs about Pattern. *)
EXTENDS Pattern, SequenceLemmas

String == Seq(STRING \ {NUL})

LEMMA AtString ==
  ASSUME NEW s \in String, NEW k \in Nat
  PROVE  /\ At(s, k) = NUL <=> k \notin 1 .. Len(s)
         /\ k \in 1 .. Len(s) => At(s, k) = s[k]
         /\ Len(s) \in Nat
BY DEF At, String

(* A scan that has something to find stops at the first of it. *)
LEMMA ScanFinds ==
  ASSUME pattern \in String, NEW k \in Nat \ {0}, NEW cs,
         NEW e \in k .. Len(pattern), pattern[e] \in cs
  PROVE  /\ Scan(k, cs) \in k .. e
         /\ pattern[Scan(k, cs)] \in cs
         /\ \A d \in k .. Scan(k, cs) - 1 : pattern[d] \notin cs
<1> DEFINE S == {c \in k .. Len(pattern) : pattern[c] \in cs}
<1>1. Len(pattern) \in Nat /\ S \subseteq Nat /\ e \in S
  BY DEF String
<1>2. PICK x \in S : \A y \in S : x <= y
  BY <1>1, Least
<1>3. \E c \in k .. Len(pattern) :
        pattern[c] \in cs /\ \A d \in k .. c - 1 : pattern[d] \notin cs
  <2>1. \A d \in k .. x - 1 : d \in k .. Len(pattern) /\ ~(x <= d)
    BY <1>1, <1>2
  <2> QED
    BY <1>2, <2>1
<1>4. /\ Scan(k, cs) \in k .. Len(pattern)
      /\ pattern[Scan(k, cs)] \in cs
      /\ \A d \in k .. Scan(k, cs) - 1 : pattern[d] \notin cs
  BY <1>3 DEF Scan
<1> QED
  BY <1>1, <1>4

-----------------------------------------------------------------------------
LEMMA ReadMore ==
  ASSUME NEW s, NEW ts, NEW q \in Nat, NEW r \in Nat, q < r
  PROVE  /\ ReadTo(s, ts, q)
         /\ IF s[q] = "OPEN" THEN Closes(s, q, r - 1) ELSE r = q + 1
         => ReadTo(s, ts \cup {r}, r)
<1>0. HAVE /\ ReadTo(s, ts, q)
           /\ IF s[q] = "OPEN" THEN Closes(s, q, r - 1) ELSE r = q + 1
<1> DEFINE tt == ts \cup {r}
<1>1. \A k \in ts \ {q} :
        IF s[k] = "OPEN"
        THEN \E c \in k + 1 .. q - 1 : Closes(s, k, c) /\ c + 1 \in ts
        ELSE k + 1 \in ts
  BY <1>0 DEF ReadTo
<1>t. ts \subseteq 2 .. q /\ 2 \in ts /\ q \in ts
  BY <1>0 DEF ReadTo
<1>2. ASSUME NEW k \in tt \ {r}
      PROVE  IF s[k] = "OPEN"
             THEN \E c \in k + 1 .. r - 1 : Closes(s, k, c) /\ c + 1 \in tt
             ELSE k + 1 \in tt
  <2>1. CASE k = q /\ s[q] = "OPEN"
    <3>1. Closes(s, q, r - 1) /\ r - 1 # q
      BY <1>0, <2>1 DEF Closes, Ends
    <3>2. r - 1 # q => r - 1 \in q + 1 .. r - 1 /\ r - 1 + 1 = r
      OBVIOUS
    <3> QED
      BY <2>1, <3>1, <3>2
  <2>2. CASE k = q /\ s[q] # "OPEN"
    BY <1>0, <2>2
  <2>3. CASE k # q
    <3>1. k \in ts \ {q} /\ k \in 2 .. q
      BY <1>t, <1>2, <2>3
    <3>2. CASE s[k] = "OPEN"
      <4>1. PICK c \in k + 1 .. q - 1 : Closes(s, k, c) /\ c + 1 \in ts
        BY <1>1, <3>1, <3>2
      <4>2. c \in k + 1 .. r - 1
        BY <3>1
      <4> QED
        BY <3>2, <4>1, <4>2
    <3> QED
      BY <1>1, <3>1, <3>2
  <2> QED
    BY <2>1, <2>2, <2>3
<1>3. tt \subseteq 2 .. r /\ 2 \in tt /\ r \in tt
  BY <1>t
<1> HIDE DEF tt
<1>4. ReadTo(s, tt, r)
  BY <1>2, <1>3 DEF ReadTo
<1> QED
  BY <1>4 DEF tt

LEMMA Numbers ==
  ASSUME TypeOK
  PROVE  /\ pattern \in String /\ Len(pattern) \in Nat /\ Len(input) \in Nat
         /\ p \in Nat /\ i \in Nat /\ slash \in Nat /\ mark \in Nat /\ seg_len \in Nat
BY DEF TypeOK, String

LEMMA Facts ==
  ASSUME TypeOK
  PROVE  /\ pattern \in String /\ input \in String
         /\ p \in 1 .. Len(pattern) => P = pattern[p] /\ P # NUL
         /\ p \notin 1 .. Len(pattern) => P = NUL
         /\ i \in 1 .. Len(input) => I = input[i] /\ I # NUL
         /\ i \notin 1 .. Len(input) => I = NUL
<1>1. pattern \in String /\ input \in String /\ p \in Nat /\ i \in Nat
  BY DEF TypeOK, String
<1>2. \A s \in String, k \in Nat : At(s, k) = NUL <=> k \notin 1 .. Len(s)
  BY AtString
<1>3. \A s \in String, k \in Nat : k \in 1 .. Len(s) => At(s, k) = s[k]
  BY AtString
<1>4. \A s \in String : Len(s) \in Nat
  BY DEF String
<1> QED
  BY <1>1, <1>2, <1>3, <1>4 DEF P, I

(* A brace of s opens at k; it goes on at q. *)
LEMMA BraceOpens ==
  ASSUME NEW s \in String, NEW k \in Nat, s[k] = "OPEN"
  PROVE  InBrace(s, k, k + 1) /\ Ends(s, k, k + 1)
<1>1. k + 1 - 1 = k
  OBVIOUS
<1>2. (\A d \in k + 1 .. k + 1 - 1 : FALSE) /\ (\A d \in k .. k + 1 - 2 : FALSE)
  OBVIOUS
<1> QED
  BY <1>1, <1>2 DEF InBrace, Ends

LEMMA BraceGoesOn ==
  ASSUME NEW s \in String, NEW k \in Nat, NEW q \in Nat, k < q
  PROVE  /\ InBrace(s, k, q)
         /\ s[q] \notin IllegalInside \cup {"CLOSE"}
         /\ ~(s[q] \in {"COMMA", "CLOSE"} /\ Ends(s, k, q))
         => InBrace(s, k, q + 1) /\ (Ends(s, k, q + 1) <=> s[q] = "COMMA")
<1> DEFINE Bad == IllegalInside \cup {"CLOSE"}
<1>1. HAVE InBrace(s, k, q) /\ s[q] \notin Bad /\ ~(s[q] \in {"COMMA", "CLOSE"} /\ Ends(s, k, q))
<1> HIDE DEF Bad
<1>2. /\ s[k] = "OPEN"
      /\ \A d \in k + 1 .. q - 1 : s[d] \notin Bad
      /\ \A d \in k .. q - 2 : d = k \/ s[d] = "COMMA" => s[d + 1] \notin {"COMMA", "CLOSE"}
  BY <1>1 DEF InBrace, Bad
<1>3. q - 1 = k \/ s[q - 1] = "COMMA" => s[q] \notin {"COMMA", "CLOSE"}
  BY <1>1 DEF Ends
<1>4. q + 1 - 1 = q /\ q # k
  OBVIOUS
<1>5. \A d \in k + 1 .. q + 1 - 1 : d = q \/ d \in k + 1 .. q - 1
  OBVIOUS
<1>6. \A d \in k + 1 .. q + 1 - 1 : s[d] \notin Bad
  BY <1>1, <1>2, <1>5
<1>7. ASSUME NEW d \in k .. q + 1 - 2, d = k \/ s[d] = "COMMA"
      PROVE  s[d + 1] \notin {"COMMA", "CLOSE"}
  <2>1. (d = q - 1 /\ d + 1 = q) \/ d \in k .. q - 2
    OBVIOUS
  <2> QED
    BY <1>2, <1>3, <1>7, <2>1
<1>8. \A d \in k .. q + 1 - 2 : d = k \/ s[d] = "COMMA" => s[d + 1] \notin {"COMMA", "CLOSE"}
  BY <1>7
<1>9. Ends(s, k, q + 1) <=> s[q] = "COMMA"
  BY <1>4 DEF Ends
<1> QED
  BY <1>2, <1>6, <1>8, <1>9 DEF InBrace, Bad

(* What the matcher's scans of a brace rest on. *)
LEMMA ClosesFacts ==
  ASSUME NEW s, NEW k \in Nat, NEW c \in Nat, k < c
  PROVE  Closes(s, k, c) =>
           /\ s[c] = "CLOSE" /\ k + 1 < c /\ s[k + 1] \notin {"COMMA", "CLOSE"}
           /\ \A d \in k + 1 .. c - 1 :
                /\ s[d] # "CLOSE"
                /\ s[d] = "COMMA" => d + 1 < c /\ s[d + 1] \notin {"COMMA", "CLOSE"}
<1>1. HAVE Closes(s, k, c)
<1>2. s[c] = "CLOSE" /\ c - 1 # k /\ s[c - 1] # "COMMA"
  BY <1>1 DEF Closes, Ends
<1>3. \A d \in k + 1 .. c - 1 : s[d] # "CLOSE"
  BY <1>1 DEF Closes, InBrace
<1>4. \A d \in k .. c - 2 : d = k \/ s[d] = "COMMA" => s[d + 1] \notin {"COMMA", "CLOSE"}
  BY <1>1 DEF Closes, InBrace
<1>5. k + 1 < c /\ k \in k .. c - 2
  BY <1>2
<1>6. ASSUME NEW d \in k + 1 .. c - 1, s[d] = "COMMA"
      PROVE  d + 1 < c /\ s[d + 1] \notin {"COMMA", "CLOSE"}
  <2>1. d # c - 1
    BY <1>2, <1>6
  <2>2. d + 1 < c /\ d \in k .. c - 2
    BY <2>1
  <2> QED
    BY <1>4, <1>6, <2>2
<1> QED
  BY <1>2, <1>3, <1>4, <1>5, <1>6

(* A token of a compiled pattern that is no brace is followed by a token; a brace
   is closed. *)
LEMMA NextToken ==
  ASSUME NEW s, NEW ts, NEW q \in Nat
  PROVE  ReadTo(s, ts, q) =>
           \A k \in ts \ {q} :
             /\ k \in 2 .. q - 1
             /\ s[k] # "OPEN" => k + 1 \in ts
             /\ s[k] = "OPEN" => \E c \in k + 1 .. q - 1 : Closes(s, k, c) /\ c + 1 \in ts
<1>1. HAVE ReadTo(s, ts, q)
<1>2. ts \subseteq 2 .. q
  BY <1>1 DEF ReadTo
<1>3. \A k \in ts \ {q} :
        IF s[k] = "OPEN"
        THEN \E c \in k + 1 .. q - 1 : Closes(s, k, c) /\ c + 1 \in ts
        ELSE k + 1 \in ts
  BY <1>1 DEF ReadTo
<1>4. \A k \in ts \ {q} : k \in 2 .. q - 1
  BY <1>2
<1> QED
  BY <1>3, <1>4

-----------------------------------------------------------------------------
LEMMA VerifyNextStep ==
  ASSUME CursorInv, VerifyNext
  PROVE  CursorInv'
<1>1. pc = "verify" /\ P \notin {"OPEN", NUL}
  BY DEF VerifyNext
<1>2. /\ p' = p + 1 /\ tokens' = tokens \cup {p + 1}
      /\ slash' \in {p, slash} /\ has_meta' \in BOOLEAN
      /\ pc' = pc /\ pattern' = pattern /\ kind' = kind /\ seg_len' = seg_len
      /\ input' = input /\ i' = i /\ mark' = mark /\ ret' = ret
  BY DEF VerifyNext, TypeOK, CursorInv, verifying, matching
<1>3. TypeOK /\ InBounds
  BY DEF CursorInv
<1>4. kind = INVALID /\ ReadTo(pattern, tokens, p)
  BY <1>1 DEF CursorInv, Verifying
<1>5. p \in 1 .. Len(pattern)
  BY <1>1, <1>3, Facts
<1>6. pattern[p] # "OPEN"
  BY <1>1, <1>3, <1>5, Facts
<1>7. InBounds' /\ p' \in Nat /\ slash' \in Nat
  BY <1>2, <1>3, <1>5, Numbers DEF InBounds
<1>8. TypeOK'
  BY <1>2, <1>3, <1>7 DEF TypeOK
<1>9. ReadTo(pattern, tokens \cup {p + 1}, p + 1)
  <2>1. p \in Nat /\ p + 1 \in Nat /\ p < p + 1
    BY <1>3 DEF TypeOK
  <2> QED
    BY <1>4, <1>6, <2>1, ReadMore
<1> QED
  BY <1>1, <1>2, <1>4, <1>7, <1>8, <1>9 DEF CursorInv, Verifying, Compiled, Matching, INVALID

LEMMA RejectStep ==
  ASSUME CursorInv, VerifyReject \/ BraceReject
  PROVE  CursorInv'
<1>1. pc \in {"verify", "brace"} /\ pc' = "compiled" /\ kind' = INVALID
  BY DEF VerifyReject, BraceReject, Verdict
<1>2. UNCHANGED <<p, slash, pattern, seg_len, has_meta, tokens, input, i, mark, ret>>
  BY DEF VerifyReject, BraceReject, Verdict, matching
<1>3. TypeOK' /\ InBounds'
  BY <1>1, <1>2 DEF CursorInv, TypeOK, InBounds
<1>i. i = 1
  BY <1>1 DEF CursorInv, Matching
<1> QED
  BY <1>i, <1>1, <1>2, <1>3 DEF CursorInv, Verifying, Compiled, Matching

LEMMA VerifyEndStep ==
  ASSUME CursorInv, VerifyEnd
  PROVE  CursorInv'
<1>1. pc = "verify" /\ P = NUL /\ pc' = "compiled" /\ kind' \in {INVALID, STATIC, DYNAMIC}
  BY DEF VerifyEnd, Verdict
<1>2. UNCHANGED <<p, slash, pattern, seg_len, has_meta, tokens, input, i, mark, ret>>
  BY DEF VerifyEnd, Verdict, matching
<1>3. TypeOK /\ InBounds
  BY DEF CursorInv
<1>4. TypeOK' /\ InBounds'
  BY <1>1, <1>2, <1>3 DEF TypeOK, InBounds
<1>5. ReadTo(pattern, tokens, p)
  BY <1>1 DEF CursorInv, Verifying
<1>6. p \notin 1 .. Len(pattern)
  BY <1>1, <1>3, Facts
<1>7. p \in tokens /\ tokens \subseteq 2 .. p
  BY <1>5 DEF ReadTo
<1>8. p = Len(pattern) + 1
  BY <1>3, <1>6, <1>7, Numbers DEF InBounds
<1>9. ReadTo(pattern, tokens, Len(pattern) + 1)
  BY <1>5, <1>8
<1> QED
  BY <1>1, <1>2, <1>4, <1>9 DEF CursorInv, Verifying, Compiled, Matching

LEMMA VerifyBraceStep ==
  ASSUME CursorInv, VerifyBrace
  PROVE  CursorInv'
<1>1. pc = "verify" /\ P = "OPEN"
  BY DEF VerifyBrace
<1>2. /\ p' = p + 1 /\ pc' = "brace" /\ seg_len' = 0 /\ has_meta' = TRUE
      /\ slash' = slash /\ pattern' = pattern /\ kind' = kind /\ tokens' = tokens
      /\ input' = input /\ i' = i /\ mark' = mark /\ ret' = ret
  BY DEF VerifyBrace, matching
<1>3. TypeOK /\ InBounds
  BY DEF CursorInv
<1>4. kind = INVALID /\ ReadTo(pattern, tokens, p)
  BY <1>1 DEF CursorInv, Verifying
<1>5. p \in 1 .. Len(pattern)
  BY <1>1, <1>3, Facts DEF NUL
<1>6. pattern[p] = "OPEN"
  BY <1>1, <1>3, <1>5, Facts
<1>7. InBounds' /\ p' \in Nat /\ p < p'
  BY <1>2, <1>3, <1>5, Numbers DEF InBounds
<1>8. TypeOK'
  BY <1>2, <1>3, <1>7 DEF TypeOK
<1>9. InBrace(pattern, p, p + 1) /\ Ends(pattern, p, p + 1)
  BY <1>3, <1>5, <1>6, BraceOpens, Numbers
<1>10. p \in tokens
  BY <1>4 DEF ReadTo
<1>11. \E k \in tokens : /\ ReadTo(pattern, tokens, k) /\ k < p + 1
                         /\ InBrace(pattern, k, p + 1)
                         /\ 0 = 0 <=> Ends(pattern, k, p + 1)
  BY <1>2, <1>4, <1>7, <1>9, <1>10
<1>i. i = 1
  BY <1>1 DEF CursorInv, Matching
<1> QED
  BY <1>i, <1>2, <1>4, <1>7, <1>8, <1>11 DEF CursorInv, Verifying, Compiled, Matching, INVALID

(* A turn inside a brace, but for a refusal: its '{' is at k. *)
LEMMA BraceFacts ==
  ASSUME CursorInv, pc = "brace", P # NUL
  PROVE  \E k \in Nat :
           /\ k \in tokens /\ ReadTo(pattern, tokens, k) /\ InBrace(pattern, k, p)
           /\ seg_len = 0 <=> Ends(pattern, k, p)
           /\ k < p /\ p \in 1 .. Len(pattern) /\ P = pattern[p] /\ kind = INVALID
<1>1. TypeOK /\ kind = INVALID
  BY DEF CursorInv, Verifying
<1>2. PICK k \in tokens : /\ ReadTo(pattern, tokens, k) /\ k < p
                          /\ InBrace(pattern, k, p)
                          /\ seg_len = 0 <=> Ends(pattern, k, p)
  BY DEF CursorInv, Verifying
<1>3. tokens \subseteq 2 .. k
  BY <1>2 DEF ReadTo
<1>4. k \in Nat
  BY <1>3
<1>5. p \in 1 .. Len(pattern) /\ P = pattern[p]
  BY <1>1, Facts
<1> QED
  BY <1>1, <1>2, <1>4, <1>5

LEMMA BraceNextStep ==
  ASSUME CursorInv, BraceNext
  PROVE  CursorInv'
<1>1. pc = "brace" /\ P \notin IllegalInside \cup {"CLOSE"} /\ ~Empty
  BY DEF BraceNext
<1>2. /\ p' = p + 1 /\ pc' = "brace" /\ has_meta' = has_meta
      /\ slash' = slash /\ pattern' = pattern /\ kind' = kind /\ tokens' = tokens
      /\ input' = input /\ i' = i /\ mark' = mark /\ ret' = ret
  BY DEF BraceNext, matching
<1>3. seg_len' = IF P = "COMMA" THEN 0 ELSE seg_len + 1
  BY DEF BraceNext
<1>4. PICK k \in Nat :
        /\ k \in tokens /\ ReadTo(pattern, tokens, k) /\ InBrace(pattern, k, p)
        /\ seg_len = 0 <=> Ends(pattern, k, p)
        /\ k < p /\ p \in 1 .. Len(pattern) /\ P = pattern[p] /\ kind = INVALID
  BY <1>1, BraceFacts DEF IllegalInside
<1>5. TypeOK /\ InBounds /\ p \in 1 .. Len(pattern) /\ k < p
  BY <1>4 DEF CursorInv
<1>6. InBounds' /\ p' \in Nat /\ seg_len' \in Nat
  <2>1. seg_len' \in {0, seg_len + 1}
    BY <1>3
  <2> QED
    BY <1>2, <1>5, <2>1, Numbers DEF InBounds
<1>7. TypeOK'
  BY <1>2, <1>5, <1>6 DEF TypeOK
<1>8. InBrace(pattern, k, p + 1) /\ (Ends(pattern, k, p + 1) <=> pattern[p] = "COMMA")
  <2>1. pattern[p] \notin IllegalInside \cup {"CLOSE"}
    BY <1>1, <1>4
  <2>2. ~(pattern[p] \in {"COMMA", "CLOSE"} /\ Ends(pattern, k, p))
    BY <1>1, <1>4 DEF Empty
  <2> QED
    BY <1>4, <1>5, <2>1, <2>2, BraceGoesOn, Numbers
<1>9. seg_len' = 0 <=> Ends(pattern, k, p + 1)
  <2>1. seg_len + 1 # 0
    BY <1>5, Numbers
  <2> QED
    BY <1>3, <1>4, <1>8, <2>1
<1>10. k < p + 1
  BY <1>5
<1>i. i = 1
  BY <1>1 DEF CursorInv, Matching
<1> QED
  BY <1>i, <1>2, <1>4, <1>6, <1>7, <1>8, <1>9, <1>10
     DEF CursorInv, Verifying, Compiled, Matching, INVALID

LEMMA BraceCloseStep ==
  ASSUME CursorInv, BraceClose
  PROVE  CursorInv'
<1>1. pc = "brace" /\ P = "CLOSE" /\ ~Empty
  BY DEF BraceClose
<1>2. /\ p' = p + 1 /\ pc' = "verify" /\ tokens' = tokens \cup {p + 1}
      /\ has_meta' = has_meta /\ seg_len' = seg_len
      /\ slash' = slash /\ pattern' = pattern /\ kind' = kind
      /\ input' = input /\ i' = i /\ mark' = mark /\ ret' = ret
  BY DEF BraceClose, matching
<1>3. PICK k \in Nat :
        /\ k \in tokens /\ ReadTo(pattern, tokens, k) /\ InBrace(pattern, k, p)
        /\ seg_len = 0 <=> Ends(pattern, k, p)
        /\ k < p /\ p \in 1 .. Len(pattern) /\ P = pattern[p] /\ kind = INVALID
  BY <1>1, BraceFacts DEF NUL
<1>4. TypeOK /\ InBounds /\ p \in 1 .. Len(pattern) /\ k < p
  BY <1>3 DEF CursorInv
<1>5. InBounds' /\ p' \in Nat
  BY <1>2, <1>4, Numbers DEF InBounds
<1>6. TypeOK'
  BY <1>2, <1>4, <1>5 DEF TypeOK
<1>7. Closes(pattern, k, p) /\ pattern[k] = "OPEN"
  BY <1>1, <1>3 DEF Closes, Empty, InBrace
<1>8. p + 1 \in Nat /\ k < p + 1 /\ p + 1 - 1 = p
  BY <1>4
<1>9. ReadTo(pattern, tokens \cup {p + 1}, p + 1)
  <2>1. IF pattern[k] = "OPEN" THEN Closes(pattern, k, p + 1 - 1) ELSE p + 1 = k + 1
    BY <1>7, <1>8
  <2> QED
    BY <1>3, <1>7, <1>8, <2>1, ReadMore
<1>i. i = 1
  BY <1>1 DEF CursorInv, Matching
<1> QED
  BY <1>i, <1>2, <1>3, <1>5, <1>6, <1>9 DEF CursorInv, Verifying, Compiled, Matching, INVALID

-----------------------------------------------------------------------------
(* osc_pattern_match leaves the pattern alone.  It is left, or its cursor goes to
   a token. *)
LEMMA Left ==
  ASSUME CursorInv, UNCHANGED verifying,
         pc \notin {"verify", "brace"}, pc' \notin {"verify", "brace", "match", "alt"},
         TypeOK', InBounds', pc' = "answered" \/ i' = 1
  PROVE  CursorInv'
BY DEF CursorInv, Verifying, Compiled, Matching, verifying

LEMMA ToToken ==
  ASSUME CursorInv, UNCHANGED verifying, kind = DYNAMIC, pc' = "match",
         p' \in tokens, TypeOK', i' <= Len(input') + 1
  PROVE  CursorInv'
<1>1. ReadTo(pattern, tokens, Len(pattern) + 1)
  BY DEF CursorInv, Compiled, DYNAMIC, INVALID
<1>2. tokens \subseteq 2 .. Len(pattern) + 1
  BY <1>1 DEF ReadTo
<1>3. InBounds'
  BY <1>2 DEF InBounds, verifying
<1> QED
  BY <1>1, <1>3 DEF CursorInv, Verifying, Compiled, Matching, verifying

LEMMA ToAlternative ==
  ASSUME CursorInv, UNCHANGED verifying, kind = DYNAMIC, pc' = "alt",
         mark' <= Len(input') + 1, TypeOK', InBounds',
         \E k \in tokens, c \in p' + 1 .. Len(pattern) :
            /\ k < p' /\ Closes(pattern, k, c) /\ c + 1 \in tokens
            /\ pattern[p'] \notin {"COMMA", "CLOSE"}
  PROVE  CursorInv'
<1>1. ReadTo(pattern, tokens, Len(pattern) + 1)
  BY DEF CursorInv, Compiled, DYNAMIC, INVALID
<1>2. PICK k \in tokens, c \in p' + 1 .. Len(pattern) :
        /\ k < p' /\ Closes(pattern, k, c) /\ c + 1 \in tokens
        /\ pattern[p'] \notin {"COMMA", "CLOSE"}
  OBVIOUS
<1>3. k \in tokens' /\ c \in (p + 1 .. Len(pattern))' /\ InAlternative(k, c)'
  BY <1>2 DEF InAlternative, verifying
<1> QED
  BY <1>1, <1>3 DEF CursorInv, Verifying, Compiled, Matching, verifying

(* A token is the end of the pattern, or another one follows it, after its brace
   if it is one. *)
LEMMA AfterToken ==
  ASSUME CursorInv, kind = DYNAMIC, NEW q \in tokens, At(pattern, q) # NUL
  PROVE  /\ q \in 2 .. Len(pattern) /\ At(pattern, q) = pattern[q]
         /\ pattern[q] # "OPEN" => q + 1 \in tokens
         /\ pattern[q] = "OPEN" =>
              \E c \in q + 1 .. Len(pattern) : Closes(pattern, q, c) /\ c + 1 \in tokens
<1>1. ReadTo(pattern, tokens, Len(pattern) + 1) /\ TypeOK
  BY DEF CursorInv, Compiled, DYNAMIC, INVALID
<1> DEFINE e == Len(pattern) + 1
<1>2. pattern \in String /\ e \in Nat /\ e - 1 = Len(pattern) /\ e \notin 1 .. Len(pattern)
  BY <1>1, Numbers
<1> HIDE DEF e
<1>3. ReadTo(pattern, tokens, e)
  BY <1>1 DEF e
<1>4. At(pattern, e) = NUL
  BY <1>2, AtString
<1>5. q \in tokens \ {e}
  BY <1>4
<1>6. /\ q \in 2 .. e - 1
      /\ pattern[q] # "OPEN" => q + 1 \in tokens
      /\ pattern[q] = "OPEN" =>
           \E c \in q + 1 .. e - 1 : Closes(pattern, q, c) /\ c + 1 \in tokens
  BY <1>2, <1>3, <1>5, NextToken
<1>7. q \in Nat /\ q \in 1 .. Len(pattern)
  BY <1>2, <1>6
<1>8. At(pattern, q) = pattern[q]
  BY <1>2, <1>7, AtString
<1> QED
  BY <1>2, <1>6, <1>8

LEMMA OutsideSteps ==
  ASSUME CursorInv, Drop \/ Return \/ MatchStatic \/ Compile
  PROVE  CursorInv'
<1>1. CASE Drop
  <2>1. /\ pc = "compiled" /\ pc' = "compiled" /\ pattern' = <<>> /\ kind' = INVALID
        /\ p' = 1 /\ slash' = 1 /\ seg_len' = 0 /\ has_meta' = FALSE /\ tokens' = {}
        /\ input' = input /\ i' = i /\ mark' = mark /\ ret' = ret
    BY <1>1 DEF Drop, matching
  <2>2. <<>> \in Seq(STRING \ {NUL}) /\ Len(<<>>) = 0
    OBVIOUS
  <2>3. TypeOK'
    BY <2>1, <2>2 DEF CursorInv, TypeOK
  <2>4. InBounds'
    BY <2>1, <2>2 DEF CursorInv, InBounds
  <2> QED
    BY <2>1, <2>3, <2>4 DEF CursorInv, Verifying, Compiled, Matching
<1>2. CASE Return
  <2>1. /\ pc = "answered" /\ pc' = "compiled" /\ p' = 1 /\ slash' = 1
        /\ input' = <<>> /\ i' = 1 /\ mark' = 1 /\ ret' = FALSE
        /\ UNCHANGED verifying /\ pattern' = pattern
    BY <1>2 DEF Return, verifying
  <2>2. <<>> \in Seq(STRING \ {NUL}) /\ Len(<<>>) = 0
    OBVIOUS
  <2>3. TypeOK'
    BY <2>1, <2>2 DEF CursorInv, TypeOK, verifying
  <2>4. TypeOK
    BY DEF CursorInv
  <2>5. InBounds'
    BY <2>1, <2>2, <2>4, Numbers DEF InBounds
  <2> QED
    BY <2>1, <2>3, <2>5, Left
<1>3. CASE MatchStatic
  <2>1. /\ pc = "compiled" /\ pc' = "answered" /\ p' = p /\ slash' = slash /\ i' = i
        /\ input' \in Inputs /\ mark' = mark /\ ret' \in BOOLEAN /\ UNCHANGED verifying
    BY <1>3 DEF MatchStatic
  <2>2. input' \in Seq(STRING \ {NUL})
    BY <2>1, PatternAssumption DEF NUL
  <2>3. TypeOK'
    BY <2>1, <2>2 DEF CursorInv, TypeOK, verifying
  <2>4. i = 1 /\ Len(input') \in Nat
    BY <2>1, <2>2 DEF CursorInv, Matching
  <2>5. InBounds'
    BY <2>1, <2>4 DEF CursorInv, InBounds, verifying
  <2> QED
    BY <2>1, <2>3, <2>5, Left
<1>4. CASE Compile
  <2>1. /\ slash' = slash /\ kind' = kind /\ seg_len' = seg_len /\ has_meta' = has_meta
        /\ input' = input /\ i' = i /\ mark' = mark /\ ret' = ret /\ tokens' = {2}
        /\ pattern = <<>> /\ pattern' \in Patterns
        /\ \/ pc' = "verify" /\ p' = 2 /\ At(pattern', 1) = "/"
           \/ pc' = "compiled" /\ p' = 1
    BY <1>4 DEF Compile, matching
  <2>2. pattern' \in String
    BY <2>1, PatternAssumption DEF NUL, String
  <2>3. Len(pattern') \in Nat
    BY <2>2 DEF String
  <2>4. kind = INVALID
    <3>1. kind # INVALID => ReadTo(<<>>, tokens, Len(<<>>) + 1)
      BY <2>1 DEF CursorInv, Compiled
    <3>2. ReadTo(<<>>, tokens, Len(<<>>) + 1) => 2 \in 2 .. Len(<<>>) + 1
      BY DEF ReadTo
    <3>3. 2 \notin 2 .. Len(<<>>) + 1
      OBVIOUS
    <3> QED
      BY <3>1, <3>2, <3>3
  <2>5. TypeOK'
    <3>1. p' \in Nat
      BY <2>1
    <3> QED
      BY <2>1, <2>2, <3>1 DEF CursorInv, TypeOK, String
  <2>6. InBounds'
    <3>1. At(pattern', 1) = "/" => 1 \in 1 .. Len(pattern')
      BY <2>2, AtString DEF NUL
    <3> QED
      BY <2>1, <2>3, <3>1 DEF CursorInv, InBounds
  <2>7. ReadTo(pattern', {2}, 2)
    BY DEF ReadTo
  <2>8. pc = "compiled" => i = 1
    BY DEF CursorInv, Matching
  <2> QED
    BY <1>4, <2>1, <2>4, <2>5, <2>6, <2>7, <2>8
       DEF Compile, CursorInv, Verifying, Compiled, Matching
<1> QED
  BY <1>1, <1>2, <1>3, <1>4

LEMMA MatchDynamicStep ==
  ASSUME CursorInv, MatchDynamic
  PROVE  CursorInv'
<1>1. /\ pc = "compiled" /\ kind = DYNAMIC /\ input' \in Inputs /\ mark' = mark
      /\ slash' = 1 /\ ret' = FALSE /\ UNCHANGED verifying /\ pattern' = pattern
  BY DEF MatchDynamic, verifying
<1>2. \/ pc' = "match" /\ p' = 2 /\ i' = 2 /\ At(input', 1) = "/"
      \/ pc' = "answered" /\ p' = 1 /\ i' = 1
  BY DEF MatchDynamic
<1>3. input' \in String
  BY <1>1, PatternAssumption DEF NUL, String
<1>4. TypeOK'
  <2>1. p' \in Nat /\ i' \in Nat
    BY <1>2
  <2> QED
    BY <1>1, <1>2, <1>3, <2>1 DEF CursorInv, TypeOK, verifying, String
<1>5. Len(input') \in Nat
  BY <1>3 DEF String
<1>6. CASE pc' = "answered"
  <2>1. TypeOK
    BY DEF CursorInv
  <2>2. InBounds'
    BY <1>1, <1>2, <1>5, <1>6, <2>1, Numbers DEF InBounds
  <2> QED
    BY <1>1, <1>4, <1>6, <2>2, Left
<1>7. CASE pc' = "match"
  <2>1. 2 \in tokens
    BY <1>1 DEF CursorInv, Compiled, ReadTo, DYNAMIC, INVALID
  <2>2. 1 \in 1 .. Len(input')
    BY <1>2, <1>3, <1>7, AtString DEF NUL
  <2>3. i' <= Len(input') + 1
    BY <1>2, <1>5, <1>7, <2>2
  <2> QED
    BY <1>1, <1>2, <1>4, <1>7, <2>1, <2>3, ToToken
<1> QED
  BY <1>2, <1>6, <1>7

-----------------------------------------------------------------------------
(* The turns of do_pattern_match. *)
LEMMA Typed ==
  ASSUME CursorInv, UNCHANGED <<verifying, input>>, pc' \in {"match", "alt", "answered"},
         p' \in Nat, i' \in Nat, slash' \in Nat, mark' \in Nat, ret' \in BOOLEAN
  PROVE  TypeOK'
BY DEF CursorInv, TypeOK, verifying

LEMMA MatchingFacts ==
  ASSUME CursorInv, pc = "match"
  PROVE  /\ kind = DYNAMIC /\ p \in tokens /\ p \in Nat /\ p <= Len(pattern) + 1
         /\ i \in Nat /\ slash \in Nat /\ mark \in Nat /\ ret \in BOOLEAN
         /\ Len(pattern) \in Nat /\ Len(input) \in Nat /\ i <= Len(input) + 1
         /\ I # NUL => i \in 1 .. Len(input) /\ I = input[i]
         /\ At(pattern, p) = P
<1>1. TypeOK /\ InBounds
  BY DEF CursorInv
<1>2. I # NUL => i \in 1 .. Len(input) /\ I = input[i]
  BY <1>1, Facts
<1> QED
  BY <1>1, <1>2, Numbers DEF CursorInv, Matching, TypeOK, InBounds, P

LEMMA GoStep ==
  ASSUME CursorInv, pc \in {"match", "alt"}, p' \in tokens, pc' = "match", slash' \in {i, slash},
         i' \in Nat, i' <= Len(input) + 1, UNCHANGED <<verifying, input, mark, ret>>
  PROVE  CursorInv'
<1>1. /\ kind = DYNAMIC /\ i \in Nat /\ slash \in Nat /\ mark \in Nat /\ ret \in BOOLEAN
  BY DEF CursorInv, Matching, TypeOK
<1>2. p' \in Nat
  BY DEF CursorInv, Compiled, ReadTo, Matching, DYNAMIC, INVALID
<1>3. TypeOK'
  BY <1>1, <1>2, Typed
<1> QED
  BY <1>1, <1>3, ToToken

LEMMA AnswerStep ==
  ASSUME CursorInv, pc \in {"match", "alt"}, pc' = "answered", UNCHANGED <<verifying, input>>,
         p' \in Nat, p' <= Len(pattern) + 1, i' \in Nat, i' <= Len(input) + 1,
         slash' = slash, mark' = mark, ret' \in BOOLEAN
  PROVE  CursorInv'
<1>1. TypeOK'
  BY Typed DEF CursorInv, TypeOK
<1>2. InBounds'
  BY DEF InBounds, verifying
<1> QED
  BY <1>1, <1>2, Left

LEMMA MatchSlashStep ==
  ASSUME CursorInv, MatchSlash
  PROVE  CursorInv'
<1>1. pc = "match" /\ P # NUL /\ I = "/"
  BY DEF MatchSlash
<1>2. i \in 1 .. Len(input)
  BY <1>1, MatchingFacts DEF NUL
<1>3. PICK q \in {p, p + 1} :
        /\ q = IF P = "*" THEN p + 1 ELSE p
        /\ IF i - slash = 1 \/ At(pattern, q) # "/"
           THEN Answer(FALSE) /\ UNCHANGED <<p, i>>
           ELSE /\ p' = q + 1 /\ i' = i + 1 /\ slash' = i
                /\ UNCHANGED <<pc, verifying, input, mark, ret>>
  BY DEF MatchSlash
<1>4. CASE Answer(FALSE) /\ UNCHANGED <<p, i>>
  BY <1>1, <1>4, MatchingFacts, AnswerStep DEF Answer
<1>5. CASE At(pattern, q) = "/" /\ ~(Answer(FALSE) /\ UNCHANGED <<p, i>>)
  <2>1. p' = q + 1 /\ i' = i + 1 /\ slash' = i /\ UNCHANGED <<pc, verifying, input, mark, ret>>
    BY <1>3, <1>5
  <2>2. p + 1 \in tokens \/ P # "*"
    BY <1>1, MatchingFacts, AfterToken
  <2>3. q \in tokens
    BY <1>1, <1>3, <2>2, MatchingFacts
  <2>4. q + 1 \in tokens
    BY <1>1, <1>5, <2>3, AfterToken, MatchingFacts DEF NUL
  <2>5. i + 1 \in Nat /\ i + 1 <= Len(input) + 1
    BY <1>1, <1>2, MatchingFacts
  <2> QED
    BY <1>1, <2>1, <2>4, <2>5, GoStep
<1> QED
  BY <1>3, <1>4, <1>5

LEMMA MatchOneStep ==
  ASSUME CursorInv, MatchOne
  PROVE  CursorInv'
<1>1. pc = "match" /\ P \notin {"*", "OPEN", NUL} /\ I # NUL
  BY DEF MatchOne
<1>2. i \in 1 .. Len(input) /\ Len(input) \in Nat
  BY <1>1, MatchingFacts
<1>3. p + 1 \in tokens
  BY <1>1, MatchingFacts, AfterToken
<1>4. CASE Answer(FALSE) /\ UNCHANGED <<p, i>>
  BY <1>1, <1>4, MatchingFacts, AnswerStep DEF Answer
<1>5. CASE Go(p + 1, i + 1)
  <2>1. i + 1 \in Nat /\ i + 1 <= Len(input) + 1
    BY <1>2
  <2> QED
    BY <1>1, <1>3, <1>5, <2>1, GoStep DEF Go
<1> QED
  BY <1>4, <1>5 DEF MatchOne

LEMMA MatchStarStep ==
  ASSUME CursorInv, MatchStar
  PROVE  CursorInv'
<1>1. pc = "match" /\ P = "*" /\ I # NUL
  BY DEF MatchStar
<1>2. i \in 1 .. Len(input) /\ Len(input) \in Nat
  BY <1>1, MatchingFacts
<1>3. p + 1 \in tokens
  BY <1>1, MatchingFacts, AfterToken DEF NUL
<1>4. PICK j \in i + 1 .. Len(input) + 1 : Go(p + 1, j)
  BY DEF MatchStar
<1>5. j \in Nat /\ j <= Len(input) + 1
  BY <1>2
<1> QED
  BY <1>1, <1>3, <1>4, <1>5, GoStep DEF Go

LEMMA MatchEndStep ==
  ASSUME CursorInv, MatchEnd
  PROVE  CursorInv'
<1>1. /\ pc = "match" /\ i' = i /\ pc' = "answered" /\ ret' \in BOOLEAN
      /\ UNCHANGED <<slash, verifying, input, mark>>
      /\ p' = IF P = "*" THEN p + 1 ELSE p
  BY DEF MatchEnd, Answer
<1>2. P = "*" => p \in 2 .. Len(pattern)
  BY <1>1, MatchingFacts, AfterToken DEF NUL
<1>3. p' \in Nat /\ p' <= Len(pattern) + 1
  BY <1>1, <1>2, MatchingFacts
<1> QED
  BY <1>1, <1>3, MatchingFacts, AnswerStep

LEMMA MatchBraceStep ==
  ASSUME CursorInv, MatchBrace
  PROVE  CursorInv'
<1>1. /\ pc = "match" /\ P = "OPEN" /\ I # NUL /\ pc' = "alt" /\ p' = p + 1 /\ mark' = i
      /\ UNCHANGED <<slash, i, verifying, input, ret>>
  BY DEF MatchBrace
<1>2. /\ kind = DYNAMIC /\ p \in tokens /\ p \in Nat /\ P = At(pattern, p) /\ slash \in Nat
      /\ i \in Nat /\ i <= Len(input) + 1 /\ ret \in BOOLEAN /\ Len(pattern) \in Nat
  BY <1>1, MatchingFacts
<1>3. PICK c \in p + 1 .. Len(pattern) : Closes(pattern, p, c) /\ c + 1 \in tokens
  BY <1>1, <1>2, AfterToken DEF NUL
<1>4. c \in Nat /\ p < c
  BY <1>2
<1>5. p + 1 < c /\ pattern[p + 1] \notin {"COMMA", "CLOSE"}
  BY <1>2, <1>3, <1>4, ClosesFacts
<1>6. p < p + 1 /\ c \in (p + 1) + 1 .. Len(pattern) /\ p + 1 \in Nat /\ p + 1 <= Len(pattern) + 1
  BY <1>2, <1>5
<1>7. TypeOK'
  BY <1>1, <1>2, <1>6, Typed
<1>8. InBounds'
  BY <1>1, <1>2, <1>6 DEF InBounds, verifying
<1> QED
  BY <1>1, <1>2, <1>3, <1>5, <1>6, <1>7, <1>8, ToAlternative

LEMMA AltFacts ==
  ASSUME CursorInv, pc = "alt"
  PROVE  /\ kind = DYNAMIC /\ Len(pattern) \in Nat /\ Len(input) \in Nat
         /\ p \in Nat /\ i \in Nat /\ slash \in Nat /\ mark \in Nat /\ ret \in BOOLEAN
         /\ i <= Len(input) + 1 /\ mark <= Len(input) + 1 /\ pattern \in String
         /\ \E k \in tokens \cap Nat, c \in Nat :
              /\ k < p /\ p < c /\ c <= Len(pattern)
              /\ Closes(pattern, k, c) /\ c + 1 \in tokens
              /\ pattern[p] \notin {"COMMA", "CLOSE"} /\ P = pattern[p] /\ P # NUL
<1>1. TypeOK /\ InBounds /\ kind = DYNAMIC /\ mark <= Len(input) + 1
  BY DEF CursorInv, Matching
<1>2. PICK k \in tokens, c \in p + 1 .. Len(pattern) : InAlternative(k, c)
  BY DEF CursorInv, Matching
<1>3. k \in Nat
  BY <1>1 DEF CursorInv, Compiled, ReadTo, DYNAMIC, INVALID
<1>4. p < c /\ c <= Len(pattern) /\ c \in Nat
  BY <1>1, <1>2, Numbers
<1>5. k < p
  BY <1>2 DEF InAlternative
<1>6. p \in 1 .. Len(pattern)
  BY <1>1, <1>3, <1>4, <1>5, Numbers
<1>7. P = pattern[p] /\ P # NUL
  BY <1>1, <1>6, Facts
<1> QED
  BY <1>1, <1>2, <1>3, <1>4, <1>5, <1>7, Numbers DEF InAlternative, InBounds, TypeOK

LEMMA AltSameStep ==
  ASSUME CursorInv, AltSame
  PROVE  CursorInv'
<1>1. /\ pc = "alt" /\ P = I /\ i' = i + 1 /\ UNCHANGED <<slash, verifying, input, mark, ret>>
  BY DEF AltSame
<1>2. PICK k \in tokens \cap Nat, c \in Nat :
        /\ k < p /\ p < c /\ c <= Len(pattern)
        /\ Closes(pattern, k, c) /\ c + 1 \in tokens
        /\ pattern[p] \notin {"COMMA", "CLOSE"} /\ P = pattern[p] /\ P # NUL
  BY <1>1, AltFacts
<1>3. /\ kind = DYNAMIC /\ Len(pattern) \in Nat /\ Len(input) \in Nat /\ p \in Nat /\ i \in Nat
      /\ slash \in Nat /\ mark \in Nat /\ ret \in BOOLEAN /\ mark <= Len(input) + 1
      /\ pattern \in String
  BY <1>1, AltFacts
<1>4. i + 1 \in Nat /\ i + 1 <= Len(input) + 1
  <2>1. I # NUL /\ TypeOK
    BY <1>1, <1>2 DEF CursorInv
  <2>2. i \in 1 .. Len(input)
    BY <2>1, Facts
  <2> QED
    BY <1>3, <2>2
<1>5. /\ pattern[c] = "CLOSE"
      /\ \A d \in k + 1 .. c - 1 :
           /\ pattern[d] # "CLOSE"
           /\ pattern[d] = "COMMA" => d + 1 < c /\ pattern[d + 1] \notin {"COMMA", "CLOSE"}
  <2>1. k < c
    BY <1>2, <1>3
  <2> QED
    BY <1>2, <2>1, ClosesFacts
<1>6. p + 1 \in 1 .. Len(pattern) /\ (p + 1 = c \/ p + 1 \in k + 1 .. c - 1)
  BY <1>2, <1>3
<1>7. At(pattern, p + 1) = pattern[p + 1]
  BY <1>3, <1>6, AtString
<1>8. CASE pattern[p + 1] = "CLOSE"
  <2>1. p' = p + 2 /\ pc' = "match"
    BY <1>7, <1>8 DEF AltSame
  <2>2. p + 2 = c + 1
    BY <1>3, <1>5, <1>6, <1>8
  <2> QED
    BY <1>1, <1>2, <1>4, <2>1, <2>2, GoStep
<1>9. CASE pattern[p + 1] = "COMMA"
  <2>1. p' = Scan(p + 2, {"CLOSE"}) + 1 /\ pc' = "match"
    BY <1>7, <1>9 DEF AltSame
  <2>2. p + 1 \in k + 1 .. c - 1
    BY <1>5, <1>6, <1>9
  <2>3. p + 2 < c + 1
    BY <1>3, <1>5, <1>9, <2>2
  <2>4. c \in p + 2 .. Len(pattern) /\ p + 2 \in Nat \ {0}
    BY <1>2, <1>3, <2>3
  <2> DEFINE z == Scan(p + 2, {"CLOSE"})
  <2>5. z \in p + 2 .. c /\ pattern[z] \in {"CLOSE"}
    BY <1>3, <1>5, <2>4, ScanFinds
  <2> HIDE DEF z
  <2>6. z = c \/ z \in k + 1 .. c - 1
    BY <1>2, <1>3, <2>5
  <2>7. z = c
    BY <1>5, <2>5, <2>6
  <2>8. p' = c + 1
    BY <2>1, <2>7 DEF z
  <2> QED
    BY <1>1, <1>2, <1>4, <2>1, <2>8, GoStep
<1>10. CASE pattern[p + 1] \notin {"COMMA", "CLOSE"}
  <2>1. p' = p + 1 /\ pc' = "alt"
    BY <1>7, <1>10 DEF AltSame
  <2>2. p + 1 # c
    BY <1>5, <1>10
  <2>3. k < p + 1 /\ c \in (p + 1) + 1 .. Len(pattern) /\ p + 1 \in Nat /\ p + 1 <= Len(pattern) + 1
    BY <1>2, <1>3, <2>2
  <2>4. TypeOK'
    BY <1>1, <1>3, <1>4, <2>1, <2>3, Typed
  <2>5. InBounds'
    BY <1>1, <1>4, <2>1, <2>3 DEF InBounds, verifying
  <2> QED
    BY <1>1, <1>2, <1>3, <1>10, <2>1, <2>3, <2>4, <2>5, ToAlternative
<1> QED
  BY <1>8, <1>9, <1>10

LEMMA AltOtherStep ==
  ASSUME CursorInv, AltOther
  PROVE  CursorInv'
<1> DEFINE z == Scan(p, {"COMMA", "CLOSE"})
<1>1. /\ pc = "alt" /\ i' = mark /\ UNCHANGED <<slash, verifying, input, mark>>
      /\ IF At(pattern, z) = "COMMA"
         THEN p' = z + 1 /\ pc' = "alt" /\ ret' = ret
         ELSE p' = z /\ pc' = "answered" /\ ret' = FALSE
  BY DEF AltOther, Go, Answer
<1>2. PICK k \in tokens \cap Nat, c \in Nat :
        /\ k < p /\ p < c /\ c <= Len(pattern)
        /\ Closes(pattern, k, c) /\ c + 1 \in tokens
  BY <1>1, AltFacts
<1>3. /\ kind = DYNAMIC /\ Len(pattern) \in Nat /\ Len(input) \in Nat /\ p \in Nat
      /\ slash \in Nat /\ mark \in Nat /\ ret \in BOOLEAN /\ mark <= Len(input) + 1
      /\ pattern \in String
  BY <1>1, AltFacts
<1>4. /\ pattern[c] = "CLOSE"
      /\ \A d \in k + 1 .. c - 1 :
           pattern[d] = "COMMA" => d + 1 < c /\ pattern[d + 1] \notin {"COMMA", "CLOSE"}
  <2>1. k < c
    BY <1>2, <1>3
  <2> QED
    BY <1>2, <2>1, ClosesFacts
<1>5. c \in p .. Len(pattern) /\ p \in Nat \ {0}
  BY <1>2, <1>3
<1>6. z \in p .. c /\ pattern[z] \in {"COMMA", "CLOSE"}
  BY <1>3, <1>4, <1>5, ScanFinds
<1> HIDE DEF z
<1>7. /\ z \in 1 .. Len(pattern) /\ z \in Nat /\ z <= Len(pattern) + 1
      /\ z = c \/ z \in k + 1 .. c - 1
  BY <1>2, <1>3, <1>6
<1>8. At(pattern, z) = pattern[z]
  BY <1>3, <1>7, AtString
<1>9. CASE pattern[z] # "COMMA"
  BY <1>1, <1>3, <1>7, <1>8, <1>9, AnswerStep
<1>10. CASE pattern[z] = "COMMA"
  <2>1. z + 1 < c /\ pattern[z + 1] \notin {"COMMA", "CLOSE"}
    BY <1>4, <1>7, <1>10
  <2>2. p' = z + 1 /\ pc' = "alt" /\ ret' = ret
    BY <1>1, <1>8, <1>10
  <2>3. k < z + 1 /\ c \in (z + 1) + 1 .. Len(pattern) /\ z + 1 \in Nat /\ z + 1 <= Len(pattern) + 1
    BY <1>2, <1>3, <1>6, <2>1
  <2>4. TypeOK'
    BY <1>1, <1>3, <2>2, <2>3, Typed
  <2>5. InBounds'
    BY <1>1, <1>3, <2>2, <2>3 DEF InBounds, verifying
  <2> QED
    BY <1>1, <1>2, <1>3, <2>1, <2>2, <2>3, <2>4, <2>5, ToAlternative
<1> QED
  BY <1>9, <1>10

-----------------------------------------------------------------------------
LEMMA CursorStep ==
  ASSUME CursorInv, [Next]_vars
  PROVE  CursorInv'
<1>1. CASE Compile \/ Drop \/ Return \/ MatchStatic
  BY <1>1, OutsideSteps
<1>2. CASE MatchDynamic
  BY <1>2, MatchDynamicStep
<1>3. CASE VerifyReject \/ VerifyNext \/ VerifyBrace \/ VerifyEnd
           \/ BraceReject \/ BraceNext \/ BraceClose
  BY <1>3, RejectStep, VerifyNextStep, VerifyBraceStep, VerifyEndStep, BraceNextStep,
     BraceCloseStep
<1>4. CASE MatchSlash \/ MatchOne \/ MatchStar \/ MatchBrace \/ MatchEnd
           \/ AltSame \/ AltOther
  BY <1>4, MatchSlashStep, MatchOneStep, MatchStarStep, MatchBraceStep, MatchEndStep,
     AltSameStep, AltOtherStep
<1>5. CASE UNCHANGED vars
  BY <1>5 DEF CursorInv, TypeOK, InBounds, Verifying, Compiled, Matching, InAlternative,
     vars, verifying, matching
<1> QED
  BY <1>1, <1>2, <1>3, <1>4, <1>5 DEF Next, Turn

LEMMA CursorInit ==
  Init => CursorInv
<1>1. <<>> \in Seq(STRING \ {NUL}) /\ Len(<<>>) = 0
  OBVIOUS
<1>2. Init => TypeOK
  <2>1. 0 \in Nat /\ 1 \in Nat /\ INVALID \in {INVALID, STATIC, DYNAMIC}
    OBVIOUS
  <2> QED
    BY <1>1, <2>1, Zenon DEF Init, TypeOK
<1>3. Init => InBounds
  BY <1>1 DEF Init, InBounds
<1>4. Init => Verifying /\ Compiled /\ Matching
  BY DEF Init, Verifying, Compiled, Matching
<1> QED
  BY <1>2, <1>3, <1>4 DEF CursorInv

-----------------------------------------------------------------------------
(* Every brace of a compiled pattern is closed, those inside another one too. *)
Closed == \A q \in 1 .. Len(pattern) : pattern[q] = "OPEN" => Close(q) \in q + 1 .. Len(pattern)

LEMMA Greatest ==
  ASSUME NEW n \in Nat, NEW T, T \subseteq 0 .. n, T # {}
  PROVE  \E x \in T : \A y \in T : y <= x
<1> DEFINE S == {n - x : x \in T}
<1>1. S \subseteq Nat /\ S # {}
  <2>1. PICK x \in T : TRUE
    OBVIOUS
  <2>2. n - x \in S
    BY <2>1
  <2> QED
    BY <2>2
<1>2. PICK m \in S : \A y \in S : m <= y
  BY <1>1, Least
<1>3. PICK x \in T : m = n - x
  OBVIOUS
<1>4. \A y \in T : y <= x
  <2>1. \A y \in T : m <= n - y
    BY <1>2
  <2> QED
    BY <1>3, <2>1
<1> QED
  BY <1>4

LEMMA CompiledIsClosed ==
  ASSUME pattern \in String, At(pattern, 1) = "/", ReadTo(pattern, tokens, Len(pattern) + 1)
  PROVE  Closed
<1> SUFFICES ASSUME NEW q \in 1 .. Len(pattern), pattern[q] = "OPEN"
             PROVE  Close(q) \in q + 1 .. Len(pattern)
  BY DEF Closed
<1> DEFINE e == Len(pattern) + 1
<1>1. e \in Nat /\ q \in 1 .. e - 1 /\ q < e /\ e - 1 = Len(pattern)
  BY DEF String
<1>2. q # 1
  BY AtString
<1> HIDE DEF e
<1>3. ReadTo(pattern, tokens, e)
  BY DEF e
<1>4. 2 \in tokens /\ tokens \subseteq 2 .. e
  BY <1>3 DEF ReadTo
<1> DEFINE T == {k \in tokens : k <= q}
<1>5. T \subseteq 0 .. q /\ 2 \in T
  <2>1. q \in Nat /\ 2 <= q
    BY <1>1, <1>2
  <2>2. \A k \in 2 .. e : k <= q => k \in 0 .. q
    BY <1>1, <2>1
  <2> QED
    BY <1>4, <2>1, <2>2
<1>6. PICK k \in T : \A y \in T : y <= k
  <2>1. T # {}
    BY <1>5
  <2>2. q \in Nat
    BY <1>1
  <2> HIDE DEF T
  <2> QED
    BY <1>1, <1>5, <2>1, <2>2, Greatest
<1>7. k \in tokens \ {e} /\ k <= q /\ k \in Nat
  BY <1>1, <1>4
<1>8. /\ k \in 2 .. e - 1
      /\ pattern[k] # "OPEN" => k + 1 \in tokens
      /\ pattern[k] = "OPEN" => \E c \in k + 1 .. e - 1 : Closes(pattern, k, c) /\ c + 1 \in tokens
  BY <1>1, <1>3, <1>7, NextToken
<1>9. pattern[k] = "OPEN"
  <2> SUFFICES ASSUME pattern[k] # "OPEN" PROVE FALSE
    OBVIOUS
  <2>1. k + 1 \in tokens /\ k # q
    BY <1>8
  <2>2. k + 1 \in T
    BY <1>7, <1>1, <2>1
  <2> QED
    BY <1>6, <1>7, <2>2
<1>10. PICK c \in k + 1 .. e - 1 : Closes(pattern, k, c) /\ c + 1 \in tokens
  BY <1>8, <1>9
<1>11. ~(c + 1 <= q)
  <2>1. c + 1 <= q => c + 1 \in T
    BY <1>10
  <2> QED
    BY <1>6, <1>7, <2>1
<1>12. pattern[c] = "CLOSE" /\ c \in Nat
  BY <1>1, <1>7, <1>10 DEF Closes
<1>13. q < c
  BY <1>11, <1>12, <1>1
<1>14. c \in q .. Len(pattern) /\ q \in Nat \ {0}
  BY <1>1, <1>10, <1>13
<1>15. Scan(q, {"CLOSE"}) \in q .. c /\ pattern[Scan(q, {"CLOSE"})] \in {"CLOSE"}
  BY <1>12, <1>14, ScanFinds
<1>16. Scan(q, {"CLOSE"}) # q
  BY <1>15
<1> QED
  BY <1>14, <1>15, <1>16 DEF Close

(* An alternative is inside its brace, with a character at least. *)
LEMMA AlternativeFacts ==
  ASSUME Closed, NEW q \in 1 .. Len(pattern), pattern[q] = "OPEN", NEW r \in Alternatives(q),
         pattern \in String
  PROVE  /\ r[1] \in q + 1 .. Len(pattern) /\ r[2] \in r[1] .. Len(pattern) - 1
         /\ r[2] < Close(q) /\ Close(q) \in q + 1 .. Len(pattern)
<1>1. Close(q) \in q + 1 .. Len(pattern) /\ Len(pattern) \in Nat
  BY DEF Closed, String
<1>2. r[1] \in q + 1 .. Close(q) /\ r[2] \in q + 1 .. Close(q) - 1 /\ r[1] <= r[2]
  BY DEF Alternatives
<1> QED
  BY <1>1, <1>2

(* An alternative that the input reads from j ends within the input. *)
LEMMA ReadsFacts ==
  ASSUME Closed, NEW q \in 1 .. Len(pattern), pattern[q] = "OPEN", NEW r \in Alternatives(q),
         pattern \in String, input \in String, NEW j \in 1 .. Len(input) + 1, Reads(r, j)
  PROVE  j + r[2] + 1 - r[1] \in j + 1 .. Len(input) + 1
<1>1. /\ r[1] \in q + 1 .. Len(pattern) /\ r[2] \in r[1] .. Len(pattern) - 1
      /\ Len(pattern) \in Nat /\ Len(input) \in Nat
  BY AlternativeFacts DEF String
<1>2. r[2] \in r[1] .. r[2]
  BY <1>1
<1>3. At(input, j + r[2] - r[1]) = pattern[r[2]]
  BY <1>2 DEF Reads
<1>4. pattern[r[2]] # NUL
  BY <1>1 DEF String
<1>5. j + r[2] - r[1] \in Nat
  BY <1>1
<1>6. j + r[2] - r[1] \in 1 .. Len(input)
  BY <1>3, <1>4, <1>5, AtString
<1> QED
  <2>1. r[1] \in Nat /\ r[2] \in Nat /\ r[1] <= r[2] /\ j \in Nat
    BY <1>1
  <2>2. j + r[2] - r[1] <= Len(input) /\ Len(input) \in Nat
    BY <1>1, <1>6
  <2>3. \A a, b, n \in Nat : a <= b /\ j + b - a <= n => j + b + 1 - a \in j + 1 .. n + 1
    BY <2>1
  <2> QED
    BY <2>1, <2>2, <2>3

(* Whether the pattern from q matches depends on what the rest matches alone. *)
LEMMA AcceptsRest ==
  ASSUME Closed, pattern \in String, input \in String,
         NEW q \in 1 .. Len(pattern) + 1, NEW j \in 1 .. Len(input) + 1,
         NEW f, NEW g,
         \A y \in q + 1 .. Len(pattern) + 1, k \in 1 .. Len(input) + 1 : f[<<y, k>>] = g[<<y, k>>]
  PROVE  Accepts(f, q, j) = Accepts(g, q, j)
<1>0. Len(pattern) \in Nat /\ Len(input) \in Nat
  BY DEF String
<1>1. CASE q > Len(pattern)
  BY <1>1 DEF Accepts
<1>2. CASE q <= Len(pattern) /\ pattern[q] = "*"
  <2>1. q + 1 \in q + 1 .. Len(pattern) + 1 /\ j .. Len(input) + 1 \subseteq 1 .. Len(input) + 1
    BY <1>0, <1>2
  <2>2. \A k \in j .. Len(input) + 1 : f[<<q + 1, k>>] = g[<<q + 1, k>>]
    BY <2>1
  <2> QED
    BY <1>0, <1>2, <2>2 DEF Accepts
<1>3. CASE q <= Len(pattern) /\ pattern[q] = "OPEN"
  <2>1. q \in 1 .. Len(pattern)
    BY <1>0, <1>3
  <2>2. Close(q) + 1 \in q + 1 .. Len(pattern) + 1
    BY <1>0, <1>3, <2>1 DEF Closed
  <2>3. ASSUME NEW r \in Alternatives(q), Reads(r, j)
        PROVE  f[<<Close(q) + 1, j + r[2] + 1 - r[1]>>] = g[<<Close(q) + 1, j + r[2] + 1 - r[1]>>]
    <3>1. j + r[2] + 1 - r[1] \in 1 .. Len(input) + 1
      BY <1>3, <2>1, <2>3, <1>0, ReadsFacts
    <3> QED
      BY <2>2, <3>1
  <2>6. ~(q > Len(pattern)) /\ "OPEN" # "*"
    BY <1>0, <1>3
  <2>4. Accepts(f, q, j) = \E r \in Alternatives(q) : Reads(r, j) /\ f[<<Close(q) + 1, j + r[2] + 1 - r[1]>>]
    BY <2>6, <1>3, Zenon DEF Accepts
  <2>5. Accepts(g, q, j) = \E r \in Alternatives(q) : Reads(r, j) /\ g[<<Close(q) + 1, j + r[2] + 1 - r[1]>>]
    BY <2>6, <1>3, Zenon DEF Accepts
  <2> QED
    BY <2>3, <2>4, <2>5
<1>4. CASE q <= Len(pattern) /\ pattern[q] \notin {"*", "OPEN"}
  <2>1. q + 1 \in q + 1 .. Len(pattern) + 1 /\ (j <= Len(input) => j + 1 \in 1 .. Len(input) + 1)
    BY <1>0, <1>4
  <2>2. j <= Len(input) => f[<<q + 1, j + 1>>] = g[<<q + 1, j + 1>>]
    BY <2>1
  <2> QED
    BY <1>0, <1>4, <2>2 DEF Accepts
<1> QED
  BY <1>0, <1>1, <1>2, <1>3, <1>4

Fits(f) == f = [x \in Places |-> Accepts(f, x[1], x[2])]

(* There is a function that fits: the answers for the end of the pattern, and from
   those for its last characters those for one more. *)
LEMMA SomeFits ==
  ASSUME Closed, pattern \in String, input \in String
  PROVE  \E f : Fits(f)
<1> DEFINE n == Len(pattern) + 1
           m == Len(input) + 1
           D == [Places -> BOOLEAN]
           Ok(f, k) == \A q \in n + 1 - k .. n, j \in 1 .. m : f[<<q, j>>] = Accepts(f, q, j)
           Done == {k \in 0 .. n : \E f \in D : Ok(f, k)}
<1>0. n \in Nat /\ m \in Nat /\ n # 0 /\ m # 0
  BY DEF String
<1>1. 0 \in Done
  <2>1. [x \in Places |-> FALSE] \in D
    OBVIOUS
  <2>2. \A f : Ok(f, 0)
    <3>1. \A q \in n + 1 - 0 .. n : FALSE
      <4>1. \A l \in Nat : \A q \in l + 1 - 0 .. l : FALSE
        OBVIOUS
      <4> HIDE DEF n
      <4> QED
        BY <1>0, <4>1
    <3> HIDE DEF n, m
    <3> QED
      BY <3>1
  <2>3. 0 \in 0 .. n
    BY <1>0
  <2> HIDE DEF Ok, D
  <2> QED
    BY <2>1, <2>2, <2>3
<1>2. ASSUME NEW k \in 0 .. n - 1, k \in Done
      PROVE  k + 1 \in Done
  <2>1. PICK f \in D : Ok(f, k)
    BY <1>2
  <2>2. PICK z \in 1 .. n : z = n - k
    <3>1. n - k \in 1 .. n
      <4> HIDE DEF n
      <4> QED
        BY <1>0
    <3> HIDE DEF n
    <3> QED
      BY <3>1
  <2> DEFINE g == [x \in Places |-> IF x[1] = z THEN Accepts(f, x[1], x[2]) ELSE f[x]]
  <2>3. \A q \in 1 .. n, j \in 1 .. m :
          g[<<q, j>>] = IF q = z THEN Accepts(f, q, j) ELSE f[<<q, j>>]
    <3>1. \A q \in 1 .. n, j \in 1 .. m : <<q, j>> \in Places
      BY DEF Places
    <3> HIDE DEF n, m
    <3> QED
      BY <3>1
  <2>4. g \in D
    <3>1. ASSUME NEW q, NEW j PROVE Accepts(f, q, j) \in BOOLEAN
      <4>1. CASE q > Len(pattern)
        BY <4>1 DEF Accepts
      <4>2. CASE ~(q > Len(pattern)) /\ pattern[q] = "*"
        BY <4>2, Zenon DEF Accepts
      <4>3. CASE ~(q > Len(pattern)) /\ pattern[q] = "OPEN"
        <5>1. "OPEN" # "*"
          OBVIOUS
        <5> QED
          BY <4>3, <5>1, Zenon DEF Accepts
      <4>4. CASE ~(q > Len(pattern)) /\ pattern[q] # "*" /\ pattern[q] # "OPEN"
        BY <4>4 DEF Accepts
      <4> QED
        BY <4>1, <4>2, <4>3, <4>4
    <3> QED
      BY <3>1, <2>1
  <2> HIDE DEF g
  <2>5. ASSUME NEW q \in n + 1 - (k + 1) .. n, NEW j \in 1 .. m
        PROVE  g[<<q, j>>] = Accepts(g, q, j)
    <3>1. q \in 1 .. n /\ z <= q
      BY <1>0, <2>2
    <3>2. \A y \in q + 1 .. n, l \in 1 .. m : g[<<y, l>>] = f[<<y, l>>]
      <4>1. \A y \in q + 1 .. n : y \in 1 .. n /\ y # z
        BY <1>0, <3>1
      <4> HIDE DEF n, m
      <4> QED
        BY <2>3, <4>1
    <3>3. Accepts(g, q, j) = Accepts(f, q, j)
      BY <3>1, <3>2, AcceptsRest
    <3>4. g[<<q, j>>] = IF q = z THEN Accepts(f, q, j) ELSE f[<<q, j>>]
      BY <2>3, <3>1
    <3>5. CASE q = z
      BY <3>3, <3>4, <3>5
    <3>6. CASE q # z
      <4>1. q \in n + 1 - k .. n
        BY <1>0, <2>2, <3>1, <3>6
      <4>2. f[<<q, j>>] = Accepts(f, q, j)
        <5> HIDE DEF n, m
        <5> QED
          BY <2>1, <4>1
      <4> QED
        BY <3>3, <3>4, <3>6, <4>2
    <3> QED
      BY <3>5, <3>6
  <2>6. Ok(g, k + 1) /\ k + 1 \in 0 .. n
    BY <1>0, <2>5
  <2> HIDE DEF Ok, D, n
  <2> QED
    BY <2>4, <2>6
<1>3. n \in Done
  <2> HIDE DEF Done, n
  <2> QED
    <3>1. \A k \in 0 .. n - 1 : k \in Done => k + 1 \in Done
      BY <1>2
    <3>2. n \in 0 .. n /\ n \in Nat
      BY <1>0
    <3> QED
      BY <1>1, <3>1, <3>2, UpTo
<1>4. PICK f \in D : Ok(f, n)
  BY <1>3
<1>5. \A q \in 1 .. n, j \in 1 .. m : f[<<q, j>>] = Accepts(f, q, j)
  <2>1. n + 1 - n = 1
    BY <1>0
  <2> HIDE DEF n, m
  <2> QED
    BY <1>4, <2>1
<1>6. ASSUME NEW x \in Places
      PROVE  f[x] = Accepts(f, x[1], x[2])
  <2>1. x = <<x[1], x[2]>> /\ x[1] \in 1 .. n /\ x[2] \in 1 .. m
    BY DEF Places
  <2> HIDE DEF n, m
  <2>2. f[<<x[1], x[2]>>] = Accepts(f, x[1], x[2])
    BY <1>5, <2>1
  <2> QED
    BY <2>1, <2>2
<1>7. Fits(f)
  <2> HIDE DEF n, m, Ok
  <2> QED
    BY <1>4, <1>6 DEF Fits
<1> QED
  BY <1>7

LEMMA Unfold ==
  ASSUME Closed, pattern \in String, input \in String,
         NEW q \in 1 .. Len(pattern) + 1, NEW j \in 1 .. Len(input) + 1
  PROVE  Matches[<<q, j>>] = Accepts(Matches, q, j)
<1> DEFINE T(f) == [x \in Places |-> Accepts(f, x[1], x[2])]
<1>1. Matches = CHOOSE f : f = T(f)
  BY DEF Matches
<1>2. PICK f : f = T(f)
  BY SomeFits DEF Fits
<1>3. Matches = T(Matches)
  <2> HIDE DEF T
  <2> QED
    BY <1>1, <1>2
<1>4. <<q, j>> \in Places
  BY DEF Places
<1> QED
  BY <1>3, <1>4

(* The rest of a pattern matches by its first token. *)
LEMMA EndMatches ==
  ASSUME Closed, pattern \in String, input \in String, NEW j \in 1 .. Len(input) + 1
  PROVE  Matches[<<Len(pattern) + 1, j>>] <=> j = Len(input) + 1
<1>1. Len(pattern) \in Nat /\ Len(input) \in Nat
  BY DEF String
<1>2. Len(pattern) + 1 \in 1 .. Len(pattern) + 1 /\ Len(pattern) + 1 > Len(pattern)
  BY <1>1
<1>3. Matches[<<Len(pattern) + 1, j>>] = Accepts(Matches, Len(pattern) + 1, j)
  BY <1>2, Unfold
<1>4. Accepts(Matches, Len(pattern) + 1, j) = (j > Len(input))
  BY <1>2 DEF Accepts
<1>5. j > Len(input) <=> j = Len(input) + 1
  BY <1>1
<1> QED
  BY <1>3, <1>4, <1>5, Zenon

LEMMA TokenMatches ==
  ASSUME Closed, pattern \in String, input \in String,
         NEW q \in 1 .. Len(pattern), NEW j \in 1 .. Len(input) + 1
  PROVE  /\ pattern[q] = "*" =>
              (Matches[<<q, j>>] <=>
                 \E k \in j .. Len(input) + 1 :
                   (\A d \in j .. k - 1 : input[d] # "/") /\ Matches[<<q + 1, k>>])
         /\ pattern[q] = "OPEN" =>
              (Matches[<<q, j>>] <=>
                 \E r \in Alternatives(q) :
                   Reads(r, j) /\ Matches[<<Close(q) + 1, j + r[2] + 1 - r[1]>>])
         /\ pattern[q] \notin {"*", "OPEN"} =>
              (Matches[<<q, j>>] <=>
                 /\ j <= Len(input)
                 /\ input[j] = pattern[q] \/ (pattern[q] = "?" /\ input[j] # "/")
                 /\ Matches[<<q + 1, j + 1>>])
<1>1. Len(pattern) \in Nat /\ q \in 1 .. Len(pattern) + 1 /\ ~(q > Len(pattern))
  BY DEF String
<1>2. Matches[<<q, j>>] = Accepts(Matches, q, j)
  BY <1>1, Unfold
<1>3. "OPEN" # "*"
  OBVIOUS
<1>4. CASE pattern[q] = "*"
  BY <1>1, <1>2, <1>3, <1>4, Zenon DEF Accepts
<1>5. CASE pattern[q] = "OPEN"
  BY <1>1, <1>2, <1>3, <1>5, Zenon DEF Accepts
<1>6. CASE pattern[q] \notin {"*", "OPEN"}
  <2>1. pattern[q] # "*" /\ pattern[q] # "OPEN"
    BY <1>6
  <2> QED
    BY <1>1, <1>2, <2>1 DEF Accepts
<1> QED
  BY <1>3, <1>4, <1>5, <1>6

-----------------------------------------------------------------------------
LEMMA SeenStep ==
  ASSUME CursorInv, Seen, [Next]_vars
  PROVE  Seen'
<1>0. TypeOK /\ pattern \in String /\ p \in Nat /\ kind \in {INVALID, STATIC, DYNAMIC} /\ STATIC # INVALID
  BY DEF CursorInv, TypeOK, String, STATIC, INVALID
<1>1. ASSUME UNCHANGED verifying, pc' \notin {"verify", "brace"}
      PROVE  Seen'
  BY <1>1 DEF Seen, verifying
<1>2. CASE Compile
  <2>1. /\ pc' = "verify" => At(pattern', 1) = "/" /\ p' = 2
        /\ pc' \in {"verify", "compiled"} /\ kind' = kind /\ tokens' = {2} /\ pattern = <<>>
    BY <1>2 DEF Compile
  <2>2. kind = INVALID
    <3> SUFFICES ASSUME kind # INVALID PROVE FALSE
      OBVIOUS
    <3>1. 2 \in tokens /\ tokens \subseteq 2 .. Len(pattern) + 1
      BY DEF CursorInv, Compiled, ReadTo
    <3>2. Len(pattern) = 0
      BY <2>1
    <3> QED
      BY <3>1, <3>2
  <2>3. pc' = "verify" => \A d \in 1 .. p' - 1 : pattern'[d] \notin {"*", "?", "OPEN"}
    <3> SUFFICES ASSUME pc' = "verify", NEW d \in 1 .. p' - 1
                 PROVE  pattern'[d] \notin {"*", "?", "OPEN"}
      OBVIOUS
    <3>1. d = 1
      BY <2>1
    <3>2. pattern'[1] = "/"
      BY <2>1 DEF At, NUL
    <3> QED
      BY <3>1, <3>2
  <2>4. \A k \in tokens' : ~(pc' = "verify" /\ k < p')
    BY <2>1
  <2> QED
    BY <2>1, <2>2, <2>3, <2>4, <1>0 DEF Seen
<1>3. CASE Drop
  BY <1>0, <1>3 DEF Seen, Drop
<1>4. CASE VerifyReject \/ BraceReject
  BY <1>0, <1>4 DEF VerifyReject, BraceReject, Verdict, Seen
<1>5. CASE VerifyNext
  <2>1. /\ pc = "verify" /\ pc' = "verify" /\ p' = p + 1 /\ UNCHANGED <<pattern, kind>>
        /\ P \notin Illegal /\ P \notin {"OPEN", NUL} /\ (~has_meta' => ~has_meta /\ P \notin {"*", "?"})
        /\ tokens' = tokens \cup {p + 1}
    BY <1>5 DEF VerifyNext
  <2>2. P = pattern[p] /\ kind = INVALID
    BY <1>0, <2>1, Facts DEF CursorInv, Verifying
  <2>3. \A k \in tokens' : k < p' => k \in tokens /\ (k < p \/ k = p)
    <3>1. tokens \subseteq Nat
      BY <1>0, <2>1 DEF CursorInv, Verifying, ReadTo
    <3> QED
      BY <1>0, <2>1, <3>1
  <2>4. \A k \in tokens' : k < p' => At(pattern, k) \notin Illegal
    BY <2>1, <2>3 DEF Seen, P
  <2>5. ~has_meta' => \A d \in 1 .. p' - 1 : pattern[d] \notin {"*", "?", "OPEN"}
    <3>1. \A d \in 1 .. p' - 1 : d \in 1 .. p - 1 \/ d = p
      BY <1>0, <2>1
    <3> QED
      BY <2>1, <2>2, <3>1 DEF Seen
  <2> QED
    BY <1>0, <2>1, <2>2, <2>4, <2>5 DEF Seen
<1>6. CASE VerifyBrace
  <2>1. /\ pc = "verify" /\ pc' = "brace" /\ p' = p + 1 /\ UNCHANGED <<pattern, kind, tokens>>
        /\ P = "OPEN" /\ has_meta'
    BY <1>6 DEF VerifyBrace
  <2>2. kind = INVALID
    BY <2>1 DEF CursorInv, Verifying
  <2>3. \A k \in tokens : k < p' => k < p \/ k = p
    <3>1. tokens \subseteq Nat
      BY <1>0, <2>1 DEF CursorInv, Verifying, ReadTo
    <3> QED
      BY <1>0, <2>1, <3>1
  <2>4. \A k \in tokens : k < p' => At(pattern, k) \notin Illegal
    BY <2>1, <2>3 DEF Seen, P, Illegal
  <2> QED
    BY <1>0, <2>1, <2>2, <2>4 DEF Seen
<1>7. CASE BraceNext \/ BraceClose
  <2>1. /\ pc = "brace" /\ pc' \in {"brace", "verify"} /\ p' = p + 1 /\ UNCHANGED <<pattern, kind, has_meta>>
        /\ tokens' \in {tokens, tokens \cup {p + 1}}
    BY <1>7 DEF BraceNext, BraceClose
  <2>2. kind = INVALID /\ has_meta
    BY <2>1 DEF CursorInv, Verifying, Seen
  <2>3. \A k \in tokens : k \in Nat /\ k < p
    <3>1. PICK b \in tokens : ReadTo(pattern, tokens, b) /\ b < p
      BY <2>1 DEF CursorInv, Verifying
    <3>2. tokens \subseteq 2 .. b /\ b \in tokens
      BY <3>1 DEF ReadTo
    <3>3. b \in Nat
      BY <3>2
    <3> QED
      BY <1>0, <3>1, <3>2, <3>3
  <2>4. \A k \in tokens' : k < p' => k \in tokens
    BY <1>0, <2>1
  <2>5. \A k \in tokens' : k < p' => At(pattern, k) \notin Illegal
    BY <2>1, <2>3, <2>4 DEF Seen
  <2> QED
    BY <1>0, <2>1, <2>2, <2>5 DEF Seen
<1>8. CASE VerifyEnd
  <2>1. /\ pc = "verify" /\ P = NUL /\ pc' = "compiled" /\ UNCHANGED <<pattern, tokens>>
        /\ kind' \in {INVALID, DYNAMIC, STATIC} /\ (kind' = STATIC => ~has_meta)
    BY <1>8 DEF VerifyEnd, Verdict, INVALID, DYNAMIC, STATIC
  <2>2. ReadTo(pattern, tokens, p)
    BY <2>1 DEF CursorInv, Verifying
  <2>3. p = Len(pattern) + 1
    <3>1. p \notin 1 .. Len(pattern) /\ p <= Len(pattern) + 1 /\ Len(pattern) \in Nat /\ 2 <= p
      BY <1>0, <2>1, <2>2, Facts DEF CursorInv, InBounds, ReadTo, String
    <3> QED
      BY <1>0, <3>1
  <2>4. \A k \in tokens : At(pattern, k) \notin Illegal
    <3>1. \A k \in tokens : k < p \/ k = p
      BY <1>0, <2>2 DEF ReadTo
    <3>2. NUL \notin Illegal
      BY DEF NUL, Illegal
    <3> QED
      BY <2>1, <3>1, <3>2 DEF Seen, P
  <2>5. 1 .. p - 1 = DOMAIN pattern
    BY <1>0, <2>3 DEF String
  <2> QED
    BY <1>0, <2>1, <2>4, <2>5 DEF Seen
<1>9. CASE Return \/ MatchStatic \/ MatchDynamic
  BY <1>1, <1>9 DEF Return, MatchStatic, MatchDynamic
<1>10. CASE MatchSlash \/ MatchOne \/ MatchStar \/ MatchBrace \/ MatchEnd \/ AltSame \/ AltOther
  BY <1>1, <1>10 DEF MatchSlash, MatchOne, MatchStar, MatchBrace, MatchEnd, AltSame, AltOther, Answer, Go
<1>11. CASE UNCHANGED vars
  BY <1>11 DEF vars, verifying, Seen
<1> QED
  BY <1>2, <1>3, <1>4, <1>5, <1>6, <1>7, <1>8, <1>9, <1>10, <1>11 DEF Next, Turn

-----------------------------------------------------------------------------
LEMMA Same ==
  ASSUME UNCHANGED <<verifying, input>>
  PROVE  /\ Matches' = Matches
         /\ \A k : Close(k)' = Close(k)
         /\ \A k : Alternatives(k)' = Alternatives(k)
         /\ \A r, j : Reads(r, j)' = Reads(r, j)
         /\ Sure' = Sure /\ InLanguage' = InLanguage
<1>0. pattern' = pattern /\ input' = input /\ tokens' = tokens
  BY DEF verifying
<1>1. \A k : Close(k)' = Close(k)
  BY <1>0 DEF Close, Scan
<1>2. \A k : Alternatives(k)' = Alternatives(k)
  BY <1>0, <1>1 DEF Alternatives
<1>3. \A r, j : Reads(r, j)' = Reads(r, j)
  BY <1>0 DEF Reads, At
<1>4. Sure' = Sure
  BY <1>0, <1>2 DEF Sure, NoChoice, EmptyPart
<1>5. Matches' = Matches
  BY <1>0, <1>1, <1>2, <1>3 DEF Matches, Accepts, Places
<1> QED
  BY <1>1, <1>2, <1>3, <1>4, <1>5 DEF InLanguage

LEMMA CompiledFacts ==
  ASSUME CursorInv, Seen, kind # INVALID
  PROVE  /\ Closed /\ pattern \in String /\ input \in String
         /\ Len(pattern) \in Nat \ {0} /\ Len(input) \in Nat
         /\ pattern[1] = "/" /\ At(pattern, 1) = "/"
         /\ ReadTo(pattern, tokens, Len(pattern) + 1)
         /\ tokens \subseteq 2 .. Len(pattern) + 1
         /\ \A k \in tokens : At(pattern, k) \notin Illegal
<1>1. pattern \in String /\ input \in String /\ ReadTo(pattern, tokens, Len(pattern) + 1)
  BY DEF CursorInv, TypeOK, Compiled, String
<1>2. At(pattern, 1) = "/" /\ \A k \in tokens : At(pattern, k) \notin Illegal
  BY DEF Seen
<1>3. Closed
  BY <1>1, <1>2, CompiledIsClosed
<1>4. 1 \in DOMAIN pattern /\ pattern[1] = "/"
  BY <1>2 DEF At, NUL
<1>5. Len(pattern) \in Nat \ {0} /\ Len(input) \in Nat
  BY <1>1, <1>4 DEF String
<1> QED
  BY <1>1, <1>2, <1>3, <1>4, <1>5 DEF ReadTo

LEMMA MatchState ==
  ASSUME CursorInv, Seen, Answering, pc = "match"
  PROVE  /\ kind = DYNAMIC /\ kind # INVALID /\ p \in tokens
         /\ p \in 1 .. Len(pattern) + 1 /\ i \in 1 .. Len(input) + 1
         /\ P # NUL => p \in 1 .. Len(pattern) /\ pattern[p] = P
         /\ P = NUL => p = Len(pattern) + 1
         /\ I # NUL => i \in 1 .. Len(input) /\ input[i] = I
         /\ I = NUL => i = Len(input) + 1
         /\ slash \in 1 .. i - 1 /\ input[slash] = "/"
         /\ Matches[<<p, i>>] => InLanguage
         /\ Sure /\ InLanguage => Matches[<<p, i>>]
         /\ P \notin Illegal
<1>1. /\ kind = DYNAMIC /\ p \in tokens /\ TypeOK /\ InBounds /\ kind # INVALID
  BY DEF CursorInv, Matching, DYNAMIC, INVALID
<1>2. /\ pattern \in String /\ input \in String /\ Len(pattern) \in Nat /\ Len(input) \in Nat
      /\ p \in 2 .. Len(pattern) + 1 /\ At(pattern, p) \notin Illegal
  BY <1>1, CompiledFacts
<1>3. slash \in 1 .. i - 1 /\ input[slash] = "/"
  BY DEF Answering
<1>4. i \in 1 .. Len(input) + 1
  BY <1>1, <1>2, <1>3 DEF TypeOK, InBounds
<1>5. /\ P # NUL => p \in 1 .. Len(pattern) /\ pattern[p] = P
      /\ P = NUL => p = Len(pattern) + 1
  BY <1>1, <1>2, Facts
<1>6. /\ I # NUL => i \in 1 .. Len(input) /\ input[i] = I
      /\ I = NUL => i = Len(input) + 1
  BY <1>1, <1>2, <1>4, Facts
<1> QED
  BY <1>1, <1>2, <1>3, <1>4, <1>5, <1>6 DEF Answering, P

(* A turn that goes to another token, and one that ends the call. *)
LEMMA GoesOn ==
  ASSUME UNCHANGED <<verifying, input>>, pc' = "match",
         slash' \in 1 .. i' - 1, input[slash'] = "/",
         Matches[<<p', i'>>] => InLanguage,
         Sure /\ InLanguage => Matches[<<p', i'>>]
  PROVE  Answering'
<1>1. input' = input /\ Matches' = Matches /\ Sure' = Sure /\ InLanguage' = InLanguage
  BY Same
<1> QED
  BY <1>1 DEF Answering

LEMMA EndsCall ==
  ASSUME UNCHANGED <<verifying, input>>, pc' = "answered",
         ret' => InLanguage, Sure /\ InLanguage => ret'
  PROVE  Answering'
<1>1. Sure' = Sure /\ InLanguage' = InLanguage
  BY Same
<1> QED
  BY <1>1 DEF Answering

(* What a pattern without choice and an address without an empty part exclude. *)
LEMMA SureFacts ==
  ASSUME Sure, pattern \in String
  PROVE  /\ \A k \in tokens : k \in 1 .. Len(pattern) /\ pattern[k] = "*" => At(pattern, k + 1) \in {"/", NUL}
         /\ \A k \in 2 .. Len(input) : input[k - 1] = "/" => input[k] # "/"
<1>1. DOMAIN pattern = 1 .. Len(pattern)
  BY DEF String
<1> QED
  BY <1>1 DEF Sure, NoChoice, EmptyPart

(* The first character of a token that is no star, against that of the input. *)
LEMMA OneMatches ==
  ASSUME CursorInv, Seen, Answering, pc = "match", P \notin {"*", "OPEN", NUL}, I # NUL
  PROVE  Matches[<<p, i>>] <=> (I = P \/ (P = "?" /\ I # "/")) /\ Matches[<<p + 1, i + 1>>]
<1>1. /\ p \in 1 .. Len(pattern) /\ pattern[p] = P /\ i \in 1 .. Len(input) /\ input[i] = I
      /\ kind # INVALID
  BY MatchState
<1>2. Closed /\ pattern \in String /\ input \in String /\ Len(input) \in Nat
  BY <1>1, CompiledFacts
<1>3. i \in 1 .. Len(input) + 1 /\ i <= Len(input) /\ pattern[p] \notin {"*", "OPEN"}
  BY <1>1, <1>2
<1> QED
  BY <1>1, <1>2, <1>3, TokenMatches

LEMMA OneAnswers ==
  ASSUME CursorInv, Seen, Answering, MatchOne
  PROVE  Answering'
<1>1. /\ pc = "match" /\ P \notin {"*", "OPEN", NUL} /\ I # NUL /\ I # "/"
      /\ UNCHANGED <<verifying, input>>
  BY DEF MatchOne, Go, Answer
<1>2. /\ slash \in 1 .. i - 1 /\ input[slash] = "/" /\ i \in 1 .. Len(input) /\ P # "["
      /\ Matches[<<p, i>>] => InLanguage
      /\ Sure /\ InLanguage => Matches[<<p, i>>]
  BY <1>1, MatchState DEF Illegal
<1>3. Matches[<<p, i>>] <=> (I = P \/ (P = "?" /\ I # "/")) /\ Matches[<<p + 1, i + 1>>]
  BY <1>1, OneMatches
<1>4. CASE P = "?" \/ (P = I /\ P # "[")
  <2>1. p' = p + 1 /\ i' = i + 1 /\ slash' = slash /\ pc' = "match"
    BY <1>1, <1>4 DEF MatchOne, Go
  <2>2. slash' \in 1 .. i' - 1
    BY <1>2, <2>1
  <2>3. Matches[<<p', i'>>] => InLanguage
    BY <1>1, <1>2, <1>3, <1>4, <2>1
  <2>4. Sure /\ InLanguage => Matches[<<p', i'>>]
    BY <1>2, <1>3, <2>1
  <2> QED
    BY <1>1, <1>2, <2>1, <2>2, <2>3, <2>4, GoesOn
<1>5. CASE ~(P = "?" \/ (P = I /\ P # "["))
  <2>1. pc' = "answered" /\ ret' = FALSE
    BY <1>1, <1>5 DEF MatchOne, Answer
  <2>2. ~(Sure /\ InLanguage)
    BY <1>2, <1>3, <1>5
  <2> QED
    BY <1>1, <2>1, <2>2, EndsCall
<1> QED
  BY <1>4, <1>5

-----------------------------------------------------------------------------
(* A brace of a compiled pattern. *)
LEMMA BraceIs ==
  ASSUME CursorInv, Seen, kind = DYNAMIC, NEW k \in tokens, k \in 1 .. Len(pattern), pattern[k] = "OPEN"
  PROVE  /\ Close(k) \in k + 2 .. Len(pattern) /\ pattern[Close(k)] = "CLOSE"
         /\ Close(k) + 1 \in tokens /\ Closes(pattern, k, Close(k))
         /\ \A d \in k + 1 .. Close(k) - 1 : pattern[d] \notin IllegalInside \cup {"CLOSE"}
<1>1. /\ pattern \in String /\ Len(pattern) \in Nat /\ At(pattern, k) = pattern[k] /\ k \in Nat \ {0}
  <2>1. kind # INVALID
    BY DEF DYNAMIC, INVALID
  <2>2. pattern \in String /\ Len(pattern) \in Nat
    BY <2>1, CompiledFacts
  <2> QED
    BY <2>2, AtString
<1>2. PICK c \in k + 1 .. Len(pattern) : Closes(pattern, k, c) /\ c + 1 \in tokens
  BY <1>1, AfterToken DEF NUL
<1>3. k < c /\ c \in Nat /\ c \in k .. Len(pattern)
  BY <1>1, <1>2
<1>4. pattern[c] = "CLOSE" /\ k + 1 < c /\ \A d \in k + 1 .. c - 1 : pattern[d] # "CLOSE"
  BY <1>1, <1>2, <1>3, ClosesFacts
<1>5. Close(k) \in k .. c /\ pattern[Close(k)] \in {"CLOSE"}
  BY <1>1, <1>3, <1>4, ScanFinds DEF Close
<1>6. Close(k) = c \/ Close(k) = k \/ Close(k) \in k + 1 .. c - 1
  BY <1>1, <1>3, <1>5
<1>7. Close(k) = c
  BY <1>4, <1>5, <1>6
<1>8. \A d \in k + 1 .. c - 1 : pattern[d] \notin IllegalInside \cup {"CLOSE"}
  BY <1>2 DEF Closes, InBrace
<1>9. c \in k + 2 .. Len(pattern)
  BY <1>1, <1>2, <1>4
<1> QED
  BY <1>2, <1>4, <1>7, <1>8, <1>9

(* No alternative reads a slash or the end of the input. *)
LEMMA AlternativeReads ==
  ASSUME CursorInv, Seen, kind = DYNAMIC, NEW k \in tokens, k \in 1 .. Len(pattern), pattern[k] = "OPEN",
         NEW j \in Nat, At(input, j) \in {"/", NUL}
  PROVE  ~Matches[<<k, j>>] \/ j \notin 1 .. Len(input) + 1
<1> SUFFICES ASSUME j \in 1 .. Len(input) + 1, Matches[<<k, j>>] PROVE FALSE
  OBVIOUS
<1>1. Closed /\ pattern \in String /\ input \in String /\ kind # INVALID
  <2>1. kind # INVALID
    BY DEF DYNAMIC, INVALID
  <2> QED
    BY <2>1, CompiledFacts
<1>2. PICK r \in Alternatives(k) : Reads(r, j)
  BY <1>1, TokenMatches
<1>3. r[1] \in k + 1 .. Close(k) - 1 /\ r[1] \in r[1] .. r[2] /\ r[1] \in Nat
  <2>1. r[1] \in k + 1 .. Len(pattern) /\ r[2] \in r[1] .. Len(pattern) - 1 /\ r[2] < Close(k)
        /\ Close(k) \in k + 1 .. Len(pattern)
    BY <1>1, AlternativeFacts
  <2> QED
    BY <2>1
<1>4. pattern[r[1]] \notin IllegalInside
  BY <1>3, BraceIs
<1>5. At(input, j + r[1] - r[1]) = pattern[r[1]]
  BY <1>2, <1>3 DEF Reads
<1>6. j + r[1] - r[1] = j
  BY <1>3
<1> QED
  BY <1>4, <1>5, <1>6 DEF IllegalInside

LEMMA SlashAnswers ==
  ASSUME CursorInv, Seen, Answering, MatchSlash
  PROVE  Answering'
<1>1. pc = "match" /\ P # NUL /\ I = "/" /\ UNCHANGED <<verifying, input>>
  BY DEF MatchSlash, Answer
<1>2. /\ kind = DYNAMIC /\ kind # INVALID /\ p \in tokens
      /\ p \in 1 .. Len(pattern) /\ pattern[p] = P /\ i \in 1 .. Len(input) /\ input[i] = "/"
      /\ slash \in 1 .. i - 1 /\ input[slash] = "/" /\ P \notin Illegal
      /\ Matches[<<p, i>>] => InLanguage
      /\ Sure /\ InLanguage => Matches[<<p, i>>]
  BY <1>1, MatchState DEF NUL
<1>3. /\ Closed /\ pattern \in String /\ input \in String
      /\ Len(input) \in Nat /\ Len(pattern) \in Nat /\ i \in 1 .. Len(input) + 1
  BY <1>2, CompiledFacts
<1>4. PICK q \in {p, p + 1} :
        /\ q = IF P = "*" THEN p + 1 ELSE p
        /\ IF i - slash = 1 \/ At(pattern, q) # "/"
           THEN Answer(FALSE) /\ UNCHANGED <<p, i>>
           ELSE /\ p' = q + 1 /\ i' = i + 1 /\ slash' = i
                /\ UNCHANGED <<pc, verifying, input, mark, ret>>
  BY DEF MatchSlash
(* A star before a slash matches nothing. *)
<1>5. q \in 1 .. Len(pattern) + 1 /\ (Matches[<<p, i>>] <=> Matches[<<q, i>>])
  <2>1. CASE P # "*"
    BY <1>2, <1>3, <1>4, <2>1
  <2>2. CASE P = "*"
    <3>1. q = p + 1 /\ p + 1 \in 1 .. Len(pattern) + 1
      BY <1>2, <1>3, <1>4, <2>2
    <3>2. Matches[<<p, i>>] <=>
            \E k \in i .. Len(input) + 1 :
              (\A d \in i .. k - 1 : input[d] # "/") /\ Matches[<<p + 1, k>>]
      BY <1>2, <1>3, <2>2, TokenMatches
    <3>3. \A k \in i .. Len(input) + 1 : (\A d \in i .. k - 1 : input[d] # "/") <=> k = i
      <4>1. \A d \in i .. i - 1 : FALSE
        BY <1>2
      <4>2. \A k \in i .. Len(input) + 1 : k # i => i \in i .. k - 1
        BY <1>2
      <4> QED
        BY <1>2, <4>1, <4>2
    <3>4. i \in i .. Len(input) + 1
      BY <1>2, <1>3
    <3> QED
      BY <3>1, <3>2, <3>3, <3>4
  <2> QED
    BY <2>1, <2>2
<1>6. CASE At(pattern, q) = "/" /\ i - slash # 1
  <2>1. p' = q + 1 /\ i' = i + 1 /\ slash' = i /\ pc' = "match"
    BY <1>1, <1>4, <1>6
  <2>2. q \in 1 .. Len(pattern) /\ pattern[q] = "/"
    BY <1>3, <1>5, <1>6 DEF At, NUL, String
  <2>3. i <= Len(input) /\ pattern[q] \notin {"*", "OPEN"} /\ input[i] = pattern[q]
    BY <1>2, <2>2
  <2>4. Matches[<<q, i>>] <=> Matches[<<q + 1, i + 1>>]
    BY <1>3, <2>2, <2>3, TokenMatches
  <2>5. slash' \in 1 .. i' - 1
    BY <1>2, <2>1
  <2> QED
    BY <1>1, <1>2, <1>5, <2>1, <2>4, <2>5, GoesOn
<1>7. CASE ~(At(pattern, q) = "/" /\ i - slash # 1)
  <2>1. pc' = "answered" /\ ret' = FALSE
    BY <1>4, <1>7 DEF Answer
  <2>2. ASSUME Sure, InLanguage
        PROVE  FALSE
    <3>1. Matches[<<p, i>>] /\ Matches[<<q, i>>]
      BY <1>2, <1>5, <2>2
    <3>2. CASE i - slash = 1
      <4>1. i \in 2 .. Len(input) /\ i - 1 = slash
        BY <1>2, <3>2
      <4> QED
        BY <1>2, <1>3, <2>2, <4>1, SureFacts
    <3>3. CASE At(pattern, q) # "/"
      <4>1. CASE P = "*"
        <5>1. At(pattern, p + 1) = NUL /\ q = p + 1
          BY <1>2, <1>3, <1>4, <2>2, <3>3, <4>1, SureFacts
        <5>2. q = Len(pattern) + 1
          BY <1>2, <1>3, <1>5, <5>1, AtString
        <5>3. ~Matches[<<Len(pattern) + 1, i>>]
          BY <1>2, <1>3, EndMatches
        <5> QED
          BY <3>1, <5>2, <5>3
      <4>2. CASE P = "OPEN"
        <5>1. At(input, i) \in {"/", NUL} /\ i \in Nat
          BY <1>1, <1>2 DEF I
        <5> QED
          BY <1>2, <1>3, <3>1, <4>2, <5>1, AlternativeReads
      <4>3. CASE P \notin {"*", "OPEN"}
        <5>1. pattern[p] # "/"
          BY <1>2, <1>4, <3>3, <4>3 DEF P
        <5>2. ~Matches[<<p, i>>]
          BY <1>2, <1>3, <4>3, <5>1, TokenMatches
        <5> QED
          BY <3>1, <5>2
      <4> QED
        BY <4>1, <4>2, <4>3
    <3> QED
      BY <1>7, <3>2, <3>3
  <2> QED
    BY <1>1, <2>1, <2>2, EndsCall
<1> QED
  BY <1>6, <1>7

LEMMA StarAnswers ==
  ASSUME CursorInv, Seen, Answering, MatchStar
  PROVE  Answering'
<1>1. /\ pc = "match" /\ P = "*" /\ P # NUL /\ I \notin {"/", NUL}
      /\ UNCHANGED <<verifying, input>> /\ pc' = "match" /\ slash' = slash
  BY DEF MatchStar, Go, NUL
<1>2. /\ kind # INVALID /\ p \in tokens
      /\ p \in 1 .. Len(pattern) /\ pattern[p] = "*" /\ i \in 1 .. Len(input)
      /\ slash \in 1 .. i - 1 /\ input[slash] = "/"
      /\ Matches[<<p, i>>] => InLanguage
      /\ Sure /\ InLanguage => Matches[<<p, i>>]
  BY <1>1, MatchState
<1>3. /\ Closed /\ pattern \in String /\ input \in String
      /\ Len(input) \in Nat /\ Len(pattern) \in Nat /\ i \in 1 .. Len(input) + 1
  BY <1>2, CompiledFacts
<1>4. PICK j \in i + 1 .. Len(input) + 1 :
        /\ At(input, j) \in {"/", NUL}
        /\ \A k \in i .. j - 1 : input[k] # "/"
        /\ p' = p + 1 /\ i' = j
  BY DEF MatchStar, Go
<1>5. Matches[<<p, i>>] <=>
        \E k \in i .. Len(input) + 1 :
          (\A d \in i .. k - 1 : input[d] # "/") /\ Matches[<<p + 1, k>>]
  BY <1>2, <1>3, TokenMatches
<1>6. slash' \in 1 .. i' - 1
  BY <1>1, <1>2, <1>4
<1>7. Matches[<<p', i'>>] => InLanguage
  <2>1. j \in i .. Len(input) + 1
    BY <1>3
  <2> QED
    BY <1>2, <1>4, <1>5, <2>1
<1>8. ASSUME Sure, InLanguage
      PROVE  Matches[<<p', i'>>]
  <2>1. PICK k \in i .. Len(input) + 1 :
          (\A d \in i .. k - 1 : input[d] # "/") /\ Matches[<<p + 1, k>>]
    BY <1>2, <1>5, <1>8
  <2>2. At(pattern, p + 1) \in {"/", NUL}
    BY <1>2, <1>3, <1>8, SureFacts
  <2>3. At(input, k) \in {"/", NUL}
    <3>1. CASE At(pattern, p + 1) = NUL
      <4>1. p + 1 = Len(pattern) + 1
        BY <1>2, <1>3, <3>1, AtString
      <4>2. k \in 1 .. Len(input) + 1
        BY <1>3
      <4>3. k = Len(input) + 1
        BY <1>3, <2>1, <4>1, <4>2, EndMatches
      <4> QED
        BY <1>3, <4>3, AtString
    <3>2. CASE At(pattern, p + 1) = "/"
      <4>1. p + 1 \in 1 .. Len(pattern) /\ pattern[p + 1] = "/"
        BY <1>2, <1>3, <3>2 DEF At, NUL, String
      <4>2. k \in 1 .. Len(input) + 1 /\ pattern[p + 1] \notin {"*", "OPEN"} /\ pattern[p + 1] # "?"
        BY <1>3, <4>1
      <4>3. k <= Len(input) /\ input[k] = "/"
        BY <1>3, <2>1, <4>1, <4>2, TokenMatches
      <4> QED
        BY <1>3, <4>2, <4>3, AtString
    <3> QED
      BY <2>2, <3>1, <3>2
  <2>4. k = j
    <3>1. k \in Nat /\ j \in Nat /\ k \in 1 .. Len(input) + 1 /\ j \in 1 .. Len(input) + 1
      BY <1>3
    <3>2. CASE k < j
      <4>1. k \in i .. j - 1 /\ k \in 1 .. Len(input)
        BY <1>3, <3>2
      <4>2. At(input, k) = input[k] /\ At(input, k) # NUL
        BY <1>3, <4>1, AtString
      <4> QED
        BY <1>4, <2>3, <4>1, <4>2
    <3>3. CASE j < k
      <4>1. j \in i .. k - 1 /\ j \in 1 .. Len(input)
        BY <1>3, <3>3
      <4>2. At(input, j) = input[j] /\ At(input, j) # NUL
        BY <1>3, <4>1, AtString
      <4> QED
        BY <1>4, <2>1, <4>1, <4>2
    <3> QED
      BY <3>1, <3>2, <3>3
  <2> QED
    BY <1>4, <2>1, <2>4
<1> QED
  BY <1>1, <1>2, <1>6, <1>7, <1>8, GoesOn

LEMMA EndAnswers ==
  ASSUME CursorInv, Seen, Answering, MatchEnd
  PROVE  Answering'
<1>1. pc = "match" /\ (P = NUL \/ I = NUL) /\ UNCHANGED <<verifying, input>> /\ pc' = "answered"
  BY DEF MatchEnd, Answer
<1>2. /\ kind = DYNAMIC /\ kind # INVALID /\ p \in tokens
      /\ p \in 1 .. Len(pattern) + 1 /\ i \in 1 .. Len(input) + 1
      /\ P # NUL => p \in 1 .. Len(pattern) /\ pattern[p] = P
      /\ P = NUL => p = Len(pattern) + 1
      /\ I # NUL => i \in 1 .. Len(input) /\ input[i] = I
      /\ I = NUL => i = Len(input) + 1
      /\ Matches[<<p, i>>] => InLanguage
      /\ Sure /\ InLanguage => Matches[<<p, i>>]
  BY <1>1, MatchState
<1>3. /\ Closed /\ pattern \in String /\ input \in String
      /\ Len(input) \in Nat /\ Len(pattern) \in Nat
  BY <1>2, CompiledFacts
<1>4. ret' = (At(pattern, IF P = "*" THEN p + 1 ELSE p) = NUL /\ I = NUL)
  BY DEF MatchEnd, Answer
<1>5. CASE P = NUL
  <2>1. ret' <=> I = NUL
    BY <1>4, <1>5 DEF P, NUL
  <2>2. Matches[<<p, i>>] <=> I = NUL
    <3>1. Matches[<<Len(pattern) + 1, i>>] <=> i = Len(input) + 1
      BY <1>2, <1>3, EndMatches
    <3>2. i = Len(input) + 1 <=> I = NUL
      BY <1>2, <1>3
    <3> QED
      BY <1>2, <1>5, <3>1, <3>2
  <2> QED
    BY <1>1, <1>2, <2>1, <2>2, EndsCall
<1>6. CASE P = "*"
  <2>1. P # NUL /\ p \in 1 .. Len(pattern) /\ pattern[p] = "*" /\ I = NUL /\ i = Len(input) + 1
    BY <1>1, <1>2, <1>6 DEF NUL
  <2>2. ret' <=> At(pattern, p + 1) = NUL
    BY <1>4, <1>6, <2>1
  <2>3. Matches[<<p, i>>] <=> Matches[<<p + 1, i>>]
    <3>1. Matches[<<p, i>>] <=>
            \E k \in i .. Len(input) + 1 :
              (\A d \in i .. k - 1 : input[d] # "/") /\ Matches[<<p + 1, k>>]
      <4>1. p \in 1 .. Len(pattern) /\ pattern[p] = "*" /\ i \in 1 .. Len(input) + 1
        BY <1>2, <2>1
      <4> QED
        BY <1>3, <4>1, TokenMatches
    <3>2. \A k \in i .. Len(input) + 1 : k = i
      BY <1>3, <2>1
    <3>3. i \in i .. Len(input) + 1 /\ \A d \in i .. i - 1 : FALSE
      BY <1>3, <2>1
    <3> QED
      BY <3>1, <3>2, <3>3
  <2>4. CASE At(pattern, p + 1) = NUL
    <3>1. p + 1 = Len(pattern) + 1
      BY <1>3, <2>1, <2>4, AtString
    <3>2. Matches[<<Len(pattern) + 1, i>>]
      BY <1>2, <1>3, <2>1, EndMatches
    <3> QED
      BY <1>1, <1>2, <2>2, <2>3, <2>4, <3>1, <3>2, EndsCall
  <2>5. CASE At(pattern, p + 1) # NUL
    <3>1. ASSUME Sure, InLanguage PROVE FALSE
      <4>1. At(pattern, p + 1) = "/"
        BY <1>2, <1>3, <2>1, <2>5, <3>1, SureFacts
      <4>2. p + 1 \in 1 .. Len(pattern) /\ pattern[p + 1] = "/"
        BY <1>3, <4>1 DEF At, NUL, String
      <4>3. ~(i <= Len(input)) /\ pattern[p + 1] \notin {"*", "OPEN"}
        BY <1>3, <2>1, <4>2
      <4>4. ~Matches[<<p + 1, i>>]
        <5>1. PICK q \in 1 .. Len(pattern) : q = p + 1
          BY <4>2
        <5>2. pattern[q] \notin {"*", "OPEN"} /\ ~(i <= Len(input)) /\ i \in 1 .. Len(input) + 1
          BY <1>2, <4>3, <5>1
        <5>3. ~Matches[<<q, i>>]
          BY <1>3, <5>2, TokenMatches
        <5> QED
          BY <5>1, <5>3
      <4> QED
        BY <1>2, <2>3, <3>1, <4>4
    <3> QED
      BY <1>1, <2>2, <2>5, <3>1, EndsCall
  <2> QED
    BY <2>4, <2>5
<1>7. CASE P \notin {NUL, "*"}
  <2>1. p \in 1 .. Len(pattern) /\ pattern[p] = P /\ I = NUL /\ i = Len(input) + 1
    BY <1>1, <1>2, <1>7
  <2>2. ~ret'
    BY <1>4, <1>7 DEF P
  <2>3. ~Matches[<<p, i>>]
    <3>1. CASE P = "OPEN"
      <4>1. At(input, i) \in {"/", NUL} /\ i \in Nat
        BY <1>2, <2>1 DEF I
      <4> QED
        BY <1>2, <2>1, <3>1, <4>1, AlternativeReads
    <3>2. CASE P # "OPEN"
      <4>1. ~(i <= Len(input)) /\ pattern[p] \notin {"*", "OPEN"}
        BY <1>3, <1>7, <2>1, <3>2
      <4> QED
        BY <1>2, <1>3, <2>1, <4>1, TokenMatches
    <3> QED
      BY <3>1, <3>2
  <2> QED
    BY <1>1, <1>2, <2>2, <2>3, EndsCall
<1> QED
  BY <1>5, <1>6, <1>7

-----------------------------------------------------------------------------
(* A turn that comes to a character of an alternative. *)
LEMMA Tries ==
  ASSUME UNCHANGED <<verifying, input>>, pc' = "alt",
         slash' \in 1 .. mark' - 1, input[slash'] = "/",
         NEW k \in tokens, NEW a \in 1 .. p', Trying(k, a)',
         Matches[<<k, mark'>>] => InLanguage,
         Sure /\ InLanguage => Matches[<<k, mark'>>],
         Sure /\ InLanguage => \A r \in Alternatives(k) : r[1] < a => ~Reads(r, mark')
  PROVE  Answering'
<1>1. /\ input' = input /\ pattern' = pattern /\ tokens' = tokens
      /\ Matches' = Matches /\ Sure' = Sure /\ InLanguage' = InLanguage
      /\ Alternatives(k)' = Alternatives(k)
  BY Same DEF verifying
<1>2. \A r : Reads(r, mark)' <=> Reads(r, mark')
  BY <1>1 DEF Reads, At
<1>3. Sure' /\ InLanguage' =>
        /\ Matches'[<<k, mark'>>]
        /\ \A r \in Alternatives(k)' : r[1] < a => ~Reads(r, mark)'
  BY <1>1, <1>2
<1>4. k \in tokens' /\ (Matches'[<<k, mark'>>] => InLanguage')
  BY <1>1
<1>5. /\ slash' \in 1 .. mark' - 1 /\ input'[slash'] = "/"
      /\ \E b \in tokens', c \in 1 .. p' :
            /\ Trying(b, c)'
            /\ Matches'[<<b, mark'>>] => InLanguage'
            /\ Sure' /\ InLanguage' =>
                 /\ Matches'[<<b, mark'>>]
                 /\ \A r \in Alternatives(b)' : r[1] < c => ~Reads(r, mark)'
  BY <1>1, <1>3, <1>4
<1> QED
  BY <1>5 DEF Answering

LEMMA BraceAnswers ==
  ASSUME CursorInv, Seen, Answering, MatchBrace
  PROVE  Answering'
<1>1. /\ pc = "match" /\ P = "OPEN" /\ P # NUL /\ I # NUL /\ pc' = "alt" /\ p' = p + 1 /\ mark' = i
      /\ UNCHANGED <<slash, i, verifying, input>>
  BY DEF MatchBrace, NUL
<1>2. /\ kind = DYNAMIC /\ kind # INVALID /\ p \in tokens
      /\ p \in 1 .. Len(pattern) /\ pattern[p] = "OPEN" /\ i \in 1 .. Len(input)
      /\ slash \in 1 .. i - 1 /\ input[slash] = "/"
      /\ Matches[<<p, i>>] => InLanguage
      /\ Sure /\ InLanguage => Matches[<<p, i>>]
  BY <1>1, MatchState
<1>3. /\ Closed /\ pattern \in String /\ input \in String
      /\ Len(input) \in Nat /\ Len(pattern) \in Nat
  BY <1>2, CompiledFacts
<1>4. /\ Close(p) \in p + 2 .. Len(pattern) /\ Closes(pattern, p, Close(p))
  BY <1>2, BraceIs
<1>5. pattern[p + 1] \notin {"COMMA", "CLOSE"}
  <2>1. p < Close(p) /\ p \in Nat /\ Close(p) \in Nat
    BY <1>2, <1>4
  <2> QED
    BY <1>4, <2>1, ClosesFacts
<1>6. pattern' = pattern /\ p' = p + 1 /\ mark' = i /\ i' = i
  BY <1>1 DEF verifying
<1>7. PICK k \in tokens : k = p
  BY <1>2
<1>8. PICK a \in 1 .. p' : a = p + 1
  BY <1>2, <1>6
<1>9. Close(k)' = Close(k) /\ k \in Nat /\ a \in Nat
  BY <1>1, <1>2, <1>7, <1>8, Same
<1>10. Trying(k, a)'
  <2>1. k < a /\ a <= p' /\ p' < Close(k)' /\ pattern'[k] = "OPEN" /\ a - 1 = k /\ i' - mark' = p' - a
    BY <1>2, <1>4, <1>6, <1>7, <1>8, <1>9
  <2>2. \A d \in a .. p' - 1 : FALSE
    BY <1>2, <1>6, <1>8
  <2>3. \A d \in a .. p' : pattern'[d] \notin {"COMMA", "CLOSE"}
    <3>1. \A d \in a .. p' : d = p + 1
      BY <1>2, <1>6, <1>8
    <3> QED
      BY <1>5, <1>6, <3>1
  <2> QED
    BY <2>1, <2>2, <2>3 DEF Trying
<1>11. \A r \in Alternatives(k) : ~(r[1] < a)
  BY <1>2, <1>7, <1>8 DEF Alternatives
<1>12. Matches[<<k, mark'>>] <=> Matches[<<p, i>>]
  BY <1>6, <1>7
<1>13. slash' \in 1 .. mark' - 1 /\ input[slash'] = "/"
  BY <1>1, <1>2
<1> QED
  BY <1>1, <1>2, <1>10, <1>11, <1>12, <1>13, Tries

-----------------------------------------------------------------------------
LEMMA AltState ==
  ASSUME CursorInv, Seen, Answering, pc = "alt"
  PROVE  /\ kind = DYNAMIC /\ kind # INVALID
         /\ slash \in 1 .. mark - 1 /\ input[slash] = "/" /\ mark \in 1 .. Len(input) + 1
         /\ p \in Nat /\ i \in Nat
         /\ \E k \in tokens \cap (1 .. Len(pattern)), a \in 1 .. p :
              /\ Trying(k, a) /\ pattern[k] = "OPEN"
              /\ Matches[<<k, mark>>] => InLanguage
              /\ Sure /\ InLanguage => Matches[<<k, mark>>]
              /\ Sure /\ InLanguage => \A r \in Alternatives(k) : r[1] < a => ~Reads(r, mark)
<1>1. kind = DYNAMIC /\ kind # INVALID /\ TypeOK /\ mark <= Len(input) + 1
  BY DEF CursorInv, Matching, DYNAMIC, INVALID
<1>2. /\ slash \in 1 .. mark - 1 /\ input[slash] = "/"
      /\ \E k \in tokens, a \in 1 .. p :
           /\ Trying(k, a)
           /\ Matches[<<k, mark>>] => InLanguage
           /\ Sure /\ InLanguage =>
                /\ Matches[<<k, mark>>]
                /\ \A r \in Alternatives(k) : r[1] < a => ~Reads(r, mark)
  BY DEF Answering
<1>3. p \in Nat /\ i \in Nat /\ mark \in 1 .. Len(input) + 1
  BY <1>1, <1>2 DEF TypeOK
<1>4. ASSUME NEW k \in tokens, NEW a \in 1 .. p, Trying(k, a)
      PROVE  k \in 1 .. Len(pattern) /\ pattern[k] = "OPEN"
  <2>1. /\ tokens \subseteq 2 .. Len(pattern) + 1 /\ Len(pattern) \in Nat /\ p <= Len(pattern) + 1
    BY <1>1, CompiledFacts DEF CursorInv, InBounds
  <2> QED
    BY <1>3, <1>4, <2>1 DEF Trying
<1> QED
  BY <1>1, <1>2, <1>3, <1>4

(* Two alternatives of a brace that read the same input are one, without choice. *)
LEMMA OneReads ==
  ASSUME Sure, Closed, pattern \in String, NEW k \in tokens, k \in 1 .. Len(pattern), pattern[k] = "OPEN",
         NEW j \in Nat, NEW r \in Alternatives(k), NEW t \in Alternatives(k),
         Reads(r, j), Reads(t, j), r # t, r[2] - r[1] <= t[2] - t[1]
  PROVE  FALSE
<1>1. PICK d \in 0 .. r[2] - r[1] : At(pattern, t[1] + d) # pattern[r[1] + d]
  <2>1. k \in tokens \cap DOMAIN pattern
    BY DEF String
  <2> QED
    BY <2>1 DEF Sure, NoChoice
<1>2. /\ r[1] \in Nat /\ r[2] \in Nat /\ t[1] \in Nat /\ t[2] \in Nat /\ Len(pattern) \in Nat
      /\ 1 <= t[1] /\ t[2] <= Len(pattern) /\ d \in Nat
  <2>1. \A x \in Alternatives(k) : x[1] \in k + 1 .. Len(pattern) /\ x[2] \in x[1] .. Len(pattern) - 1
    BY AlternativeFacts
  <2>2. Len(pattern) \in Nat /\ k \in Nat
    BY DEF String
  <2>3. r[1] \in k + 1 .. Len(pattern) /\ r[2] \in r[1] .. Len(pattern) - 1
    BY <2>1
  <2>4. t[1] \in k + 1 .. Len(pattern) /\ t[2] \in t[1] .. Len(pattern) - 1
    BY <2>1
  <2>5. r[1] \in Nat /\ t[1] \in Nat /\ 1 <= t[1]
    BY <2>2, <2>3, <2>4
  <2>6. r[2] \in Nat
    BY <2>3, <2>5
  <2>7. t[2] \in Nat /\ t[2] <= Len(pattern)
    BY <2>2, <2>4, <2>5
  <2>8. d \in Nat
    BY <2>5, <2>6
  <2> QED
    BY <2>2, <2>5, <2>6, <2>7, <2>8
<1>3. r[1] + d \in r[1] .. r[2] /\ t[1] + d \in t[1] .. t[2] /\ t[1] + d \in 1 .. Len(pattern) /\ t[1] + d \in Nat
  <2>1. \A x, y, v, w \in Nat : d <= y - x /\ y - x <= w - v => x + d \in x .. y /\ v + d \in v .. w
    BY <1>2
  <2>2. d <= r[2] - r[1]
    BY <1>1, <1>2
  <2>3. r[1] + d \in r[1] .. r[2] /\ t[1] + d \in t[1] .. t[2]
    BY <1>2, <2>1, <2>2
  <2>4. t[1] + d \in 1 .. Len(pattern)
    <3>1. t[1] + d <= t[2] /\ t[1] <= t[1] + d
      BY <1>2, <2>3
    <3> QED
      BY <1>2, <3>1
  <2> QED
    BY <2>3, <2>4
<1>4. At(input, j + (r[1] + d) - r[1]) = pattern[r[1] + d] /\ At(input, j + (t[1] + d) - t[1]) = pattern[t[1] + d]
  BY <1>3 DEF Reads
<1>5. j + (r[1] + d) - r[1] = j + d /\ j + (t[1] + d) - t[1] = j + d
  BY <1>2
<1>6. At(pattern, t[1] + d) = pattern[t[1] + d]
  BY <1>3, AtString
<1> QED
  BY <1>1, <1>4, <1>5, <1>6

LEMMA SameAnswers ==
  ASSUME CursorInv, Seen, Answering, AltSame
  PROVE  Answering'
<1>1. pc = "alt" /\ P = I /\ i' = i + 1 /\ UNCHANGED <<slash, mark>> /\ UNCHANGED <<verifying, input>>
  BY DEF AltSame
<1>2. /\ kind = DYNAMIC /\ kind # INVALID
      /\ slash \in 1 .. mark - 1 /\ input[slash] = "/" /\ mark \in 1 .. Len(input) + 1
      /\ p \in Nat /\ i \in Nat
  BY <1>1, AltState
<1>3. /\ Closed /\ pattern \in String /\ input \in String
      /\ Len(input) \in Nat /\ Len(pattern) \in Nat
  BY <1>2, CompiledFacts
<1>4. PICK k \in tokens \cap (1 .. Len(pattern)), a \in 1 .. p :
         /\ Trying(k, a) /\ pattern[k] = "OPEN"
         /\ Matches[<<k, mark>>] => InLanguage
         /\ Sure /\ InLanguage => Matches[<<k, mark>>]
         /\ Sure /\ InLanguage => \A r \in Alternatives(k) : r[1] < a => ~Reads(r, mark)
  BY <1>1, AltState
<1>5. /\ Close(k) \in k + 2 .. Len(pattern) /\ pattern[Close(k)] = "CLOSE"
      /\ \A d \in k + 1 .. Close(k) - 1 : pattern[d] \notin IllegalInside \cup {"CLOSE"}
      /\ Closes(pattern, k, Close(k))
  BY <1>2, <1>4, BraceIs
<1>6. /\ k < a /\ a <= p /\ p < Close(k)
      /\ a - 1 = k \/ pattern[a - 1] = "COMMA"
      /\ i - mark = p - a
      /\ \A d \in a .. p - 1 : At(input, mark + d - a) = pattern[d]
      /\ \A d \in a .. p : pattern[d] \notin {"COMMA", "CLOSE"}
  BY <1>4 DEF Trying
<1>7. PICK c \in Nat : c = Close(k)
  BY <1>5
<1>8. /\ k \in Nat /\ a \in Nat /\ k < a /\ a <= p /\ p < c /\ c <= Len(pattern)
      /\ p \in 1 .. Len(pattern) /\ p + 1 \in 1 .. Len(pattern) /\ pattern[c] = "CLOSE"
      /\ i = mark + p - a /\ mark \in Nat
  <2>1. k \in Nat /\ a \in Nat /\ k < a /\ a <= p /\ p < c /\ c <= Len(pattern) /\ pattern[c] = "CLOSE"
    <3>1. k \in Nat /\ a \in Nat
      BY <1>2, <1>3, <1>4
    <3>2. c <= Len(pattern) /\ pattern[c] = "CLOSE"
      BY <1>5, <1>7
    <3>3. k < a /\ a <= p /\ p < c
      BY <1>6, <1>7
    <3> QED
      BY <3>1, <3>2, <3>3
  <2>2. i = mark + p - a /\ mark \in Nat
    BY <1>2, <1>6, <2>1
  <2> QED
    BY <1>2, <1>3, <2>1, <2>2
<1>9. P = pattern[p] /\ At(pattern, p + 1) = pattern[p + 1] /\ I # NUL /\ I = At(input, i)
  <2>1. P # NUL /\ P = pattern[p] /\ At(pattern, p + 1) = pattern[p + 1]
    BY <1>2, <1>3, <1>8, AtString DEF P
  <2> QED
    BY <1>1, <2>1 DEF I
<1>10. i \in 1 .. Len(input)
  BY <1>2, <1>3, <1>9, AtString
<1>11. \A d \in a .. p : At(input, mark + d - a) = pattern[d]
  <2>1. \A d \in a .. p : d = p \/ d \in a .. p - 1
    BY <1>8
  <2> QED
    BY <1>1, <1>6, <1>8, <1>9, <2>1
<1>12. CASE pattern[p + 1] \notin {"COMMA", "CLOSE"}
  <2>1. p' = p + 1 /\ pc' = "alt" /\ pattern' = pattern /\ input' = input /\ mark' = mark /\ slash' = slash
    BY <1>1, <1>9, <1>12 DEF AltSame, verifying
  <2>2. p + 1 < c
    BY <1>8, <1>12
  <2>3. Close(k)' = c
    BY <1>1, <1>7, Same
  <2>4. Trying(k, a)'
    <3>1. k < a /\ a <= p' /\ p' < Close(k)' /\ pattern'[k] = "OPEN" /\ i' - mark' = p' - a
      <4>1. i' - mark' = p' - a
        BY <1>1, <1>2, <1>8, <2>1
      <4>2. k < a /\ a <= p' /\ p' < c
        BY <1>2, <1>8, <2>1, <2>2
      <4> QED
        BY <1>4, <2>1, <2>3, <4>1, <4>2
    <3>2. a - 1 = k \/ pattern'[a - 1] = "COMMA"
      BY <1>6, <2>1
    <3>3. \A d \in a .. p' - 1 : At(input', mark' + d - a) = pattern'[d]
      <4>1. p' - 1 = p
        BY <1>2, <2>1
      <4> QED
        BY <1>11, <2>1, <4>1
    <3>4. \A d \in a .. p' : pattern'[d] \notin {"COMMA", "CLOSE"}
      <4>1. \A d \in a .. p' : d = p + 1 \/ d \in a .. p
        BY <1>2, <1>8, <2>1
      <4> QED
        BY <1>6, <1>12, <2>1, <4>1
    <3> QED
      BY <3>1, <3>2, <3>3, <3>4 DEF Trying
  <2>5. a \in 1 .. p' /\ k \in tokens
    BY <1>2, <1>8, <2>1
  <2>6. Sure /\ InLanguage => \A r \in Alternatives(k) : r[1] < a => ~Reads(r, mark')
    BY <1>4, <2>1
  <2>7. slash' \in 1 .. mark' - 1 /\ input[slash'] = "/"
    BY <1>2, <2>1
  <2> QED
    BY <1>1, <1>4, <2>1, <2>4, <2>5, <2>6, <2>7, Tries
<1>13. CASE pattern[p + 1] \in {"COMMA", "CLOSE"}
  <2>1. pc' = "match"
    BY <1>9, <1>13 DEF AltSame
  <2>2. p' = c + 1
    <3>1. CASE pattern[p + 1] = "CLOSE"
      <4>1. p + 1 = c
        <5>1. p + 1 \in k + 1 .. c - 1 \/ p + 1 = c
          BY <1>8
        <5> QED
          BY <1>5, <1>7, <3>1, <5>1
      <4>2. p' = p + 2
        BY <1>9, <3>1 DEF AltSame
      <4> QED
        BY <1>2, <4>1, <4>2
    <3>2. CASE pattern[p + 1] = "COMMA"
      <4>1. p + 1 # c
        BY <1>8, <3>2
      <4>2. p + 2 \in Nat \ {0} /\ c \in p + 2 .. Len(pattern)
        BY <1>8, <4>1
      <4>3. Scan(p + 2, {"CLOSE"}) \in p + 2 .. c /\ pattern[Scan(p + 2, {"CLOSE"})] \in {"CLOSE"}
        BY <1>3, <1>8, <4>2, ScanFinds
      <4>4. PICK z \in p + 2 .. c : z = Scan(p + 2, {"CLOSE"}) /\ pattern[z] = "CLOSE"
        BY <4>3
      <4>5. z = c \/ z \in k + 1 .. c - 1
        BY <1>8, <4>4
      <4>6. z = c
        BY <1>5, <1>7, <4>4, <4>5
      <4>7. p' = Scan(p + 2, {"CLOSE"}) + 1
        BY <1>9, <3>2 DEF AltSame
      <4> QED
        BY <4>4, <4>6, <4>7
    <3> QED
      BY <1>13, <3>1, <3>2
  <2>3. <<a, p>> \in Alternatives(k)
    <3>1. a \in k + 1 .. c /\ p \in k + 1 .. c - 1
      BY <1>8
    <3> QED
      BY <1>6, <1>7, <1>8, <1>13, <3>1 DEF Alternatives
  <2>4. Reads(<<a, p>>, mark)
    BY <1>11 DEF Reads
  <2>5. mark + p + 1 - a = i + 1
    BY <1>8
  <2>6. Matches[<<k, mark>>] <=>
          \E r \in Alternatives(k) : Reads(r, mark) /\ Matches[<<c + 1, mark + r[2] + 1 - r[1]>>]
    <3>1. k \in 1 .. Len(pattern) /\ pattern[k] = "OPEN" /\ mark \in 1 .. Len(input) + 1
      BY <1>2, <1>4
    <3> QED
      BY <1>3, <1>7, <3>1, TokenMatches
  <2>7. Matches[<<c + 1, i + 1>>] => Matches[<<k, mark>>]
    <3>1. <<a, p>>[1] = a /\ <<a, p>>[2] = p
      OBVIOUS
    <3> QED
      BY <2>3, <2>4, <2>5, <2>6, <3>1
  <2>8. ASSUME Sure, InLanguage
        PROVE  Matches[<<c + 1, i + 1>>]
    <3>1. PICK t \in Alternatives(k) : Reads(t, mark) /\ Matches[<<c + 1, mark + t[2] + 1 - t[1]>>]
      BY <1>4, <2>6, <2>8
    <3>2. t = <<a, p>>
      <4>1. PICK r \in Alternatives(k) : r = <<a, p>>
        BY <2>3
      <4>2. Reads(r, mark) /\ k \in tokens /\ k \in 1 .. Len(pattern)
        BY <2>4, <4>1
      <4>3. \A x \in Alternatives(k) : x[2] - x[1] \in Nat
        <5>1. \A x \in Alternatives(k) : x[1] \in k + 1 .. Len(pattern) /\ x[2] \in x[1] .. Len(pattern) - 1
          BY <1>3, <1>4, <4>2, AlternativeFacts
        <5> QED
          BY <1>8, <5>1
      <4>4. r[2] - r[1] <= t[2] - t[1] \/ t[2] - t[1] <= r[2] - r[1]
        BY <4>3
      <4> QED
        BY <1>3, <1>4, <1>8, <2>8, <3>1, <4>1, <4>2, <4>4, OneReads
    <3>3. t[1] = a /\ t[2] = p
      BY <3>2
    <3> QED
      BY <2>5, <3>1, <3>3
  <2>9. slash' \in 1 .. i' - 1 /\ input[slash'] = "/"
    BY <1>1, <1>2, <1>8
  <2> QED
    BY <1>1, <1>4, <2>1, <2>2, <2>7, <2>8, <2>9, GoesOn
<1> QED
  BY <1>12, <1>13

-----------------------------------------------------------------------------
LEMMA OtherAnswers ==
  ASSUME CursorInv, Seen, Answering, AltOther
  PROVE  Answering'
<1> DEFINE z == Scan(p, {"COMMA", "CLOSE"})
<1>1. /\ pc = "alt" /\ P # I /\ i' = mark /\ UNCHANGED <<slash, mark>> /\ UNCHANGED <<verifying, input>>
      /\ IF At(pattern, z) = "COMMA"
         THEN p' = z + 1 /\ pc' = "alt"
         ELSE pc' = "answered" /\ ret' = FALSE
  BY DEF AltOther, Go, Answer
<1>2. /\ kind = DYNAMIC /\ kind # INVALID
      /\ slash \in 1 .. mark - 1 /\ input[slash] = "/" /\ mark \in 1 .. Len(input) + 1
      /\ p \in Nat /\ i \in Nat
  BY <1>1, AltState
<1>3. /\ Closed /\ pattern \in String /\ input \in String
      /\ Len(input) \in Nat /\ Len(pattern) \in Nat
  BY <1>2, CompiledFacts
<1>4. PICK k \in tokens \cap (1 .. Len(pattern)), a \in 1 .. p :
         /\ Trying(k, a) /\ pattern[k] = "OPEN"
         /\ Matches[<<k, mark>>] => InLanguage
         /\ Sure /\ InLanguage => Matches[<<k, mark>>]
         /\ Sure /\ InLanguage => \A r \in Alternatives(k) : r[1] < a => ~Reads(r, mark)
  BY <1>1, AltState
<1>5. /\ Close(k) \in k + 2 .. Len(pattern) /\ pattern[Close(k)] = "CLOSE"
      /\ Closes(pattern, k, Close(k))
  BY <1>2, <1>4, BraceIs
<1>6. /\ k < a /\ a <= p /\ p < Close(k)
      /\ i - mark = p - a
      /\ \A d \in a .. p : pattern[d] \notin {"COMMA", "CLOSE"}
  BY <1>4 DEF Trying
<1>7. PICK c \in Nat : c = Close(k)
  BY <1>5
<1>8. /\ k \in Nat /\ a \in Nat /\ k < a /\ a <= p /\ p < c /\ c <= Len(pattern)
      /\ p \in 1 .. Len(pattern) /\ pattern[c] = "CLOSE"
      /\ i = mark + p - a /\ mark \in Nat
  <2>1. k \in Nat /\ a \in Nat
    BY <1>2, <1>3, <1>4
  <2>2. c <= Len(pattern) /\ pattern[c] = "CLOSE"
    BY <1>5, <1>7
  <2>3. i = mark + p - a /\ mark \in Nat
    BY <1>2, <1>6, <2>1
  <2> QED
    BY <1>2, <1>3, <1>6, <1>7, <2>1, <2>2, <2>3
<1>9. /\ z \in p .. c /\ pattern[z] \in {"COMMA", "CLOSE"}
      /\ \A d \in p .. z - 1 : pattern[d] \notin {"COMMA", "CLOSE"}
  <2>1. c \in p .. Len(pattern) /\ p \in Nat \ {0}
    BY <1>3, <1>8
  <2> HIDE DEF z
  <2> QED
    BY <1>3, <1>8, <2>1, ScanFinds DEF z
<1> HIDE DEF z
<1>10. PICK y \in p .. c : y = z
  BY <1>9
<1>11. At(pattern, y) = pattern[y] /\ y \in Nat
  <2>1. y \in 1 .. Len(pattern) /\ y \in Nat
    BY <1>3, <1>8
  <2> QED
    BY <1>3, <2>1, AtString
(* No alternative that begins before the end of this one is read. *)
<1>12. ASSUME Sure, InLanguage, NEW r \in Alternatives(k), r[1] <= y
       PROVE  ~Reads(r, mark)
  <2>1. /\ r[1] \in k + 1 .. c /\ r[2] \in k + 1 .. c - 1 /\ r[1] <= r[2]
        /\ r[1] - 1 = k \/ pattern[r[1] - 1] = "COMMA"
        /\ pattern[r[2] + 1] \in {"COMMA", "CLOSE"}
    BY <1>7 DEF Alternatives
  <2>2. CASE r[1] < a
    BY <1>4, <1>12, <2>2
  <2>3. CASE r[1] = a
    <3>1. p \in r[1] .. r[2]
      <4>1. r[2] + 1 \notin a .. p
        BY <1>6, <2>1
      <4>2. r[2] \in Nat /\ a <= r[2]
        BY <1>8, <2>1, <2>3
      <4> QED
        BY <1>8, <2>3, <4>1, <4>2
    <3>2. At(input, mark + p - r[1]) = I
      BY <1>8, <2>3 DEF I
    <3>3. pattern[p] = P
      BY <1>2, <1>3, <1>8, AtString DEF P
    <3> QED
      BY <1>1, <3>1, <3>2, <3>3 DEF Reads
  <2>4. CASE a < r[1]
    <3>1. PICK d \in Nat : d = r[1] - 1
      BY <1>8, <2>1
    <3>2. d # k /\ a <= d /\ d < y
      BY <1>8, <1>11, <1>12, <2>1, <2>4, <3>1
    <3>3. pattern[d] = "COMMA"
      BY <2>1, <3>1, <3>2
    <3>4. d \in a .. p \/ d \in p .. z - 1
      BY <1>2, <1>8, <1>10, <1>11, <3>2
    <3> QED
      BY <1>6, <1>9, <3>3, <3>4
  <2>5. r[1] \in Nat
    BY <1>8, <2>1
  <2> QED
    BY <1>8, <2>2, <2>3, <2>4, <2>5
<1>13. CASE pattern[y] = "COMMA"
  <2>1. p' = y + 1 /\ pc' = "alt" /\ pattern' = pattern /\ input' = input /\ mark' = mark /\ slash' = slash
    BY <1>1, <1>10, <1>11, <1>13 DEF verifying
  <2>2. y \in k + 1 .. c - 1
    BY <1>8, <1>11, <1>13
  <2>3. y + 1 < c /\ pattern[y + 1] \notin {"COMMA", "CLOSE"}
    BY <1>5, <1>7, <1>8, <1>13, <2>2, ClosesFacts
  <2>4. Close(k)' = c
    BY <1>1, <1>7, Same
  <2>5. PICK b \in 1 .. p' : b = y + 1
    BY <1>11, <2>1
  <2>6. Trying(k, b)'
    <3>1. k < b /\ b <= p' /\ p' < Close(k)' /\ pattern'[k] = "OPEN"
      BY <1>4, <1>8, <1>11, <2>1, <2>2, <2>3, <2>4, <2>5
    <3>2. i' - mark' = p' - b
      BY <1>1, <1>8, <1>11, <2>1, <2>5
    <3>3. pattern'[b - 1] = "COMMA"
      BY <1>11, <1>13, <2>1, <2>5
    <3>4. \A d \in b .. p' - 1 : FALSE
      BY <1>11, <2>1, <2>5
    <3>5. \A d \in b .. p' : pattern'[d] \notin {"COMMA", "CLOSE"}
      <4>1. \A d \in b .. p' : d = y + 1
        BY <1>11, <2>1, <2>5
      <4> QED
        BY <2>1, <2>3, <4>1
    <3> QED
      BY <3>1, <3>2, <3>3, <3>4, <3>5 DEF Trying
  <2>7. Sure /\ InLanguage => \A r \in Alternatives(k) : r[1] < b => ~Reads(r, mark')
    <3>1. \A r \in Alternatives(k) : r[1] < b => r[1] <= y
      <4>1. \A r \in Alternatives(k) : r[1] \in k + 1 .. Close(k)
        BY DEF Alternatives
      <4> QED
        BY <1>7, <1>8, <1>11, <2>5, <4>1
    <3> QED
      BY <1>12, <2>1, <3>1
  <2>8. slash' \in 1 .. mark' - 1 /\ input[slash'] = "/" /\ k \in tokens
    BY <1>2, <2>1
  <2> QED
    BY <1>1, <1>4, <2>1, <2>5, <2>6, <2>7, <2>8, Tries
<1>14. CASE pattern[y] # "COMMA"
  <2>1. pc' = "answered" /\ ret' = FALSE
    BY <1>1, <1>10, <1>11, <1>14
  <2>2. y = c
    <3>1. pattern[y] = "CLOSE"
      BY <1>9, <1>10, <1>14
    <3>2. \A d \in k + 1 .. c - 1 : pattern[d] # "CLOSE"
      BY <1>5, <1>7, <1>8, ClosesFacts
    <3> QED
      BY <1>8, <1>11, <3>1, <3>2
  <2>3. ASSUME Sure, InLanguage PROVE FALSE
    <3>1. \A r \in Alternatives(k) : r[1] <= y
      <4>1. \A r \in Alternatives(k) : r[1] \in k + 1 .. Close(k)
        BY DEF Alternatives
      <4> QED
        BY <1>7, <1>8, <2>2, <4>1
    <3>2. \A r \in Alternatives(k) : ~Reads(r, mark)
      BY <1>12, <2>3, <3>1
    <3>3. k \in 1 .. Len(pattern) /\ mark \in 1 .. Len(input) + 1 /\ Matches[<<k, mark>>]
      BY <1>2, <1>4, <2>3
    <3> QED
      BY <1>3, <1>4, <3>2, <3>3, TokenMatches
  <2> QED
    BY <1>1, <2>1, <2>3, EndsCall
<1> QED
  BY <1>13, <1>14

-----------------------------------------------------------------------------
Plain == \A d \in 1 .. Len(pattern) : pattern[d] \notin {"*", "?", "OPEN"}

(* A pattern without a character of a meaning of its own matches itself alone. *)
LEMMA PlainMatches ==
  pattern \in String /\ Len(pattern) # 0 /\ input \in String /\ Plain => (InLanguage <=> pattern = input)
<1> SUFFICES ASSUME pattern \in String, Len(pattern) # 0, input \in String, Plain
             PROVE  InLanguage <=> pattern = input
  OBVIOUS
<1>1. Closed /\ Len(pattern) \in Nat /\ Len(input) \in Nat
  BY DEF Plain, Closed, String
<1> DEFINE n == Len(pattern)
<1>2. \A q \in 1 .. n : \A j \in 1 .. Len(input) + 1 :
        Matches[<<q, j>>] <=> j <= Len(input) /\ input[j] = pattern[q] /\ Matches[<<q + 1, j + 1>>]
  <2> TAKE q \in 1 .. n
  <2> TAKE j \in 1 .. Len(input) + 1
  <2>1. pattern[q] \notin {"*", "OPEN"} /\ pattern[q] # "?"
    BY DEF Plain
  <2> QED
    BY <1>1, <2>1, TokenMatches
<1>3. ASSUME InLanguage
      PROVE  pattern = input
  <2> DEFINE T == {k \in 0 .. n : /\ k <= Len(input) /\ Matches[<<k + 1, k + 1>>]
                                  /\ \A d \in 1 .. k : input[d] = pattern[d]}
  <2>1. 0 \in T
    BY <1>1, <1>3 DEF InLanguage
  <2>2. \A k \in 0 .. n - 1 : k \in T => k + 1 \in T
    <3> SUFFICES ASSUME NEW k \in 0 .. n - 1, k \in T PROVE k + 1 \in T
      OBVIOUS
    <3>1. k + 1 \in 1 .. n /\ k + 1 \in 1 .. Len(input) + 1 /\ k + 1 \in 0 .. n
      BY <1>1
    <3>2. k + 1 <= Len(input) /\ input[k + 1] = pattern[k + 1] /\ Matches[<<(k + 1) + 1, (k + 1) + 1>>]
      BY <1>2, <3>1
    <3>3. \A d \in 1 .. k + 1 : d = k + 1 \/ d \in 1 .. k
      OBVIOUS
    <3> QED
      BY <3>1, <3>2, <3>3
  <2>3. n \in T
    <3> HIDE DEF T
    <3>1. n \in Nat /\ n \in 0 .. n
      BY <1>1
    <3> HIDE DEF n
    <3> QED
      BY <2>1, <2>2, <3>1, UpTo
  <2>4. Len(pattern) <= Len(input) /\ Matches[<<Len(pattern) + 1, Len(pattern) + 1>>]
    BY <2>3
  <2>5. Len(pattern) + 1 \in 1 .. Len(input) + 1
    BY <1>1, <2>4
  <2>6. Len(pattern) = Len(input)
    BY <1>1, <2>4, <2>5, EndMatches
  <2>7. \A d \in 1 .. Len(pattern) : input[d] = pattern[d]
    BY <2>3
  <2> QED
    BY <2>6, <2>7 DEF String
<1>4. ASSUME pattern = input
      PROVE  InLanguage
  <2> DEFINE T == {k \in 0 .. n : Matches[<<n + 1 - k, n + 1 - k>>]}
  <2>1. 0 \in T
    <3>1. Matches[<<Len(pattern) + 1, Len(pattern) + 1>>]
      BY <1>1, <1>4, EndMatches
    <3>2. n + 1 - 0 = n + 1 /\ 0 \in 0 .. n
      BY <1>1
    <3> QED
      BY <3>1, <3>2
  <2>2. \A k \in 0 .. n - 1 : k \in T => k + 1 \in T
    <3> SUFFICES ASSUME NEW k \in 0 .. n - 1, k \in T PROVE k + 1 \in T
      OBVIOUS
    <3>1. PICK q \in 1 .. n : q = n - k
      <4>1. n - k \in 1 .. n
        BY <1>1
      <4> HIDE DEF n
      <4> QED
        BY <4>1
    <3>2. q + 1 = n + 1 - k /\ q = n + 1 - (k + 1) /\ k + 1 \in 0 .. n
      BY <1>1, <3>1
    <3>3. q \in 1 .. Len(input) + 1 /\ q <= Len(input) /\ input[q] = pattern[q]
      BY <1>1, <1>4
    <3>4. Matches[<<q + 1, q + 1>>]
      BY <3>2
    <3>5. Matches[<<q, q>>]
      BY <1>2, <3>3, <3>4
    <3> QED
      BY <3>2, <3>5
  <2>3. n \in T
    <3> HIDE DEF T
    <3>1. n \in Nat /\ n \in 0 .. n
      BY <1>1
    <3> HIDE DEF n
    <3> QED
      BY <2>1, <2>2, <3>1, UpTo
  <2>4. n + 1 - n = 1
    <3>1. n \in Nat
      BY <1>1
    <3> HIDE DEF n
    <3> QED
      BY <3>1
  <2> QED
    BY <2>3, <2>4 DEF InLanguage
<1> QED
  BY <1>3, <1>4

(* The slash that both begin with. *)
LEMMA FirstMatches ==
  /\ pattern \in String /\ Len(pattern) # 0 /\ pattern[1] = "/" /\ Closed /\ input \in String
  => IF At(input, 1) = "/" THEN 2 <= Len(input) + 1 /\ input[1] = "/" /\ (InLanguage <=> Matches[<<2, 2>>])
                           ELSE ~InLanguage
<1> SUFFICES ASSUME pattern \in String, Len(pattern) # 0, pattern[1] = "/", Closed, input \in String
             PROVE  IF At(input, 1) = "/"
                    THEN 2 <= Len(input) + 1 /\ input[1] = "/" /\ (InLanguage <=> Matches[<<2, 2>>])
                    ELSE ~InLanguage
  OBVIOUS
<1>1. Len(pattern) \in Nat /\ Len(input) \in Nat /\ 1 \in 1 .. Len(pattern) /\ 1 \in 1 .. Len(input) + 1
  BY DEF String
<1>2. InLanguage <=> 1 <= Len(input) /\ input[1] = "/" /\ Matches[<<1 + 1, 1 + 1>>]
  BY <1>1, TokenMatches DEF InLanguage
<1>3. At(input, 1) = "/" <=> 1 <= Len(input) /\ input[1] = "/"
  BY <1>1, AtString DEF NUL
<1> QED
  BY <1>1, <1>2, <1>3

LEMMA StaticAnswers ==
  ASSUME CursorInv, Seen, MatchStatic
  PROVE  Answering'
<1>1. /\ kind = STATIC /\ input' \in Inputs /\ pc' = "answered" /\ ret' = (pattern = input')
      /\ UNCHANGED verifying
  BY DEF MatchStatic
<1>2. pattern' \in String /\ Len(pattern') # 0 /\ input' \in String /\ pattern' = pattern
  <2>1. kind # INVALID
    BY <1>1 DEF STATIC, INVALID
  <2>2. pattern \in String /\ Len(pattern) # 0
    BY <2>1, CompiledFacts
  <2>3. input' \in String
    BY <1>1, PatternAssumption DEF String, NUL
  <2> QED
    BY <1>1, <2>2, <2>3 DEF verifying
<1>3. Plain'
  BY <1>1, <1>2 DEF Seen, Plain, String
<1>4. (pattern \in String /\ Len(pattern) # 0 /\ input \in String /\ Plain => (InLanguage <=> pattern = input))'
  BY PlainMatches, PTL
<1>5. InLanguage' <=> pattern' = input'
  BY <1>2, <1>3, <1>4
<1> QED
  BY <1>1, <1>2, <1>5 DEF Answering

LEMMA DynamicAnswers ==
  ASSUME CursorInv, Seen, MatchDynamic
  PROVE  Answering'
<1>1. /\ kind = DYNAMIC /\ input' \in Inputs /\ ret' = FALSE /\ slash' = 1
      /\ IF At(input', 1) = "/" THEN pc' = "match" /\ p' = 2 /\ i' = 2 ELSE pc' = "answered"
      /\ UNCHANGED verifying
  BY DEF MatchDynamic
<1>2. pattern' \in String /\ Len(pattern') # 0 /\ pattern'[1] = "/" /\ Closed' /\ input' \in String
  <2>1. kind # INVALID
    BY <1>1 DEF DYNAMIC, INVALID
  <2>2. pattern \in String /\ Len(pattern) # 0 /\ pattern[1] = "/" /\ Closed
    BY <2>1, CompiledFacts
  <2>3. input' \in String
    BY <1>1, PatternAssumption DEF String, NUL
  <2>4. pattern' = pattern
    BY <1>1 DEF verifying
  <2>5. Closed'
    <3>1. \A q : Close(q)' = Close(q)
      BY <2>4 DEF Close, Scan
    <3> QED
      BY <2>2, <2>4, <3>1 DEF Closed
  <2> QED
    BY <2>2, <2>3, <2>4, <2>5
<1>3. (/\ pattern \in String /\ Len(pattern) # 0 /\ pattern[1] = "/" /\ Closed /\ input \in String
       => IF At(input, 1) = "/" THEN 2 <= Len(input) + 1 /\ input[1] = "/" /\ (InLanguage <=> Matches[<<2, 2>>])
                                ELSE ~InLanguage)'
  BY FirstMatches, PTL
<1>4. IF At(input', 1) = "/" THEN input'[1] = "/" /\ (InLanguage' <=> Matches'[<<2, 2>>]) ELSE ~InLanguage'
  BY <1>2, <1>3
<1>5. CASE At(input', 1) = "/"
  <2>1. slash' \in 1 .. i' - 1 /\ input'[slash'] = "/" /\ (Matches'[<<p', i'>>] <=> InLanguage') /\ pc' = "match"
    BY <1>1, <1>4, <1>5
  <2> QED
    BY <2>1 DEF Answering
<1>6. CASE At(input', 1) # "/"
  BY <1>1, <1>4, <1>6 DEF Answering
<1> QED
  BY <1>5, <1>6

LEMMA AnswersStep ==
  ASSUME CursorInv, Seen, Answering, [Next]_vars
  PROVE  Answering'
<1>1. CASE Compile \/ Drop \/ Return
  BY <1>1 DEF Compile, Drop, Return, Answering
<1>2. CASE MatchStatic \/ MatchDynamic
  BY <1>2, StaticAnswers, DynamicAnswers
<1>3. CASE VerifyReject \/ VerifyNext \/ VerifyBrace \/ VerifyEnd
           \/ BraceReject \/ BraceNext \/ BraceClose
  BY <1>3 DEF VerifyReject, VerifyNext, VerifyBrace, VerifyEnd, BraceReject, BraceNext, BraceClose,
     Verdict, Answering
<1>4. CASE MatchSlash \/ MatchOne \/ MatchStar \/ MatchBrace \/ MatchEnd \/ AltSame \/ AltOther
  BY <1>4, SlashAnswers, OneAnswers, StarAnswers, BraceAnswers, EndAnswers, SameAnswers, OtherAnswers
<1>5. CASE UNCHANGED vars
  <2>1. UNCHANGED <<verifying, input>> /\ pc' = pc /\ p' = p /\ i' = i /\ slash' = slash /\ mark' = mark /\ ret' = ret
    BY <1>5 DEF vars, matching
  <2>2. CASE pc = "match"
    BY <2>1, <2>2, GoesOn DEF Answering
  <2>3. CASE pc = "answered"
    BY <2>1, <2>3, EndsCall DEF Answering
  <2>4. CASE pc = "alt"
    <3>1. PICK k \in tokens, a \in 1 .. p :
             /\ Trying(k, a)
             /\ Matches[<<k, mark>>] => InLanguage
             /\ Sure /\ InLanguage => Matches[<<k, mark>>]
             /\ Sure /\ InLanguage => \A r \in Alternatives(k) : r[1] < a => ~Reads(r, mark)
      BY <2>4, AltState
    <3>2. Close(k)' = Close(k) /\ pattern' = pattern /\ input' = input
      BY <2>1, Same DEF verifying
    <3>3. Trying(k, a)'
      BY <2>1, <3>1, <3>2 DEF Trying
    <3>4. slash' \in 1 .. mark' - 1 /\ input[slash'] = "/"
      BY <2>1, <2>4, AltState
    <3>5. a \in 1 .. p' /\ pc' = "alt" /\ mark' = mark
      BY <2>1, <2>4
    <3> QED
      BY <2>1, <3>1, <3>3, <3>4, <3>5, Tries
  <2>5. CASE pc \notin {"match", "answered", "alt"}
    BY <2>1, <2>5 DEF Answering
  <2> QED
    BY <2>2, <2>3, <2>4, <2>5
<1> QED
  BY <1>1, <1>2, <1>3, <1>4, <1>5 DEF Next, Turn

-----------------------------------------------------------------------------
(* osc_pattern_verify lets a brace through only when it is closed and has no empty
   alternative, and do_pattern_match's cursor in the pattern is on a token or in an
   alternative of such a brace, whatever the patterns and the inputs are
   (pattern.c:14-61, 84-158). *)
THEOREM CursorInvariant == Spec => []CursorInv
<1>1. Init => CursorInv
  BY CursorInit
<1>2. CursorInv /\ [Next]_vars => CursorInv'
  BY CursorStep
<1> QED
  BY <1>1, <1>2, PTL DEF Spec

(* Neither loop reads past a NUL: the scans of a brace, which look for none, find
   the comma or the brace that they look for (pattern.c:110-138). *)
THEOREM CursorsInBounds == Spec => []InBounds
<1>1. CursorInv => InBounds
  BY DEF CursorInv
<1> QED
  BY <1>1, CursorInvariant, PTL

(* Wherever do_pattern_match's loops are, what is left of the pattern matches what
   is left of the input only if the whole does; and where a pattern leaves no
   choice, it still does (pattern.c:14-158). *)
THEOREM PatternInvariant == Spec => []PatternInv
<1>1. Init => PatternInv
  <2>1. Init => CursorInv
    BY CursorInit
  <2>2. Init => Seen /\ Answering
    BY DEF Init, Seen, Answering, INVALID, STATIC
  <2> QED
    BY <2>1, <2>2 DEF PatternInv
<1>2. PatternInv /\ [Next]_vars => PatternInv'
  BY CursorStep, SeenStep, AnswersStep DEF PatternInv
<1> QED
  BY <1>1, <1>2, PTL DEF Spec

(* osc_pattern_match answers 1 for addresses of the pattern's language only, for
   every pattern that compiles and every address: no star, mark or scan makes a
   match of what is none (pattern.c:72-158). *)
THEOREM MatchesAreRight == Spec => []MatchIsRight
<1>1. PatternInv => MatchIsRight
  BY DEF PatternInv, Answering, MatchIsRight
<1> QED
  BY <1>1, PatternInvariant, PTL

(* It answers 0 for no address of the language, where the pattern never leaves a
   choice to take back and the address has no empty part: a star that ends its
   part, alternatives of which none begins another (pattern.c:81-88, 94-140). *)
THEOREM NoMatchesAreRight == Spec => []NoMatchIsRight
<1>1. PatternInv => NoMatchIsRight
  BY DEF PatternInv, Answering, NoMatchIsRight, Sure
<1> QED
  BY <1>1, PatternInvariant, PTL

-----------------------------------------------------------------------------
(* What a call has still before it of the pattern, with the turn that answers. *)
TurnsLeft ==
  IF pc \in {"compiled", "answered"} THEN 0 ELSE Len(pattern) + 2 - p

LEMMA ScanGoesOn ==
  ASSUME NEW k \in Nat, NEW cs, pattern \in String
  PROVE  k <= Len(pattern) + 2 => Scan(k, cs) \in Nat /\ Scan(k, cs) >= k
<1>1. Len(pattern) \in Nat
  BY DEF String
<1> DEFINE First(c) == pattern[c] \in cs /\ \A d \in k .. c - 1 : pattern[d] \notin cs
<1>2. CASE \E c \in k .. Len(pattern) : pattern[c] \in cs
  <2> DEFINE C == {c \in k .. Len(pattern) : pattern[c] \in cs}
  <2>1. PICK c \in C : \A y \in C : c <= y
    <3>1. C # {} /\ C \in SUBSET Nat
      BY <1>1, <1>2
    <3> HIDE DEF C
    <3> QED
      BY <3>1, Least
  <2>2. \E x \in k .. Len(pattern) : First(x)
    BY <1>1, <2>1
  <2>3. Scan(k, cs) = CHOOSE x \in k .. Len(pattern) : First(x)
    BY <1>2 DEF Scan
  <2>4. Scan(k, cs) \in k .. Len(pattern)
    BY <2>2, <2>3
  <2> QED
    BY <1>1, <2>4
<1>3. CASE ~\E c \in k .. Len(pattern) : pattern[c] \in cs
  BY <1>1, <1>3 DEF Scan
<1> QED
  BY <1>2, <1>3

(* The cursor in the pattern never stays where it is. *)
LEMMA TurnGoesOn ==
  ASSUME CursorInv, Turn
  PROVE  /\ pattern' = pattern
         /\ pc \notin {"compiled", "answered"}
         /\ pc' \in {"compiled", "answered"} \/ p' > p
<1>1. p \in Nat /\ Len(pattern) \in Nat /\ p <= Len(pattern) + 1 /\ pattern \in String
  BY DEF CursorInv, TypeOK, InBounds, String
<1>2. CASE VerifyReject \/ VerifyNext \/ VerifyBrace \/ VerifyEnd
           \/ BraceReject \/ BraceNext \/ BraceClose
  <2>1. pc \in {"verify", "brace"} /\ pattern' = pattern /\ (pc' = "compiled" \/ p' = p + 1)
    BY <1>2 DEF VerifyReject, VerifyNext, VerifyBrace, VerifyEnd, BraceReject, BraceNext, BraceClose,
       Verdict
  <2> QED
    BY <1>1, <2>1
<1>3. CASE MatchSlash
  <2>1. pc = "match" /\ pattern' = pattern /\ (pc' = "answered" \/ p' = p + 1 \/ p' = p + 1 + 1)
    BY <1>3 DEF MatchSlash, Answer, verifying
  <2> QED
    BY <1>1, <2>1
<1>4. CASE MatchOne \/ MatchStar \/ MatchBrace \/ MatchEnd
  <2>1. pc = "match" /\ pattern' = pattern /\ (pc' = "answered" \/ p' = p + 1)
    BY <1>4 DEF MatchOne, MatchStar, MatchBrace, MatchEnd, Go, Answer, verifying
  <2> QED
    BY <1>1, <2>1
<1>5. CASE AltSame
  <2>1. pc = "alt" /\ pattern' = pattern
    BY <1>5 DEF AltSame, verifying
  <2>2. CASE At(pattern, p + 1) = "COMMA"
    <3>1. p + 1 \in DOMAIN pattern
      BY <2>2 DEF At, NUL
    <3>2. p + 2 <= Len(pattern) + 2 /\ p + 2 \in Nat
      BY <1>1, <3>1 DEF String
    <3>3. p' = Scan(p + 2, {"CLOSE"}) + 1
      BY <1>5, <2>2 DEF AltSame
    <3>4. PICK z \in Nat : z = Scan(p + 2, {"CLOSE"}) /\ z >= p + 2
      BY <1>1, <3>2, ScanGoesOn
    <3> QED
      BY <1>1, <2>1, <3>3, <3>4
  <2>3. CASE At(pattern, p + 1) # "COMMA"
    <3>1. p' = p + 2 \/ p' = p + 1
      BY <1>5, <2>3 DEF AltSame
    <3> QED
      BY <1>1, <2>1, <3>1
  <2> QED
    BY <2>2, <2>3
<1>6. CASE AltOther
  <2>1. pc = "alt" /\ pattern' = pattern
        /\ (pc' = "answered" \/ p' = Scan(p, {"COMMA", "CLOSE"}) + 1)
    BY <1>6 DEF AltOther, Go, Answer, verifying
  <2>2. PICK z \in Nat : z = Scan(p, {"COMMA", "CLOSE"}) /\ z >= p
    BY <1>1, ScanGoesOn
  <2> QED
    BY <1>1, <2>1, <2>2
<1> QED
  BY <1>2, <1>3, <1>4, <1>5, <1>6 DEF Turn

(* Every turn of every loop of osc_pattern_verify and do_pattern_match brings its
   call nearer to its end: a call takes at most a turn for each character of the
   pattern and one for its NUL, whatever the input; no alternative that fails makes
   it go back (pattern.c:25-58, 77-151). *)
THEOREM TurnsGoOn ==
  Spec => [][Turn => TurnsLeft \in Nat /\ TurnsLeft' \in Nat /\ TurnsLeft' < TurnsLeft]_vars
<1>1. ASSUME CursorInv, CursorInv', Turn
      PROVE  TurnsLeft \in Nat /\ TurnsLeft' \in Nat /\ TurnsLeft' < TurnsLeft
  <2>1. p \in Nat /\ Len(pattern) \in Nat /\ p <= Len(pattern) + 1
        /\ p' \in Nat /\ p' <= Len(pattern') + 1
    BY <1>1 DEF CursorInv, TypeOK, InBounds
  <2>2. /\ pattern' = pattern
        /\ pc \notin {"compiled", "answered"}
        /\ pc' \in {"compiled", "answered"} \/ p' > p
    BY <1>1, TurnGoesOn
  <2>3. TurnsLeft = Len(pattern) + 2 - p
    BY <2>2 DEF TurnsLeft
  <2>4. CASE pc' \in {"compiled", "answered"}
    <3>1. TurnsLeft' = 0
      BY <2>4 DEF TurnsLeft
    <3> QED
      BY <2>1, <2>3, <3>1
  <2>5. CASE pc' \notin {"compiled", "answered"}
    <3>1. TurnsLeft' = Len(pattern) + 2 - p'
      BY <2>2, <2>5 DEF TurnsLeft
    <3> QED
      BY <2>1, <2>2, <2>3, <2>5, <3>1
  <2> QED
    BY <2>4, <2>5
<1> QED
  BY <1>1, CursorInvariant, PTL
=============================================================================
