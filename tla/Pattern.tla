------------------------------ MODULE Pattern ------------------------------
(***************************************************************************)
(* The address patterns of ideas/pattern.c: a pattern is verified and      *)
(* compiled, then matched with any number of addresses.                    *)
(*                                                                         *)
(* A string is a sequence of characters, and a pointer into it a position; *)
(* the position after the last character is that of its NUL.  OPEN, CLOSE,  *)
(* COMMA and SPACE are the characters '{', '}', ',' and ' '.               *)
(***************************************************************************)
EXTENDS Integers, Sequences

CONSTANTS
  Patterns,  \* the strings that callers compile
  Inputs     \* the strings they match

ASSUME PatternAssumption ==
  Patterns \cup Inputs \subseteq Seq(STRING \ {"NUL"})

VARIABLES
  pc,        \* "verify", "brace", "match", "alt": a turn of one of the loops;
             \* "compiled" and "answered": no call is running
  pattern,   \* osc_pattern_t's pattern
  kind,      \* what osc_pattern_verify has answered
  p,         \* the cursor in the pattern, of verify and of match
  slash,     \* the last slash, in the pattern or in the input
  seg_len, has_meta,
  tokens,    \* where the outer loop of osc_pattern_verify has been
  input, i,  \* of match, with its cursor
  mark,      \* where the input of a brace begins
  ret        \* the answer of osc_pattern_match

verifying == <<pattern, kind, seg_len, has_meta, tokens>>
matching  == <<input, i, mark, ret>>
vars == <<pc, p, slash, verifying, matching>>

INVALID == 0
STATIC  == 1
DYNAMIC == 2

NUL == "NUL"
At(s, k) == IF k \in DOMAIN s THEN s[k] ELSE NUL

P == At(pattern, p)
I == At(input, i)

(* What osc_pattern_verify refuses outside braces and inside. *)
Illegal == {"[", "#", "]", "CLOSE", "COMMA", "SPACE"}
IllegalInside == {"/", "#", "]", "SPACE", "*", "?", NUL}

(* A scan of the pattern from k for one of cs.  One that finds none passes the
   NUL. *)
Scan(k, cs) ==
  IF \E c \in k .. Len(pattern) : pattern[c] \in cs
  THEN CHOOSE c \in k .. Len(pattern) :
         pattern[c] \in cs /\ \A d \in k .. c - 1 : pattern[d] \notin cs
  ELSE Len(pattern) + 2

(* No pattern is compiled. *)
Init ==
  /\ pc = "compiled"
  /\ pattern = <<>> /\ kind = INVALID
  /\ p = 1 /\ slash = 1 /\ seg_len = 0 /\ has_meta = FALSE
  /\ tokens = {}
  /\ input = <<>> /\ i = 1 /\ mark = 1 /\ ret = FALSE

(* osc_pattern_compile begins. *)
Compile ==
  /\ pc = "compiled" /\ pattern = <<>>
  /\ \E s \in Patterns :
       /\ pattern' = s
       /\ IF At(s, 1) = "/" THEN pc' = "verify" /\ p' = 2
                            ELSE pc' = "compiled" /\ p' = 1
  /\ tokens' = {2}
  /\ UNCHANGED <<slash, kind, seg_len, has_meta, matching>>

(* The caller is done with a pattern; the next one gets an osc_pattern_t of its
   own. *)
Drop ==
  /\ pc = "compiled" /\ pattern # <<>>
  /\ pattern' = <<>> /\ kind' = INVALID
  /\ p' = 1 /\ slash' = 1 /\ seg_len' = 0 /\ has_meta' = FALSE
  /\ tokens' = {}
  /\ UNCHANGED <<pc, matching>>

(* osc_pattern_match is left, with its answer. *)
Return ==
  /\ pc = "answered"
  /\ pc' = "compiled"
  /\ p' = 1 /\ slash' = 1
  /\ input' = <<>> /\ i' = 1 /\ mark' = 1 /\ ret' = FALSE
  /\ UNCHANGED verifying
-----------------------------------------------------------------------------
(* osc_pattern_verify, and what osc_pattern_compile makes of its answer. *)
Verdict(k) ==
  /\ pc' = "compiled"
  /\ kind' = k
  /\ UNCHANGED <<p, slash, pattern, seg_len, has_meta, tokens, matching>>

VerifyReject ==
  /\ pc = "verify"
  /\ P \in Illegal \/ (P = "/" /\ p - slash = 1)
  /\ Verdict(INVALID)

VerifyNext ==
  /\ pc = "verify"
  /\ P \notin Illegal \cup {"OPEN", NUL}
  /\ ~(P = "/" /\ p - slash = 1)
  /\ p' = p + 1
  /\ slash' = IF P = "/" THEN p ELSE slash
  /\ has_meta' = (has_meta \/ P \in {"*", "?"})
  /\ tokens' = tokens \cup {p + 1}
  /\ UNCHANGED <<pc, pattern, kind, seg_len, matching>>

(* Mutant of VerifyBrace: seg_len keeps its value. *)
VerifyBraceNoReset ==
  /\ pc = "verify" /\ P = "OPEN"
  /\ pc' = "brace"
  /\ p' = p + 1
  /\ has_meta' = TRUE
  /\ UNCHANGED <<slash, pattern, kind, seg_len, tokens, matching>>

VerifyBrace ==
  /\ pc = "verify"
  /\ P = "OPEN"
  /\ pc' = "brace"
  /\ p' = p + 1
  /\ seg_len' = 0
  /\ has_meta' = TRUE
  /\ UNCHANGED <<slash, pattern, kind, tokens, matching>>

(* Mutant of Empty: only a comma is refused after nothing. *)
EmptyBeforeComma == P = "COMMA" /\ seg_len = 0

(* An alternative of no characters ends at p. *)
Empty == P \in {"COMMA", "CLOSE"} /\ seg_len = 0

BraceReject ==
  /\ pc = "brace"
  /\ P \in IllegalInside \/ Empty
  /\ Verdict(INVALID)

BraceNext ==
  /\ pc = "brace"
  /\ P \notin IllegalInside \cup {"CLOSE"}
  /\ ~Empty
  /\ p' = p + 1
  /\ seg_len' = IF P = "COMMA" THEN 0 ELSE seg_len + 1
  /\ UNCHANGED <<pc, slash, pattern, kind, has_meta, tokens, matching>>

BraceClose ==
  /\ pc = "brace"
  /\ P = "CLOSE"
  /\ ~Empty
  /\ pc' = "verify"
  /\ p' = p + 1
  /\ tokens' = tokens \cup {p + 1}
  /\ UNCHANGED <<slash, pattern, kind, seg_len, has_meta, matching>>

VerifyEnd ==
  /\ pc = "verify"
  /\ P = NUL
  /\ Verdict(IF pattern[p - 1] = "/" THEN INVALID
             ELSE IF has_meta THEN DYNAMIC ELSE STATIC)
-----------------------------------------------------------------------------
Answer(r) ==
  /\ pc' = "answered"
  /\ ret' = r
  /\ UNCHANGED <<slash, verifying, input, mark>>

(* osc_pattern_match.  A caller does not match with a pattern that did not
   compile. *)
MatchStatic ==
  /\ pc = "compiled"
  /\ kind = STATIC
  /\ input' \in Inputs
  /\ pc' = "answered"
  /\ ret' = (pattern = input')
  /\ UNCHANGED <<p, i, slash, mark, verifying>>

MatchDynamic ==
  /\ pc = "compiled"
  /\ kind = DYNAMIC
  /\ input' \in Inputs
  /\ IF At(input', 1) = "/" THEN pc' = "match" /\ p' = 2 /\ i' = 2
                            ELSE pc' = "answered" /\ p' = 1 /\ i' = 1
  /\ slash' = 1
  /\ ret' = FALSE
  /\ UNCHANGED <<mark, verifying>>

Go(q, j) ==
  /\ p' = q /\ i' = j
  /\ UNCHANGED <<pc, slash, verifying, input, mark, ret>>

(* The turns of do_pattern_match's loop. *)
MatchSlash ==
  /\ pc = "match" /\ P # NUL /\ I = "/"
  /\ LET q == IF P = "*" THEN p + 1 ELSE p
     IN IF i - slash = 1 \/ At(pattern, q) # "/"
        THEN Answer(FALSE) /\ UNCHANGED <<p, i>>
        ELSE /\ p' = q + 1 /\ i' = i + 1 /\ slash' = i
             /\ UNCHANGED <<pc, verifying, input, mark, ret>>

MatchOne ==
  /\ pc = "match" /\ P \notin {"*", "OPEN", NUL} /\ I \notin {"/", NUL}
  /\ IF P = "?" \/ (P = I /\ P # "[")
     THEN Go(p + 1, i + 1)
     ELSE Answer(FALSE) /\ UNCHANGED <<p, i>>

MatchStar ==
  /\ pc = "match" /\ P = "*" /\ I \notin {"/", NUL}
  /\ \E j \in i + 1 .. Len(input) + 1 :
       /\ At(input, j) \in {"/", NUL}
       /\ \A k \in i .. j - 1 : input[k] # "/"
       /\ Go(p + 1, j)

MatchBrace ==
  /\ pc = "match" /\ P = "OPEN" /\ I \notin {"/", NUL}
  /\ pc' = "alt"
  /\ p' = p + 1
  /\ mark' = i
  /\ UNCHANGED <<slash, i, verifying, input, ret>>

(* The turns of the loop over a brace. *)
AltSame ==
  /\ pc = "alt" /\ P = I
  /\ LET next == At(pattern, p + 1)
     IN /\ p' = CASE next = "COMMA" -> Scan(p + 2, {"CLOSE"}) + 1
                  [] next = "CLOSE" -> p + 2
                  [] OTHER      -> p + 1
        /\ pc' = IF next \in {"COMMA", "CLOSE"} THEN "match" ELSE "alt"
  /\ i' = i + 1
  /\ UNCHANGED <<slash, verifying, input, mark, ret>>

(* Mutants of AltOther: the next alternative goes on where this one failed; the
   comma before it is not skipped. *)
AltOtherNoMark ==
  /\ pc = "alt" /\ P # I
  /\ p' = Scan(p, {"COMMA", "CLOSE"}) + 1
  /\ IF At(pattern, p' - 1) = "COMMA"
     THEN UNCHANGED <<pc, slash, i, verifying, input, mark, ret>>
     ELSE Answer(FALSE) /\ UNCHANGED i

AltOtherAtComma ==
  /\ pc = "alt" /\ P # I
  /\ p' = Scan(p, {"COMMA", "CLOSE"}) /\ i' = mark
  /\ IF At(pattern, p') = "COMMA"
     THEN UNCHANGED <<pc, slash, verifying, input, mark, ret>>
     ELSE Answer(FALSE)

AltOther ==
  /\ pc = "alt" /\ P # I
  /\ IF At(pattern, Scan(p, {"COMMA", "CLOSE"})) = "COMMA"
     THEN Go(Scan(p, {"COMMA", "CLOSE"}) + 1, mark)
     ELSE p' = Scan(p, {"COMMA", "CLOSE"}) /\ i' = mark /\ Answer(FALSE)

(* Mutant of MatchEnd: a star at the end needs a character. *)
MatchEndNoStar ==
  /\ pc = "match" /\ (P = NUL \/ I = NUL)
  /\ Answer(P = NUL /\ I = NUL) /\ UNCHANGED <<p, i>>

MatchEnd ==
  /\ pc = "match" /\ (P = NUL \/ I = NUL)
  /\ LET q == IF P = "*" THEN p + 1 ELSE p
     IN p' = q /\ Answer(At(pattern, q) = NUL /\ I = NUL)
  /\ UNCHANGED i

Turn ==
  \/ VerifyReject \/ VerifyNext \/ VerifyBrace \/ VerifyEnd
  \/ BraceReject \/ BraceNext \/ BraceClose
  \/ MatchSlash \/ MatchOne \/ MatchStar \/ MatchBrace \/ MatchEnd
  \/ AltSame \/ AltOther

Next == Compile \/ Drop \/ Return \/ MatchStatic \/ MatchDynamic \/ Turn

Spec == Init /\ [][Next]_vars

FairSpec == Spec /\ WF_vars(Turn)
-----------------------------------------------------------------------------
(* What osc_pattern_verify has read of a brace of s at k before it comes to q: no
   end of it, and no empty alternative. *)
InBrace(s, k, q) ==
  /\ s[k] = "OPEN"
  /\ \A d \in k + 1 .. q - 1 : s[d] \notin IllegalInside \cup {"CLOSE"}
  /\ \A d \in k .. q - 2 : d = k \/ s[d] = "COMMA" => s[d + 1] \notin {"COMMA", "CLOSE"}

Ends(s, k, q) == q - 1 = k \/ s[q - 1] = "COMMA"

Closes(s, k, c) == InBrace(s, k, c) /\ s[c] = "CLOSE" /\ ~Ends(s, k, c)

(* The outer loop of verify has come to q, by the tokens in ts. *)
ReadTo(s, ts, q) ==
  /\ ts \subseteq 2 .. q
  /\ 2 \in ts /\ q \in ts
  /\ \A k \in ts \ {q} :
       IF s[k] = "OPEN"
       THEN \E c \in k + 1 .. q - 1 : Closes(s, k, c) /\ c + 1 \in ts
       ELSE k + 1 \in ts

TypeOK ==
  /\ pc \in {"verify", "brace", "compiled", "match", "alt", "answered"}
  /\ pattern \in Seq(STRING \ {NUL})
  /\ kind \in {INVALID, STATIC, DYNAMIC}
  /\ p \in Nat /\ slash \in Nat /\ seg_len \in Nat /\ has_meta \in BOOLEAN
  /\ input \in Seq(STRING \ {NUL})
  /\ i \in Nat /\ mark \in Nat /\ ret \in BOOLEAN

(* The cursors stay on their strings and the NULs of these: no scan for the end
   of a brace and no turn over an alternative, which look at no NUL, goes past
   them, for whatever pattern osc_pattern_verify lets through and whatever input
   (pattern.c:34-49, 110-138). *)
InBounds == p <= Len(pattern) + 1 /\ i <= Len(input) + 1

(* The cursors' part of the inductive invariant of PatternProofs: verify's loops
   have read the tokens, and match's cursor in the pattern is on one of them or
   inside a brace. *)
Verifying ==
  /\ pc = "verify" => ReadTo(pattern, tokens, p)
  /\ pc = "brace" =>
       \E k \in tokens : /\ ReadTo(pattern, tokens, k) /\ k < p
                         /\ InBrace(pattern, k, p)
                         /\ seg_len = 0 <=> Ends(pattern, k, p)
  /\ pc \in {"verify", "brace"} => kind = INVALID

Compiled == kind # INVALID => ReadTo(pattern, tokens, Len(pattern) + 1)

InAlternative(k, c) ==
  /\ k < p /\ Closes(pattern, k, c) /\ c + 1 \in tokens
  /\ pattern[p] \notin {"COMMA", "CLOSE"}

Matching ==
  /\ pc \in {"match", "alt"} => kind = DYNAMIC
  /\ pc = "match" => p \in tokens
  /\ pc \notin {"match", "alt", "answered"} => i = 1
  /\ pc = "alt" => /\ mark <= Len(input) + 1
                   /\ \E k \in tokens, c \in p + 1 .. Len(pattern) : InAlternative(k, c)

CursorInv == TypeOK /\ InBounds /\ Verifying /\ Compiled /\ Matching
-----------------------------------------------------------------------------
(* What a pattern matches, by OSC 1.0: '*' any characters of a part, '?' one of
   them, a brace one of its alternatives, another character itself. *)
Close(k) == Scan(k, {"CLOSE"})

Alternatives(k) ==
  {r \in (k + 1 .. Close(k)) \X (k + 1 .. Close(k) - 1) :
     /\ r[1] <= r[2]
     /\ r[1] - 1 = k \/ pattern[r[1] - 1] = "COMMA"
     /\ pattern[r[2] + 1] \in {"COMMA", "CLOSE"}
     /\ \A d \in r[1] .. r[2] : pattern[d] # "COMMA"}

(* The characters of the alternative r are those of the input from j. *)
Reads(r, j) == \A d \in r[1] .. r[2] : At(input, j + d - r[1]) = pattern[d]

(* The pattern from q matches the input from j, when m says so of the rest. *)
Accepts(m, q, j) ==
  IF q > Len(pattern) THEN j > Len(input)
  ELSE CASE pattern[q] = "*" ->
              \E k \in j .. Len(input) + 1 :
                (\A d \in j .. k - 1 : input[d] # "/") /\ m[<<q + 1, k>>]
         [] pattern[q] = "OPEN" ->
              \E r \in Alternatives(q) :
                Reads(r, j) /\ m[<<Close(q) + 1, j + r[2] + 1 - r[1]>>]
         [] OTHER ->
              /\ j <= Len(input)
              /\ input[j] = pattern[q] \/ (pattern[q] = "?" /\ input[j] # "/")
              /\ m[<<q + 1, j + 1>>]

Places == (1 .. Len(pattern) + 1) \X (1 .. Len(input) + 1)

Matches[x \in Places] == Accepts(Matches, x[1], x[2])

InLanguage == Matches[<<1, 1>>]

(* The matcher answers 1 only for addresses in the pattern's language, static
   patterns with their strcmp included (pattern.c:72-158): no sequence of turns,
   marks and scans makes a match of what is none. *)
MatchIsRight == pc = "answered" /\ ret => InLanguage

(* The patterns that need no second try: a star ends its part, and no alternative
   begins another one of its brace. *)
NoChoice ==
  \A k \in tokens \cap DOMAIN pattern :
    /\ pattern[k] = "*" => At(pattern, k + 1) \in {"/", NUL}
    /\ pattern[k] = "OPEN" =>
         \A r, t \in Alternatives(k) :
           r # t => \E d \in 0 .. r[2] - r[1] : At(pattern, t[1] + d) # pattern[r[1] + d]

(* With such a pattern the matcher answers 1 for all of its language, but for
   addresses with an empty part (pattern.c:81-88, 94-97, 104-140). *)
EmptyPart == \E k \in 2 .. Len(input) : input[k - 1] = "/" /\ input[k] = "/"

NoMatchIsRight ==
  pc = "answered" /\ ~ret /\ NoChoice /\ ~EmptyPart => ~InLanguage

Sure == NoChoice /\ ~EmptyPart

(* The rest of the inductive invariant.  What osc_pattern_compile and
   osc_pattern_verify have seen of a pattern: *)
Seen ==
  /\ pc \in {"verify", "brace"} \/ kind # INVALID => At(pattern, 1) = "/"
  /\ \A k \in tokens : (pc \in {"verify", "brace"} /\ k < p) \/ kind # INVALID =>
                          At(pattern, k) \notin Illegal
  /\ pc = "verify" /\ ~has_meta => \A d \in 1 .. p - 1 : pattern[d] \notin {"*", "?", "OPEN"}
  /\ pc = "brace" => has_meta
  /\ kind = STATIC => \A d \in DOMAIN pattern : pattern[d] \notin {"*", "?", "OPEN"}

(* The loop over the brace k has read its alternative that begins at a, up to p. *)
Trying(k, a) ==
  /\ k < a /\ a <= p /\ p < Close(k) /\ pattern[k] = "OPEN"
  /\ a - 1 = k \/ pattern[a - 1] = "COMMA"
  /\ i - mark = p - a
  /\ \A d \in a .. p - 1 : At(input, mark + d - a) = pattern[d]
  /\ \A d \in a .. p : pattern[d] \notin {"COMMA", "CLOSE"}

(* Where the cursors are, the rest of the pattern matches the rest of the input
   only if the whole matches the whole, and, without a choice, if it does; the
   alternatives before the one that is tried read something else. *)
Answering ==
  /\ pc = "match" => /\ slash \in 1 .. i - 1 /\ input[slash] = "/"
                     /\ Matches[<<p, i>>] => InLanguage
                     /\ Sure /\ InLanguage => Matches[<<p, i>>]
  /\ pc = "alt" => /\ slash \in 1 .. mark - 1 /\ input[slash] = "/"
                   /\ \E k \in tokens, a \in 1 .. p :
                       /\ Trying(k, a)
                       /\ Matches[<<k, mark>>] => InLanguage
                       /\ Sure /\ InLanguage =>
                            /\ Matches[<<k, mark>>]
                            /\ \A r \in Alternatives(k) : r[1] < a => ~Reads(r, mark)
  /\ pc = "answered" => (ret => InLanguage) /\ (Sure /\ InLanguage => ret)

PatternInv == CursorInv /\ Seen /\ Answering

(* Every call returns: each turn of each loop takes the cursors on or goes to a
   later alternative (pattern.c:24-50, 79-153). *)
CallsReturn == pc \in {"verify", "brace", "match", "alt"} ~> pc \in {"compiled", "answered"}
=============================================================================
