------------------------- MODULE IdeasBundleProofs -------------------------
(***************************************************************************)
(* The first OSC prototype, proved for every size of the buffers, every    *)
(* message and any order of calls: its writer stays in the buffer, counts  *)
(* what has succeeded only, and one message is read back as it was written *)
(***************************************************************************)
EXTENDS IdeasReader, SequenceLemmas

(* What the first words of the type tags and of "#bundle" are read as. *)
Chars == TypeTags \cup {",", "#"}

Word == [nul : BOOLEAN, n : Int, tags : Seq(Chars)]

(* A converted word is an integer. *)
LEMMA OrderType ==
  ASSUME NEW n \in Int
  PROVE  osc_ntoh32(n) \in Int /\ osc_hton32(n) \in Int
<1>1. \A u \in {1, 256, 65536, 16777216} : Byte(n, u) \in Int
  BY SMT DEF Byte
<1> QED
  BY <1>1, SMT DEF osc_ntoh32, osc_hton32, SignedByte

IsByte(x) == x \in Int /\ 0 <= x /\ x <= 255
(* A byte as a signed one, and back. *)
Signed(x) == IF x < 128 THEN x ELSE x - 256
Unsigned(x) == IF x < 0 THEN x + 256 ELSE x

(* The number of four bytes. *)
Joined(a, b, c, d) == 16777216 * a + 65536 * b + 256 * c + d

IsSignedByte(x) == x \in Int /\ -128 <= x /\ x <= 127

(* A number and its lowest byte. *)
LEMMA LowByte ==
  ASSUME NEW n \in Int
  PROVE  \E q \in Int, r \in Int : IsByte(r) /\ n = 256 * q + r
<1>1. PICK q \in Int, r \in Int : q = n \div 256 /\ r = n % 256
  BY SMT
<1>2. IsByte(r)
  BY <1>1, SMT DEF IsByte
<1>3. n = 256 * q + r
  BY <1>1, SMT
<1> QED
  BY <1>2, <1>3

(* A conversion exchanges the first byte with the last and the second with the third. *)
LEMMA OrderOfBytes ==
  ASSUME ~BigEndian,
         NEW a, NEW b, NEW c, NEW d,
         IsSignedByte(a), IsByte(b), IsByte(c), IsByte(d)
  PROVE  osc_ntoh32(Joined(a, b, c, d)) = Joined(Signed(d), c, b, Unsigned(a))
<1> USE DEF IsByte, IsSignedByte
<1>1. PICK n \in Int : n = 16777216 * a + 65536 * b + 256 * c + d
  BY SMT
<1>2. Byte(n, 1) = d
  BY <1>1, SMT DEF Byte
<1>3. Byte(n, 256) = c
  <2>1. n \div 256 = 65536 * a + 256 * b + c
    BY <1>1, SMT
  <2> QED
    BY <2>1, SMT DEF Byte
<1>4. Byte(n, 65536) = b
  <2>1. n \div 65536 = 256 * a + b
    BY <1>1, SMT
  <2> QED
    BY <2>1, SMT DEF Byte
<1>5. Byte(n, 16777216) = Unsigned(a)
  <2>1. n \div 16777216 = a
    BY <1>1, SMT
  <2>2. a % 256 = Unsigned(a)
    BY SMT DEF Unsigned
  <2> QED
    BY <2>1, <2>2, SMT DEF Byte
<1>6. osc_ntoh32(n) = 16777216 * Signed(d) + 65536 * c + 256 * b + Unsigned(a)
  BY <1>2, <1>3, <1>4, <1>5, SMT DEF osc_ntoh32, SignedByte, Signed
<1> QED
  BY <1>1, <1>6, SMT DEF Joined

(* What has been converted is converted back. *)
LEMMA OrderBack ==
  ASSUME NEW n \in Int32s
  PROVE  osc_ntoh32(osc_hton32(n)) = n
<1>1. CASE BigEndian
  BY <1>1, SMT DEF osc_ntoh32, osc_hton32
<1>2. CASE ~BigEndian
  <2>1. n \in Int /\ -2147483648 <= n /\ n <= 2147483647
    <3>1. PICK m \in Int : m = MaxInt32
      BY SMT DEF MaxInt32
    <3>2. n \in -m - 1 .. m
      BY <3>1 DEF Int32s
    <3>3. m = 2147483647
      BY <3>1, SMT DEF MaxInt32
    <3>4. n \in Int /\ -m - 1 <= n /\ n <= m
      BY <3>2, SMT
    <3> QED
      BY <3>3, <3>4, SMT
  <2>2. n \in Int
    BY <2>1, SMT
  <2>3. PICK x \in Int, d \in Int : IsByte(d) /\ n = 256 * x + d
    BY <2>2, LowByte
  <2>4. PICK y \in Int, c \in Int : IsByte(c) /\ x = 256 * y + c
    BY LowByte
  <2>5. PICK a \in Int, b \in Int : IsByte(b) /\ y = 256 * a + b
    BY LowByte
  <2>6. n = Joined(a, b, c, d)
    BY <2>2, <2>3, <2>4, <2>5, SMT DEF Joined
  <2>7. IsSignedByte(a)
    <3>1. PICK r \in Int : r = 65536 * b + 256 * c + d
      BY <2>3, <2>4, <2>5, SMT
    <3>2. 0 <= r /\ r <= 16777215
      BY <2>3, <2>4, <2>5, <3>1, SMT DEF IsByte
    <3>3. n = 16777216 * a + r
      BY <2>6, <3>1, SMT DEF Joined
    <3> QED
      BY <2>1, <3>2, <3>3, SMT DEF IsSignedByte
  <2>8. /\ IsSignedByte(Signed(d)) /\ IsByte(Unsigned(a))
        /\ Signed(Unsigned(a)) = a /\ Unsigned(Signed(d)) = d
    BY <2>3, <2>7, SMT DEF IsByte, IsSignedByte, Signed, Unsigned
  <2>9. osc_hton32(n) = Joined(Signed(d), c, b, Unsigned(a))
    BY <1>2, <2>3, <2>4, <2>5, <2>6, <2>7, OrderOfBytes DEF osc_hton32
  <2>10. osc_ntoh32(Joined(Signed(d), c, b, Unsigned(a))) = Joined(a, b, c, d)
    BY <1>2, <2>4, <2>5, <2>8, OrderOfBytes
  <2> QED
    BY <2>6, <2>9, <2>10
<1> QED
  BY <1>1, <1>2, SMT
-----------------------------------------------------------------------------
(* The words of a string, of which the last holds its NUL. *)
LEMMA TaggedWords ==
  ASSUME NEW n \in Nat, NEW t \in Seq(Chars)
  PROVE  /\ Tagged(n, t) \in Seq(Word) /\ Len(Tagged(n, t)) >= 1
         /\ 4 * Len(Tagged(n, t)) = ROUND32(n + 1)
         /\ \A w \in 1 .. Len(Tagged(n, t)) : Tagged(n, t)[w].nul = (w = Len(Tagged(n, t)))
         /\ Tagged(n, t)[1].tags = t
<1> DEFINE last == ROUND32(n + 1) \div 4
           word(w) == [nul  |-> w = last,
                       n    |-> IF w = last /\ n % 4 = 0 THEN 0 ELSE Letters,
                       tags |-> IF w = 1 THEN t ELSE <<>>]
<1>1. last \in Nat /\ last >= 1 /\ 4 * last = ROUND32(n + 1)
  <2>1. PICK q \in Int : q = ((n + 1) + 3) \div 4
    BY SMT
  <2>2. q >= 1
    BY <2>1, SMT
  <2>3. ROUND32(n + 1) = q * 4
    BY <2>1 DEF ROUND32
  <2>4. (q * 4) \div 4 = q
    BY SMT
  <2> QED
    BY <2>2, <2>3, <2>4, SMT
<1>2. Letters \in Int
  <2>1. PICK v \in Int : v = 1073741824
    BY SMT
  <2> QED
    BY <2>1, OrderType DEF Letters
<1> HIDE DEF last
<1>3. Tagged(n, t) = [w \in 1 .. last |-> word(w)]
  BY DEF Tagged, last
<1>4. ASSUME NEW w \in 1 .. last
      PROVE  word(w) \in Word
  <2>1. (w = last) \in BOOLEAN
    OBVIOUS
  <2>2. (IF w = last /\ n % 4 = 0 THEN 0 ELSE Letters) \in Int
    BY <1>2
  <2>3. (IF w = 1 THEN t ELSE <<>>) \in Seq(Chars)
    <3>1. <<>> \in Seq(Chars)
      OBVIOUS
    <3> QED
      BY <3>1, Zenon
  <2> QED
    BY <2>1, <2>2, <2>3 DEF Word
<1>5. 1 \in 1 .. last /\ \A w \in 1 .. last : word(w).nul = (w = last)
  BY <1>1
<1>6. word(1).tags = t
  OBVIOUS
<1> HIDE DEF word
<1>7. Tagged(n, t) \in Seq(Word) /\ Len(Tagged(n, t)) = last
  BY <1>1, <1>3, <1>4
<1> QED
  BY <1>1, <1>3, <1>5, <1>6, <1>7

(* A word of a number. *)
LEMMA NumberWord ==
  ASSUME NEW n \in Int
  PROVE  IntWord(n) \in Word /\ <<IntWord(n)>> \in Seq(Word)
<1>1. osc_hton32(n) \in Int
  BY OrderType
<1> QED
  BY <1>1 DEF IntWord, Word

LEMMA Rounded ==
  ASSUME NEW n \in Nat
  PROVE  /\ ROUND32(n) \div 4 \in Nat /\ ROUND32(n) = 4 * (ROUND32(n) \div 4)
         /\ ROUND32(n) >= n
<1>1. PICK q \in Int : q = (n + 3) \div 4
  BY SMT
<1>2. q >= 0 /\ q * 4 >= n
  BY <1>1, SMT
<1>3. ROUND32(n) = q * 4
  BY <1>1 DEF ROUND32
<1>4. (q * 4) \div 4 = q
  BY SMT
<1> QED
  BY <1>2, <1>3, <1>4, SMT

LEMMA BlobWords ==
  ASSUME NEW n \in Nat
  PROVE  Blob(n) \in Seq(Word) /\ 4 * Len(Blob(n)) = ROUND32(n)
<1>1. Letters \in Int
  <2>1. PICK v \in Int : v = 1073741824
    BY SMT
  <2> QED
    BY <2>1, OrderType DEF Letters
<1>2. [nul |-> FALSE, n |-> Letters, tags |-> <<>>] \in Word
  BY <1>1 DEF Word
<1>3. PICK k \in Nat : k = ROUND32(n) \div 4
  BY Rounded
<1>4. Blob(n) = [w \in 1 .. k |-> [nul |-> FALSE, n |-> Letters, tags |-> <<>>]]
  BY <1>3 DEF Blob
<1>5. Blob(n) \in Seq(Word) /\ Len(Blob(n)) = k
  BY <1>2, <1>4
<1> QED
  BY <1>3, <1>5, Rounded

LEMMA FixedSizes ==
  /\ DOMAIN Fixed = {"i", "f", "h", "t", "d"}
  /\ \A t \in DOMAIN Fixed : Fixed[t] \in {4, 8} 
  BY DEF Fixed

LEMMA MaxIsNat == MaxInt32 \in Nat
  BY SMT DEF MaxInt32

(* The value of an argument is an integer, a length is not negative. *)
LEMMA ArgumentType ==
  ASSUME NEW a \in Argument
  PROVE  /\ a.tag \in TypeTags /\ a.n \in Int32s /\ a.n \in Int
         /\ a.tag \in Strings \/ a.tag = "b" => a.n \in Nat
<1>1. PICK m \in Nat : m = MaxInt32
  BY MaxIsNat
<1>2. a.tag \in TypeTags /\ a.n \in Int32s /\ (a.tag \in Strings \cup {"b"} => a.n >= 0)
  BY DEF Argument
<1>3. a.n \in Int
  BY <1>1, <1>2 DEF Int32s
<1> QED
  BY <1>2, <1>3

LEMMA AreArguments ==
  ASSUME NEW t \in TypeTags, NEW n \in 0 .. MaxInt32
  PROVE  [tag |-> t, n |-> n] \in Argument
<1>1. PICK m \in Nat : m = MaxInt32
  BY MaxIsNat
<1>2. n \in -m - 1 .. m /\ n >= 0
  BY <1>1
<1>3. n \in Int32s
  BY <1>1, <1>2 DEF Int32s
<1>4. [tag |-> t, n |-> n] \in [tag : TypeTags, n : Int32s]
  BY <1>3, Zenon
<1>5. [tag |-> t, n |-> n].n >= 0
  BY <1>2
<1> QED
  BY <1>4, <1>5, Zenon DEF Argument

(* An argument of a known tag has at most two fields. *)
LEMMA ArgFieldsType ==
  ASSUME NEW a \in Argument, Known(a)
  PROVE  ArgFields(a) \in Seq(Seq(Word))
<1>1. a.n \in Int /\ (a.tag \in Strings \/ a.tag = "b" => a.n \in Nat)
  BY ArgumentType
<1>2. CASE a.tag \in NoData
  <2>1. a.tag \notin DOMAIN Fixed /\ a.tag \notin Strings /\ a.tag # "b"
    BY <1>2, FixedSizes DEF NoData, Strings
  <2>2. ArgFields(a) = <<>>
    BY <1>2, <2>1 DEF ArgFields
  <2> QED
    BY <2>2
<1>3. CASE a.tag \in DOMAIN Fixed
  <2>1. /\ a.tag \notin NoData /\ a.tag \notin Strings /\ a.tag # "b"
        /\ Fixed[a.tag] \div 4 \in Nat
    BY <1>3, FixedSizes DEF NoData, Strings
  <2>2. ArgFields(a) = << [w \in 1 .. Fixed[a.tag] \div 4 |-> IntWord(a.n)] >>
    BY <1>3, <2>1 DEF ArgFields
  <2>3. IntWord(a.n) \in Word
    BY <1>1, NumberWord
  <2>4. [w \in 1 .. Fixed[a.tag] \div 4 |-> IntWord(a.n)] \in Seq(Word)
    BY <2>1, <2>3
  <2> QED
    BY <2>2, <2>4
<1>4. CASE a.tag \in Strings
  <2>1. a.tag \notin NoData /\ a.tag \notin DOMAIN Fixed /\ a.tag # "b"
    BY <1>4, FixedSizes DEF NoData, Strings
  <2>2. ArgFields(a) = <<Text(a.n)>>
    BY <1>4, <2>1 DEF ArgFields
  <2>3. Text(a.n) \in Seq(Word)
    <3>1. <<>> \in Seq(Chars)
      OBVIOUS
    <3> QED
      BY <1>1, <1>4, <3>1, TaggedWords DEF Text
  <2> QED
    BY <2>2, <2>3
<1>5. CASE a.tag = "b"
  <2>1. a.tag \notin NoData /\ a.tag \notin DOMAIN Fixed /\ a.tag \notin Strings
    BY <1>5, FixedSizes DEF NoData, Strings
  <2>2. ArgFields(a) = << <<IntWord(a.n)>>, Blob(a.n) >>
    BY <1>5, <2>1 DEF ArgFields
  <2>3. <<IntWord(a.n)>> \in Seq(Word) /\ Blob(a.n) \in Seq(Word)
    BY <1>1, <1>5, NumberWord, BlobWords
  <2> QED
    BY <2>2, <2>3
<1> QED
  BY <1>2, <1>3, <1>4, <1>5 DEF Known
(* The arguments before the first one of a tag that is not known. *)
LEMMA KnownOnes ==
  ASSUME NEW m \in Message
  PROVE  /\ KnownArgs(m) \in Seq(Argument) /\ Len(KnownArgs(m)) <= Len(m.args)
         /\ \A i \in 1 .. Len(KnownArgs(m)) : m.args[i] \in Argument /\ Known(m.args[i])
         /\ KnownArgs(m) = m.args => \A i \in 1 .. Len(m.args) : Known(m.args[i])
<1> DEFINE U == {i \in DOMAIN m.args : ~Known(m.args[i])}
<1>1. m.args \in Seq(Argument) /\ DOMAIN m.args = 1 .. Len(m.args) /\ Len(m.args) \in Nat
  BY DEF Message
<1>2. \A i \in 1 .. Len(m.args) : m.args[i] \in Argument
  BY <1>1
<1>3. CASE \A i \in DOMAIN m.args : Known(m.args[i])
  BY <1>1, <1>2, <1>3 DEF KnownArgs
<1>4. CASE ~\A i \in DOMAIN m.args : Known(m.args[i])
  <2>1. KnownArgs(m) = SubSeq(m.args, 1, Min(U) - 1)
    BY <1>4 DEF KnownArgs
  <2>2. U \in SUBSET Nat /\ U # {}
    BY <1>1, <1>4
  <2>3. PICK u \in U : \A y \in U : u <= y
    <3> HIDE DEF U
    <3> QED
      BY <2>2, Least
  <2>4. Min(U) = u
    <3>1. \E x \in U : x = u /\ \A y \in U : x <= y
      BY <2>3
    <3>2. \A x \in U : (\A y \in U : x <= y) => x = u
      BY <2>2, <2>3
    <3> HIDE DEF U
    <3> QED
      BY <3>1, <3>2 DEF Min
  <2>5. u \in 1 .. Len(m.args) /\ ~Known(m.args[u])
    BY <1>1, <2>3
  <2>6. \A i \in 1 .. u - 1 : Known(m.args[i])
    BY <1>1, <2>3, <2>5
  <2>7. KnownArgs(m) \in Seq(Argument) /\ Len(KnownArgs(m)) = u - 1
    <3>1. KnownArgs(m) = SubSeq(m.args, 1, u - 1)
      BY <2>1, <2>4
    <3> QED
      BY <1>1, <2>5, <3>1
  <2> HIDE DEF U
  <2> QED
    BY <1>1, <1>2, <2>5, <2>6, <2>7
<1> QED
  BY <1>3, <1>4

LEMMA TypesWords ==
  ASSUME NEW args \in Seq(Argument)
  PROVE  /\ Types(args) \in Seq(Word) /\ Len(Types(args)) >= 1
         /\ 4 * Len(Types(args)) = ROUND32(Len(args) + 2)
         /\ \A w \in 1 .. Len(Types(args)) : Types(args)[w].nul = (w = Len(Types(args)))
         /\ Types(args)[1].tags = <<",">> \o [i \in DOMAIN args |-> args[i].tag]
<1> DEFINE t == [i \in DOMAIN args |-> args[i].tag]
<1>1. Len(args) \in Nat /\ DOMAIN args = 1 .. Len(args)
  OBVIOUS
<1>2. ASSUME NEW i \in 1 .. Len(args)
      PROVE  args[i].tag \in Chars
  <2>1. args[i] \in Argument
    OBVIOUS
  <2> QED
    BY <2>1, ArgumentType DEF Chars
<1>3. t \in Seq(Chars)
  BY <1>1, <1>2
<1> HIDE DEF t
<1>4. <<",">> \o t \in Seq(Chars)
  <2>1. "," \in Chars
    BY DEF Chars
  <2>2. <<",">> \in Seq(Chars)
    <3>1. \A c \in Chars : <<c>> \in Seq(Chars)
      OBVIOUS
    <3> QED
      BY <2>1, <3>1, Zenon
  <2>3. \A c \in Seq(Chars) : c \o t \in Seq(Chars)
    BY <1>3
  <2> QED
    BY <2>2, <2>3, Zenon
<1>5. Types(args) = Tagged(Len(args) + 1, <<",">> \o t)
  BY DEF Types, t
<1>6. Len(args) + 1 \in Nat /\ (Len(args) + 1) + 1 = Len(args) + 2
  BY <1>1
<1>7. PICK k \in Nat : k = Len(args) + 1 /\ k + 1 = Len(args) + 2
  BY <1>6
<1>8. PICK u \in Seq(Chars) : u = <<",">> \o t
  BY <1>4
<1>9. Types(args) = Tagged(k, u)
  BY <1>5, <1>7, <1>8
<1>10. u = <<",">> \o [i \in DOMAIN args |-> args[i].tag]
  BY <1>8 DEF t
<1>11. /\ Tagged(k, u) \in Seq(Word) /\ Len(Tagged(k, u)) >= 1
       /\ 4 * Len(Tagged(k, u)) = ROUND32(k + 1)
       /\ \A w \in 1 .. Len(Tagged(k, u)) : Tagged(k, u)[w].nul = (w = Len(Tagged(k, u)))
       /\ Tagged(k, u)[1].tags = u
  BY TaggedWords
<1>12. ROUND32(k + 1) = ROUND32(Len(args) + 2)
  BY <1>7
<1> QED
  BY <1>9, <1>10, <1>11, <1>12, Zenon

LEMMA TextWords ==
  ASSUME NEW n \in Nat
  PROVE  /\ Text(n) \in Seq(Word) /\ Len(Text(n)) >= 1
         /\ 4 * Len(Text(n)) = ROUND32(n + 1)
         /\ \A w \in 1 .. Len(Text(n)) : Text(n)[w].nul = (w = Len(Text(n)))
         /\ Text(n)[1].tags = <<>>
<1>1. <<>> \in Seq(Chars)
  OBVIOUS
<1> QED
  BY <1>1, TaggedWords DEF Text

(* The fields of a message, and of an argument, are sequences of words. *)
ArgsFields(m) == [i \in DOMAIN KnownArgs(m) |-> ArgFields(m.args[i])]

LEMMA ArgsFieldsType ==
  ASSUME NEW m \in Message
  PROVE  /\ ArgsFields(m) \in Seq(Seq(Seq(Word))) /\ Len(ArgsFields(m)) = Len(KnownArgs(m))
         /\ FlattenSeq(ArgsFields(m)) \in Seq(Seq(Word))
<1>1. DOMAIN KnownArgs(m) = 1 .. Len(KnownArgs(m)) /\ Len(KnownArgs(m)) \in Nat
  BY KnownOnes
<1>2. ASSUME NEW i \in 1 .. Len(KnownArgs(m))
      PROVE  ArgFields(m.args[i]) \in Seq(Seq(Word))
  BY KnownOnes, ArgFieldsType
<1>3. ArgsFields(m) \in Seq(Seq(Seq(Word))) /\ Len(ArgsFields(m)) = Len(KnownArgs(m))
  BY <1>1, <1>2 DEF ArgsFields
<1> QED
  BY <1>3, FlattenType

LEMMA FieldsType ==
  ASSUME NEW m \in Message
  PROVE  /\ Fields(m) \in Seq(Seq(Word)) /\ Len(Fields(m)) >= 2
         /\ Fields(m) = <<Text(m.address), Types(m.args)>> \o FlattenSeq(ArgsFields(m))
         /\ Fields(m)[1] = Text(m.address) /\ Fields(m)[2] = Types(m.args)
<1>1. m.address \in Nat /\ m.args \in Seq(Argument)
  BY DEF Message
<1>2. Text(m.address) \in Seq(Word) /\ Types(m.args) \in Seq(Word)
  BY <1>1, TextWords, TypesWords
<1>3. <<Text(m.address), Types(m.args)>> \in Seq(Seq(Word))
  BY <1>2
<1>4. Fields(m) = <<Text(m.address), Types(m.args)>> \o FlattenSeq(ArgsFields(m))
  BY DEF Fields, ArgsFields
<1>5. FlattenSeq(ArgsFields(m)) \in Seq(Seq(Word))
  BY ArgsFieldsType
<1> QED
  BY <1>3, <1>4, <1>5
LEMMA EncodedWords ==
  ASSUME NEW m \in Message
  PROVE  Encoded(m) \in Seq(Word) /\ Len(Encoded(m)) \in Nat /\ Len(Encoded(m)) >= 2
<1>1. Fields(m) \in Seq(Seq(Word)) /\ Len(Fields(m)) >= 2 /\ Len(Fields(m)) \in Nat
  <2>1. \A f \in Seq(Seq(Word)) : Len(f) \in Nat
    OBVIOUS
  <2> QED
    BY <2>1, FieldsType, Zenon
<1>2. m.address \in Nat /\ m.args \in Seq(Argument)
  BY DEF Message
<1>3. /\ Fields(m)[1] \in Seq(Word) /\ Len(Fields(m)[1]) >= 1
      /\ Fields(m)[2] \in Seq(Word) /\ Len(Fields(m)[2]) >= 1
  BY <1>2, FieldsType, TextWords, TypesWords
<1>4. PICK f \in Seq(Seq(Word)) : f = Fields(m)
  BY <1>1
<1>5. 0 \in 0 .. Len(f) - 1 /\ 1 \in 0 .. Len(f) - 1 /\ 2 \in 0 .. Len(f)
  BY <1>1, <1>4
<1>6. FlatTo(f, 0 + 1) = FlatTo(f, 0) \o f[0 + 1]
  BY <1>4, <1>5, FlatToNext
<1>7. FlatTo(f, 1 + 1) = FlatTo(f, 1) \o f[1 + 1]
  BY <1>4, <1>5, FlatToNext
<1>8. FlatTo(f, 0) \in Seq(Word) /\ FlatTo(f, 1) \in Seq(Word)
  BY <1>5, FlatToWhole
<1>9. Len(FlatTo(f, 2)) >= 2
  <2>1. \A a, b \in Seq(Word) : Len(a \o b) = Len(a) + Len(b) /\ Len(a) \in Nat /\ Len(b) \in Nat
    OBVIOUS
  <2>2. Len(FlatTo(f, 1)) >= 1
    BY <1>3, <1>4, <1>6, <1>8, <2>1
  <2>3. FlatTo(f, 2) = FlatTo(f, 1) \o f[2]
    BY <1>7
  <2> QED
    BY <1>3, <1>4, <1>8, <2>1, <2>2, <2>3
<1>10. /\ FlatTo(f, 2) \in Seq(Word) /\ FlattenSeq(f) \in Seq(Word)
       /\ Len(FlatTo(f, 2)) <= Len(FlattenSeq(f))
  BY <1>5, FlatToWhole
<1>11. Encoded(m) = FlattenSeq(f)
  BY <1>4 DEF Encoded
<1> QED
  BY <1>9, <1>10, <1>11

(* What a call writes before it fails has room. *)
LEMMA WrittenHasRoom ==
  ASSUME NEW m \in Message, NEW room \in Nat
  PROVE  WrittenOf(m, room) \in Seq(Word) /\ 4 * Len(WrittenOf(m, room)) <= room
<1> DEFINE K == {k \in 0 .. Len(Fields(m)) : Fits(FlattenSeq(SubSeq(Fields(m), 1, k)), room)}
<1>1. PICK f \in Seq(Seq(Word)) : f = Fields(m)
  BY FieldsType, Zenon
<1>2. PICK n \in Nat : n = Len(f)
  OBVIOUS
<1>3. 0 \in K
  <2>1. SubSeq(f, 1, 0) = << >>
    OBVIOUS
  <2>2. FlattenSeq(SubSeq(Fields(m), 1, 0)) = << >>
    BY <1>1, <2>1, FlattenNone
  <2>3. Len(<< >>) = 0
    OBVIOUS
  <2>4. Fits(FlattenSeq(SubSeq(Fields(m), 1, 0)), room)
    BY <2>2, <2>3 DEF Fits, Bytes
  <2>5. 0 \in 0 .. Len(Fields(m))
    BY <1>1
  <2> QED
    BY <2>4, <2>5
<1>4. K \subseteq 0 .. n
  BY <1>1, <1>2
<1>5. Max(K) \in K
  <2> DEFINE L == {n - k : k \in K}
  <2>1. L \in SUBSET Nat /\ L # {}
    BY <1>3, <1>4
  <2>2. PICK l \in L : \A y \in L : l <= y
    <3> HIDE DEF L
    <3> QED
      BY <2>1, Least
  <2>3. PICK k \in K : l = n - k
    BY <2>2
  <2>4. \A y \in K : k >= y
    <3>1. ASSUME NEW y \in K
          PROVE  k >= y
      <4>1. n - y \in L
        OBVIOUS
      <4>2. n - k <= n - y
        BY <2>2, <2>3, <4>1
      <4>3. k \in Nat /\ y \in Nat
        BY <1>4, <2>3
      <4> HIDE DEF K, L
      <4> QED
        BY <4>2, <4>3
    <3> QED
      BY <3>1
  <2> HIDE DEF K, L
  <2> QED
    BY <2>3, <2>4 DEF Max
<1>6. PICK k \in 0 .. Len(f) : k = Max(K)
  BY <1>1, <1>5
<1>7. WrittenOf(m, room) = FlatTo(f, k)
  BY <1>1, <1>6 DEF WrittenOf, FlatTo
<1>8. Fits(FlatTo(f, k), room)
  BY <1>1, <1>5, <1>6 DEF FlatTo
<1>9. FlatTo(f, k) \in Seq(Word)
  BY <1>6, FlatToWhole
<1> QED
  BY <1>7, <1>8, <1>9 DEF Fits, Bytes

(* What has been written to, and what has not. *)
LEMMA PutWords ==
  ASSUME NEW d, NEW e \in Nat, DOMAIN d = 0 .. e - 1,
         NEW p \in Nat, NEW at, at = 4 * p, NEW S, NEW ws \in Seq(S), p + Len(ws) <= e
  PROVE  /\ DOMAIN Put(d, at, ws) = 0 .. e - 1
         /\ \A w \in 0 .. e - 1 : p <= w /\ w < p + Len(ws) => Put(d, at, ws)[w] = ws[w - p + 1]
         /\ \A w \in 0 .. e - 1 : w < p \/ p + Len(ws) <= w => Put(d, at, ws)[w] = d[w]
<1>1. at \div 4 = p
  OBVIOUS
<1>2. PICK n \in Nat : n = Len(ws)
  OBVIOUS
<1>3. DOMAIN d \cup {p + k : k \in 0 .. n - 1} = 0 .. e - 1
  BY <1>2
<1>4. Put(d, at, ws) = [w \in 0 .. e - 1 |-> IF w \in p .. p + n - 1 THEN ws[w - p + 1] ELSE d[w]]
  BY <1>1, <1>2, <1>3 DEF Put
<1>5. \A w \in 0 .. e - 1 : p <= w /\ w < p + n => w \in p .. p + n - 1
  BY <1>2
<1>6. \A w \in 0 .. e - 1 : w < p \/ p + n <= w => w \notin p .. p + n - 1
  BY <1>2
<1> QED
  BY <1>2, <1>4, <1>5, <1>6
-----------------------------------------------------------------------------
(* The fields that fit, and the comma over what lies behind them, have room. *)
LEMMA PutFailedWords ==
  ASSUME NEW d, NEW e \in Nat, DOMAIN d = 0 .. e - 1,
         NEW p \in 0 .. e, NEW at, at = 4 * p, NEW room, room = 4 * (e - p),
         NEW m \in Message
  PROVE  /\ DOMAIN PutFailed(d, at, m, room) = 0 .. e - 1
         /\ \A w \in 0 .. p - 1 : PutFailed(d, at, m, room)[w] = d[w]
<1>1. PICK f \in Seq(Word) : f = WrittenOf(m, room) /\ 4 * Len(f) <= room
  <2>1. room \in Nat
    OBVIOUS
  <2> QED
    BY <2>1, WrittenHasRoom
<1>2. PICK n \in Nat : n = Len(f)
  OBVIOUS
<1>3. PICK c : c = Comma(d[at \div 4 + n])
  OBVIOUS
<1>4. PICK S : S = Word \cup {c}
  OBVIOUS
<1>5. PICK ws \in Seq(S) :
        ws = IF f = Text(m.address) /\ Bytes(f) < room THEN Append(f, c) ELSE f
  <2>1. f \in Seq(S) /\ Append(f, c) \in Seq(S)
    <3>1. \A i \in 1 .. n : f[i] \in S
      BY <1>2, <1>4
    <3>2. f \in Seq(S)
      BY <1>2, <3>1
    <3>3. c \in S
      BY <1>4
    <3> QED
      BY <3>2, <3>3
  <2> QED
    BY <2>1
<1>6. p + Len(ws) <= e
  <2>1. 4 * n <= 4 * (e - p)
    BY <1>1, <1>2
  <2>2. CASE f = Text(m.address) /\ Bytes(f) < room
    <3>1. 4 * n < 4 * (e - p)
      BY <1>2, <2>2 DEF Bytes
    <3>2. Len(ws) = n + 1
      BY <1>2, <1>5, <2>2
    <3> QED
      BY <3>1, <3>2
  <2>3. CASE ~(f = Text(m.address) /\ Bytes(f) < room)
    <3>1. Len(ws) = n
      BY <1>2, <1>5, <2>3
    <3> QED
      BY <2>1, <3>1
  <2> QED
    BY <2>2, <2>3
<1>7. PutFailed(d, at, m, room) = Put(d, at, ws)
  BY <1>1, <1>2, <1>3, <1>5 DEF PutFailed
<1>8. PICK k \in Nat : k = Len(ws)
  OBVIOUS
<1>9. /\ DOMAIN Put(d, at, ws) = 0 .. e - 1
      /\ \A w \in 0 .. e - 1 : w < p \/ p + Len(ws) <= w => Put(d, at, ws)[w] = d[w]
  BY <1>6, PutWords
<1>10. \A w \in 0 .. p - 1 : w \in 0 .. e - 1 /\ w < p
  OBVIOUS
<1> QED
  BY <1>7, <1>9, <1>10
-----------------------------------------------------------------------------
(* The packet of the messages ms. *)
Elements(ms) == [i \in DOMAIN ms |-> Element(ms[i])]
PacketOf(ms) == Header \o FlattenSeq(Elements(ms))

LEMMA HeaderWords ==
  /\ Bundle \in Seq(Word) /\ Len(Bundle) = 2
  /\ Header \in Seq(Word) /\ Len(Header) = 4
  /\ Header[1].tags = <<"#">>
<1>1. <<"#">> \in Seq(Chars)
  <2>1. "#" \in Chars
    BY DEF Chars
  <2>2. \A c \in Chars : <<c>> \in Seq(Chars)
    OBVIOUS
  <2> QED
    BY <2>1, <2>2, Zenon
<1>2. PICK t \in Seq(Chars) : t = <<"#">>
  BY <1>1, Zenon
<1>3. PICK b : b = Tagged(7, t)
  OBVIOUS
<1>4. b \in Seq(Word) /\ 4 * Len(b) = ROUND32(7 + 1) /\ b[1].tags = t
  <2>1. 7 \in Nat
    OBVIOUS
  <2>2. /\ Tagged(7, t) \in Seq(Word) /\ 4 * Len(Tagged(7, t)) = ROUND32(7 + 1)
        /\ Tagged(7, t)[1].tags = t
    BY <2>1, TaggedWords, Zenon
  <2> QED
    BY <1>3, <2>2, Zenon
<1>5. ROUND32(7 + 1) = 8
  BY DEF ROUND32
<1>6. Len(b) = 2
  <2>1. PICK n \in Nat : n = Len(b)
    BY <1>4
  <2>2. 4 * n = 8
    BY <1>4, <1>5, <2>1, Zenon
  <2> QED
    BY <2>1, <2>2
<1>7. Bundle = b
  BY <1>2, <1>3, Zenon DEF Bundle
<1>8. IntWord(0) \in Word /\ IntWord(1) \in Word
  BY NumberWord
<1>9. PICK h : h = b \o <<IntWord(0), IntWord(1)>>
  OBVIOUS
<1>10. h \in Seq(Word) /\ Len(h) = 4 /\ h[1] = b[1]
  <2>1. ASSUME NEW a \in Seq(Word), NEW c \in Seq(Word), Len(a) = 2, Len(c) = 2
        PROVE  a \o c \in Seq(Word) /\ Len(a \o c) = 4 /\ (a \o c)[1] = a[1]
    <3>1. /\ a \o c \in Seq(Word) /\ Len(a \o c) = Len(a) + Len(c)
          /\ \A w \in 1 .. Len(a) : (a \o c)[w] = a[w]
      OBVIOUS
    <3>2. 1 \in 1 .. Len(a)
      BY <2>1
    <3> QED
      BY <2>1, <3>1, <3>2
  <2>2. \A x, y \in Word : <<x, y>> \in Seq(Word) /\ Len(<<x, y>>) = 2
    OBVIOUS
  <2> QED
    BY <1>4, <1>6, <1>8, <1>9, <2>1, <2>2, Zenon
<1>11. Header = h
  BY <1>7, <1>9, Zenon DEF Header
<1> QED
  BY <1>2, <1>4, <1>6, <1>7, <1>10, <1>11, Zenon

LEMMA ElementWords ==
  ASSUME NEW m \in Message
  PROVE  /\ Element(m) \in Seq(Word)
         /\ Len(Element(m)) = Len(Encoded(m)) + 1
         /\ Element(m)[1] = IntWord(Bytes(Encoded(m)))
         /\ \A w \in 1 .. Len(Encoded(m)) : Element(m)[w + 1] = Encoded(m)[w]
<1>1. PICK x \in Seq(Word) : x = Encoded(m)
  BY EncodedWords
<1>2. PICK v \in Word : v = IntWord(Bytes(Encoded(m)))
  <2>1. Bytes(Encoded(m)) \in Int
    BY EncodedWords DEF Bytes
  <2> QED
    BY <2>1, NumberWord
<1>3. /\ <<v>> \o x \in Seq(Word) /\ Len(<<v>> \o x) = Len(x) + 1
      /\ (<<v>> \o x)[1] = v
      /\ \A w \in 1 .. Len(x) : (<<v>> \o x)[w + 1] = x[w]
  OBVIOUS
<1> QED
  BY <1>1, <1>2, <1>3, Zenon DEF Element

LEMMA ElementsType ==
  ASSUME NEW ms \in Seq(Message)
  PROVE  Elements(ms) \in Seq(Seq(Word)) /\ Len(Elements(ms)) = Len(ms)
<1>1. \A i \in 1 .. Len(ms) : ms[i] \in Message
  OBVIOUS
<1>2. \A i \in 1 .. Len(ms) : Element(ms[i]) \in Seq(Word)
  BY <1>1, ElementWords
<1>3. Elements(ms) = [i \in 1 .. Len(ms) |-> Element(ms[i])]
  BY DEF Elements
<1> QED
  BY <1>2, <1>3

LEMMA PacketType ==
  ASSUME NEW ms \in Seq(Message)
  PROVE  PacketOf(ms) \in Seq(Word)
<1>1. FlattenSeq(Elements(ms)) \in Seq(Word)
  BY ElementsType, FlattenType
<1> QED
  BY <1>1, HeaderWords DEF PacketOf

LEMMA PacketOfNone == PacketOf(<< >>) = Header
<1>1. Elements(<< >>) = << >>
  BY DEF Elements
<1>2. \A a \in Seq(Word) : a \o << >> = a
  OBVIOUS
<1> QED
  BY <1>1, <1>2, FlattenNone, HeaderWords DEF PacketOf

(* A message more is an element more at the end of the packet. *)
LEMMA PacketGrows ==
  ASSUME NEW ms \in Seq(Message), NEW m \in Message
  PROVE  PacketOf(Append(ms, m)) = PacketOf(ms) \o Element(m)
<1>1. Elements(ms) \in Seq(Seq(Word)) /\ Element(m) \in Seq(Word)
  BY ElementsType, ElementWords
<1>2. Elements(Append(ms, m)) = Append(Elements(ms), Element(m))
  <2>1. /\ DOMAIN Append(ms, m) = 1 .. Len(ms) + 1 /\ Len(ms) \in Nat
        /\ \A i \in 1 .. Len(ms) : Append(ms, m)[i] = ms[i]
        /\ Append(ms, m)[Len(ms) + 1] = m
    OBVIOUS
  <2>2. Elements(Append(ms, m)) = [i \in 1 .. Len(ms) + 1 |-> Element(Append(ms, m)[i])]
    BY <2>1 DEF Elements
  <2>3. Elements(ms) = [i \in 1 .. Len(ms) |-> Element(ms[i])]
    BY DEF Elements
  <2>4. Append(Elements(ms), Element(m))
          = [i \in 1 .. Len(ms) + 1 |-> IF i = Len(ms) + 1 THEN Element(m) ELSE Elements(ms)[i]]
    <3>1. Len(Elements(ms)) = Len(ms)
      BY ElementsType
    <3>2. PICK s \in Seq(Seq(Word)) : s = Elements(ms)
      BY <1>1
    <3>3. PICK e \in Seq(Word) : e = Element(m)
      BY <1>1
    <3>4. Append(s, e) = [i \in 1 .. Len(s) + 1 |-> IF i = Len(s) + 1 THEN e ELSE s[i]]
      BY AppendAsFunction
    <3> QED
      BY <3>1, <3>2, <3>3, <3>4
  <2>5. \A i \in 1 .. Len(ms) + 1 :
          Element(Append(ms, m)[i]) = IF i = Len(ms) + 1 THEN Element(m) ELSE Elements(ms)[i]
    BY <2>1, <2>3
  <2> QED
    BY <2>2, <2>4, <2>5
<1>3. FlattenSeq(Elements(ms)) \in Seq(Word)
  BY <1>1, FlattenType
<1>4. FlattenSeq(Elements(Append(ms, m))) = FlattenSeq(Elements(ms)) \o Element(m)
  BY <1>1, <1>2, FlattenOneMore
<1>5. \A a, b, c \in Seq(Word) : a \o (b \o c) = (a \o b) \o c /\ a \o b \in Seq(Word)
  OBVIOUS
<1>6. PacketOf(Append(ms, m)) = Header \o (FlattenSeq(Elements(ms)) \o Element(m))
  BY <1>4 DEF PacketOf
<1>7. @ = (Header \o FlattenSeq(Elements(ms))) \o Element(m)
  <2>1. Header \in Seq(Word)
    BY HeaderWords
  <2> QED
    BY <1>1, <1>3, <1>5, <2>1
<1> QED
  BY <1>6, <1>7 DEF PacketOf
-----------------------------------------------------------------------------
(* The data begin with the words ws. *)
Begins(ws) == \A w \in 1 .. Len(ws) : data[w - 1] = ws[w]

AllKnown(m) == KnownArgs(m) = m.args

(* The inductive invariant of the writer. *)
Shape ==
  /\ buffer_end \in 0 .. MaxInt32 /\ buffer_end % 4 = 0
  /\ DOMAIN data = 0 .. buffer_end \div 4 - 1
  /\ buffer_pos = NULL \/ (buffer_pos \in 0 .. buffer_end /\ buffer_pos % 4 = 0)
  /\ len \in Nat
  /\ len > 0 => buffer_pos # NULL
  /\ MayWrite => buffer_pos # 0
  /\ type # NULL => type \in {"2Dobj", "2Dcur", "2Dblb"}
  /\ written \in Seq(Message) /\ failed \in BOOLEAN /\ spoiled \in BOOLEAN
  /\ \A i \in 1 .. Len(written) : AllKnown(written[i])

(* In front of word p lie the header, and each message where it was put. *)
Intact(p) ==
  /\ \A w \in 1 .. 4 : data[w - 1] = Header[w]
  /\ \A i \in 1 .. Len(written) :
       \E q \in Nat :
         /\ places[i] = 4 * q /\ q + Len(Element(written[i])) <= p
         /\ \A w \in 1 .. Len(Element(written[i])) :
              data[q + w - 1] = Element(written[i])[w]

(* len counts the messages, which lie in front of the next position. *)
Counted ==
  /\ len = Bytes(PacketOf(written))
  /\ places \in Seq(Nat) /\ Len(places) = Len(written)
  /\ \E p \in Nat : p >= 4 /\ buffer_pos = 4 * p /\ Intact(p)

(* A packet of its own is the message.  The messages of a bundle stay where they were
   put, and until a call succeeds after one that failed the bundle is as long as its
   position; what fails leaves bytes behind its end at most. *)
Contents ==
  /\ buffer_pos # 0 /\ len > 0 => Counted
  /\ buffer_pos = 0 => ~spoiled
  /\ buffer_pos = 0 /\ len > 0 =>
       /\ \E m \in Message : written = <<m>> /\ len = Bytes(Encoded(m)) /\ Begins(Encoded(m))
       /\ len <= buffer_end
  /\ buffer_pos # 0 /\ len > 0 /\ ~spoiled =>
       /\ len = Bytes(PacketOf(written)) /\ Begins(PacketOf(written))
       /\ buffer_pos >= len /\ (~failed => buffer_pos = len)

BundleInv == Shape /\ Contents

LEMMA BundleInit == Init => BundleInv
<1> SUFFICES ASSUME Init
             PROVE  BundleInv
  OBVIOUS
<1>1. buffer_end \in 0 .. MaxInt32 /\ buffer_end % 4 = 0
  BY IdeasAssumption DEF Init
<1>2. DOMAIN data = 0 .. buffer_end \div 4 - 1
  BY DEF Init
<1>3. buffer_pos \in 0 .. buffer_end /\ buffer_pos % 4 = 0 /\ len = 0
  <2>1. PICK e \in Nat : e = buffer_end
    <3>1. MaxInt32 \in Int
      BY SMT DEF MaxInt32
    <3> QED
      BY <1>1, <3>1
  <2> QED
    BY <2>1 DEF Init
<1>4. written = << >> /\ type = NULL /\ failed = FALSE /\ spoiled = FALSE
  BY DEF Init
<1>5. written \in Seq(Message) /\ Len(written) = 0
  BY <1>4
<1>6. Shape
  <2>1. ~MayWrite /\ ~(len > 0) /\ len \in Nat
    BY <1>3 DEF MayWrite
  <2>2. \A i \in 1 .. Len(written) : AllKnown(written[i])
    BY <1>5
  <2> QED
    BY <1>1, <1>2, <1>3, <1>4, <1>5, <2>1, <2>2, Zenon DEF Shape
<1>7. Contents
  BY <1>3, <1>4 DEF Contents
<1> QED
  BY <1>6, <1>7 DEF BundleInv

(* The messages of TUIO are messages. *)
LEMMA TuioType ==
  ASSUME type # NULL => type \in {"2Dobj", "2Dcur", "2Dblb"}
  PROVE  BundleMessages \subseteq Message
<1>1. /\ \A n \in 0 .. MaxInt32 : Str(n) \in Argument /\ Int32(n) \in Argument
      /\ [tag |-> "f", n |-> 0] \in Argument
      /\ 0 \in 0 .. MaxInt32 /\ 3 \in 0 .. MaxInt32 /\ 4 \in 0 .. MaxInt32 /\ 6 \in 0 .. MaxInt32
  <2>1. PICK m \in Nat : m = MaxInt32 /\ m >= 6
    BY SMT DEF MaxInt32
  <2>2. 0 \in 0 .. m /\ 3 \in 0 .. m /\ 4 \in 0 .. m /\ 6 \in 0 .. m
    BY <2>1
  <2>3. "s" \in TypeTags /\ "i" \in TypeTags /\ "f" \in TypeTags
    BY FixedSizes DEF TypeTags, Strings
  <2> QED
    BY <2>1, <2>2, <2>3, AreArguments, Zenon DEF Str, Int32
<1>2. ProfileAddress \in Nat
  BY DEF ProfileAddress
<1>3. \A as \in Seq(Argument) : [address |-> ProfileAddress, args |-> as] \in Message
  BY <1>2 DEF Message
<1>4. \A a, b, c \in Argument : <<a>> \in Seq(Argument) /\ <<a, b>> \in Seq(Argument) /\ <<a, b, c>> \in Seq(Argument)
  OBVIOUS
<1>5. \A n \in Nat : Floats(n) \in Seq(Argument)
  BY <1>1 DEF Floats
<1>6. \A s, t \in Seq(Argument) : s \o t \in Seq(Argument)
  OBVIOUS
<1>7. ASSUME NEW n \in Sources
      PROVE  Source(n) \in Message
  <2>1. n \in 0 .. MaxInt32
    BY IdeasAssumption
  <2> QED
    BY <1>1, <1>3, <1>4, <2>1, Zenon DEF Source
<1>8. Fseq \in Message
  BY <1>1, <1>3, <1>4, Zenon DEF Fseq
<1>9. CASE type # NULL
  <2>1. PICK as : Set = [address |-> ProfileAddress, args |-> as] /\ as \in Seq(Argument)
    <3>1. /\ <<Str(3), Int32(0), Int32(0)>> \in Seq(Argument) /\ <<Str(3), Int32(0)>> \in Seq(Argument)
          /\ <<Str(3)>> \in Seq(Argument)
      BY <1>1, <1>4, Zenon
    <3>2. Floats(8) \in Seq(Argument) /\ Floats(5) \in Seq(Argument) /\ Floats(11) \in Seq(Argument)
      BY <1>5
    <3>3. /\ <<Str(3), Int32(0), Int32(0)>> \o Floats(8) \in Seq(Argument)
          /\ <<Str(3), Int32(0)>> \o Floats(5) \in Seq(Argument)
          /\ <<Str(3)>> \o Floats(11) \in Seq(Argument)
      BY <1>6, <3>1, <3>2, Zenon
    <3>4. CASE type = "2Dobj"
      BY <3>3, <3>4 DEF Set
    <3>5. CASE type = "2Dcur"
      BY <3>3, <3>5 DEF Set
    <3>6. CASE type = "2Dblb"
      BY <3>3, <3>6 DEF Set
    <3> QED
      BY <1>9, <3>4, <3>5, <3>6
  <2>2. Set \in Message
    BY <1>3, <2>1
  <2> QED
    BY <1>7, <1>8, <1>9, <2>2, IdeasAssumption DEF BundleMessages
<1>10. CASE type = NULL
  BY <1>10, IdeasAssumption DEF BundleMessages
<1> QED
  BY <1>9, <1>10
-----------------------------------------------------------------------------
(* The buffer and the position in words. *)
LEMMA Words ==
  ASSUME Shape
  PROVE  \E e \in Nat : /\ buffer_end = 4 * e /\ buffer_end \div 4 = e /\ DOMAIN data = 0 .. e - 1
                        /\ buffer_pos # NULL => \E p \in 0 .. e : buffer_pos = 4 * p
<1>1. PICK b \in Nat : b = buffer_end /\ b % 4 = 0
  <2>1. MaxInt32 \in Int
    BY SMT DEF MaxInt32
  <2> QED
    BY <2>1 DEF Shape
<1>2. PICK e \in Nat : e = b \div 4
  OBVIOUS
<1>3. b = 4 * e
  BY <1>1, <1>2
<1>4. ASSUME buffer_pos # NULL
      PROVE  \E p \in 0 .. e : buffer_pos = 4 * p
  <2>1. PICK q \in 0 .. b : q = buffer_pos /\ q % 4 = 0
    BY <1>1, <1>4 DEF Shape
  <2>2. PICK p \in Nat : p = q \div 4
    OBVIOUS
  <2>3. q = 4 * p
    BY <2>1, <2>2
  <2>4. p \in 0 .. e
    BY <1>3, <2>3
  <2> QED
    BY <2>1, <2>3, <2>4
<1> QED
  BY <1>1, <1>2, <1>3, <1>4 DEF Shape

(* What lies before the words that are written stays. *)
LEMMA PutBehind ==
  ASSUME NEW e \in Nat, DOMAIN data = 0 .. e - 1,
         NEW p \in Nat, NEW ws \in Seq(Word), p + Len(ws) <= e,
         data' = Put(data, 4 * p, ws),
         NEW x \in Seq(Word), Begins(x), Len(x) <= p
  PROVE  /\ DOMAIN data' = 0 .. e - 1
         /\ \A w \in 1 .. Len(x) : data'[w - 1] = x[w]
         /\ Len(x) = p => \A w \in 1 .. Len(x \o ws) : data'[w - 1] = (x \o ws)[w]
<1>1. PICK at \in Nat : at = 4 * p
  OBVIOUS
<1>2. PICK n \in Nat : n = Len(ws)
  OBVIOUS
<1>3. PICK l \in Nat : l = Len(x)
  OBVIOUS
<1>4. /\ DOMAIN data' = 0 .. e - 1
      /\ \A w \in 0 .. e - 1 : p <= w /\ w < p + n => data'[w] = ws[w - p + 1]
      /\ \A w \in 0 .. e - 1 : w < p \/ p + n <= w => data'[w] = data[w]
  <2>1. data' = Put(data, at, ws)
    BY <1>1
  <2> QED
    BY <1>1, <1>2, <2>1, PutWords
<1>5. ASSUME NEW w \in 1 .. l
      PROVE  data'[w - 1] = x[w]
  <2>1. w - 1 \in 0 .. e - 1 /\ w - 1 < p
    BY <1>2, <1>3
  <2>2. data'[w - 1] = data[w - 1]
    BY <1>4, <2>1
  <2> QED
    BY <1>3, <2>2 DEF Begins
<1>6. ASSUME l = p, NEW w \in 1 .. l + n
      PROVE  data'[w - 1] = (x \o ws)[w]
  <2>1. (x \o ws)[w] = IF w <= l THEN x[w] ELSE ws[w - l]
    BY <1>2, <1>3
  <2>2. CASE w <= l
    BY <1>5, <2>1, <2>2
  <2>3. CASE w > l
    <3>1. w - 1 \in 0 .. e - 1 /\ p <= w - 1 /\ w - 1 < p + n /\ (w - 1) - p + 1 = w - l
      BY <1>2, <1>6, <2>3
    <3>2. data'[w - 1] = ws[(w - 1) - p + 1]
      BY <1>4, <3>1
    <3> QED
      BY <2>1, <2>3, <3>1, <3>2
  <2>4. w <= l \/ w > l
    OBVIOUS
  <2> QED
    BY <2>2, <2>3, <2>4, Zenon
<1>7. Len(x \o ws) = l + n
  BY <1>2, <1>3
<1> QED
  BY <1>3, <1>4, <1>5, <1>6, <1>7

(* What lies in front of the words that are written is untouched. *)
LEMMA PutKeeps ==
  ASSUME NEW e \in Nat, DOMAIN data = 0 .. e - 1,
         NEW p \in Nat, NEW ws \in Seq(Word), p + Len(ws) <= e,
         data' = Put(data, 4 * p, ws)
  PROVE  \A w \in 0 .. p - 1 : data'[w] = data[w]
<1>1. PICK at \in Nat : at = 4 * p
  OBVIOUS
<1>2. PICK n \in Nat : n = Len(ws)
  OBVIOUS
<1>3. \A w \in 0 .. e - 1 : w < p \/ p + Len(ws) <= w => Put(data, at, ws)[w] = data[w]
  BY <1>1, PutWords
<1>4. \A w \in 0 .. p - 1 : w \in 0 .. e - 1 /\ w < p
  BY <1>2
<1> QED
  BY <1>1, <1>3, <1>4

(* Neither does a call that fails disturb them. *)
LEMMA FailedPutKeeps ==
  ASSUME NEW e \in Nat, DOMAIN data = 0 .. e - 1, NEW m \in Message,
         NEW q \in 0 .. e, NEW at, at = 4 * q, NEW room, room = 4 * (e - q),
         data' = PutFailed(data, at, m, room)
  PROVE  DOMAIN data' = 0 .. e - 1 /\ \A w \in 0 .. q - 1 : data'[w] = data[w]
<1>1. PICK d : d = data
  OBVIOUS
<1>2. DOMAIN d = 0 .. e - 1
  BY <1>1
<1>3. /\ DOMAIN PutFailed(d, at, m, room) = 0 .. e - 1
      /\ \A w \in 0 .. q - 1 : PutFailed(d, at, m, room)[w] = d[w]
  BY <1>2, PutFailedWords
<1>4. data' = PutFailed(d, at, m, room)
  BY <1>1
<1> QED
  BY <1>1, <1>3, <1>4

(* And so are the messages that lie there. *)
LEMMA CountedStays ==
  ASSUME Shape, Counted, UNCHANGED <<len, written, places>>,
         NEW p \in Nat, buffer_pos = 4 * p, \A w \in 0 .. p - 1 : data'[w] = data[w],
         NEW q \in Nat, q >= p, buffer_pos' = 4 * q
  PROVE  Counted'
<1>1. p >= 4 /\ Intact(p)
  <2>1. PICK x \in Nat : x >= 4 /\ buffer_pos = 4 * x /\ Intact(x)
    BY DEF Counted
  <2>2. x = p
    BY <2>1
  <2> QED
    BY <2>1, <2>2
<1>2. \A w \in 1 .. 4 : data'[w - 1] = Header[w]
  <2>1. \A w \in 1 .. 4 : w - 1 \in 0 .. p - 1
    BY <1>1
  <2> QED
    BY <1>1, <2>1 DEF Intact
<1>3. ASSUME NEW i \in 1 .. Len(written)
      PROVE  \E k \in Nat :
               /\ places[i] = 4 * k /\ k + Len(Element(written[i])) <= q
               /\ \A w \in 1 .. Len(Element(written[i])) :
                    data'[k + w - 1] = Element(written[i])[w]
  <2>1. PICK k \in Nat :
          /\ places[i] = 4 * k /\ k + Len(Element(written[i])) <= p
          /\ \A w \in 1 .. Len(Element(written[i])) :
               data[k + w - 1] = Element(written[i])[w]
    BY <1>1 DEF Intact
  <2>2. PICK x \in Seq(Word) : x = Element(written[i])
    BY ElementWords DEF Shape
  <2>3. PICK n \in Nat : n = Len(x)
    OBVIOUS
  <2>4. k + n <= q /\ \A w \in 1 .. n : k + w - 1 \in 0 .. p - 1
    BY <2>1, <2>2, <2>3
  <2>5. \A w \in 1 .. n : data'[k + w - 1] = Element(written[i])[w]
    BY <2>1, <2>2, <2>3, <2>4
  <2> QED
    BY <2>1, <2>2, <2>3, <2>4, <2>5
<1>4. Intact(q)'
  BY <1>2, <1>3 DEF Intact
<1>5. len' = Bytes(PacketOf(written')) /\ places' \in Seq(Nat) /\ Len(places') = Len(written')
  BY DEF Counted
<1> QED
  BY <1>1, <1>4, <1>5 DEF Counted

LEMMA NothingBegins == << >> \in Seq(Word) /\ Len(<< >>) = 0 /\ Begins(<< >>)
  BY DEF Begins

LEMMA WriteMessageStep ==
  ASSUME BundleInv, UNCHANGED buffer_end, NEW m \in Message, WriteMessage(m)
  PROVE  BundleInv'
<1>1. PICK e \in Nat : buffer_end = 4 * e /\ buffer_end \div 4 = e /\ DOMAIN data = 0 .. e - 1
  BY Words DEF BundleInv
<1>2. PICK x \in Seq(Word) : x = Encoded(m) /\ Len(x) >= 2
  BY EncodedWords
<1>3. PICK n \in Nat : n = Len(x)
  OBVIOUS
<1>4. n <= e /\ KnownArgs(m) = m.args
  <2>1. 4 * n <= 4 * e
    BY <1>1, <1>2, <1>3 DEF WriteMessage, Succeeds, Fits, Bytes
  <2> QED
    BY <2>1 DEF WriteMessage, Succeeds
<1>5. data' = Put(data, 4 * 0, x)
  BY <1>2 DEF WriteMessage
<1>6. /\ DOMAIN data' = 0 .. e - 1
      /\ \A w \in 1 .. n : data'[w - 1] = x[w]
  <2>1. << >> \o x = x
    OBVIOUS
  <2>2. 0 + Len(x) <= e /\ Len(<< >>) <= 0
    BY <1>3, <1>4
  <2>3. \A w \in 1 .. Len(<< >> \o x) : data'[w - 1] = (<< >> \o x)[w]
    BY <1>1, <1>5, <2>2, PutBehind, NothingBegins
  <2> QED
    BY <1>1, <1>3, <1>5, <2>1, <2>2, <2>3, PutBehind, NothingBegins
<1>7. len' = 4 * n /\ len' \in Nat /\ len' <= buffer_end
  BY <1>1, <1>2, <1>3, <1>4 DEF WriteMessage, Bytes
<1>8. written' = <<m>> /\ written' \in Seq(Message) /\ AllKnown(m)
  BY <1>4 DEF WriteMessage, AllKnown
<1>9. Shape'
  <2>1. ~MayWrite'
    BY IdeasAssumption DEF WriteMessage, MayWrite
  <2>2. \A i \in 1 .. Len(written') : AllKnown(written'[i])
    BY <1>8
  <2>3. buffer_pos' = 0 /\ buffer_pos = 0
    BY DEF WriteMessage
  <2>4. 0 # NULL
    BY IdeasAssumption
  <2>5. DOMAIN data' = 0 .. buffer_end' \div 4 - 1
    BY <1>1, <1>6
  <2>6. AllKnown(m)' = AllKnown(m)
    BY DEF AllKnown
  <2> QED
    BY <1>7, <1>8, <2>1, <2>2, <2>3, <2>4, <2>5 DEF WriteMessage, BundleInv, Shape
<1>10. Contents'
  <2>1. buffer_pos' = 0 /\ ~spoiled'
    BY DEF WriteMessage, BundleInv, Contents
  <2> QED
    BY <1>2, <1>3, <1>6, <1>7, <1>8, <2>1 DEF Contents, Bytes, Begins
<1> QED
  BY <1>9, <1>10 DEF BundleInv

LEMMA WriteMessageFailsStep ==
  ASSUME BundleInv, UNCHANGED buffer_end, NEW m \in Message, WriteMessageFails(m)
  PROVE  BundleInv'
<1>1. PICK e \in Nat : buffer_end = 4 * e /\ buffer_end \div 4 = e /\ DOMAIN data = 0 .. e - 1
  BY Words DEF BundleInv
<1>2. /\ data' = PutFailed(data, 0, m, buffer_end) /\ failed' = TRUE /\ calls' = MaxCalls
      /\ len' = 0 /\ written' = << >>
      /\ buffer_pos = 0 /\ UNCHANGED <<buffer_pos, type, spoiled>>
  BY DEF WriteMessageFails
<1>3. DOMAIN data' = 0 .. e - 1
  <2>1. 0 \in 0 .. e /\ 0 = 4 * 0 /\ buffer_end = 4 * (e - 0)
    BY <1>1
  <2>2. DOMAIN data = 0 .. e - 1
    BY <1>1
  <2>3. DOMAIN PutFailed(data, 0, m, buffer_end) = 0 .. e - 1
    BY <2>1, <2>2, PutFailedWords
  <2> QED
    BY <1>2, <2>3
<1>4. DOMAIN data' = 0 .. buffer_end' \div 4 - 1
  BY <1>1, <1>3
<1>5. ~MayWrite'
  BY <1>2, IdeasAssumption DEF MayWrite
<1>6. Shape'
  <2>1. << >> \in Seq(Message) /\ Len(<< >>) = 0 /\ 0 \in Nat /\ ~(0 > 0)
    OBVIOUS
  <2>2. written' \in Seq(Message) /\ \A i \in 1 .. Len(written') : AllKnown(written'[i])
    BY <1>2, <2>1
  <2> QED
    BY <1>2, <1>4, <1>5, <2>1, <2>2 DEF BundleInv, Shape
<1>7. Contents'
  BY <1>2 DEF BundleInv, Contents
<1> QED
  BY <1>6, <1>7 DEF BundleInv

LEMMA StartStep ==
  ASSUME BundleInv, UNCHANGED buffer_end,
         NEW profile \in {NULL, "2Dobj", "2Dcur", "2Dblb"}, Start(profile)
  PROVE  BundleInv'
<1>1. PICK e \in Nat : buffer_end = 4 * e /\ buffer_end \div 4 = e /\ DOMAIN data = 0 .. e - 1
  BY Words DEF BundleInv
<1>2. written' = << >> /\ written' \in Seq(Message) /\ \A i \in 1 .. Len(written') : AllKnown(written'[i])
  <2>1. written' = << >> /\ << >> \in Seq(Message) /\ Len(<< >>) = 0
    BY DEF Start
  <2> QED
    BY <2>1
<1>3. type' # NULL => type' \in {"2Dobj", "2Dcur", "2Dblb"}
  BY DEF Start, BundleInv, Shape
<1>4. 0 # NULL /\ 8 # NULL /\ 16 # NULL
  BY IdeasAssumption
<1>5. CASE buffer_end < 16
  <2>1. len' = 0 /\ failed' = TRUE /\ spoiled' = FALSE
    BY <1>5 DEF Start
  <2>2. buffer_pos' = NULL \/ (buffer_pos' \in 0 .. buffer_end /\ buffer_pos' % 4 = 0)
    BY <1>1, <1>5 DEF Start
  <2>3. DOMAIN data' = 0 .. e - 1
    <3>1. CASE buffer_end < 8
      BY <1>1, <3>1 DEF Start
    <3>2. CASE ~(buffer_end < 8)
      <4>1. data' = Put(data, 4 * 0, Bundle)
        BY <1>5, <3>2 DEF Start
      <4>2. PICK b \in Seq(Word) : b = Bundle /\ Len(b) = 2
        BY HeaderWords
      <4>3. 0 + Len(b) <= e /\ Len(<< >>) <= 0
        BY <1>1, <3>2, <4>2
      <4> QED
        BY <1>1, <4>1, <4>2, <4>3, PutBehind, NothingBegins
    <3> QED
      BY <3>1, <3>2
  <2>4. ~MayWrite' /\ ~(len' > 0) /\ len' \in Nat
    BY <2>1 DEF MayWrite
  <2>5. DOMAIN data' = 0 .. buffer_end' \div 4 - 1
    BY <1>1, <2>3
  <2>6. Shape'
    <3>1. buffer_end' \in 0 .. MaxInt32 /\ buffer_end' % 4 = 0
      BY DEF BundleInv, Shape
    <3>2. failed' \in BOOLEAN /\ spoiled' \in BOOLEAN
      BY <2>1
    <3> QED
      BY <1>2, <1>3, <2>2, <2>4, <2>5, <3>1, <3>2 DEF Shape
  <2>7. Contents'
    BY <2>1, <2>4 DEF Contents
  <2> QED
    BY <2>6, <2>7 DEF BundleInv
<1>6. CASE ~(buffer_end < 16)
  <2>1. /\ len' = 16 /\ failed' = FALSE /\ spoiled' = FALSE /\ buffer_pos' = 16
        /\ data' = Put(data, 4 * 0, Header)
    BY <1>1, <1>6 DEF Start
  <2>2. PICK h \in Seq(Word) : h = Header /\ Len(h) = 4
    BY HeaderWords
  <2>3. 0 + Len(h) <= e /\ Len(<< >>) <= 0 /\ << >> \o h = h
    BY <1>1, <1>6, <2>2
  <2>4. /\ DOMAIN data' = 0 .. e - 1
        /\ \A w \in 1 .. Len(h) : data'[w - 1] = h[w]
    <3>1. data' = Put(data, 4 * 0, h)
      BY <2>1, <2>2
    <3>2. /\ DOMAIN data' = 0 .. e - 1
          /\ \A w \in 1 .. Len(<< >> \o h) : data'[w - 1] = (<< >> \o h)[w]
      BY <1>1, <2>3, <3>1, PutBehind, NothingBegins
    <3> QED
      BY <2>3, <3>2
  <2>5. DOMAIN data' = 0 .. buffer_end' \div 4 - 1
    BY <1>1, <2>4
  <2>6. buffer_pos' \in 0 .. buffer_end /\ buffer_pos' % 4 = 0 /\ buffer_pos' # 0 /\ buffer_pos' # NULL
    BY <1>1, <1>4, <1>6, <2>1
  <2>7. Shape'
    BY <1>2, <1>3, <2>1, <2>5, <2>6 DEF BundleInv, Shape
  <2>8. PacketOf(written') = h
    BY <1>2, <2>2, PacketOfNone
  <2>9. Contents'
    <3>1. len' = Bytes(PacketOf(written'))
      <4>1. Bytes(h) = 16
        BY <2>2 DEF Bytes
      <4> QED
        BY <2>1, <2>8, <4>1
    <3>4. Counted'
      <4>1. places' = << >> /\ << >> \in Seq(Nat) /\ Len(<< >>) = 0
        BY DEF Start
      <4>2. Intact(4)'
        BY <1>2, <2>2, <2>4, <4>1 DEF Intact
      <4>3. 4 \in Nat /\ 4 >= 4 /\ buffer_pos' = 4 * 4
        BY <2>1
      <4> QED
        BY <1>2, <3>1, <4>1, <4>2, <4>3 DEF Counted
    <3>2. Begins(PacketOf(written))'
      BY <2>2, <2>4, <2>8 DEF Begins
    <3>3. buffer_pos' = len' /\ buffer_pos' >= len'
      BY <2>1
    <3> QED
      BY <2>6, <3>1, <3>2, <3>3, <3>4 DEF Contents
  <2> QED
    BY <2>7, <2>9 DEF BundleInv
<1> QED
  BY <1>5, <1>6

(* The writes of a call that fails lie behind the next position. *)
LEMMA FailureKeeps ==
  ASSUME BundleInv, UNCHANGED <<buffer_end, len, type, written, places, spoiled>>, MayWrite,
         failed' = TRUE,
         NEW e \in Nat, buffer_end = 4 * e, buffer_end \div 4 = e,
         NEW p \in 0 .. e, buffer_pos = 4 * p,
         DOMAIN data' = 0 .. e - 1, \A w \in 0 .. p - 1 : data'[w] = data[w],
         NEW q \in p .. e, buffer_pos' = 4 * q
  PROVE  BundleInv'
<1>1. buffer_pos # 0 /\ p # 0
  BY DEF BundleInv, Shape
<1>2. q \in 0 .. e /\ q >= p /\ q \in Nat /\ p \in Nat
  OBVIOUS
<1>3. buffer_pos' \in 0 .. buffer_end /\ buffer_pos' % 4 = 0 /\ buffer_pos' # 0 /\ buffer_pos' # NULL
  BY <1>1, <1>2, IdeasAssumption
<1>4. Shape'
  <2>1. DOMAIN data' = 0 .. buffer_end' \div 4 - 1
    OBVIOUS
  <2> QED
    BY <1>3, <2>1 DEF BundleInv, Shape
<1>5. ASSUME len > 0
      PROVE  Counted'
  <2>1. Shape /\ Counted
    BY <1>1, <1>5 DEF BundleInv, Contents
  <2> QED
    BY <1>2, <2>1, CountedStays
<1>6. ASSUME len > 0, ~spoiled
      PROVE  /\ len = Bytes(PacketOf(written)) /\ buffer_pos >= len
             /\ \A w \in 1 .. Len(PacketOf(written)) : data'[w - 1] = PacketOf(written)[w]
  <2>1. PICK x \in Seq(Word) : x = PacketOf(written)
    <3>1. written \in Seq(Message)
      BY DEF BundleInv, Shape
    <3> QED
      BY <3>1, PacketType
  <2>2. len = 4 * Len(x) /\ Begins(x) /\ 4 * p >= len
    BY <1>1, <1>6, <2>1 DEF BundleInv, Contents, Bytes
  <2>3. \A w \in 1 .. Len(x) : w - 1 \in 0 .. p - 1
    BY <2>2
  <2>4. \A w \in 1 .. Len(x) : data'[w - 1] = x[w]
    BY <2>2, <2>3 DEF Begins
  <2> QED
    BY <2>1, <2>2, <2>4 DEF Bytes
<1>7. Contents'
  <2>1. len' \in Int /\ buffer_pos' >= buffer_pos /\ (len > 0 /\ ~spoiled => buffer_pos' >= len)
    BY <1>2, <1>6 DEF BundleInv, Shape
  <2> QED
    BY <1>3, <1>5, <1>6, <2>1 DEF Contents, Begins, Bytes
<1> QED
  BY <1>4, <1>7 DEF BundleInv

(* Room in words. *)
LEMMA RoomInWords ==
  ASSUME NEW e \in Nat, NEW p \in 0 .. e, buffer_end = 4 * e, buffer_pos = 4 * p
  PROVE  /\ Room = 4 * (e - p) /\ Room \in Nat
         /\ Room >= 4 => Room - 4 \in Nat /\ p + 1 \in 0 .. e
         /\ \A n \in Nat : 4 * n <= Room - 4 => p + 1 + n <= e
  BY DEF Room

LEMMA BundleWriteFailsStep ==
  ASSUME BundleInv, UNCHANGED buffer_end, NEW m \in Message, BundleWriteFails(m)
  PROVE  BundleInv'
<1>1. MayWrite /\ buffer_pos # NULL
  BY DEF BundleWriteFails, MayWrite, BundleInv, Shape
<1>2. PICK e \in Nat : /\ buffer_end = 4 * e /\ buffer_end \div 4 = e /\ DOMAIN data = 0 .. e - 1
                       /\ \E p \in 0 .. e : buffer_pos = 4 * p
  BY <1>1, Words DEF BundleInv
<1>3. PICK p \in 0 .. e : buffer_pos = 4 * p
  BY <1>2
<1>4. UNCHANGED <<len, type, written, places, spoiled>> /\ failed' = TRUE
  BY DEF BundleWriteFails
<1>5. CASE Room < 4
  <2>1. data' = data /\ buffer_pos' = buffer_pos /\ p \in p .. e
    BY <1>5 DEF BundleWriteFails
  <2> QED
    BY <1>1, <1>2, <1>3, <1>4, <2>1, FailureKeeps
<1>6. CASE ~(Room < 4)
  <2>1. PICK q \in 0 .. e : q = p + 1
    <3>1. PICK r \in Nat : r = Room /\ (r >= 4 => p + 1 \in 0 .. e)
      BY <1>2, <1>3, RoomInWords
    <3>2. r >= 4
      BY <1>6, <3>1
    <3> QED
      BY <3>1, <3>2
  <2>2. PICK at : at = 4 * q
    OBVIOUS
  <2>3. PICK room : room = 4 * (e - q)
    OBVIOUS
  <2>4. buffer_pos + 4 = at /\ Room - 4 = room
    BY <1>2, <1>3, <2>1, <2>2, <2>3 DEF Room
  <2>5. data' = PutFailed(data, at, m, room) /\ buffer_pos' = 4 * q
    BY <1>6, <2>2, <2>4 DEF BundleWriteFails
  <2>6. DOMAIN data' = 0 .. e - 1 /\ \A w \in 0 .. q - 1 : data'[w] = data[w]
    <3>1. DOMAIN data = 0 .. e - 1
      BY <1>2
    <3>2. data' = PutFailed(data, at, m, room)
      BY <2>5
    <3> QED
      BY <3>1, <3>2, <2>2, <2>3, FailedPutKeeps
  <2>7. (\A w \in 0 .. p - 1 : data'[w] = data[w]) /\ q \in p .. e
    BY <2>1, <2>6
  <2> QED
    BY <1>1, <1>2, <1>3, <1>4, <2>5, <2>6, <2>7, FailureKeeps
<1> QED
  BY <1>5, <1>6

(* The profile's address and the tags of the alive objects. *)
LEMMA AliveType ==
  ASSUME NEW n \in Nat
  PROVE  AliveTypes(n) \in Seq(Word) /\ Text(ProfileAddress) \in Seq(Word)
<1>1. [i \in 1 .. n |-> Int32(0)] \in Seq(Argument)
  <2>1. 0 \in 0 .. MaxInt32
    <3>1. PICK m \in Nat : m = MaxInt32
      BY SMT DEF MaxInt32
    <3> QED
      BY <3>1
  <2>2. "i" \in TypeTags
    BY FixedSizes DEF TypeTags
  <2>3. Int32(0) \in Argument
    BY <2>1, <2>2, AreArguments, Zenon DEF Int32
  <2> QED
    BY <2>3
<1>2. ProfileAddress \in Nat
  BY DEF ProfileAddress
<1> QED
  BY <1>1, <1>2, TypesWords, TextWords DEF AliveTypes

LEMMA AliveFailsStep ==
  ASSUME BundleInv, UNCHANGED <<buffer_end, len, type, written, places>>, MayWrite,
         NEW n \in Nat, AliveFails(n)
  PROVE  BundleInv'
<1>1. buffer_pos # NULL
  BY DEF MayWrite, BundleInv, Shape
<1>2. PICK e \in Nat : /\ buffer_end = 4 * e /\ buffer_end \div 4 = e /\ DOMAIN data = 0 .. e - 1
                       /\ \E p \in 0 .. e : buffer_pos = 4 * p
  BY <1>1, Words DEF BundleInv
<1>3. PICK p \in 0 .. e : buffer_pos = 4 * p
  BY <1>2
<1>4. UNCHANGED <<buffer_pos, spoiled>> /\ failed' = TRUE
  BY DEF AliveFails
<1>5. PICK ws \in Seq(Word) : ws = Text(ProfileAddress)
  BY AliveType
<1>6. CASE ~(Room >= 4 /\ Fits(ws, Room - 4))
  <2>1. data' = data /\ buffer_pos' = buffer_pos /\ p \in p .. e
    BY <1>4, <1>5, <1>6 DEF AliveFails
  <2> QED
    BY <1>2, <1>3, <1>4, <2>1, FailureKeeps
<1>7. CASE Room >= 4 /\ Fits(ws, Room - 4)
  <2>1. data' = Put(data, buffer_pos + 4, ws)
    BY <1>5, <1>7 DEF AliveFails
  <2>2. p + 1 + Len(ws) <= e
    <3>1. Len(ws) \in Nat /\ 4 * Len(ws) <= Room - 4
      BY <1>7 DEF Fits, Bytes
    <3> QED
      BY <1>2, <1>3, <3>1, RoomInWords
  <2>3. buffer_pos + 4 = 4 * (p + 1)
    BY <1>3
  <2>4. DOMAIN data' = 0 .. e - 1 /\ \A w \in 0 .. p : data'[w] = data[w]
    <3>1. PICK q \in Nat : q = p + 1
      OBVIOUS
    <3>2. data' = Put(data, 4 * q, ws) /\ q + Len(ws) <= e /\ Len(<< >>) <= q
      BY <2>1, <2>2, <2>3, <3>1
    <3>3. DOMAIN data' = 0 .. e - 1
      BY <1>2, <3>2, PutBehind, NothingBegins
    <3>4. \A w \in 0 .. q - 1 : data'[w] = data[w]
      BY <1>2, <3>2, PutKeeps
    <3> QED
      BY <3>1, <3>3, <3>4
  <2>5. (\A w \in 0 .. p - 1 : data'[w] = data[w]) /\ p \in p .. e /\ buffer_pos' = 4 * p
    BY <1>3, <1>4, <2>4
  <2> QED
    BY <1>2, <1>3, <1>4, <2>4, <2>5, FailureKeeps
<1> QED
  BY <1>6, <1>7

(* A success behind words that do not count leaves the writer in shape. *)
LEMMA SuccessShape ==
  ASSUME BundleInv, UNCHANGED <<buffer_end, type>>, MayWrite,
         NEW e \in Nat, buffer_end = 4 * e, buffer_end \div 4 = e, DOMAIN data = 0 .. e - 1,
         NEW p \in 0 .. e, buffer_pos = 4 * p,
         NEW ws \in Seq(Word), p + Len(ws) <= e, data' = Put(data, 4 * p, ws),
         buffer_pos' = 4 * (p + Len(ws)),
         len' \in Nat, written' \in Seq(Message), failed' \in BOOLEAN, spoiled' \in BOOLEAN,
         \A i \in 1 .. Len(written') : AllKnown(written'[i])
  PROVE  Shape' /\ buffer_pos' # 0
<1>1. p # 0
  BY DEF BundleInv, Shape
<1>2. PICK q \in 0 .. e : q = p + Len(ws) /\ q # 0
  <2>1. Len(ws) \in Nat
    OBVIOUS
  <2> QED
    BY <1>1, <2>1
<1>3. buffer_pos' = 4 * q /\ buffer_pos' # 0 /\ buffer_pos' # NULL
  BY <1>2, IdeasAssumption
<1>4. buffer_pos' \in 0 .. buffer_end' /\ buffer_pos' % 4 = 0
  BY <1>3
<1>5. DOMAIN data' = 0 .. buffer_end' \div 4 - 1
  <2>1. p \in Nat /\ Len(<< >>) <= p
    OBVIOUS
  <2>2. DOMAIN data' = 0 .. e - 1
    BY <2>1, PutBehind, NothingBegins
  <2> QED
    BY <2>2
<1> QED
  BY <1>3, <1>4, <1>5 DEF BundleInv, Shape

LEMMA AliveStep ==
  ASSUME BundleInv, UNCHANGED <<buffer_end, len, type, written, places>>, MayWrite,
         NEW ids \in Seq(Int), Alive(ids)
  PROVE  BundleInv'
<1>1. buffer_pos # NULL
  BY DEF MayWrite, BundleInv, Shape
<1>2. PICK e \in Nat : /\ buffer_end = 4 * e /\ buffer_end \div 4 = e /\ DOMAIN data = 0 .. e - 1
                       /\ \E p \in 0 .. e : buffer_pos = 4 * p
  BY <1>1, Words DEF BundleInv
<1>3. PICK p \in 0 .. e : buffer_pos = 4 * p
  BY <1>2
<1>4. PICK x \in Seq(Word) : x = AliveWords(ids)
  <2>1. [i \in DOMAIN ids |-> IntWord(ids[i])] \in Seq(Word)
    <3>1. DOMAIN ids = 1 .. Len(ids) /\ \A i \in 1 .. Len(ids) : ids[i] \in Int
      OBVIOUS
    <3>2. \A i \in 1 .. Len(ids) : IntWord(ids[i]) \in Word
      BY <3>1, NumberWord
    <3> QED
      BY <3>1, <3>2
  <2>2. AliveTypes(Len(ids)) \in Seq(Word) /\ Text(ProfileAddress) \in Seq(Word)
    BY AliveType
  <2>3. \A a, b, c \in Seq(Word) : a \o b \o c \in Seq(Word)
    OBVIOUS
  <2> QED
    BY <2>1, <2>2, <2>3 DEF AliveWords
<1>5. PICK v \in Word : v = IntWord(Bytes(AliveWords(ids)) + 8)
  <2>1. Bytes(x) + 8 \in Int
    BY DEF Bytes
  <2> QED
    BY <1>4, <2>1, NumberWord
<1>6. PICK ws \in Seq(Word) : ws = <<v>> \o x /\ Len(ws) = Len(x) + 1
  <2>1. <<v>> \in Seq(Word) /\ Len(<<v>>) = 1
    OBVIOUS
  <2>2. \A a, b \in Seq(Word) : a \o b \in Seq(Word) /\ Len(a \o b) = Len(a) + Len(b)
    OBVIOUS
  <2>3. <<v>> \o x \in Seq(Word) /\ Len(<<v>> \o x) = 1 + Len(x)
    BY <2>1, <2>2, Zenon
  <2>4. 1 + Len(x) = Len(x) + 1
    OBVIOUS
  <2> QED
    BY <2>3, <2>4, Zenon
<1>7. data' = Put(data, 4 * p, ws) /\ spoiled' = TRUE /\ failed' = failed
  BY <1>3, <1>4, <1>5, <1>6 DEF Alive
<1>8. p + Len(ws) <= e /\ buffer_pos' = 4 * (p + Len(ws))
  <2>1. PICK n \in Nat : n = Len(x)
    OBVIOUS
  <2>2. Room >= 4 + 4 * n /\ buffer_pos' = buffer_pos + 4 + 4 * n
    BY <1>4, <2>1 DEF Alive, Bytes
  <2>3. PICK r \in Nat : r = Room /\ \A k \in Nat : 4 * k <= r - 4 => p + 1 + k <= e
    BY <1>2, <1>3, RoomInWords
  <2>4. p + 1 + n <= e
    BY <2>2, <2>3
  <2>5. buffer_pos' = 4 * (p + (n + 1))
    BY <1>3, <2>2
  <2> QED
    BY <1>6, <2>1, <2>4, <2>5
<1>9. Shape' /\ buffer_pos' # 0
  <2>1. /\ len' \in Nat /\ written' \in Seq(Message) /\ failed' \in BOOLEAN /\ spoiled' \in BOOLEAN
        /\ \A i \in 1 .. Len(written') : AllKnown(written'[i])
    BY <1>7 DEF BundleInv, Shape
  <2>2. /\ buffer_end = 4 * e /\ buffer_end \div 4 = e /\ DOMAIN data = 0 .. e - 1
        /\ UNCHANGED <<buffer_end, type>>
    BY <1>2
  <2> QED
    BY <1>3, <1>7, <1>8, <2>1, <2>2, SuccessShape
<1>10. Counted'
  <2>1. Shape /\ Counted
    BY DEF MayWrite, BundleInv, Contents, Shape
  <2>2. \A w \in 0 .. p - 1 : data'[w] = data[w]
    <3>1. p \in Nat /\ p + Len(ws) <= e /\ DOMAIN data = 0 .. e - 1
      BY <1>2, <1>3, <1>8
    <3>2. data' = Put(data, 4 * p, ws)
      BY <1>7
    <3> QED
      BY <3>1, <3>2, PutKeeps
  <2>3. PICK q \in Nat : q = p + Len(ws) /\ q >= p
    OBVIOUS
  <2>4. buffer_pos' = 4 * q
    BY <1>8, <2>3
  <2>5. p \in Nat
    BY <1>3
  <2> QED
    BY <1>3, <2>1, <2>2, <2>3, <2>4, <2>5, CountedStays
<1> QED
  BY <1>7, <1>9, <1>10 DEF BundleInv, Contents

LEMMA BundleWriteStep ==
  ASSUME BundleInv, UNCHANGED buffer_end, NEW m \in Message, BundleWrite(m)
  PROVE  BundleInv'
<1>1. MayWrite /\ buffer_pos # NULL /\ buffer_pos # 0
  BY DEF BundleWrite, MayWrite, BundleInv, Shape
<1>2. PICK e \in Nat : /\ buffer_end = 4 * e /\ buffer_end \div 4 = e /\ DOMAIN data = 0 .. e - 1
                       /\ \E p \in 0 .. e : buffer_pos = 4 * p
  BY <1>1, Words DEF BundleInv
<1>3. PICK p \in 0 .. e : buffer_pos = 4 * p
  BY <1>2
<1>4. PICK ws \in Seq(Word) : ws = Element(m) /\ Len(ws) = Len(Encoded(m)) + 1
  BY ElementWords
<1>5. PICK n \in Nat : n = Len(Encoded(m)) /\ Len(ws) = n + 1
  BY <1>4, EncodedWords
<1>6. data' = Put(data, 4 * p, ws)
  BY <1>3, <1>4 DEF BundleWrite, Element
<1>7. p + Len(ws) <= e /\ AllKnown(m)
  <2>1. PICK r \in Nat : r = Room /\ \A k \in Nat : 4 * k <= r - 4 => p + 1 + k <= e
    BY <1>2, <1>3, RoomInWords
  <2>2. 4 * n <= r - 4 /\ AllKnown(m)
    BY <1>5, <2>1 DEF BundleWrite, Succeeds, Fits, Bytes, AllKnown
  <2>3. p + 1 + n <= e
    BY <2>1, <2>2
  <2> QED
    BY <1>5, <2>2, <2>3
<1>8. buffer_pos' = 4 * (p + Len(ws)) /\ len' = len + 4 + 4 * n
  <2>1. buffer_pos' = buffer_pos + 4 + 4 * n /\ len' = len + 4 + 4 * n
    BY <1>5 DEF BundleWrite, Bytes
  <2> QED
    BY <1>3, <1>5, <2>1
<1>9. PICK ms \in Seq(Message) : ms = written
  BY DEF BundleInv, Shape
<1>10. written' = Append(ms, m) /\ failed' = failed /\ spoiled' = (spoiled \/ failed) /\ type' = type
  BY <1>9 DEF BundleWrite
<1>11. Counted
  BY <1>1 DEF MayWrite, BundleInv, Contents
<1>12. Shape' /\ buffer_pos' # 0
  <2>1. written' \in Seq(Message) /\ \A i \in 1 .. Len(written') : AllKnown(written'[i])
    <3>1. /\ Append(ms, m) \in Seq(Message)
          /\ \A i \in 1 .. Len(Append(ms, m)) : Append(ms, m)[i] = m \/ (i \in 1 .. Len(ms) /\ Append(ms, m)[i] = ms[i])
      OBVIOUS
    <3>2. \A i \in 1 .. Len(ms) : AllKnown(ms[i])
      BY <1>9 DEF BundleInv, Shape
    <3> QED
      BY <1>7, <1>10, <3>1, <3>2
  <2>2. len' \in Nat
    <3>1. len \in Nat
      BY DEF BundleInv, Shape
    <3> QED
      BY <1>8, <3>1
  <2>3. failed' \in BOOLEAN /\ spoiled' \in BOOLEAN
    BY <1>10 DEF BundleInv, Shape
  <2> QED
    BY <1>1, <1>2, <1>3, <1>6, <1>7, <1>8, <1>10, <2>1, <2>2, <2>3, SuccessShape
<1>13. Counted'
  <2>1. len' = Bytes(PacketOf(written'))
    <3>1. PICK x \in Seq(Word) : x = PacketOf(ms)
      BY PacketType
    <3>2. PacketOf(written') = x \o ws
      BY <1>4, <1>10, <3>1, PacketGrows
    <3>3. len = 4 * Len(x)
      BY <1>9, <1>11, <3>1 DEF Counted, Bytes
    <3>4. PICK l \in Nat : l = Len(x) /\ Len(x \o ws) = l + (n + 1)
      <4>1. Len(x) \in Nat /\ Len(x \o ws) = Len(x) + Len(ws)
        BY TwoParts
      <4> QED
        BY <1>5, <4>1
    <3>5. len' = 4 * (l + (n + 1))
      BY <1>8, <3>3, <3>4
    <3> QED
      BY <3>2, <3>4, <3>5 DEF Bytes
  <2>2. PICK l \in Nat : l = Len(ms)
    OBVIOUS
  <2>3. PICK s \in Seq(Nat) : s = places /\ Len(s) = l
    BY <1>9, <1>11, <2>2 DEF Counted
  <2>4. PICK b \in Nat : b = 4 * p
    OBVIOUS
  <2>5. places' = Append(s, b)
    BY <1>3, <2>3, <2>4 DEF BundleWrite
  <2>6. /\ Append(s, b) \in Seq(Nat) /\ Len(Append(s, b)) = l + 1 /\ Append(s, b)[l + 1] = b
        /\ \A i \in 1 .. l : Append(s, b)[i] = s[i]
    BY <2>3
  <2>7. /\ Len(Append(ms, m)) = l + 1 /\ Append(ms, m)[l + 1] = m
        /\ \A i \in 1 .. l : Append(ms, m)[i] = ms[i]
    BY <2>2
  <2>8. p >= 4 /\ Intact(p)
    <3>1. PICK x \in Nat : x >= 4 /\ buffer_pos = 4 * x /\ Intact(x)
      BY <1>11 DEF Counted
    <3>2. x = p
      BY <1>3, <3>1
    <3> QED
      BY <3>1, <3>2
  <2>9. PICK q \in Nat : q = p + Len(ws) /\ q >= p
    OBVIOUS
  <2>10. \A w \in 0 .. p - 1 : data'[w] = data[w]
    <3>1. p \in Nat /\ p + Len(ws) <= e /\ DOMAIN data = 0 .. e - 1
      BY <1>2, <1>7
    <3> QED
      BY <1>6, <3>1, PutKeeps
  <2>11. \A w \in 1 .. 4 : data'[w - 1] = Header[w]
    <3>1. \A w \in 1 .. 4 : w - 1 \in 0 .. p - 1
      BY <2>8
    <3> QED
      BY <2>8, <2>10, <3>1 DEF Intact
  <2>12. ASSUME NEW i \in 1 .. l + 1
         PROVE  \E k \in Nat :
                  /\ Append(s, b)[i] = 4 * k /\ k + Len(Element(Append(ms, m)[i])) <= q
                  /\ \A w \in 1 .. Len(Element(Append(ms, m)[i])) :
                       data'[k + w - 1] = Element(Append(ms, m)[i])[w]
    <3>1. CASE i \in 1 .. l
      <4>1. PICK k \in Nat :
              /\ places[i] = 4 * k /\ k + Len(Element(written[i])) <= p
              /\ \A w \in 1 .. Len(Element(written[i])) :
                   data[k + w - 1] = Element(written[i])[w]
        BY <1>9, <2>2, <2>8, <3>1 DEF Intact
      <4>2. PICK x \in Seq(Word) : x = Element(written[i])
        <5>1. written[i] \in Message
          BY <1>9, <2>2, <3>1
        <5> QED
          BY <5>1, ElementWords
      <4>3. PICK c \in Nat : c = Len(x)
        OBVIOUS
      <4>4. k + c <= q /\ \A w \in 1 .. c : k + w - 1 \in 0 .. p - 1
        BY <2>9, <4>1, <4>2, <4>3
      <4>5. \A w \in 1 .. c : data'[k + w - 1] = x[w]
        BY <2>10, <4>1, <4>2, <4>3, <4>4
      <4>6. Append(ms, m)[i] = written[i] /\ Append(s, b)[i] = places[i]
        BY <1>9, <2>3, <2>6, <2>7, <3>1
      <4> QED
        BY <4>1, <4>2, <4>3, <4>4, <4>5, <4>6
    <3>2. CASE i = l + 1
      <4>1. PICK c \in Nat : c = Len(ws)
        OBVIOUS
      <4>2. ASSUME NEW w \in 1 .. c
            PROVE  data'[p + w - 1] = ws[w]
        <5>1. \A x \in 0 .. e - 1 : p <= x /\ x < p + c => data'[x] = ws[x - p + 1]
          <6>1. p \in Nat /\ p + Len(ws) <= e /\ DOMAIN data = 0 .. e - 1
            BY <1>2, <1>7
          <6>2. data' = Put(data, b, ws)
            BY <1>6, <2>4
          <6>3. \A x \in 0 .. e - 1 :
                  p <= x /\ x < p + Len(ws) => Put(data, b, ws)[x] = ws[x - p + 1]
            BY <2>4, <6>1, PutWords
          <6> QED
            BY <4>1, <6>2, <6>3
        <5>2. /\ p + w - 1 \in 0 .. e - 1 /\ p <= p + w - 1 /\ p + w - 1 < p + c
              /\ (p + w - 1) - p + 1 = w
          BY <1>7, <4>1
        <5> QED
          BY <5>1, <5>2
      <4>3. Append(ms, m)[i] = m /\ Append(s, b)[i] = 4 * p /\ p \in Nat
        BY <2>4, <2>6, <2>7, <3>2
      <4>4. Append(ms, m)[i] = m /\ ws = Element(m) /\ p + c <= q
        BY <1>4, <2>9, <4>1, <4>3
      <4>5. \A w \in 1 .. c : data'[p + w - 1] = ws[w]
        BY <4>2
      <4> QED
        BY <4>1, <4>3, <4>4, <4>5
    <3>3. i \in 1 .. l \/ i = l + 1
      OBVIOUS
    <3> QED
      BY <3>1, <3>2, <3>3
  <2>13. Intact(q)'
    BY <1>10, <2>5, <2>7, <2>11, <2>12 DEF Intact
  <2>14. q >= 4 /\ buffer_pos' = 4 * q
    BY <1>8, <2>8, <2>9
  <2> QED
    BY <1>10, <2>1, <2>5, <2>6, <2>7, <2>13, <2>14 DEF Counted
<1>14. Contents'
  <2>1. SUFFICES ASSUME ~spoiled'
                 PROVE  /\ len' = Bytes(PacketOf(written')) /\ Begins(PacketOf(written))'
                        /\ buffer_pos' = len' /\ buffer_pos' >= len'
    BY <1>12, <1>13 DEF Contents
  <2>2. ~spoiled /\ ~failed
    BY <1>10, <2>1
  <2>3. PICK x \in Seq(Word) : x = PacketOf(ms)
    BY PacketType
  <2>4. len = 4 * Len(x) /\ Begins(x) /\ buffer_pos = len
    BY <1>1, <1>9, <2>2, <2>3 DEF BundleInv, Contents, Bytes, MayWrite
  <2>5. PacketOf(written') = x \o ws
    BY <1>4, <1>10, <2>3, PacketGrows
  <2>6. Len(x) = p
    BY <1>3, <2>4
  <2>7. \A w \in 1 .. Len(x \o ws) : data'[w - 1] = (x \o ws)[w]
    <3>1. p \in Nat /\ Len(x) <= p
      BY <2>6
    <3> QED
      BY <1>2, <1>6, <1>7, <2>4, <2>6, <3>1, PutBehind
  <2>8. Begins(PacketOf(written))'
    BY <2>5, <2>7 DEF Begins
  <2>9. len' = 4 * Len(x \o ws)
    <3>1. Len(x \o ws) = p + (n + 1)
      BY <1>5, <2>6
    <3>2. len = 4 * p
      BY <1>3, <2>4
    <3>3. 4 * p + 4 + 4 * n = 4 * (p + (n + 1))
      OBVIOUS
    <3> QED
      BY <1>8, <3>1, <3>2, <3>3
  <2>10. buffer_pos' = len'
    <3>1. len = 4 * p
      BY <1>3, <2>4
    <3> QED
      BY <1>5, <1>8, <3>1
  <2>11. len' = Bytes(PacketOf(written'))
    BY <2>5, <2>9 DEF Bytes
  <2>12. buffer_pos' >= len'
    BY <1>8, <2>10
  <2> QED
    BY <2>8, <2>10, <2>11, <2>12
<1> QED
  BY <1>12, <1>14 DEF BundleInv

LEMMA BundleStep == BundleInv /\ [Next]_wvars => BundleInv'
<1> SUFFICES ASSUME BundleInv, [Next]_wvars
             PROVE  BundleInv'
  OBVIOUS
<1>1. CASE UNCHANGED wvars
  BY <1>1 DEF wvars, BundleInv, Shape, Contents, Counted, Intact, MayWrite, Begins
<1>2. ASSUME UNCHANGED buffer_end, NEW m \in Messages, WriteMessage(m) \/ WriteMessageFails(m)
      PROVE  BundleInv'
  BY <1>2, IdeasAssumption, WriteMessageStep, WriteMessageFailsStep
<1>3. ASSUME UNCHANGED buffer_end,
             NEW profile \in {NULL, "2Dobj", "2Dcur", "2Dblb"}, Start(profile)
      PROVE  BundleInv'
  BY <1>3, StartStep
<1>4. ASSUME UNCHANGED buffer_end, NEW m \in BundleMessages, BundleWrite(m) \/ BundleWriteFails(m)
      PROVE  BundleInv'
  <2>1. m \in Message
    BY TuioType DEF BundleInv, Shape
  <2> QED
    BY <1>4, <2>1, BundleWriteStep, BundleWriteFailsStep
<1>5. ASSUME UNCHANGED buffer_end, AnyAlive
      PROVE  BundleInv'
  <2>1. MayWrite /\ UNCHANGED <<buffer_end, len, type, written, places>>
    BY <1>5 DEF AnyAlive
  <2>2. CASE \E n \in 0 .. MaxAlive : AliveFails(n)
    <3>1. PICK n \in 0 .. MaxAlive : AliveFails(n)
      BY <2>2
    <3>2. n \in Nat
      BY IdeasAssumption
    <3> QED
      BY <2>1, <3>1, <3>2, AliveFailsStep
  <2>3. CASE \E ids \in BoundedSeq(AliveIds, MaxAlive) : Alive(ids)
    <3>1. PICK ids \in BoundedSeq(AliveIds, MaxAlive) : Alive(ids)
      BY <2>3
    <3>2. ids \in Seq(Int)
      <4>1. PICK n \in 0 .. MaxAlive : ids \in [1 .. n -> AliveIds]
        BY <3>1 DEF BoundedSeq, SeqOf
      <4>2. n \in Nat /\ AliveIds \subseteq Int
        BY IdeasAssumption
      <4>3. ids \in [1 .. n -> Int]
        BY <4>1, <4>2
      <4> QED
        BY <4>2, <4>3
    <3> QED
      BY <2>1, <3>1, <3>2, AliveStep
  <2> QED
    BY <1>5, <2>2, <2>3 DEF AnyAlive
<1> QED
  BY <1>1, <1>2, <1>3, <1>4, <1>5 DEF Next

(* The inductive invariant of the writer: it stays in shape, len counts the messages
   whose calls have succeeded, and each of them stays where it was put, whatever
   the buffers, the messages and the failures are; until a call succeeds after one
   that failed, or after a list of alive objects, they lie one behind the other
   from the start (ideas/osc.c:40-100, 124-162, 376-452). *)
THEOREM BundleInvariant == RSpec => []BundleInv
<1>1. RInit => BundleInv
  BY BundleInit DEF RInit
<1>2. BundleInv /\ [RNext]_<<wvars, rvars>> => BundleInv'
  <2>1. [RNext]_<<wvars, rvars>> => [Next]_wvars
    BY DEF RNext, Write, Send, Read
  <2> QED
    BY <2>1, BundleStep
<1> QED
  BY <1>1, <1>2, PTL DEF RSpec

(* No call writes past the end of any buffer, or moves buffer_pos there. *)
THEOREM BundlesFit == RSpec => []WithinBuffer
<1>1. BundleInv => WithinBuffer
  BY DEF BundleInv, Shape, WithinBuffer
<1> QED
  BY <1>1, BundleInvariant, PTL

(* Each message whose call succeeded stays whole where it was put and is counted,
   whatever fails; until a call succeeds after one that failed, or after a list of
   alive objects, the first bundle->len bytes are those messages. *)
THEOREM LenIsThePacket == RSpec => []LenIsPacket
<1>1. Packet = PacketOf(written)
  BY DEF Packet, PacketOf, Elements
<1>2. ASSUME BundleInv, buffer_pos # 0, len > 0
      PROVE  /\ len = Bytes(Packet)
             /\ LiesAt(Header, 0)
             /\ Len(places) = Len(written)
             /\ \A i \in DOMAIN written : LiesAt(Element(written[i]), places[i])
             /\ ~spoiled => LiesAt(Packet, 0)
  <2>1. Counted /\ written \in Seq(Message)
    BY <1>2 DEF BundleInv, Contents, Shape
  <2>2. \A n \in Int : 0 \div 4 + n - 1 = n - 1
    OBVIOUS
  <2>3. LiesAt(Header, 0)
    BY <2>1, <2>2, HeaderWords DEF Counted, Intact, LiesAt
  <2>4. ASSUME NEW i \in DOMAIN written
        PROVE  LiesAt(Element(written[i]), places[i])
    <3>1. i \in 1 .. Len(written)
      BY <2>1
    <3>2. PICK q \in Nat :
            /\ places[i] = 4 * q
            /\ \A w \in 1 .. Len(Element(written[i])) :
                 data[q + w - 1] = Element(written[i])[w]
      BY <2>1, <3>1 DEF Counted, Intact
    <3>3. (4 * q) \div 4 = q
      OBVIOUS
    <3> QED
      BY <3>2, <3>3 DEF LiesAt
  <2>5. ~spoiled => LiesAt(Packet, 0)
    <3>1. ~spoiled => Begins(Packet)
      BY <1>1, <1>2 DEF BundleInv, Contents
    <3>2. Len(Packet) \in Nat
      BY <1>1, <2>1, PacketType
    <3> QED
      BY <2>2, <3>1, <3>2 DEF Begins, LiesAt
  <2> QED
    BY <1>1, <2>1, <2>3, <2>4, <2>5 DEF Counted
<1>3. BundleInv => LenIsPacket
  BY <1>2 DEF LenIsPacket
<1> QED
  BY <1>3, BundleInvariant, PTL
-----------------------------------------------------------------------------
(* The words of an argument. *)
Body(a) == FlattenSeq(ArgFields(a))

LEMMA EncodedIs ==
  ASSUME NEW m \in Message, AllKnown(m)
  PROVE  /\ Bodies(m) \in Seq(Seq(Word)) /\ Len(Bodies(m)) = Len(m.args) /\ Len(m.args) \in Nat
         /\ Encoded(m) = (Text(m.address) \o Types(m.args)) \o FlattenSeq(Bodies(m))
<1>1. KnownArgs(m) = m.args
  BY DEF AllKnown
<1>2. PICK s \in Seq(Seq(Seq(Word))) : s = ArgsFields(m) /\ Len(s) = Len(m.args)
  BY <1>1, ArgsFieldsType
<1>3. DOMAIN m.args = 1 .. Len(m.args) /\ Len(m.args) \in Nat
  BY DEF Message
<1>4. s = [i \in DOMAIN m.args |-> ArgFields(m.args[i])]
  BY <1>1, <1>2 DEF ArgsFields
<1>5. Bodies(m) = [i \in DOMAIN s |-> FlattenSeq(s[i])]
  BY <1>4 DEF Bodies
<1>6. Bodies(m) \in Seq(Seq(Word)) /\ FlattenSeq(FlattenSeq(s)) = FlattenSeq(Bodies(m))
  BY <1>5, FlattenTwice
<1>7. Len(Bodies(m)) = Len(m.args)
  BY <1>3 DEF Bodies
<1>8. PICK t \in Seq(Word) : t = Text(m.address)
  BY TextWords DEF Message
<1>9. PICK y \in Seq(Word) : y = Types(m.args)
  BY TypesWords DEF Message
<1>10. FlattenSeq(<<t, y>>) = t \o y
  <2>1. << >> \in Seq(Seq(Word)) /\ <<t>> \in Seq(Seq(Word))
    OBVIOUS
  <2>2. Append(<< >>, t) = <<t>> /\ Append(<<t>>, y) = <<t, y>>
    BY AppendOfTuples
  <2>3. FlattenSeq(Append(<< >>, t)) = << >> \o t
    BY <2>1, FlattenOneMore, FlattenNone
  <2>4. FlattenSeq(Append(<<t>>, y)) = FlattenSeq(<<t>>) \o y
    BY <2>1, FlattenOneMore
  <2>5. << >> \o t = t
    OBVIOUS
  <2> QED
    BY <2>2, <2>3, <2>4, <2>5
<1>11. Fields(m) = <<t, y>> \o FlattenSeq(s) /\ <<t, y>> \in Seq(Seq(Word)) /\ FlattenSeq(s) \in Seq(Seq(Word))
  <2>1. <<t, y>> \in Seq(Seq(Word))
    OBVIOUS
  <2> QED
    BY <1>2, <1>8, <1>9, <2>1, FieldsType, FlattenType
<1>12. Encoded(m) = FlattenSeq(<<t, y>>) \o FlattenSeq(FlattenSeq(s))
  BY <1>11, FlattenConcat DEF Encoded
<1> QED
  BY <1>3, <1>6, <1>7, <1>8, <1>9, <1>10, <1>12
(* A message begins with its address and its tags. *)
LEMMA FrontAt ==
  ASSUME NEW m \in Message, AllKnown(m)
  PROVE  /\ Place(m, 0) = Len(Text(m.address)) + Len(Types(m.args))
         /\ Len(Encoded(m)) >= Place(m, 0)
         /\ \A w \in 1 .. Len(Text(m.address)) : Encoded(m)[w] = Text(m.address)[w]
         /\ \A w \in 1 .. Len(Types(m.args)) :
              Encoded(m)[Len(Text(m.address)) + w] = Types(m.args)[w]
<1>1. PICK t \in Seq(Word) : t = Text(m.address)
  BY TextWords DEF Message
<1>2. PICK y \in Seq(Word) : y = Types(m.args)
  BY TypesWords DEF Message
<1>3. PICK f \in Seq(Seq(Word)) : f = Bodies(m)
  BY EncodedIs
<1>4. PICK z \in Seq(Word) : z = FlattenSeq(f)
  BY FlattenType
<1>5. Encoded(m) = (t \o y) \o z
  BY <1>1, <1>2, <1>3, <1>4, EncodedIs
<1>6. Place(m, 0) = Len(t) + Len(y)
  <2>1. SubSeq(f, 1, 0) = << >> /\ Len(<< >>) = 0
    OBVIOUS
  <2>2. Len(FlatTo(f, 0)) = 0
    BY <2>1, FlattenNone DEF FlatTo
  <2>3. Len(t) \in Nat /\ Len(y) \in Nat
    OBVIOUS
  <2>4. Place(m, 0) = Len(t) + Len(y) + Len(FlatTo(f, 0))
    BY <1>1, <1>2, <1>3 DEF Place, FlatTo
  <2>5. Len(t) + Len(y) + 0 = Len(t) + Len(y)
    BY <2>3
  <2> QED
    BY <2>2, <2>4, <2>5
<1>7. PICK h \in Seq(Word) : h = t \o y
  BY TwoParts
<1>8. /\ Len(h) = Len(t) + Len(y) /\ Len(t) \in Nat /\ Len(y) \in Nat
      /\ \A w \in 1 .. Len(t) : h[w] = t[w]
      /\ \A w \in 1 .. Len(y) : h[Len(t) + w] = y[w]
  BY <1>7, TwoParts
<1>9. /\ Len(h \o z) = Len(h) + Len(z) /\ Len(z) \in Nat
      /\ \A w \in 1 .. Len(h) : (h \o z)[w] = h[w]
  BY TwoParts
<1>10. Encoded(m) = h \o z
  BY <1>5, <1>7
<1>11. ASSUME NEW w \in 1 .. Len(t)
       PROVE  Encoded(m)[w] = t[w]
  BY <1>8, <1>9, <1>10
<1>12. ASSUME NEW w \in 1 .. Len(y)
       PROVE  Encoded(m)[Len(t) + w] = y[w]
  <2>1. Len(t) + w \in 1 .. Len(h)
    BY <1>8
  <2> QED
    BY <1>8, <1>9, <1>10, <2>1
<1>13. Len(Encoded(m)) >= Len(t) + Len(y)
  BY <1>8, <1>9, <1>10
<1> QED
  BY <1>1, <1>2, <1>6, <1>11, <1>12, <1>13

(* And its arguments lie one behind the other. *)
LEMMA ArgAt ==
  ASSUME NEW m \in Message, AllKnown(m), NEW k \in 0 .. Len(m.args) - 1
  PROVE  /\ Place(m, k) \in Nat /\ Bodies(m)[k + 1] \in Seq(Word)
         /\ Place(m, k + 1) = Place(m, k) + Len(Bodies(m)[k + 1])
         /\ Place(m, k + 1) <= Len(Encoded(m))
         /\ \A j \in 1 .. Len(Bodies(m)[k + 1]) :
              Encoded(m)[Place(m, k) + j] = Bodies(m)[k + 1][j]
<1>1. PICK h \in Seq(Word) : /\ h = Text(m.address) \o Types(m.args)
                             /\ Len(h) = Len(Text(m.address)) + Len(Types(m.args))
  <2>1. PICK t \in Seq(Word) : t = Text(m.address)
    BY TextWords DEF Message
  <2>2. PICK y \in Seq(Word) : y = Types(m.args)
    BY TypesWords DEF Message
  <2>3. t \o y \in Seq(Word) /\ Len(t \o y) = Len(t) + Len(y)
    BY TwoParts
  <2> QED
    BY <2>1, <2>2, <2>3
<1>2. PICK f \in Seq(Seq(Word)) : f = Bodies(m) /\ Len(f) = Len(m.args)
  BY EncodedIs
<1>3. PICK z \in Seq(Word) : z = FlattenSeq(f)
  BY FlattenType
<1>4. Encoded(m) = h \o z
  BY <1>1, <1>2, <1>3, EncodedIs
<1>5. Len(f) \in Nat /\ k \in 0 .. Len(f) - 1 /\ k \in 0 .. Len(f) /\ k + 1 \in 0 .. Len(f)
      /\ f[k + 1] \in Seq(Word)
  BY <1>2
<1>6. PICK u \in Seq(Word) : u = FlatTo(f, k)
  BY <1>5, FlatToWhole
<1>7. PICK v \in Seq(Word) : v = f[k + 1]
  BY <1>5
<1>8. FlatTo(f, k + 1) = u \o v
  BY <1>5, <1>6, <1>7, FlatToNext
<1>9. /\ Len(u \o v) <= Len(z)
      /\ \A w \in 1 .. Len(u \o v) : z[w] = (u \o v)[w]
  BY <1>3, <1>5, <1>8, FlatToWhole
<1>10. /\ Len(u \o v) = Len(u) + Len(v) /\ Len(u) \in Nat /\ Len(v) \in Nat
       /\ \A w \in 1 .. Len(v) : (u \o v)[Len(u) + w] = v[w]
  BY TwoParts
<1>11. /\ Len(h \o z) = Len(h) + Len(z) /\ Len(z) \in Nat /\ Len(h) \in Nat
       /\ \A w \in 1 .. Len(z) : (h \o z)[Len(h) + w] = z[w]
  BY TwoParts
<1>12. Place(m, k) = Len(h) + Len(u) /\ Place(m, k + 1) = Len(h) + Len(u) + Len(v)
  <2>1. Place(m, k) = Len(Text(m.address)) + Len(Types(m.args)) + Len(FlatTo(f, k))
    BY <1>2 DEF Place, FlatTo
  <2>2. Place(m, k + 1) = Len(Text(m.address)) + Len(Types(m.args)) + Len(FlatTo(f, k + 1))
    BY <1>2 DEF Place, FlatTo
  <2>3. Place(m, k) = Len(h) + Len(FlatTo(f, k)) /\ Place(m, k + 1) = Len(h) + Len(FlatTo(f, k + 1))
    BY <1>1, <2>1, <2>2
  <2>4. Len(FlatTo(f, k)) = Len(u) /\ Len(FlatTo(f, k + 1)) = Len(u) + Len(v)
    BY <1>6, <1>8, <1>10, Zenon
  <2>5. Len(h) + (Len(u) + Len(v)) = Len(h) + Len(u) + Len(v)
    BY <1>10, <1>11
  <2> QED
    BY <2>3, <2>4, <2>5, Zenon
<1>13. ASSUME NEW j \in 1 .. Len(v)
       PROVE  Encoded(m)[Place(m, k) + j] = v[j]
  <2>1. Len(u) + j \in 1 .. Len(u \o v) /\ Len(u) + j \in 1 .. Len(z)
    BY <1>9, <1>10, <1>11
  <2>2. Place(m, k) + j = Len(h) + (Len(u) + j)
    BY <1>10, <1>11, <1>12
  <2>3. (h \o z)[Len(h) + (Len(u) + j)] = z[Len(u) + j]
    BY <1>11, <2>1
  <2>4. z[Len(u) + j] = v[j]
    BY <1>9, <1>10, <2>1
  <2> QED
    BY <1>4, <2>2, <2>3, <2>4
<1>14. Bodies(m)[k + 1] = v
  BY <1>2, <1>7
<1>15. Place(m, k) \in Nat /\ Place(m, k + 1) = Place(m, k) + Len(v)
  BY <1>10, <1>11, <1>12
<1>16. Place(m, k + 1) <= Len(Encoded(m))
  BY <1>4, <1>9, <1>10, <1>11, <1>12
<1> QED
  BY <1>13, <1>14, <1>15, <1>16
-----------------------------------------------------------------------------
(* The words of an argument of each kind. *)
LEMMA BodyOfNone ==
  ASSUME NEW a \in Argument, a.tag \in NoData
  PROVE  Len(Body(a)) = 0
<1>1. ArgFields(a) = << >>
  BY FixedSizes DEF ArgFields, NoData, Strings
<1>2. Body(a) = << >> /\ Len(<< >>) = 0
  BY <1>1, FlattenNone DEF Body
<1> QED
  BY <1>2

LEMMA FlattenOne ==
  ASSUME NEW t \in Seq(Word)
  PROVE  FlattenSeq(<<t>>) = t
<1>1. << >> \in Seq(Seq(Word)) /\ << >> \o t = t
  OBVIOUS
<1>2. Append(<< >>, t) = <<t>>
  BY AppendOfTuples
<1>3. FlattenSeq(Append(<< >>, t)) = << >> \o t
  BY <1>1, FlattenOneMore, FlattenNone
<1> QED
  BY <1>1, <1>2, <1>3

LEMMA BodyOfFixed ==
  ASSUME NEW a \in Argument, a.tag \in DOMAIN Fixed
  PROVE  /\ Body(a) \in Seq(Word) /\ 4 * Len(Body(a)) = Fixed[a.tag] /\ Len(Body(a)) >= 1
         /\ Body(a)[1] = IntWord(a.n)
<1>1. a.n \in Int
  BY ArgumentType
<1>2. a.tag \notin NoData /\ a.tag \notin Strings /\ a.tag # "b"
  BY FixedSizes DEF NoData, Strings
<1>3. PICK k \in {1, 2} : k = Fixed[a.tag] \div 4 /\ 4 * k = Fixed[a.tag]
  <2>1. PICK v : v = Fixed[a.tag] /\ (v = 4 \/ v = 8)
    BY FixedSizes
  <2>2. v \div 4 \in {1, 2} /\ 4 * (v \div 4) = v
    BY <2>1
  <2> QED
    BY <2>1, <2>2
<1>4. PICK v \in Word : v = IntWord(a.n)
  BY <1>1, NumberWord
<1>5. PICK t : t = [w \in 1 .. k |-> v]
  OBVIOUS
<1>6. t \in Seq(Word) /\ Len(t) = k /\ t[1] = v
  <2>1. k \in Nat /\ 1 \in 1 .. k
    <3>1. k = 1 \/ k = 2
      BY <1>3
    <3> QED
      BY <3>1
  <2> QED
    BY <1>5, <2>1
<1>7. ArgFields(a) = <<t>>
  BY <1>2, <1>3, <1>4, <1>5 DEF ArgFields
<1>8. Body(a) = t
  BY <1>6, <1>7, FlattenOne DEF Body
<1>9. 4 * Len(t) = Fixed[a.tag] /\ Len(t) >= 1
  BY <1>3, <1>6
<1> QED
  BY <1>4, <1>6, <1>8, <1>9

LEMMA BodyOfString ==
  ASSUME NEW a \in Argument, a.tag \in Strings
  PROVE  Body(a) = Text(a.n)
<1>1. a.n \in Nat
  BY ArgumentType
<1>2. a.tag \notin NoData /\ a.tag \notin DOMAIN Fixed /\ a.tag # "b"
  BY FixedSizes DEF NoData, Strings
<1>3. PICK t \in Seq(Word) : t = Text(a.n)
  BY <1>1, TextWords
<1>4. ArgFields(a) = <<t>>
  BY <1>2, <1>3 DEF ArgFields
<1> QED
  BY <1>3, <1>4, FlattenOne DEF Body

LEMMA BodyOfBlob ==
  ASSUME NEW a \in Argument, a.tag = "b"
  PROVE  /\ Body(a) \in Seq(Word) /\ 4 * Len(Body(a)) = 4 + ROUND32(a.n) /\ Len(Body(a)) >= 1
         /\ Body(a)[1] = IntWord(a.n)
<1>1. a.n \in Nat /\ a.n \in Int
  BY ArgumentType
<1>2. a.tag \notin NoData /\ a.tag \notin DOMAIN Fixed /\ a.tag \notin Strings
  BY FixedSizes DEF NoData, Strings
<1>3. PICK t \in Seq(Word) : t = <<IntWord(a.n)>> /\ Len(t) = 1 /\ t[1] = IntWord(a.n)
  BY <1>1, NumberWord
<1>4. PICK y \in Seq(Word) : y = Blob(a.n) /\ 4 * Len(y) = ROUND32(a.n)
  BY <1>1, BlobWords
<1>5. ArgFields(a) = <<t, y>>
  BY <1>2, <1>3, <1>4 DEF ArgFields
<1>6. FlattenSeq(<<t, y>>) = t \o y
  <2>1. <<t>> \in Seq(Seq(Word))
    OBVIOUS
  <2>2. Append(<<t>>, y) = <<t, y>>
    BY AppendOfTuples
  <2>3. FlattenSeq(Append(<<t>>, y)) = FlattenSeq(<<t>>) \o y
    BY <2>1, FlattenOneMore
  <2> QED
    BY <2>2, <2>3, FlattenOne
<1>7. /\ t \o y \in Seq(Word) /\ Len(t \o y) = Len(t) + Len(y) /\ Len(y) \in Nat
      /\ \A w \in 1 .. Len(t) : (t \o y)[w] = t[w]
  BY TwoParts
<1>8. Body(a) = t \o y
  BY <1>5, <1>6 DEF Body
<1>9. 1 \in 1 .. Len(t)
  BY <1>3
<1> QED
  BY <1>3, <1>4, <1>7, <1>8, <1>9
-----------------------------------------------------------------------------
(* A string ends at its last word, or behind the packet when that is cut off. *)
LEMMA StrBytesAt ==
  ASSUME packet \in Seq(Word), NEW t \in Seq(Word), Len(t) >= 1, NEW q \in Nat,
         q <= Len(packet), q + Len(t) <= Len(packet) + 1,
         \A w \in 1 .. Len(t) : t[w].nul = (w = Len(t)),
         \A w \in 1 .. Len(t) : q + w <= Len(packet) => packet[q + w] = t[w]
  PROVE  /\ q + Len(t) <= Len(packet) => StrBytes(4 * q) = 4 * Len(t)
         /\ q + Len(t) > Len(packet) => StrBytes(4 * q) = PacketLen - 4 * q + 4
<1>1. PICK L \in Nat : L = Len(packet)
  OBVIOUS
<1>2. PICK n \in Nat : n = Len(t) /\ n >= 1 /\ q <= L /\ q + n <= L + 1
  BY <1>1
<1>3. (4 * q) \div 4 = q
  BY SMT
<1> DEFINE E == {w \in q + 1 .. L : packet[w].nul}
<1>4. StrBytes(4 * q) = IF E = {} THEN PacketLen - 4 * q + 4 ELSE 4 * Min(E) - 4 * q
  BY <1>1, <1>3 DEF StrBytes
<1>5. ASSUME NEW w \in q + 1 .. L, w <= q + n
      PROVE  packet[w].nul <=> w = q + n
  <2>1. w - q \in 1 .. n /\ q + (w - q) = w /\ w <= L
    BY <1>2, <1>5
  <2>2. packet[w] = t[w - q] /\ t[w - q].nul = (w - q = n)
    BY <1>1, <1>2, <2>1
  <2>3. (w - q = n) <=> (w = q + n)
    BY <1>2
  <2>4. packet[w].nul \in BOOLEAN
    <3>1. packet[w] \in Word
      BY <1>1, <1>2, <2>1
    <3> QED
      BY <3>1 DEF Word
  <2> QED
    BY <2>2, <2>3, <2>4, Zenon
<1>6. CASE q + n <= L
  <2>1. q + n \in E
    <3>1. q + n \in q + 1 .. L /\ q + n <= q + n
      BY <1>2, <1>6
    <3> QED
      BY <1>5, <3>1, Zenon
  <2>2. \A w \in E : q + n <= w
    <3>1. ASSUME NEW w \in E, w < q + n
          PROVE  FALSE
      <4>1. w \in q + 1 .. L /\ packet[w].nul /\ w <= q + n /\ w # q + n
        BY <1>2, <3>1
      <4> QED
        BY <1>5, <4>1, Zenon
    <3> QED
      BY <1>2, <3>1
  <2>3. Min(E) = q + n
    <3>1. \A x \in E : (\A y \in E : x <= y) => x = q + n
      <4>1. \A x \in E : x \in Nat
        BY <1>1
      <4> HIDE DEF E
      <4> QED
        BY <1>2, <2>1, <2>2, <4>1
    <3> HIDE DEF E
    <3> QED
      BY <2>1, <2>2, <3>1 DEF Min
  <2>4. E # {}
    BY <2>1
  <2> HIDE DEF E
  <2>5. StrBytes(4 * q) = 4 * (q + n) - 4 * q
    BY <1>4, <2>3, <2>4
  <2>6. 4 * (q + n) - 4 * q = 4 * n
    BY <1>2
  <2> QED
    BY <1>1, <1>2, <1>6, <2>5, <2>6
<1>7. CASE q + n > L
  <2>1. E = {}
    <3>1. ASSUME NEW w \in E
          PROVE  FALSE
      <4>1. w \in q + 1 .. L /\ packet[w].nul /\ w <= q + n /\ w # q + n
        BY <1>2, <1>7, <3>1
      <4> QED
        BY <1>5, <4>1, Zenon
    <3> QED
      BY <3>1
  <2> HIDE DEF E
  <2> QED
    BY <1>1, <1>2, <1>4, <1>7, <2>1
<1> QED
  BY <1>1, <1>2, <1>6, <1>7
-----------------------------------------------------------------------------
(* What the receiver is to read. *)
Item == [tag : TypeTags \cup {"message"}, n : Int]

TagsOf(m) == [i \in DOMAIN m.args |-> m.args[i].tag]

ValueOf(m, i) ==
  CASE m.args[i].tag \in NoData  -> 0
    [] m.args[i].tag \in Strings -> ROUND32(m.args[i].n + 1)
    [] m.args[i].tag = "b"       -> 4 * Place(m, i - 1) + 4
    [] OTHER                     -> m.args[i].n

LEMMA TagsType ==
  ASSUME NEW m \in Message
  PROVE  /\ TagsOf(m) \in Seq(TypeTags) /\ Len(TagsOf(m)) = Len(m.args) /\ Len(m.args) \in Nat
         /\ \A i \in 1 .. Len(m.args) : TagsOf(m)[i] = m.args[i].tag /\ m.args[i] \in Argument
<1>1. m.args \in Seq(Argument)
  BY DEF Message
<1>2. Len(m.args) \in Nat /\ DOMAIN m.args = 1 .. Len(m.args)
      /\ \A i \in 1 .. Len(m.args) : m.args[i] \in Argument
  BY <1>1
<1>3. \A i \in 1 .. Len(m.args) : m.args[i].tag \in TypeTags
  BY <1>2, ArgumentType
<1>4. TagsOf(m) = [i \in 1 .. Len(m.args) |-> m.args[i].tag]
  BY <1>2 DEF TagsOf
<1> QED
  BY <1>2, <1>3, <1>4

LEMMA ValueType ==
  ASSUME NEW m \in Message, AllKnown(m), NEW i \in 1 .. Len(m.args)
  PROVE  /\ ValueOf(m, i) \in Int
         /\ [tag |-> m.args[i].tag, n |-> ValueOf(m, i)] \in Item
<1>1. PICK a \in Argument : a = m.args[i]
  BY TagsType
<1>2. a.n \in Int /\ a.tag \in TypeTags
  BY ArgumentType
<1>3. PICK r \in Int : r = ROUND32(a.n + 1)
  BY <1>2 DEF ROUND32
<1>4. PICK p \in Int : p = 4 * Place(m, i - 1) + 4
  <2>1. i - 1 \in 0 .. Len(m.args) - 1
    BY TagsType
  <2>2. PICK k \in Nat : k = Place(m, i - 1)
    BY <2>1, ArgAt
  <2>3. 4 * k + 4 \in Int
    OBVIOUS
  <2> QED
    BY <2>2, <2>3
<1>5. ValueOf(m, i) \in Int
  <2>1. CASE a.tag \in NoData
    <3>1. a.tag \notin Strings /\ a.tag # "b"
      BY <2>1 DEF NoData, Strings
    <3>2. ValueOf(m, i) = 0
      BY <1>1, <2>1, <3>1, Zenon DEF ValueOf
    <3> QED
      BY <3>2
  <2>2. CASE a.tag \in Strings
    <3>1. a.tag \notin NoData /\ a.tag # "b"
      BY <2>2 DEF NoData, Strings
    <3> QED
      BY <1>1, <1>3, <2>2, <3>1, Zenon DEF ValueOf
  <2>3. CASE a.tag = "b"
    <3>1. a.tag \notin NoData /\ a.tag \notin Strings
      BY <2>3 DEF NoData, Strings
    <3> QED
      BY <1>1, <1>4, <2>3, <3>1, Zenon DEF ValueOf
  <2>4. CASE a.tag \notin NoData /\ a.tag \notin Strings /\ a.tag # "b"
    BY <1>1, <1>2, <2>4, Zenon DEF ValueOf
  <2> QED
    BY <2>1, <2>2, <2>3, <2>4
<1> QED
  BY <1>1, <1>2, <1>5 DEF Item

LEMMA ReadOfType ==
  ASSUME NEW m \in Message, AllKnown(m)
  PROVE  /\ ReadOf(m) \in Seq(Item) /\ Len(ReadOf(m)) = Len(m.args) + 1
         /\ ReadOf(m)[1] = [tag |-> "message", n |-> 4 * Len(Text(m.address))]
         /\ \A i \in 1 .. Len(m.args) :
              ReadOf(m)[i + 1] = [tag |-> m.args[i].tag, n |-> ValueOf(m, i)]
<1>1. m.address \in Nat /\ m.args \in Seq(Argument)
  BY DEF Message
<1>2. 4 * Len(Text(m.address)) = ROUND32(m.address + 1) /\ 4 * Len(Text(m.address)) \in Int
  <2>1. PICK t \in Seq(Word) : t = Text(m.address)
    BY <1>1, TextWords
  <2>2. 4 * Len(t) \in Int
    OBVIOUS
  <2> QED
    BY <1>1, <2>1, <2>2, TextWords
<1>3. PICK v : v = [tag |-> "message", n |-> ROUND32(m.address + 1)]
  OBVIOUS
<1>4. v \in Item
  BY <1>2, <1>3 DEF Item
<1>5. PICK r : r = [i \in DOMAIN m.args |-> [tag |-> m.args[i].tag, n |-> ValueOf(m, i)]]
  OBVIOUS
<1>6. /\ r \in Seq(Item) /\ Len(r) = Len(m.args) /\ Len(m.args) \in Nat
      /\ \A i \in 1 .. Len(m.args) : r[i] = [tag |-> m.args[i].tag, n |-> ValueOf(m, i)]
  <2>1. DOMAIN m.args = 1 .. Len(m.args) /\ Len(m.args) \in Nat
    BY <1>1
  <2>2. \A i \in 1 .. Len(m.args) : [tag |-> m.args[i].tag, n |-> ValueOf(m, i)] \in Item
    BY ValueType
  <2> QED
    BY <1>5, <2>1, <2>2
<1>7. ReadOf(m) = <<v>> \o r
  BY <1>3, <1>5, Zenon DEF ReadOf, ValueOf
<1>8. <<v>> \in Seq(Item) /\ Len(<<v>>) = 1 /\ <<v>>[1] = v
  BY <1>4
<1>9. PICK u \in Seq(Item) : u = <<v>>
  BY <1>8
<1>10. /\ u \o r \in Seq(Item) /\ Len(u \o r) = 1 + Len(r) /\ (u \o r)[1] = v
       /\ \A i \in 1 .. Len(r) : (u \o r)[i + 1] = r[i]
  BY <1>6, <1>8, <1>9
<1>11. ReadOf(m) = u \o r
  BY <1>7, <1>9
<1> QED
  BY <1>2, <1>3, <1>6, <1>10, <1>11
-----------------------------------------------------------------------------
(* The packet holds the message m behind b words, and may have lost the last. *)
Holds(m, b) ==
  /\ packet \in Seq(Word)
  /\ b + Len(Encoded(m)) - 1 <= Len(packet) /\ Len(packet) <= b + Len(Encoded(m))
  /\ \A w \in 1 .. Len(Encoded(m)) : b + w <= Len(packet) => packet[b + w] = Encoded(m)[w]
  /\ len = 4 * (b + Len(Encoded(m))) /\ len <= MaxInt32
  /\ IsBundle <=> b = 5

SizeConverted(m) == packet[5].n = Bytes(Encoded(m))

Done(m) == IsPrefix(got, ReadOf(m)) /\ (Whole => got = ReadOf(m))

(* The receiver has read k arguments. *)
ArgsAt(m, b, k) ==
  /\ got = SubSeq(ReadOf(m), 1, k + 1)
  /\ tags = SubSeq(TagsOf(m), k + 1, Len(m.args))
  /\ arg_ptr = 4 * (b + Place(m, k)) /\ b + Place(m, k) <= Len(packet)

Untyped(m) == tags = NULL /\ ~Whole /\ got = SubSeq(ReadOf(m), 1, 1)

Reading(m, b) ==
  /\ Holds(m, b)
  /\ phase \in {"init", "messages", "args", "end", "error"}
  /\ phase = "init" =>
       /\ got = << >> /\ msg_end = NULL
       /\ b = 5 => \/ msg_start = 20 /\ packet[5] = IntWord(Bytes(Encoded(m)))
                   \/ msg_start = len /\ SizeConverted(m)
  /\ phase = "messages" =>
       \/ msg_end = NULL /\ got = << >> /\ (b = 5 => Whole /\ SizeConverted(m))
       \/ msg_end = PacketLen /\ Done(m)
  /\ phase = "args" =>
       /\ msg_ptr = 4 * b /\ msg_end = PacketLen
       /\ Untyped(m) \/ \E k \in 0 .. Len(m.args) : ArgsAt(m, b, k)
  /\ phase = "end" => Done(m)
  /\ phase = "error" => /\ IsPrefix(got, ReadOf(m))
                        /\ Whole => got = ReadOf(m) /\ ~char_signed

ReadingInv ==
  /\ phase = "none" => got = << >> /\ msg_end = NULL
  /\ phase # "none" /\ One => \E b \in {0, 5} : Reading(written[1], b)

LEMMA HoldsSame ==
  ASSUME NEW m, NEW b, Holds(m, b), UNCHANGED <<packet, len>>
  PROVE  Holds(m, b)'
  BY DEF Holds, IsBundle, At

(* The words that a packet gets, and the last it loses. *)
LEMMA SentWords ==
  ASSUME NEW ws \in Seq(Word), Len(ws) >= 2, Begins(ws), len = 4 * Len(ws), NEW lost \in 0 .. 1,
         packet' = [w \in 1 .. Max({len \div 4 - lost, 1}) |-> data[w - 1]]
  PROVE  /\ packet' \in Seq(Word) /\ Len(packet') = Len(ws) - lost
         /\ \A w \in 1 .. Len(ws) - lost : packet'[w] = ws[w]
<1>1. PICK n \in Nat : n = Len(ws) /\ n >= 2
  OBVIOUS
<1>2. len \div 4 = n
  BY <1>1
<1>3. PICK k \in Nat : k = n - lost /\ k >= 1 /\ k <= n
  BY <1>1
<1>4. Max({k, 1}) = k
  <2>1. k \in {k, 1} /\ \A y \in {k, 1} : k >= y
    BY <1>3
  <2>2. \A x \in {k, 1} : (\A y \in {k, 1} : x >= y) => x = k
    BY <1>3
  <2> QED
    BY <2>1, <2>2 DEF Max
<1>5. packet' = [w \in 1 .. k |-> data[w - 1]]
  BY <1>2, <1>3, <1>4
<1>6. \A w \in 1 .. k : data[w - 1] = ws[w] /\ ws[w] \in Word
  BY <1>1, <1>3 DEF Begins
<1>7. packet' = [w \in 1 .. k |-> ws[w]]
  BY <1>5, <1>6
<1>8. packet' \in Seq(Word) /\ Len(packet') = k
  <2>1. \A f : f = [w \in 1 .. k |-> ws[w]] => f \in Seq(Word) /\ Len(f) = k
    BY <1>3, <1>6
  <2> QED
    BY <1>7, <2>1
<1> QED
  BY <1>1, <1>3, <1>7, <1>8
-----------------------------------------------------------------------------
(* The one message that has been written. *)
LEMMA OneMessage ==
  ASSUME BundleInv, One
  PROVE  \E m \in Message : written = <<m>> /\ written[1] = m /\ AllKnown(m)
<1>1. written \in Seq(Message) /\ Len(written) = 1 /\ AllKnown(written[1])
  BY DEF BundleInv, Shape, One
<1>2. PICK m \in Message : m = written[1]
  BY <1>1
<1>3. \A s \in Seq(Message) : Len(s) = 1 => s = <<s[1]>>
  OBVIOUS
<1> QED
  BY <1>1, <1>2, <1>3

(* What is sent is a message, alone or in a bundle of its own. *)
LEMMA SendStep ==
  ASSUME BundleInv, ReadingInv, One, Send
  PROVE  \E b \in {0, 5} : Reading(written[1], b)'
<1>1. PICK m \in Message : written = <<m>> /\ written[1] = m /\ AllKnown(m)
  BY OneMessage
<1>2. PICK x \in Seq(Word) : x = Encoded(m) /\ Len(x) >= 2
  BY EncodedWords
<1>3. PICK n \in Nat : n = Len(x) /\ n >= 2
  BY <1>2
<1>4. PICK lost \in 0 .. 1 : packet' = [w \in 1 .. Max({len \div 4 - lost, 1}) |-> data[w - 1]]
  BY DEF Send
<1>5. /\ phase = "none" /\ len > 0 /\ phase' = "init" /\ msg_start' = 20
      /\ got' = << >> /\ msg_end' = NULL /\ written' = written /\ len' = len
  BY DEF Send, ReadingInv, wvars
<1>6. ~spoiled /\ buffer_end \in 0 .. MaxInt32
  BY DEF One, BundleInv, Shape
<1>7. CASE buffer_pos = 0
  <2>1. PICK z \in Message : written = <<z>> /\ len = Bytes(Encoded(z)) /\ Begins(Encoded(z))
    BY <1>5, <1>7 DEF BundleInv, Contents
  <2>2. z = m
    <3>1. <<z>>[1] = z
      OBVIOUS
    <3> QED
      BY <1>1, <2>1, <3>1
  <2>3. len = 4 * n /\ Begins(x)
    BY <1>2, <1>3, <2>1, <2>2 DEF Bytes
  <2>4. len <= MaxInt32
    <3>1. len <= buffer_end
      BY <1>5, <1>7 DEF BundleInv, Contents
    <3> QED
      BY <1>3, <1>6, <2>3, <3>1, MaxIsNat
  <2>5. /\ packet' \in Seq(Word) /\ Len(packet') = n - lost
        /\ \A w \in 1 .. n - lost : packet'[w] = x[w]
    BY <1>2, <1>3, <1>4, <2>3, SentWords
  <2>6. IsBundle' <=> FALSE
    <3>1. x[1] = Text(m.address)[1] /\ Text(m.address)[1].tags = << >>
      <4>1. m.address \in Nat
        BY DEF Message
      <4>2. PICK t \in Seq(Word) : t = Text(m.address) /\ Len(t) >= 1 /\ t[1].tags = << >>
        BY <4>1, TextWords
      <4>3. 1 \in 1 .. Len(t)
        BY <4>2
      <4> QED
        BY <1>1, <1>2, <4>2, <4>3, FrontAt
    <3>2. packet'[1] = x[1]
      BY <1>3, <2>5
    <3>3. 0 \div 4 + 1 = 1
      OBVIOUS
    <3>4. packet'[1].tags = << >>
      BY <3>1, <3>2
    <3>5. IsBundle' <=> packet'[1].tags = <<"#">>
      BY <3>3, Zenon DEF IsBundle, At
    <3> QED
      BY <3>4, <3>5, OneIsNotEmpty, Zenon
  <2>7. Holds(m, 0)'
    <3>1. 0 + n - 1 <= Len(packet') /\ Len(packet') <= 0 + n
      BY <1>3, <2>5
    <3>2. \A w \in 1 .. n : 0 + w <= Len(packet') => packet'[0 + w] = x[w]
      BY <1>3, <2>5
    <3>3. len' = 4 * (0 + n) /\ len' <= MaxInt32
      BY <1>3, <1>5, <2>3, <2>4
    <3> QED
      BY <1>2, <1>3, <2>5, <2>6, <3>1, <3>2, <3>3 DEF Holds
  <2>8. Reading(m, 0)'
    BY <1>5, <2>7 DEF Reading
  <2> QED
    BY <1>1, <1>5, <2>8
<1>8. CASE buffer_pos # 0
  <2>1. len = Bytes(PacketOf(written)) /\ Begins(PacketOf(written)) /\ buffer_pos >= len
    BY <1>5, <1>6, <1>8 DEF BundleInv, Contents
  <2>2. PICK h \in Seq(Word) : h = Header /\ Len(h) = 4 /\ h[1] = Header[1]
    BY HeaderWords, Zenon
  <2>3. PICK v \in Seq(Word) : /\ v = Element(m) /\ Len(v) = n + 1
                               /\ v[1] = IntWord(Bytes(x)) /\ \A w \in 1 .. n : v[w + 1] = x[w]
    BY <1>2, <1>3, ElementWords
  <2>4. PacketOf(written) = h \o v
    <3>1. << >> \in Seq(Message) /\ Append(<< >>, m) = <<m>>
      BY AppendOfTuples
    <3>2. PacketOf(Append(<< >>, m)) = PacketOf(<< >>) \o Element(m)
      BY <3>1, PacketGrows
    <3> QED
      BY <1>1, <2>2, <2>3, <3>1, <3>2, PacketOfNone
  <2>5. PICK y \in Seq(Word) : /\ y = h \o v /\ Len(y) = n + 5
                               /\ y[1] = h[1] /\ y[5] = v[1]
                               /\ \A w \in 1 .. n : y[5 + w] = x[w]
    <3>1. /\ h \o v \in Seq(Word) /\ Len(h \o v) = 4 + (n + 1)
          /\ \A w \in 1 .. 4 : (h \o v)[w] = h[w]
          /\ \A w \in 1 .. n + 1 : (h \o v)[4 + w] = v[w]
      <4>1. /\ h \o v \in Seq(Word) /\ Len(h \o v) = Len(h) + Len(v)
            /\ \A w \in 1 .. Len(h) : (h \o v)[w] = h[w]
            /\ \A w \in 1 .. Len(v) : (h \o v)[Len(h) + w] = v[w]
        BY TwoParts
      <4> QED
        BY <2>2, <2>3, <4>1
    <3>2. (h \o v)[1] = h[1] /\ (h \o v)[5] = v[1]
      <4>1. 1 \in 1 .. 4 /\ 1 \in 1 .. n + 1 /\ 4 + 1 = 5
        BY <1>3
      <4> QED
        BY <3>1, <4>1
    <3>3. ASSUME NEW w \in 1 .. n
          PROVE  (h \o v)[5 + w] = x[w]
      <4>1. w + 1 \in 1 .. n + 1 /\ 4 + (w + 1) = 5 + w
        BY <1>3
      <4> QED
        BY <2>3, <3>1, <4>1
    <3>4. 4 + (n + 1) = n + 5
      BY <1>3
    <3> QED
      BY <3>1, <3>2, <3>3, <3>4
  <2>6. len = 4 * (n + 5) /\ Begins(y)
    BY <2>1, <2>4, <2>5 DEF Bytes
  <2>7. len <= MaxInt32
    <3>1. buffer_pos \in 0 .. buffer_end
      BY <1>5 DEF BundleInv, Shape
    <3> QED
      BY <1>3, <1>6, <2>1, <2>6, <3>1, MaxIsNat
  <2>8. /\ packet' \in Seq(Word) /\ Len(packet') = (n + 5) - lost
        /\ \A w \in 1 .. (n + 5) - lost : packet'[w] = y[w]
    <3>1. Len(y) >= 2 /\ len = 4 * Len(y)
      BY <1>3, <2>5, <2>6
    <3>2. /\ packet' \in Seq(Word) /\ Len(packet') = Len(y) - lost
          /\ \A w \in 1 .. Len(y) - lost : packet'[w] = y[w]
      BY <1>4, <2>6, <3>1, SentWords
    <3> QED
      BY <2>5, <3>2
  <2>9. packet'[1] = h[1] /\ packet'[5] = v[1]
    <3>1. 1 \in 1 .. (n + 5) - lost /\ 5 \in 1 .. (n + 5) - lost
      BY <1>3
    <3> QED
      BY <2>5, <2>8, <3>1
  <2>10. IsBundle' <=> TRUE
    <3>1. 0 \div 4 + 1 = 1
      OBVIOUS
    <3>2. IsBundle' <=> packet'[1].tags = <<"#">>
      BY <3>1, Zenon DEF IsBundle, At
    <3> QED
      BY <2>2, <2>9, <3>2, HeaderWords, Zenon
  <2>11. Holds(m, 5)'
    <3>1. 5 + n - 1 <= Len(packet') /\ Len(packet') <= 5 + n
      BY <1>3, <2>8
    <3>2. ASSUME NEW w \in 1 .. n, 5 + w <= Len(packet')
          PROVE  packet'[5 + w] = x[w]
      <4>1. 5 + w \in 1 .. (n + 5) - lost
        BY <1>3, <2>8, <3>2
      <4> QED
        BY <2>5, <2>8, <4>1
    <3>3. len' = 4 * (5 + n) /\ len' <= MaxInt32
      BY <1>3, <1>5, <2>6, <2>7
    <3> QED
      BY <1>2, <1>3, <2>8, <2>10, <3>1, <3>2, <3>3 DEF Holds
  <2>12. Reading(m, 5)'
    BY <1>2, <1>5, <2>3, <2>9, <2>11 DEF Reading
  <2> QED
    BY <1>1, <1>5, <2>12
<1> QED
  BY <1>7, <1>8

(* osc_reader_init: a bundle's size, and then the end of the packet or behind it. *)
LEMMA SizeInPlace ==
  ASSUME NEW m \in Message, Holds(m, 5)
  PROVE  /\ Len(Encoded(m)) \in Nat /\ Len(Encoded(m)) >= 2
         /\ Len(packet) \in Nat /\ Len(packet) >= 6 /\ PacketLen = 4 * Len(packet)
         /\ Bytes(Encoded(m)) \in Int /\ len = 20 + Bytes(Encoded(m)) /\ len >= PacketLen
         /\ osc_ntoh32(osc_hton32(Bytes(Encoded(m)))) = Bytes(Encoded(m))
<1>1. PICK n \in Nat : n = Len(Encoded(m)) /\ n >= 2
  BY EncodedWords
<1>2. PICK L \in Nat : L = Len(packet)
  BY DEF Holds
<1>3. 5 + n - 1 <= L /\ L <= 5 + n /\ len = 4 * (5 + n) /\ len <= MaxInt32
  BY <1>1, <1>2 DEF Holds
<1>4. 4 * n \in Int32s
  <2>1. PICK k \in Nat : k = MaxInt32
    BY MaxIsNat
  <2>2. 4 * n <= k
    BY <1>3, <2>1
  <2> QED
    BY <2>1, <2>2 DEF Int32s
<1>5. osc_ntoh32(osc_hton32(4 * n)) = 4 * n
  BY <1>4, OrderBack
<1>6. Bytes(Encoded(m)) = 4 * n
  BY <1>1 DEF Bytes
<1>7. L >= 6 /\ len = 20 + 4 * n /\ len >= 4 * L /\ 4 * n \in Int
  BY <1>1, <1>3
<1> QED
  BY <1>1, <1>2, <1>5, <1>6, <1>7 DEF PacketLen

LEMMA ConvertStep ==
  ASSUME NEW m \in Message, NEW b \in {0, 5}, Reading(m, b), ConvertSize, UNCHANGED wvars
  PROVE  Reading(m, b)' /\ phase' = "init" /\ ~(msg_start' < PacketLen')
<1>1. /\ phase = "init" /\ b = 5 /\ Holds(m, 5) /\ msg_start < PacketLen
      /\ got = << >> /\ msg_end = NULL /\ got' = got /\ msg_end' = msg_end /\ len' = len
  BY DEF ConvertSize, Reading, Holds, wvars
<1>2. PICK n \in Int : n = Bytes(Encoded(m))
  BY <1>1, SizeInPlace
<1>3. PICK L \in Nat : L = Len(packet) /\ L >= 6 /\ PacketLen = 4 * L /\ len = 20 + n /\ len >= 4 * L
  BY <1>1, <1>2, SizeInPlace
<1>4. msg_start = 20 /\ packet[5] = IntWord(n)
  BY <1>1, <1>2, <1>3 DEF Reading
<1>5. Aligned(msg_start - 4) /\ (msg_start - 4) \div 4 + 1 = 5
  <2>1. msg_start - 4 = 16
    BY <1>4
  <2>2. 16 % 4 = 0 /\ 16 >= 0 /\ 16 < 4 * L /\ 16 \div 4 + 1 = 5
    BY <1>3
  <2> QED
    BY <1>3, <2>1, <2>2 DEF Aligned
<1>6. osc_ntoh32(At(msg_start - 4).n) = n
  <2>1. At(msg_start - 4) = IntWord(n)
    BY <1>4, <1>5 DEF At
  <2>2. IntWord(n).n = osc_hton32(n)
    BY DEF IntWord
  <2> QED
    BY <1>1, <1>2, <2>1, <2>2, SizeInPlace
<1>7. packet' = [packet EXCEPT ![5].n = n] /\ msg_start' = msg_start + n /\ phase' = phase
  BY <1>5, <1>6 DEF ConvertSize
<1>8. /\ packet' \in Seq(Word) /\ Len(packet') = L /\ packet'[5].n = n /\ packet'[1] = packet[1]
      /\ \A w \in 1 .. L : w # 5 => packet'[w] = packet[w]
  <2>1. packet \in Seq(Word) /\ 5 \in 1 .. L /\ 1 \in 1 .. L
    BY <1>1, <1>3 DEF Holds
  <2>2. packet[5] \in Word
    BY <1>3, <2>1
  <2>3. PICK v \in Word : v = [packet[5] EXCEPT !.n = n] /\ v.n = n
    <3>1. \A u \in Word : [u EXCEPT !.n = n] \in Word /\ [u EXCEPT !.n = n].n = n
      BY <1>2 DEF Word
    <3> QED
      BY <2>2, <3>1
  <2>4. packet' = [packet EXCEPT ![5] = v]
    BY <1>7, <2>3
  <2> QED
    BY <1>3, <2>1, <2>3, <2>4
<1>9. IsBundle'
  <2>1. IsBundle
    BY DEF ConvertSize
  <2>2. 0 \div 4 + 1 = 1
    OBVIOUS
  <2>3. IsBundle <=> packet[1].tags = <<"#">>
    BY <2>2, Zenon DEF IsBundle, At
  <2>4. IsBundle' <=> packet'[1].tags = <<"#">>
    BY <2>2, Zenon DEF IsBundle, At
  <2> QED
    BY <1>8, <2>1, <2>3, <2>4, Zenon
<1>10. Holds(m, 5)'
  <2>1. PICK k \in Nat : k = Len(Encoded(m))
    BY EncodedWords
  <2>2. ASSUME NEW w \in 1 .. k, 5 + w <= L
        PROVE  packet'[5 + w] = Encoded(m)[w]
    <3>1. 5 + w \in 1 .. L /\ 5 + w # 5
      BY <2>1, <2>2
    <3>2. packet[5 + w] = Encoded(m)[w]
      BY <1>1, <1>3, <2>1, <2>2 DEF Holds
    <3> QED
      BY <1>8, <3>1, <3>2
  <2> QED
    BY <1>1, <1>3, <1>8, <1>9, <2>1, <2>2 DEF Holds
<1>11. msg_start' = len' /\ SizeConverted(m)'
  BY <1>1, <1>2, <1>3, <1>4, <1>7, <1>8 DEF SizeConverted
<1>12. ~(msg_start' < PacketLen')
  BY <1>1, <1>3, <1>8, <1>11 DEF PacketLen
<1> QED
  BY <1>1, <1>7, <1>10, <1>11, <1>12 DEF Reading

LEMMA InitReturnsStep ==
  ASSUME NEW m \in Message, AllKnown(m), NEW b \in {0, 5}, Reading(m, b), InitReturns,
         UNCHANGED wvars
  PROVE  Reading(m, b)'
<1>1. /\ phase = "init" /\ got = << >> /\ msg_end = NULL /\ Holds(m, b)
      /\ UNCHANGED <<packet, len, got, msg_end>>
  BY DEF InitReturns, Reading, wvars
<1>2. Holds(m, b)'
  BY <1>1, HoldsSame
<1>3. IsPrefix(<< >>, ReadOf(m))
  BY ReadOfType, PrefixFacts
<1>4. CASE b = 0
  <2>1. phase' = "messages"
    BY <1>1, <1>4 DEF InitReturns, Holds
  <2> QED
    BY <1>1, <1>2, <1>4, <2>1 DEF Reading
<1>5. CASE b = 5
  <2>1. IsBundle /\ msg_start >= PacketLen
    BY <1>1, <1>5 DEF InitReturns, Holds
  <2>2. PICK L \in Nat : L >= 6 /\ PacketLen = 4 * L
    BY <1>1, <1>5, SizeInPlace
  <2>3. msg_start = len /\ SizeConverted(m)
    BY <1>1, <1>5, <2>1, <2>2 DEF Reading
  <2>4. Whole' <=> Whole
    BY <1>1 DEF Whole, PacketLen
  <2>5. CASE Whole
    <3>1. phase' = "messages"
      BY <2>1, <2>3, <2>5 DEF InitReturns, Whole
    <3>2. SizeConverted(m)'
      BY <1>1, <2>3 DEF SizeConverted
    <3> QED
      BY <1>1, <1>2, <2>4, <2>5, <3>1, <3>2 DEF Reading
  <2>6. CASE ~Whole
    <3>1. phase' = "error"
      BY <2>1, <2>3, <2>6 DEF InitReturns, Whole
    <3> QED
      BY <1>1, <1>2, <1>3, <2>4, <2>6, <3>1 DEF Reading
  <2> QED
    BY <2>5, <2>6
<1> QED
  BY <1>4, <1>5
-----------------------------------------------------------------------------
LEMMA PacketLenType ==
  ASSUME NEW m, NEW b, Holds(m, b)
  PROVE  Len(packet) \in Nat /\ PacketLen = 4 * Len(packet) /\ PacketLen \in Int /\ PacketLen # NULL
<1>1. PICK L \in Nat : L = Len(packet)
  BY DEF Holds
<1>2. 4 * L \in Int
  OBVIOUS
<1> QED
  BY <1>1, <1>2, IdeasAssumption DEF PacketLen

(* osc_reader_start_msg finds one message, and then none. *)
LEMMA NextOfOne ==
  ASSUME NEW m, NEW b \in {0, 5}, Holds(m, b)
  PROVE  /\ msg_end = NULL => NextMsgPtr = 4 * b /\ NextMsgPtr # NULL
         /\ msg_end = PacketLen => NextMsgPtr = NULL
<1>1. IsBundle <=> b = 5
  BY DEF Holds
<1>2. 0 # NULL /\ 20 # NULL /\ PacketLen # NULL
  BY IdeasAssumption, PacketLenType
<1>3. b = 0 \/ b = 5
  OBVIOUS
<1>4. CASE b = 5
  BY <1>1, <1>2, <1>4 DEF NextMsgPtr
<1>5. CASE b = 0
  BY <1>1, <1>2, <1>5 DEF NextMsgPtr
<1> QED
  BY <1>3, <1>4, <1>5

LEMMA StartMsgEndStep ==
  ASSUME NEW m \in Message, NEW b \in {0, 5}, Reading(m, b), StartMsgEnd, UNCHANGED wvars
  PROVE  Reading(m, b)'
<1>1. /\ phase = "messages" /\ Holds(m, b) /\ NextMsgPtr = NULL /\ phase' = "end"
      /\ UNCHANGED <<packet, len, got, msg_end>>
  BY DEF StartMsgEnd, Reading, wvars
<1>2. Holds(m, b)'
  BY <1>1, HoldsSame
<1>3. Done(m)
  BY <1>1, NextOfOne DEF Reading
<1>4. Done(m)'
  BY <1>1, <1>3 DEF Done, Whole, PacketLen
<1> QED
  BY <1>1, <1>2, <1>4 DEF Reading

LEMMA WholeIs ==
  ASSUME NEW m \in Message, NEW b \in {0, 5}, Holds(m, b)
  PROVE  Whole <=> Len(packet) = b + Len(Encoded(m))
<1>1. PICK n \in Nat : n = Len(Encoded(m))
  BY EncodedWords
<1>2. PICK L \in Nat : L = Len(packet) /\ PacketLen = 4 * L
  BY PacketLenType
<1>3. len = 4 * (b + n)
  BY <1>1 DEF Holds
<1> QED
  BY <1>1, <1>2, <1>3 DEF Whole

(* The address and the tags of the message, where they are whole. *)
LEMMA FrontRead ==
  ASSUME NEW m \in Message, AllKnown(m), NEW b \in {0, 5}, Holds(m, b)
  PROVE  LET L  == Len(packet)
             q  == b + Len(Text(m.address))
         IN /\ q \in Nat /\ q <= L /\ Len(Types(m.args)) \in Nat /\ Len(Types(m.args)) >= 1
            /\ StrBytes(4 * b) = 4 * Len(Text(m.address)) /\ 4 * b + StrBytes(4 * b) = 4 * q
            /\ L < q + Len(Types(m.args)) => ~Whole
            /\ q < L => /\ At(4 * q).tags = <<",">> \o TagsOf(m)
                        /\ q + Len(Types(m.args)) <= L => StrBytes(4 * q) = 4 * Len(Types(m.args))
                        /\ L < q + Len(Types(m.args)) => StrBytes(4 * q) = PacketLen - 4 * q + 4
<1>1. m.address \in Nat /\ m.args \in Seq(Argument)
  BY DEF Message
<1>2. PICK t \in Seq(Word) : /\ t = Text(m.address) /\ Len(t) >= 1
                             /\ \A w \in 1 .. Len(t) : t[w].nul = (w = Len(t))
  BY <1>1, TextWords
<1>3. PICK y \in Seq(Word) : /\ y = Types(m.args) /\ Len(y) >= 1
                             /\ \A w \in 1 .. Len(y) : y[w].nul = (w = Len(y))
  BY <1>1, TypesWords
<1>4. PICK x \in Seq(Word) : x = Encoded(m)
  BY EncodedWords
<1>5. PICK lt \in Nat : lt = Len(t) /\ lt >= 1
  BY <1>2
<1>6. PICK ly \in Nat : ly = Len(y) /\ ly >= 1
  BY <1>3
<1>7. PICK n \in Nat : n = Len(x)
  OBVIOUS
<1>8. PICK L \in Nat : L = Len(packet) /\ PacketLen = 4 * L
  BY PacketLenType
<1>9. /\ n >= lt + ly
      /\ \A w \in 1 .. lt : x[w] = t[w]
      /\ \A w \in 1 .. ly : x[lt + w] = y[w]
  BY <1>2, <1>3, <1>4, <1>5, <1>6, <1>7, FrontAt
<1>10. /\ packet \in Seq(Word) /\ b + n - 1 <= L /\ L <= b + n
       /\ \A w \in 1 .. n : b + w <= L => packet[b + w] = x[w]
  BY <1>4, <1>7, <1>8 DEF Holds
<1>11. PICK q \in Nat : q = b + lt
  OBVIOUS
<1>12. q <= L /\ b \in Nat /\ b <= L /\ q + ly <= L + 1
  BY <1>5, <1>6, <1>9, <1>10, <1>11
<1>13. ASSUME NEW w \in 1 .. lt, b + w <= L
       PROVE  packet[b + w] = t[w]
  <2>1. w \in 1 .. n
    BY <1>5, <1>6, <1>9
  <2> QED
    BY <1>9, <1>10, <1>13, <2>1
<1>14. ASSUME NEW w \in 1 .. ly, q + w <= L
       PROVE  packet[q + w] = y[w]
  <2>1. lt + w \in 1 .. n /\ b + (lt + w) = q + w
    BY <1>5, <1>6, <1>9, <1>11
  <2>2. packet[b + (lt + w)] = x[lt + w]
    BY <1>10, <1>14, <2>1
  <2> QED
    BY <1>9, <2>1, <2>2
<1>15. StrBytes(4 * b) = 4 * lt
  <2>1. b + Len(t) <= Len(packet) /\ b + Len(t) <= Len(packet) + 1 /\ b <= Len(packet)
    BY <1>5, <1>8, <1>11, <1>12
  <2>2. \A w \in 1 .. Len(t) : b + w <= Len(packet) => packet[b + w] = t[w]
    BY <1>5, <1>8, <1>13
  <2> QED
    BY <1>2, <1>5, <1>10, <1>12, <2>1, <2>2, StrBytesAt
<1>16. /\ q + ly <= L => StrBytes(4 * q) = 4 * ly
       /\ q + ly > L => StrBytes(4 * q) = PacketLen - 4 * q + 4
  <2>1. q + Len(y) <= Len(packet) + 1 /\ q <= Len(packet)
    BY <1>6, <1>8, <1>12
  <2>2. \A w \in 1 .. Len(y) : q + w <= Len(packet) => packet[q + w] = y[w]
    BY <1>6, <1>8, <1>14
  <2> QED
    BY <1>3, <1>6, <1>8, <1>10, <2>1, <2>2, StrBytesAt
<1>17. q < L => At(4 * q).tags = <<",">> \o TagsOf(m)
  <2>1. ASSUME q < L
        PROVE  At(4 * q) = y[1]
    <3>1. (4 * q) \div 4 + 1 = q + 1
      BY SMT
    <3>2. 1 \in 1 .. ly /\ q + 1 <= L
      BY <1>6, <1>8, <2>1
    <3>3. packet[q + 1] = y[1]
      BY <1>14, <3>2
    <3> QED
      BY <3>1, <3>3 DEF At
  <2>2. y[1].tags = <<",">> \o TagsOf(m)
    BY <1>1, <1>3, TypesWords, Zenon DEF TagsOf
  <2> QED
    BY <2>1, <2>2, Zenon
<1>18. L < q + ly => ~Whole
  <2>1. Whole => L = b + n
    BY <1>4, <1>7, <1>8, WholeIs
  <2> QED
    BY <1>5, <1>6, <1>9, <1>11, <2>1
<1>19. 4 * b + 4 * lt = 4 * q /\ b + lt \in Nat
  BY <1>11
<1>20. q + ly > L <=> L < q + ly
  OBVIOUS
<1>21. Len(packet) = L /\ Len(Text(m.address)) = lt /\ Len(Types(m.args)) = ly /\ b + lt = q
  BY <1>2, <1>3, <1>5, <1>6, <1>8, <1>11
<1> QED
  BY <1>6, <1>12, <1>15, <1>16, <1>17, <1>18, <1>19, <1>20, <1>21, Zenon

LEMMA StartMsgStep ==
  ASSUME NEW m \in Message, AllKnown(m), NEW b \in {0, 5}, Reading(m, b), StartMsg, UNCHANGED wvars
  PROVE  Reading(m, b)'
<1>1. Holds(m, b) /\ phase = "messages" /\ NextMsgPtr # NULL /\ UNCHANGED <<packet, len>>
  BY DEF StartMsg, Reading, wvars
<1>2. Holds(m, b)' /\ PacketLen' = PacketLen /\ (Whole' <=> Whole)
  BY <1>1, HoldsSame DEF PacketLen, Whole
<1>3. PICK L \in Nat : L = Len(packet) /\ PacketLen = 4 * L
  BY <1>1, PacketLenType
<1>4. msg_end = NULL /\ got = << >> /\ (b = 5 => Whole /\ SizeConverted(m)) /\ NextMsgPtr = 4 * b
  BY <1>1, NextOfOne DEF Reading
<1>5. StartMsgAt(4 * b, 4 * L)
  <2>1. CASE b = 0
    <3>1. ~IsBundle /\ 4 * b = 0
      BY <1>1, <2>1 DEF Holds
    <3> QED
      BY <1>1, <1>3, <3>1 DEF StartMsg
  <2>2. CASE b = 5
    <3>1. IsBundle /\ 4 * b = 20
      BY <1>1, <2>2 DEF Holds
    <3>2. StartMsgAt(20, 20 + SizeAt(20))
      BY <1>1, <1>4, <3>1 DEF StartMsg
    <3>3. SizeAt(20) = Bytes(Encoded(m))
      <4>1. (20 - 4) \div 4 + 1 = 5
        OBVIOUS
      <4> QED
        BY <1>4, <2>2, <4>1 DEF SizeAt, At, SizeConverted
    <3>4. len = 20 + Bytes(Encoded(m))
      BY <1>1, <2>2, SizeInPlace
    <3>5. 20 + SizeAt(20) = 4 * L
      BY <1>3, <1>4, <2>2, <3>3, <3>4 DEF Whole
    <3> QED
      BY <3>1, <3>2, <3>5
  <2> QED
    BY <2>1, <2>2
<1>6. PICK lt \in Nat : lt = Len(Text(m.address))
  <2>1. m.address \in Nat
    BY DEF Message
  <2>2. PICK t \in Seq(Word) : t = Text(m.address)
    BY <2>1, TextWords
  <2> QED
    BY <2>2
<1>7. PICK ly \in Nat : ly = Len(Types(m.args)) /\ ly >= 1
  BY <1>1, FrontRead
<1>8. PICK q \in Nat : q = b + lt
  OBVIOUS
<1>9. PICK g \in Seq(TypeTags) : g = TagsOf(m) /\ Len(g) = Len(m.args)
  BY TagsType
<1>10. /\ q <= L /\ 4 * b + StrBytes(4 * b) = 4 * q /\ StrBytes(4 * b) = 4 * lt
       /\ L < q + ly => ~Whole
       /\ q < L => /\ q + ly <= L => StrBytes(4 * q) = 4 * ly
                   /\ L < q + ly => StrBytes(4 * q) = PacketLen - 4 * q + 4
  BY <1>1, <1>3, <1>6, <1>7, <1>8, FrontRead, Zenon
<1>18. q < L => At(4 * q).tags = <<",">> \o g
  BY <1>1, <1>3, <1>6, <1>8, <1>9, FrontRead, Zenon
<1>19. b \in Nat
  OBVIOUS
<1>11. /\ <<",">> \o g # << >> /\ Tail(<<",">> \o g) = g
  <2>1. ASSUME NEW c
        PROVE  <<c>> \o g # << >> /\ Tail(<<c>> \o g) = g
    <3>1. PICK S : S = TypeTags \cup {c}
      OBVIOUS
    <3>2. g \in Seq(S) /\ <<c>> \in Seq(S) /\ Len(<<c>>) = 1
      BY <3>1
    <3>3. PICK u \in Seq(S) : u = <<c>>
      BY <3>2
    <3>4. /\ u \o g \in Seq(S) /\ Len(u \o g) = 1 + Len(g) /\ Len(g) \in Nat
          /\ \A w \in 1 .. Len(g) : (u \o g)[1 + w] = g[w]
      BY <3>2, <3>3, TwoParts
    <3>5. PICK z \in Seq(S) : z = u \o g
      BY <3>4
    <3>6. z # << >>
      BY <3>4, <3>5
    <3>7. /\ Tail(z) \in Seq(S) /\ Len(Tail(z)) = Len(g)
          /\ \A w \in 1 .. Len(g) : Tail(z)[w] = z[w + 1]
      BY <3>4, <3>5, <3>6, HeadTailProperties
    <3>8. \A w \in 1 .. Len(g) : Tail(z)[w] = g[w]
      <4>1. \A w \in 1 .. Len(g) : z[w + 1] = g[w]
        BY <3>4, <3>5
      <4> QED
        BY <3>7, <4>1
    <3>9. Tail(z) = g
      BY <3>2, <3>7, <3>8, SeqEqual
    <3> QED
      BY <3>3, <3>5, <3>6, <3>9
  <2> QED
    BY <2>1, Zenon
<1> DEFINE typed == 4 * q < 4 * L /\ At(4 * q).tags # <<>>
           first == 4 * q + StrBytes(4 * q)
           item  == [tag |-> "message", n |-> 4 * lt]
<1>12. /\ msg_ptr' = 4 * b /\ msg_end' = 4 * L
       /\ IF 4 * L > PacketLen
          THEN phase' = "astray" /\ UNCHANGED <<tags, arg_ptr, got>>
          ELSE IF (4 * L - 4 * b) % 4 # 0 \/ 4 * q > 4 * L \/ (typed /\ first > 4 * L)
          THEN phase' = "error" /\ UNCHANGED <<tags, arg_ptr, got>>
          ELSE /\ phase' = "args"
               /\ tags' = IF typed THEN Tail(At(4 * q).tags) ELSE NULL
               /\ arg_ptr' = IF typed THEN first ELSE IF 4 * q = 4 * L THEN NULL ELSE 4 * q
               /\ got' = Append(got, item)
  BY <1>5, <1>10 DEF StartMsgAt
<1>13. ~(4 * L > PacketLen) /\ (4 * L - 4 * b) % 4 = 0 /\ ~(4 * q > 4 * L)
  <2>1. PICK k \in Int : k = L - b
    BY <1>19
  <2>2. 4 * L - 4 * b = 4 * k
    BY <1>19, <2>1
  <2>3. (4 * k) % 4 = 0
    BY SMT
  <2>4. ~(4 * L > PacketLen) /\ ~(4 * q > 4 * L)
    BY <1>3, <1>10
  <2> QED
    BY <2>2, <2>3, <2>4
<1>14. SubSeq(ReadOf(m), 1, 1) = <<item>> /\ IsPrefix(<< >>, ReadOf(m))
  <2>1. PICK r \in Seq(Item) : r = ReadOf(m) /\ Len(r) = Len(m.args) + 1 /\ r[1] = item
    BY <1>6, ReadOfType
  <2>2. Len(m.args) \in Nat
    BY TagsType
  <2>3. SubSeq(r, 1, 1) = <<r[1]>>
    <3>1. /\ SubSeq(r, 1, 1) \in Seq(Item) /\ Len(SubSeq(r, 1, 1)) = 1
          /\ SubSeq(r, 1, 1)[1] = r[1]
      BY <2>1, <2>2
    <3>2. \A s \in Seq(Item) : Len(s) = 1 => s = <<s[1]>>
      OBVIOUS
    <3> QED
      BY <3>1, <3>2
  <2> QED
    BY <2>1, <2>3, PrefixFacts
<1>15. Append(got, item) = <<item>>
  BY <1>4, AppendOfTuples
<1> HIDE DEF item
<1>16. CASE q = L
  <2>1. ~typed
    BY <1>16
  <2>2. phase' = "args" /\ tags' = NULL /\ got' = <<item>>
    BY <1>12, <1>13, <1>15, <2>1
  <2>3. ~Whole
    BY <1>7, <1>10, <1>16
  <2>4. Untyped(m)'
    BY <1>2, <1>14, <2>2, <2>3 DEF Untyped
  <2> QED
    BY <1>2, <1>3, <1>12, <2>2, <2>4 DEF Reading
<1>17. CASE q < L
  <2>1. typed
    <3>1. 4 * q < 4 * L
      BY <1>17
    <3> QED
      BY <1>11, <1>17, <1>18, <3>1, Zenon
  <2>2. CASE q + ly <= L
    <3>1. StrBytes(4 * q) = 4 * ly
      BY <1>10, <1>17, <2>2
    <3>2. first = 4 * (q + ly)
      BY <3>1
    <3>3. ~(first > 4 * L)
      BY <2>2, <3>2
    <3>4. phase' = "args" /\ tags' = Tail(At(4 * q).tags) /\ arg_ptr' = first /\ got' = <<item>>
      <4> HIDE DEF first, typed
      <4> QED
        BY <1>12, <1>13, <1>15, <2>1, <3>3
    <3>5. tags' = g
      BY <1>11, <1>17, <1>18, <3>4, Zenon
    <3>6. ArgsAt(m, b, 0)'
      <4>1. Place(m, 0) = lt + ly
        BY <1>6, <1>7, FrontAt
      <4>2. b + Place(m, 0) = q + ly
        BY <1>8, <4>1
      <4>3. got' = SubSeq(ReadOf(m), 1, 0 + 1)
        <5>1. 0 + 1 = 1
          OBVIOUS
        <5> QED
          BY <1>14, <3>4, <5>1, Zenon
      <4>4. SubSeq(TagsOf(m), 0 + 1, Len(m.args)) = g
        <5>1. SubSeq(g, 1, Len(g)) = g
          BY SubSeqFull
        <5> QED
          BY <1>9, <5>1
      <4>5. arg_ptr' = 4 * (b + Place(m, 0)) /\ b + Place(m, 0) <= Len(packet')
        BY <1>1, <1>3, <2>2, <3>2, <3>4, <4>2
      <4> QED
        BY <3>5, <4>3, <4>4, <4>5 DEF ArgsAt
    <3>7. 0 \in 0 .. Len(m.args)
      BY TagsType
    <3> QED
      BY <1>2, <1>3, <1>12, <3>4, <3>6, <3>7 DEF Reading
  <2>3. CASE L < q + ly
    <3>1. StrBytes(4 * q) = 4 * L - 4 * q + 4
      BY <1>3, <1>10, <1>17, <2>3
    <3>2. first > 4 * L
      BY <3>1
    <3>3. phase' = "error" /\ got' = << >>
      <4> HIDE DEF first, typed
      <4> QED
        BY <1>4, <1>12, <1>13, <2>1, <3>2
    <3>4. ~Whole
      BY <1>10, <2>3
    <3> QED
      BY <1>2, <1>14, <3>3, <3>4 DEF Reading
  <2> QED
    BY <2>2, <2>3
<1> QED
  BY <1>10, <1>16, <1>17
-----------------------------------------------------------------------------
(* As many tags are left as arguments. *)
LEMMA TagsLeft ==
  ASSUME NEW m \in Message, NEW k \in 0 .. Len(m.args), tags = SubSeq(TagsOf(m), k + 1, Len(m.args))
  PROVE  /\ tags # NULL
         /\ tags = << >> <=> k = Len(m.args)
         /\ k < Len(m.args) => /\ Head(tags) = m.args[k + 1].tag
                               /\ Tail(tags) = SubSeq(TagsOf(m), (k + 1) + 1, Len(m.args))
<1>1. PICK n \in Nat : n = Len(m.args)
  BY TagsType
<1>2. PICK g \in Seq(TypeTags) : /\ g = TagsOf(m) /\ Len(g) = n
                                 /\ \A i \in 1 .. n : g[i] = m.args[i].tag
  BY <1>1, TagsType
<1>3. PICK s \in Seq(TypeTags) : s = SubSeq(g, k + 1, n)
  <2>1. k + 1 \in 1 .. n + 1
    BY <1>1
  <2>2. SubSeq(g, k + 1, n) \in Seq(TypeTags)
    BY <1>2, <2>1
  <2> QED
    BY <2>2
<1>4. tags = s /\ tags # NULL
  BY <1>1, <1>2, <1>3, IdeasAssumption
<1>5. Len(s) = n - k /\ \A w \in 1 .. n - k : s[w] = g[k + w]
  <2>1. k \in Nat /\ k <= n
    BY <1>1
  <2> QED
    BY <1>2, <1>3, <2>1
<1>6. s = << >> <=> k = n
  BY <1>1, <1>5
<1>7. ASSUME k < n
      PROVE  Head(s) = m.args[k + 1].tag /\ Tail(s) = SubSeq(g, (k + 1) + 1, n)
  <2>1. 1 \in 1 .. n - k /\ k + 1 \in 1 .. n
    BY <1>1, <1>7
  <2>2. Head(s) = s[1] /\ s # << >>
    BY <1>5, <1>6, <1>7
  <2>3. /\ Tail(s) \in Seq(TypeTags) /\ Len(Tail(s)) = n - k - 1
        /\ \A w \in 1 .. n - k - 1 : Tail(s)[w] = s[w + 1]
    <3>1. /\ Tail(s) \in Seq(TypeTags) /\ Len(Tail(s)) = Len(s) - 1
          /\ \A w \in 1 .. Len(Tail(s)) : Tail(s)[w] = s[w + 1]
      BY <2>2, HeadTailProperties
    <3> QED
      BY <1>5, <3>1
  <2>4. PICK u : u = SubSeq(g, (k + 1) + 1, n)
    OBVIOUS
  <2>5. /\ u \in Seq(TypeTags) /\ Len(u) = n - k - 1
        /\ \A w \in 1 .. n - k - 1 : u[w] = g[(k + 1) + w]
    <3>1. k + 1 \in Nat /\ k + 1 <= n
      BY <2>1
    <3> QED
      BY <1>2, <2>4, <3>1
  <2>6. ASSUME NEW w \in 1 .. n - k - 1
        PROVE  Tail(s)[w] = u[w]
    <3>1. w + 1 \in 1 .. n - k /\ k + (w + 1) = (k + 1) + w
      BY <1>1, <1>7
    <3> QED
      BY <1>5, <2>3, <2>5, <3>1
  <2>7. Tail(s) = u
    BY <2>3, <2>5, <2>6, SeqEqual
  <2> QED
    BY <1>2, <1>5, <2>1, <2>2, <2>4, <2>7
<1> QED
  BY <1>1, <1>2, <1>4, <1>6, <1>7

LEMMA GetArgNoneStep ==
  ASSUME NEW m \in Message, AllKnown(m), NEW b \in {0, 5}, Reading(m, b), GetArgNone,
         UNCHANGED <<wvars, char_signed>>
  PROVE  Reading(m, b)'
<1>1. /\ Holds(m, b) /\ phase = "args" /\ tags \in {NULL, << >>}
      /\ msg_end = PacketLen /\ UNCHANGED <<packet, len, got, msg_end, char_signed>>
  BY DEF GetArgNone, Reading, wvars
<1>2. Holds(m, b)' /\ PacketLen' = PacketLen /\ (Whole' <=> Whole)
  BY <1>1, HoldsSame DEF PacketLen, Whole
<1>3. PICK r \in Seq(Item) : r = ReadOf(m) /\ Len(r) = Len(m.args) + 1
  BY ReadOfType
<1>4. Len(m.args) \in Nat
  BY TagsType
<1>5. CASE Untyped(m)
  <2>1. phase' = "messages"
    BY <1>5 DEF GetArgNone, Untyped
  <2>2. 1 \in 1 .. Len(r)
    BY <1>3, <1>4
  <2>3. IsPrefix(got, r)
    BY <1>3, <1>5, <2>2, PrefixFacts DEF Untyped
  <2>4. Done(m)
    BY <1>3, <1>5, <2>3 DEF Done, Untyped
  <2>5. Done(m)'
    BY <1>1, <1>2, <2>4 DEF Done
  <2> QED
    BY <1>1, <1>2, <2>1, <2>5 DEF Reading
<1>6. CASE \E k \in 0 .. Len(m.args) : ArgsAt(m, b, k)
  <2>1. PICK k \in 0 .. Len(m.args) : ArgsAt(m, b, k)
    BY <1>6
  <2>2. k = Len(m.args) /\ tags # NULL
    BY <1>1, <2>1, TagsLeft DEF ArgsAt
  <2>3. got = SubSeq(r, 1, Len(r))
    BY <1>3, <2>1, <2>2 DEF ArgsAt
  <2>4. got = r /\ IsPrefix(r, r)
    BY <2>3, PrefixFacts
  <2>5. got' = ReadOf(m) /\ IsPrefix(got', ReadOf(m)) /\ Done(m)'
    BY <1>1, <1>3, <2>4 DEF Done
  <2>6. CASE char_signed
    <3>1. phase' = "messages"
      BY <2>6 DEF GetArgNone
    <3> QED
      BY <1>1, <1>2, <2>5, <3>1 DEF Reading
  <2>7. CASE ~char_signed
    <3>1. phase' = "error" /\ ~char_signed'
      <4>1. char_signed' = char_signed
        BY <1>1
      <4>2. phase' = IF tags = NULL \/ char_signed THEN "messages" ELSE "error"
        BY Zenon DEF GetArgNone
      <4> QED
        BY <2>2, <2>7, <4>1, <4>2
    <3> QED
      BY <1>2, <2>5, <3>1 DEF Reading
  <2> QED
    BY <2>6, <2>7
<1> QED
  BY <1>1, <1>5, <1>6 DEF Reading

(* An argument that is in the packet is read, and one that lost its last word is not. *)
LEMMA ArgRead ==
  ASSUME NEW m \in Message, AllKnown(m), NEW b \in {0, 5}, Holds(m, b),
         msg_ptr = 4 * b, msg_end = PacketLen,
         NEW k \in 0 .. Len(m.args) - 1, ArgsAt(m, b, k)
  PROVE  LET a == m.args[k + 1]
         IN /\ b + Place(m, k + 1) <= Len(packet) =>
                 /\ arg_ptr + ArgBytes(a.tag) = 4 * (b + Place(m, k + 1))
                 /\ ArgValue(a.tag) = ValueOf(m, k + 1)
            /\ b + Place(m, k + 1) > Len(packet) =>
                 ~Whole /\ ~(arg_ptr + ArgBytes(a.tag) <= msg_end)
<1>1. PICK a \in Argument : a = m.args[k + 1]
  <2>1. k + 1 \in 1 .. Len(m.args)
    BY TagsType
  <2> QED
    BY <2>1, TagsType
<1>2. Known(a)
  <2>1. k + 1 \in 1 .. Len(m.args)
    BY TagsType
  <2> QED
    BY <1>1, <2>1, KnownOnes DEF AllKnown
<1>3. PICK x \in Seq(Word) : x = Encoded(m)
  BY EncodedWords
<1>4. PICK n \in Nat : n = Len(x)
  OBVIOUS
<1>5. PICK L \in Nat : L = Len(packet) /\ PacketLen = 4 * L
  BY PacketLenType
<1>6. Bodies(m)[k + 1] = Body(a)
  <2>1. k + 1 \in DOMAIN m.args
    <3>1. m.args \in Seq(Argument)
      BY DEF Message
    <3> QED
      BY <3>1
  <2> QED
    BY <1>1, <2>1 DEF Bodies, Body
<1>7. PICK y \in Seq(Word) : y = Body(a)
  BY <1>6, ArgAt
<1>8. PICK ly \in Nat : ly = Len(y)
  OBVIOUS
<1>9. PICK p \in Nat : p = Place(m, k)
  BY ArgAt
<1>10. Place(m, k + 1) = p + ly /\ p + ly <= n /\ \A j \in 1 .. ly : x[p + j] = y[j]
  <2>1. /\ Place(m, k + 1) = Place(m, k) + Len(Bodies(m)[k + 1])
        /\ Place(m, k + 1) <= Len(Encoded(m))
        /\ \A j \in 1 .. Len(Bodies(m)[k + 1]) :
             Encoded(m)[Place(m, k) + j] = Bodies(m)[k + 1][j]
    BY ArgAt
  <2>2. Bodies(m)[k + 1] = y /\ Len(y) = ly /\ Place(m, k) = p /\ Encoded(m) = x /\ Len(x) = n
    BY <1>3, <1>4, <1>6, <1>7, <1>8, <1>9
  <2> QED
    BY <2>1, <2>2
<1>11. PICK q \in Nat : q = b + p
  OBVIOUS
<1>12. b + Place(m, k + 1) = q + ly
  BY <1>10, <1>11
<1>13. /\ packet \in Seq(Word) /\ b + n - 1 <= L /\ L <= b + n
       /\ \A w \in 1 .. n : b + w <= L => packet[b + w] = x[w]
  BY <1>3, <1>4, <1>5 DEF Holds
<1>14. arg_ptr = 4 * q /\ q <= L /\ q + ly <= L + 1
  <2>1. arg_ptr = 4 * q /\ q <= L
    BY <1>5, <1>9, <1>11 DEF ArgsAt
  <2>2. b + n <= L + 1 /\ b \in Nat
    BY <1>13
  <2>3. q + ly <= b + n
    BY <1>10, <1>11, <2>2
  <2> QED
    BY <2>1, <2>2, <2>3
<1>15. ASSUME NEW j \in 1 .. ly, q + j <= L
       PROVE  packet[q + j] = y[j]
  <2>1. p + j \in 1 .. n /\ b + (p + j) = q + j
    BY <1>10, <1>11
  <2>2. packet[b + (p + j)] = x[p + j]
    BY <1>13, <1>15, <2>1
  <2> QED
    BY <1>10, <2>1, <2>2
<1>16. q + ly > L => ~Whole
  <2>1. Whole => L = b + n
    BY <1>3, <1>4, <1>5, WholeIs
  <2> QED
    BY <1>10, <1>11, <2>1
<1> DEFINE Right == /\ q + ly <= L => /\ ArgBytes(a.tag) = 4 * ly
                                      /\ ArgValue(a.tag) = ValueOf(m, k + 1)
                    /\ q + ly > L => ~(4 * q + ArgBytes(a.tag) <= 4 * L)
<1>17. ASSUME a.tag \in NoData
       PROVE  Right
  <2>1. a.tag \notin DOMAIN Fixed /\ a.tag \notin Strings /\ a.tag # "b" /\ a.tag \notin DOMAIN Fixed \cup {"b"}
    BY <1>17, FixedSizes DEF NoData, Strings
  <2>2. ly = 0
    BY <1>7, <1>8, <1>17, BodyOfNone
  <2>3. ArgBytes(a.tag) = 0 /\ ArgValue(a.tag) = 0 /\ ValueOf(m, k + 1) = 0
    BY <1>1, <1>17, <2>1, Zenon DEF ArgBytes, ArgValue, ValueOf
  <2> QED
    BY <1>14, <2>2, <2>3
<1>18. ASSUME ly >= 1, q < L, y[1] = IntWord(a.n)
       PROVE  osc_ntoh32(At(arg_ptr).n) = a.n
  <2>1. At(arg_ptr) = packet[q + 1]
    <3>1. (4 * q) \div 4 = q
      BY SMT
    <3> QED
      BY <1>14, <3>1 DEF At
  <2>2. packet[q + 1] = IntWord(a.n)
    <3>1. 1 \in 1 .. ly /\ q + 1 <= L
      BY <1>5, <1>8, <1>18
    <3> QED
      BY <1>15, <1>18, <3>1
  <2>3. At(arg_ptr).n = osc_hton32(a.n)
    BY <2>1, <2>2 DEF IntWord
  <2>4. a.n \in Int32s
    BY ArgumentType
  <2> QED
    BY <2>3, <2>4, OrderBack
<1>19. ASSUME a.tag \in DOMAIN Fixed
       PROVE  Right
  <2>1. a.tag \notin NoData /\ a.tag \notin Strings /\ a.tag # "b" /\ a.tag \in DOMAIN Fixed \cup {"b"}
    BY <1>19, FixedSizes DEF NoData, Strings
  <2>2. 4 * ly = Fixed[a.tag] /\ ly >= 1 /\ y[1] = IntWord(a.n)
    BY <1>7, <1>8, <1>19, BodyOfFixed
  <2>3. ArgBytes(a.tag) = 4 * ly
    BY <1>19, <2>1, <2>2 DEF ArgBytes
  <2>4. q + ly <= L => ArgValue(a.tag) = ValueOf(m, k + 1)
    <3>1. q + ly <= L => q < L
      BY <2>2
    <3>2. ArgValue(a.tag) = osc_ntoh32(At(arg_ptr).n) /\ ValueOf(m, k + 1) = a.n
      BY <1>1, <1>19, <2>1, Zenon DEF ArgValue, ValueOf
    <3> QED
      BY <1>18, <2>2, <3>1, <3>2
  <2>5. q + ly > L => ~(4 * q + 4 * ly <= 4 * L)
    OBVIOUS
  <2> QED
    BY <2>3, <2>4, <2>5
<1>20. ASSUME a.tag \in Strings
       PROVE  Right
  <2>1. a.tag \notin NoData /\ a.tag \notin DOMAIN Fixed /\ a.tag # "b" /\ a.tag \notin DOMAIN Fixed \cup {"b"}
    BY <1>20, FixedSizes DEF NoData, Strings
  <2>2. ArgBytes(a.tag) = StrBytes(4 * q) /\ ArgValue(a.tag) = StrBytes(4 * q)
    BY <1>14, <1>20, <2>1 DEF ArgBytes, ArgValue
  <2>3. a.n \in Nat
    BY <1>20, ArgumentType
  <2>4. /\ y = Text(a.n) /\ ly >= 1 /\ 4 * ly = ROUND32(a.n + 1)
        /\ \A w \in 1 .. Len(y) : y[w].nul = (w = Len(y))
    <3>1. y = Text(a.n)
      BY <1>7, <1>20, BodyOfString
    <3> QED
      BY <1>8, <2>3, <3>1, TextWords
  <2>5. /\ q + ly <= L => StrBytes(4 * q) = 4 * ly
        /\ q + ly > L => StrBytes(4 * q) = PacketLen - 4 * q + 4
    <3>1. q + Len(y) <= Len(packet) + 1 /\ q <= Len(packet) /\ Len(y) >= 1
      BY <1>5, <1>8, <1>14, <2>4
    <3>2. \A w \in 1 .. Len(y) : q + w <= Len(packet) => packet[q + w] = y[w]
      BY <1>5, <1>8, <1>15
    <3> QED
      BY <1>5, <1>8, <1>13, <2>4, <3>1, <3>2, StrBytesAt
  <2>6. ValueOf(m, k + 1) = 4 * ly
    BY <1>1, <1>20, <2>1, <2>4, Zenon DEF ValueOf
  <2>7. q + ly > L => ~(4 * q + StrBytes(4 * q) <= 4 * L)
    <3>1. ~(4 * q + (4 * L - 4 * q + 4) <= 4 * L)
      OBVIOUS
    <3> QED
      BY <1>5, <2>5, <3>1
  <2> QED
    BY <2>2, <2>5, <2>6, <2>7
<1>21. ASSUME a.tag = "b"
       PROVE  Right
  <2>1. a.tag \notin NoData /\ a.tag \notin DOMAIN Fixed /\ a.tag \notin Strings /\ a.tag \in DOMAIN Fixed \cup {"b"}
    BY <1>21, FixedSizes DEF NoData, Strings
  <2>2. 4 * ly = 4 + ROUND32(a.n) /\ ly >= 1 /\ y[1] = IntWord(a.n)
    BY <1>7, <1>8, <1>21, BodyOfBlob
  <2>3. ArgBytes(a.tag) = IF arg_ptr = msg_end THEN 4 ELSE 4 + ROUND32(osc_ntoh32(At(arg_ptr).n))
    BY <1>21, <2>1 DEF ArgBytes
  <2>4. ArgValue(a.tag) = ValueOf(m, k + 1)
    <3>1. ArgValue(a.tag) = arg_ptr + 4 - msg_ptr
      BY <1>21, <2>1, Zenon DEF ArgValue
    <3>2. ValueOf(m, k + 1) = 4 * Place(m, (k + 1) - 1) + 4
      BY <1>1, <1>21, <2>1, Zenon DEF ValueOf
    <3>3. (k + 1) - 1 = k
      OBVIOUS
    <3>4. arg_ptr + 4 - msg_ptr = 4 * p + 4
      BY <1>11, <1>14
    <3> QED
      BY <1>9, <3>1, <3>2, <3>3, <3>4
  <2>5. CASE q < L
    <3>1. osc_ntoh32(At(arg_ptr).n) = a.n
      BY <1>18, <2>2, <2>5
    <3>2. arg_ptr # msg_end
      BY <1>5, <1>14, <2>5
    <3>3. ArgBytes(a.tag) = 4 * ly
      BY <2>2, <2>3, <3>1, <3>2
    <3>4. q + ly > L => ~(4 * q + 4 * ly <= 4 * L)
      OBVIOUS
    <3> QED
      BY <2>4, <3>1, <3>3, <3>4
  <2>6. CASE q = L
    <3>1. arg_ptr = msg_end
      BY <1>5, <1>14, <2>6
    <3>2. ArgBytes(a.tag) = 4
      BY <2>3, <3>1
    <3>3. ~(q + ly <= L) /\ ~(4 * q + 4 <= 4 * L)
      BY <2>2, <2>6
    <3> QED
      BY <3>2, <3>3
  <2> QED
    BY <1>14, <2>5, <2>6
<1>22. Right
  BY <1>2, <1>17, <1>19, <1>20, <1>21 DEF Known
<1>23. q + ly <= L => 4 * q + 4 * ly = 4 * (q + ly)
  OBVIOUS
<1> QED
  BY <1>1, <1>5, <1>12, <1>14, <1>16, <1>22, <1>23

LEMMA GetArgStep ==
  ASSUME NEW m \in Message, AllKnown(m), NEW b \in {0, 5}, Reading(m, b), GetArg, UNCHANGED wvars
  PROVE  Reading(m, b)'
<1>1. /\ Holds(m, b) /\ phase = "args" /\ tags \notin {NULL, << >>}
      /\ msg_ptr = 4 * b /\ msg_end = PacketLen
      /\ UNCHANGED <<packet, len, msg_ptr, msg_end>>
  BY DEF GetArg, Reading, wvars
<1>2. Holds(m, b)' /\ PacketLen' = PacketLen /\ (Whole' <=> Whole)
  BY <1>1, HoldsSame DEF PacketLen, Whole
<1>3. PICK k \in 0 .. Len(m.args) : ArgsAt(m, b, k)
  BY <1>1 DEF Reading, Untyped
<1>4. Len(m.args) \in Nat
  BY TagsType
<1>5. k \in 0 .. Len(m.args) - 1 /\ k < Len(m.args)
  <2>1. k # Len(m.args)
    BY <1>1, <1>3, TagsLeft DEF ArgsAt
  <2> QED
    BY <1>4, <2>1
<1>6. PICK a \in Argument : a = m.args[k + 1] /\ Known(a)
  <2>1. k + 1 \in 1 .. Len(m.args)
    BY <1>4, <1>5
  <2> QED
    BY <2>1, KnownOnes, TagsType DEF AllKnown
<1>7. Head(tags) = a.tag /\ Tail(tags) = SubSeq(TagsOf(m), (k + 1) + 1, Len(m.args))
  BY <1>3, <1>5, <1>6, TagsLeft DEF ArgsAt
<1>8. Known([tag |-> Head(tags)])
  BY <1>6, <1>7 DEF Known
<1>9. PICK r \in Seq(Item) : r = ReadOf(m) /\ Len(r) = Len(m.args) + 1
                             /\ r[(k + 1) + 1] = [tag |-> a.tag, n |-> ValueOf(m, k + 1)]
  <2>1. k + 1 \in 1 .. Len(m.args)
    BY <1>4, <1>5
  <2> QED
    BY <1>6, <2>1, ReadOfType
<1>10. got = SubSeq(r, 1, k + 1)
  BY <1>3, <1>9 DEF ArgsAt
<1>11. PICK p \in Nat : p = Place(m, k + 1)
  <2>1. PICK y \in Seq(Word) : y = Bodies(m)[k + 1]
    BY <1>5, ArgAt
  <2>2. Place(m, k) \in Nat /\ Place(m, k + 1) = Place(m, k) + Len(y)
    BY <1>5, <2>1, ArgAt
  <2>3. Place(m, k) + Len(y) \in Nat
    BY <2>2
  <2> QED
    BY <2>2, <2>3
<1>12. PICK L \in Nat : L = Len(packet) /\ PacketLen = 4 * L
  BY <1>1, PacketLenType
<1>13. /\ b + p <= L => /\ arg_ptr + ArgBytes(a.tag) = 4 * (b + p)
                        /\ ArgValue(a.tag) = ValueOf(m, k + 1)
       /\ b + p > L => ~Whole /\ ~(arg_ptr + ArgBytes(a.tag) <= msg_end)
  BY <1>1, <1>3, <1>5, <1>6, <1>11, <1>12, ArgRead
<1>14. CASE b + p <= L
  <2>1. 4 * (b + p) <= 4 * L
    BY <1>11, <1>14
  <2>2. arg_ptr + ArgBytes(a.tag) <= msg_end
    BY <1>1, <1>12, <1>13, <1>14, <2>1
  <2>3. /\ got' = Append(got, [tag |-> a.tag, n |-> ValueOf(m, k + 1)])
        /\ arg_ptr' = 4 * (b + p) /\ phase' = "args" /\ tags' = Tail(tags)
    BY <1>1, <1>7, <1>8, <1>13, <1>14, <2>2, Zenon DEF GetArg
  <2>4. got' = SubSeq(r, 1, (k + 1) + 1)
    <3>1. k + 1 \in 1 .. Len(r) - 1
      BY <1>4, <1>5, <1>9
    <3>2. SubSeq(r, 1, (k + 1) + 1) = Append(SubSeq(r, 1, k + 1), r[(k + 1) + 1])
      BY <3>1, PrefixFacts
    <3> QED
      BY <1>9, <1>10, <2>3, <3>2, Zenon
  <2>5. ArgsAt(m, b, k + 1)'
    BY <1>1, <1>7, <1>9, <1>11, <1>12, <1>14, <2>3, <2>4 DEF ArgsAt
  <2>6. k + 1 \in 0 .. Len(m.args)
    BY <1>4, <1>5
  <2> QED
    BY <1>1, <1>2, <2>3, <2>5, <2>6 DEF Reading
<1>15. CASE b + p > L
  <2>1. phase' = "error" /\ got' = got
    BY <1>7, <1>13, <1>15, Zenon DEF GetArg
  <2>2. IsPrefix(got, r)
    <3>1. k + 1 \in 1 .. Len(r)
      BY <1>4, <1>5, <1>9
    <3> QED
      BY <1>10, <3>1, PrefixFacts
  <2> QED
    BY <1>2, <1>9, <1>13, <1>15, <2>1, <2>2 DEF Reading
<1> QED
  BY <1>11, <1>12, <1>14, <1>15

LEMMA ReadingStep ==
  ASSUME BundleInv, BundleInv', ReadingInv, [RNext]_<<wvars, rvars>>
  PROVE  ReadingInv'
<1>1. CASE UNCHANGED <<wvars, rvars>>
  <2>1. (phase' = phase /\ written' = written /\ (One' <=> One) /\ got' = got /\ msg_end' = msg_end)
    BY <1>1 DEF wvars, rvars, One
  <2>2. ASSUME NEW m, NEW b, Reading(m, b)
        PROVE  Reading(m, b)'
    <3>1. Holds(m, b)'
      BY <1>1, <2>2, HoldsSame DEF Reading, wvars, rvars
    <3> QED
      BY <1>1, <2>2, <3>1
         DEF Reading, wvars, rvars, SizeConverted, Done, Untyped, ArgsAt, Whole, PacketLen
  <2> QED
    BY <2>1, <2>2 DEF ReadingInv
<1>2. CASE Write
  BY <1>2 DEF Write, ReadingInv, rvars
<1>3. CASE Send
  <2>1. phase' # "none" /\ (One' <=> One) /\ written' = written
    BY <1>3 DEF Send, One, wvars
  <2>2. ASSUME One
        PROVE  \E b \in {0, 5} : Reading(written[1], b)'
    BY <1>3, <2>2, SendStep
  <2> QED
    BY <2>1, <2>2 DEF ReadingInv
<1>4. CASE Read
  <2>1. /\ phase # "none" /\ phase' # "none" /\ UNCHANGED <<wvars, char_signed>>
        /\ (One' <=> One) /\ written' = written
    <3>1. phase # "none" /\ phase' # "none"
      BY <1>4 DEF Read, ConvertSize, InitReturns, StartMsgEnd, StartMsg, StartMsgAt, GetArgNone, GetArg
    <3> QED
      BY <1>4, <3>1 DEF Read, wvars, One
  <2>2. ASSUME One
        PROVE  \E b \in {0, 5} : Reading(written[1], b)'
    <3>1. PICK m \in Message : written[1] = m /\ AllKnown(m)
      BY <2>2, OneMessage
    <3>2. PICK b \in {0, 5} : Reading(m, b)
      BY <2>1, <2>2, <3>1 DEF ReadingInv
    <3>3. Reading(m, b)'
      BY <1>4, <2>1, <3>1, <3>2, ConvertStep, InitReturnsStep, StartMsgEndStep, StartMsgStep,
         GetArgNoneStep, GetArgStep DEF Read
    <3> QED
      BY <2>1, <3>1, <3>3
  <2> QED
    BY <2>1, <2>2 DEF ReadingInv
<1> QED
  BY <1>1, <1>2, <1>3, <1>4 DEF RNext

(* Whatever message is sent, alone or in a bundle of its own, and whether or not its
   last word is lost: where the prototype's reader is in it, at every step
   (ideas/osc.c:176-364). *)
THEOREM ReadingInvariant == RSpec => []ReadingInv
<1>1. RInit => ReadingInv
  BY DEF RInit, ReadingInv
<1>2. BundleInv /\ BundleInv' /\ ReadingInv /\ [RNext]_<<wvars, rvars>> => ReadingInv'
  BY ReadingStep
<1> QED
  BY <1>1, <1>2, BundleInvariant, PTL DEF RSpec

(* Any message of known tags, of any size, reads back: the receiver gets its address
   and its arguments, each with its tag and its value, of a blob its data where they
   lie, and then the end, or where char has no sign an error; of a message that lost
   its last word it gets the first arguments, as they were. *)
THEOREM OneMessageReadsBack == RSpec => []OneReadsBack
<1>1. BundleInv /\ ReadingInv => OneReadsBack
  <2> SUFFICES ASSUME BundleInv, ReadingInv, One
               PROVE  /\ phase # "astray"
                      /\ IsPrefix(got, ReadOf(written[1]))
                      /\ Whole /\ phase \in {"end", "error"} => got = ReadOf(written[1])
                      /\ Whole /\ phase = "error" => ~char_signed
    BY DEF OneReadsBack
  <2>1. PICK m \in Message : written[1] = m /\ AllKnown(m)
    BY OneMessage
  <2>2. PICK r \in Seq(Item) : r = ReadOf(m) /\ Len(r) = Len(m.args) + 1
    BY <2>1, ReadOfType
  <2>3. Len(m.args) \in Nat
    BY TagsType
  <2>4. IsPrefix(<< >>, r)
    BY PrefixFacts
  <2>5. CASE phase = "none"
    BY <2>1, <2>2, <2>4, <2>5 DEF ReadingInv
  <2>6. CASE phase # "none"
    <3>1. PICK b \in {0, 5} : Reading(m, b)
      BY <2>1, <2>6 DEF ReadingInv
    <3>2. CASE phase = "args"
      <4>1. PICK k \in 0 .. Len(m.args) : got = SubSeq(r, 1, k + 1)
        <5>1. 0 \in 0 .. Len(m.args) /\ 0 + 1 = 1
          BY <2>3
        <5> QED
          BY <2>2, <3>1, <3>2, <5>1 DEF Reading, Untyped, ArgsAt
      <4>2. k + 1 \in 1 .. Len(r)
        BY <2>2, <2>3
      <4>3. IsPrefix(got, r)
        BY <4>1, <4>2, PrefixFacts
      <4> QED
        BY <2>1, <2>2, <3>2, <4>3
    <3>3. CASE phase \in {"init", "messages", "end", "error"}
      BY <2>1, <2>2, <2>4, <3>1, <3>3 DEF Reading, Done
    <3> QED
      BY <3>1, <3>2, <3>3 DEF Reading
  <2> QED
    BY <2>5, <2>6
<1> QED
  BY <1>1, BundleInvariant, ReadingInvariant, PTL
-----------------------------------------------------------------------------
(* What the receiver of one message has still to do: a size to convert, the message
   to find, a tag at a time, and the end. *)
StepsLeft ==
  LET n == Len(written[1].args)
  IN CASE phase = "init"     -> n + (IF IsBundle /\ msg_start < PacketLen THEN 6 ELSE 5)
       [] phase = "messages" -> IF msg_end = NULL THEN n + 4 ELSE 1
       [] phase = "args"     -> 2 + (IF tags = NULL THEN 0 ELSE Len(tags))
       [] OTHER              -> 0

StepsFall == StepsLeft \in Nat /\ StepsLeft' \in Nat /\ StepsLeft' < StepsLeft

Few(m) == tags = NULL \/ (tags # NULL /\ tags \in Seq(TypeTags) /\ Len(tags) <= Len(m.args))

TagsFit == \A m \in Message, b \in {0, 5} : Reading(m, b) /\ phase = "args" => Few(m)

LEMMA TagsAreFew == TagsFit
<1> SUFFICES ASSUME NEW m \in Message, NEW b \in {0, 5}, Reading(m, b), phase = "args"
             PROVE  Few(m)
  BY DEF TagsFit
<1>1. PICK n \in Nat : n = Len(m.args)
  BY TagsType
<1>2. CASE Untyped(m)
  BY <1>2 DEF Untyped, Few
<1>3. CASE \E k \in 0 .. Len(m.args) : ArgsAt(m, b, k)
  <2>1. PICK k \in 0 .. n : tags = SubSeq(TagsOf(m), k + 1, n)
    BY <1>1, <1>3 DEF ArgsAt
  <2>2. PICK g \in Seq(TypeTags) : g = TagsOf(m) /\ Len(g) = n
    BY <1>1, TagsType
  <2>3. SubSeq(g, k + 1, n) \in Seq(TypeTags) /\ Len(SubSeq(g, k + 1, n)) <= n
    <3>1. k \in Nat /\ k <= n
      OBVIOUS
    <3> QED
      BY <2>2, <3>1
  <2> QED
    BY <1>1, <2>1, <2>2, <2>3, IdeasAssumption DEF Few
<1> QED
  BY <1>2, <1>3 DEF Reading

LEMMA InitSteps ==
  ASSUME NEW m \in Message, NEW b \in {0, 5}, Reading(m, b), written[1] = m,
         ConvertSize \/ InitReturns, UNCHANGED wvars
  PROVE  StepsFall
<1>1. PICK n \in Nat : n = Len(m.args)
  BY TagsType
<1>2. written'[1] = m /\ phase = "init" /\ msg_end = NULL /\ msg_end' = NULL
  BY DEF wvars, ConvertSize, InitReturns, Reading
<1>3. CASE ConvertSize
  <2>1. StepsLeft = n + 6
    BY <1>1, <1>2, <1>3, Zenon DEF StepsLeft, ConvertSize
  <2>2. phase' = "init" /\ ~(msg_start' < PacketLen')
    BY <1>3, ConvertStep
  <2>3. StepsLeft' = n + 5
    BY <1>1, <1>2, <2>2, Zenon DEF StepsLeft
  <2> QED
    BY <2>1, <2>3 DEF StepsFall
<1>4. CASE InitReturns
  <2>1. ~(IsBundle /\ msg_start < PacketLen)
    <3>1. Holds(m, b)
      BY DEF Reading
    <3>2. CASE b = 0
      BY <3>1, <3>2 DEF Holds
    <3>3. CASE b = 5
      <4>1. PICK L \in Nat : L = PacketLen
        <5>1. Len(packet) \in Nat /\ PacketLen = 4 * Len(packet)
          BY <3>1, PacketLenType
        <5> QED
          BY <5>1
      <4>2. msg_start \in Int
        BY <1>2, <3>1, <3>3, SizeInPlace DEF Reading
      <4>3. IsBundle => msg_start >= L
        BY <1>4, <4>1 DEF InitReturns
      <4> QED
        BY <4>1, <4>2, <4>3
    <3> QED
      BY <3>2, <3>3
  <2>2. StepsLeft = n + 5
    BY <1>1, <1>2, <2>1, Zenon DEF StepsLeft
  <2>3. CASE phase' = "messages"
    <3>1. StepsLeft' = n + 4
      BY <1>1, <1>2, <2>3, Zenon DEF StepsLeft
    <3> QED
      BY <2>2, <3>1 DEF StepsFall
  <2>4. CASE phase' = "error"
    <3>1. StepsLeft' = 0
      BY <2>4, Zenon DEF StepsLeft
    <3> QED
      BY <2>2, <3>1 DEF StepsFall
  <2> QED
    BY <1>4, <2>3, <2>4 DEF InitReturns
<1> QED
  BY <1>3, <1>4

LEMMA StartSteps ==
  ASSUME NEW m \in Message, AllKnown(m), NEW b \in {0, 5}, Reading(m, b), written[1] = m,
         StartMsg \/ StartMsgEnd, UNCHANGED wvars
  PROVE  StepsFall
<1>1. PICK n \in Nat : n = Len(m.args)
  BY TagsType
<1>2. written'[1] = m /\ phase = "messages" /\ Holds(m, b)
  BY DEF wvars, StartMsg, StartMsgEnd, Reading
<1>3. CASE StartMsgEnd
  <2>1. msg_end # NULL /\ phase' = "end"
    BY <1>2, <1>3, NextOfOne DEF StartMsgEnd
  <2>2. StepsLeft = 1 /\ StepsLeft' = 0
    BY <1>2, <2>1, Zenon DEF StepsLeft
  <2> QED
    BY <2>2 DEF StepsFall
<1>4. CASE StartMsg
  <2>1. msg_end = NULL
    BY <1>2, <1>4, NextOfOne DEF StartMsg, Reading
  <2>2. StepsLeft = n + 4
    BY <1>1, <1>2, <2>1, Zenon DEF StepsLeft
  <2>3. Reading(m, b)'
    BY <1>4, StartMsgStep
  <2>4. CASE phase' = "args"
    <3>1. TagsFit'
      BY TagsAreFew, PTL
    <3>2. CASE tags' = NULL
      <4>1. StepsLeft' = 2 + 0
        BY <2>4, <3>2, Zenon DEF StepsLeft
      <4> QED
        BY <2>2, <4>1 DEF StepsFall
    <3>3. CASE tags' # NULL
      <4>1. StepsLeft' = 2 + Len(tags')
        BY <2>4, <3>3, Zenon DEF StepsLeft
      <4>2. Len(tags') \in Nat /\ Len(tags') <= n
        BY <1>1, <2>3, <2>4, <3>1, <3>3 DEF Few, TagsFit
      <4> QED
        BY <2>2, <4>1, <4>2 DEF StepsFall
    <3> QED
      BY <3>2, <3>3
  <2>5. CASE phase' \in {"error", "astray"}
    <3>1. StepsLeft' = 0
      BY <2>5, Zenon DEF StepsLeft
    <3> QED
      BY <2>2, <3>1 DEF StepsFall
  <2> QED
    BY <1>4, <2>4, <2>5 DEF StartMsg, StartMsgAt
<1> QED
  BY <1>3, <1>4

LEMMA ArgSteps ==
  ASSUME NEW m \in Message, NEW b \in {0, 5}, Reading(m, b), GetArg \/ GetArgNone
  PROVE  StepsFall
<1>1. phase = "args" /\ Holds(m, b) /\ msg_end = PacketLen /\ msg_end # NULL /\ msg_end' = msg_end
  BY PacketLenType DEF GetArg, GetArgNone, Reading
<1>2. tags = NULL \/ (tags # NULL /\ tags \in Seq(TypeTags))
  BY <1>1, TagsAreFew DEF Few, TagsFit
<1>3. CASE GetArgNone
  <2>1. phase' \in {"messages", "error"}
    BY <1>3 DEF GetArgNone
  <2>2. StepsLeft' \in 0 .. 1
    <3>1. StepsLeft' = 0 \/ StepsLeft' = 1
      BY <1>1, <2>1, Zenon DEF StepsLeft
    <3> QED
      BY <3>1
  <2>3. StepsLeft = 2 + 0 \/ StepsLeft = 2 + Len(tags)
    BY <1>1, Zenon DEF StepsLeft
  <2> QED
    BY <1>2, <1>3, <2>2, <2>3 DEF StepsFall, GetArgNone
<1>4. CASE GetArg
  <2>1. tags # NULL /\ tags # << >> /\ tags' = Tail(tags)
    BY <1>4 DEF GetArg
  <2>2. PICK t \in Seq(TypeTags) : t = tags /\ t # << >>
    BY <1>2, <2>1
  <2>3. tags' \in Seq(TypeTags) /\ Len(tags') = Len(t) - 1 /\ Len(t) \in Nat /\ Len(t) > 0
    <3>1. Tail(t) \in Seq(TypeTags) /\ Len(Tail(t)) = Len(t) - 1
      BY <2>2, HeadTailProperties
    <3> QED
      BY <2>1, <2>2, <3>1
  <2>4. StepsLeft = 2 + Len(t)
    BY <1>1, <2>1, <2>2, Zenon DEF StepsLeft
  <2>5. CASE phase' = "args"
    <3>1. tags' # NULL
      BY <2>3, IdeasAssumption
    <3>2. StepsLeft' = 2 + Len(tags')
      BY <2>5, <3>1, Zenon DEF StepsLeft
    <3> QED
      BY <2>3, <2>4, <3>2 DEF StepsFall
  <2>6. CASE phase' = "error"
    <3>1. StepsLeft' = 0
      BY <2>6, Zenon DEF StepsLeft
    <3> QED
      BY <2>3, <2>4, <3>1 DEF StepsFall
  <2> QED
    BY <1>1, <1>4, <2>5, <2>6 DEF GetArg
<1> QED
  BY <1>3, <1>4

(* Every step of the receiver of one message, whether or not the last word of it was
   lost, brings it nearer to the end or to an error: the loop of osc_reader_init
   converts one size, and the message is found once (ideas/osc.c:176-364). *)
THEOREM StepsGoOn == RSpec => [][Read /\ One => StepsFall]_<<wvars, rvars>>
<1>1. ASSUME BundleInv, ReadingInv, Read, One
      PROVE  StepsFall
  <2>1. PICK m \in Message : written[1] = m /\ AllKnown(m)
    BY <1>1, OneMessage
  <2>2. phase # "none" /\ UNCHANGED wvars
    BY <1>1 DEF Read, ConvertSize, InitReturns, StartMsgEnd, StartMsg, GetArgNone, GetArg
  <2>3. PICK b \in {0, 5} : Reading(m, b)
    BY <1>1, <2>1, <2>2 DEF ReadingInv
  <2> QED
    BY <1>1, <2>1, <2>2, <2>3, InitSteps, StartSteps, ArgSteps DEF Read
<1> QED
  BY <1>1, BundleInvariant, ReadingInvariant, PTL
=============================================================================
