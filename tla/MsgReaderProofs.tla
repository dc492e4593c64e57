-------------------------- MODULE MsgReaderProofs --------------------------
(***************************************************************************)
(* The message reader, for all arguments that senders may put in messages, *)
(* messages of every length, cut anywhere.                                 *)
(***************************************************************************)
EXTENDS MsgReader, SequenceLemmas

(* A message under the reader. *)
MsgOK(m) ==
  /\ m.addr \in Nat /\ m.len \in Nat /\ m.typed \in BOOLEAN
  /\ m.args \in Seq(Args)
  /\ m.len <= WholeLen(m)

Data(args) == [i \in DOMAIN args |-> args[i].words]

(* The words of a message are words that senders put in messages. *)
LEMMA DataType ==
  ASSUME NEW args \in Seq(Args)
  PROVE  /\ Data(args) \in Seq(Seq(Sent)) /\ Len(Data(args)) = Len(args)
         /\ Len(args) \in Nat
         /\ DataOf(args) \in Seq(Sent) /\ Len(DataOf(args)) \in Nat
<1>1. \A i \in 1 .. Len(args) : args[i].words \in Seq(Sent)
  BY ReaderAssumption
<1>2. Data(args) \in Seq(Seq(Sent)) /\ Len(Data(args)) = Len(args)
  <2>1. DOMAIN args = 1 .. Len(args) /\ Len(args) \in Nat
    OBVIOUS
  <2>2. Data(args) = [i \in 1 .. Len(args) |-> args[i].words]
    BY <2>1 DEF Data
  <2> QED
    BY <1>1, <2>1, <2>2
<1>3. DataOf(args) = FlattenSeq(Data(args))
  BY DEF DataOf, Data
<1> QED
  BY <1>2, <1>3, FlattenType

(* Rounding to words keeps numbers. *)
LEMMA WordsType ==
  ASSUME NEW n \in Int
  PROVE  /\ Words(n) \in Int
         /\ n \in Nat => Words(n) \in Nat /\ Words(n + 2) \in Nat
  BY DEF Words

LEMMA MaxInt32Type == MaxInt32 \in Int /\ MaxInt32 >= 3
  BY SMT DEF MaxInt32

(* The size of a blob that is sent is rounded to one number of words; any number is
   rounded to whole numbers. *)
LEMMA RoundedType ==
  ASSUME NEW sz \in Int32s
  PROVE  /\ Rounded(sz) \subseteq Int
         /\ sz \in 0 .. MaxInt32 - 3 => Rounded(sz) = {Words(sz)} /\ Words(sz) \in Nat
<1>1. sz \in Int /\ MaxInt32 \in Int
  BY MaxInt32Type, SMT DEF Int32s
<1>2. Words(sz) \in Int /\ (sz \in Nat => Words(sz) \in Nat)
  BY <1>1, WordsType
<1>3. -536870912 \in Int
  BY SMT
<1>4. sz \in 0 .. MaxInt32 - 3 => sz \in Nat /\ ~(sz > MaxInt32 - 3)
  BY <1>1, SMT
<1> QED
  BY <1>2, <1>3, <1>4, SMT DEF Rounded

(* Where arguments start, and how much a whole message takes, are numbers. *)
LEMMA MsgFacts ==
  ASSUME NEW m, MsgOK(m)
  PROVE  /\ ArgStart(m) \in Nat /\ Len(DataOf(m.args)) \in Nat /\ m.len \in Nat
         /\ m.len <= WholeLen(m)
         /\ \A i \in 1 .. Len(DataOf(m.args)) : DataOf(m.args)[i] \in Sent
         /\ WholeLen(m) = ArgStart(m) + Len(DataOf(m.args))
<1>1. DataOf(m.args) \in Seq(Sent) /\ Len(DataOf(m.args)) \in Nat /\ Len(m.args) \in Nat
  BY DataType DEF MsgOK
<1>2. TagWords(m) \in Nat
  <2>1. Len(m.args) \in Int /\ Len(m.args) \in Nat
    BY <1>1
  <2>2. Words(Len(m.args) + 2) \in Nat
    BY <2>1, WordsType
  <2> QED
    BY <2>2 DEF TagWords
<1>3. ArgStart(m) \in Nat
  BY <1>2 DEF MsgOK, ArgStart
<1> QED
  BY <1>1, <1>3 DEF MsgOK, WholeLen

(* The least of a set of natural numbers. *)
LEMMA MinIsLeast ==
  ASSUME NEW T \in SUBSET Nat, T # {}
  PROVE  Min(T) \in T /\ \A y \in T : Min(T) <= y
  BY Least DEF Min

(* The kinds of tags are disjoint. *)
LEMMA Kinds ==
  /\ {"i", "h", "s", "b"} \subseteq Known
  /\ DOMAIN Fixed = {"i", "f", "h", "t", "d"}
  /\ \A tag \in DOMAIN Fixed : Fixed[tag] \in Nat
  BY DEF Known, NoData, Fixed, Strings

(* A read takes no less than nothing, but for a blob. *)
LEMMA SizesType ==
  ASSUME MsgOK(msg), arg_ptr \in Int, arg_ptr <= msg.len, NEW tag \in Known,
         NEW size \in Sizes(tag)
  PROVE  size \in Int /\ (tag # "b" => size >= 0)
<1>1. /\ ArgStart(msg) \in Nat /\ msg.len \in Nat /\ Len(DataOf(msg.args)) \in Nat
      /\ msg.len <= WholeLen(msg)
      /\ WholeLen(msg) = ArgStart(msg) + Len(DataOf(msg.args))
  BY MsgFacts
<1>2. StrWords \subseteq Nat
  <2> DEFINE ends == {p \in arg_ptr .. WholeLen(msg) - 1 : Word(p).nul}
  <2>1. Rest + 1 \in Nat
    BY <1>1 DEF Rest
  <2>2. CASE arg_ptr < ArgStart(msg)
    <3>1. 1 .. ArgStart(msg) - arg_ptr \subseteq Nat
      BY <1>1
    <3> QED
      BY <2>2, <3>1 DEF StrWords
  <2>3. CASE ~(arg_ptr < ArgStart(msg)) /\ ends = {}
    BY <2>1, <2>3 DEF StrWords
  <2>4. CASE ~(arg_ptr < ArgStart(msg)) /\ ends # {}
    <3>1. arg_ptr \in Nat /\ ends \in SUBSET Nat /\ \A p \in ends : p >= arg_ptr
      BY <1>1, <2>4
    <3>2. StrWords = {Min(ends) - arg_ptr + 1}
      BY <2>4 DEF StrWords
    <3> HIDE DEF ends
    <3>3. Min(ends) \in ends
      BY <2>4, <3>1, MinIsLeast
    <3>4. Min(ends) \in Nat /\ Min(ends) >= arg_ptr
      BY <3>1, <3>3
    <3>5. Min(ends) - arg_ptr + 1 \in Nat
      BY <3>1, <3>4
    <3> QED
      BY <3>2, <3>5
  <2> QED
    BY <2>2, <2>3, <2>4
<1>3. CASE tag \in NoData
  BY <1>3, Kinds DEF Sizes, NoData, Strings
<1>4. CASE tag \in DOMAIN Fixed
  <2>1. tag \notin NoData /\ tag \notin Strings /\ tag # "b"
    BY <1>4, Kinds DEF NoData, Strings
  <2>2. Sizes(tag) = {Fixed[tag]}
    BY <1>4, <2>1 DEF Sizes
  <2> QED
    BY <1>4, <2>2, Kinds
<1>5. CASE tag \in Strings
  <2>1. Sizes(tag) = StrWords
    BY <1>5, Kinds DEF Sizes, NoData, Strings
  <2>2. size \in Nat
    BY <1>2, <2>1
  <2> QED
    BY <2>2
<1>6. CASE tag = "b"
  <2>1. Sizes(tag) = IF Rest < 1 THEN {1}
                     ELSE {1 + n : n \in UNION {Rounded(sz) : sz \in NextWord}}
    BY <1>6, Kinds DEF Sizes, NoData, Strings
  <2>2. CASE Rest < 1
    BY <1>6, <2>1, <2>2
  <2>3. CASE ~(Rest < 1)
    <3>1. NextWord \subseteq Int32s
      <4>1. CASE arg_ptr >= ArgStart(msg)
        <5>1. arg_ptr - ArgStart(msg) + 1 \in 1 .. Len(DataOf(msg.args))
          BY <1>1, <2>3, <4>1 DEF Rest
        <5>2. Word(arg_ptr) \in Sent
          BY <5>1, MsgFacts DEF Word
        <5> QED
          BY <4>1, <5>2, ReaderAssumption DEF NextWord
      <4>2. CASE ~(arg_ptr >= ArgStart(msg))
        BY <4>2, ReaderAssumption DEF NextWord
      <4> QED
        BY <4>1, <4>2
    <3>2. UNION {Rounded(sz) : sz \in NextWord} \subseteq Int
      BY <3>1, RoundedType
    <3>3. PICK n \in UNION {Rounded(sz) : sz \in NextWord} : size = 1 + n
      BY <2>1, <2>3
    <3> QED
      BY <1>6, <3>2, <3>3
  <2> QED
    BY <2>2, <2>3
<1> QED
  BY <1>3, <1>4, <1>5, <1>6 DEF Known

(* The argument pointer is not behind the end of the message, and not in front of
   the arguments unless a size below zero has been read. *)
ArgPtrOK ==
  /\ arg_ptr \in Int /\ arg_ptr <= msg.len
  /\ arg_ptr >= ArgStart(msg) \/ negative
  /\ negative \in BOOLEAN

(* A read keeps it so, whether it fails or not. *)
LEMMA AdvanceStays ==
  ASSUME MsgOK(msg), ArgPtrOK, NEW tag \in Known, Advance(tag), UNCHANGED msg
  PROVE  ArgPtrOK' /\ ret' \in {OSC_OK, OSC_ERROR}
<1>1. PICK size \in Sizes(tag) :
        /\ IF size <= Rest
           THEN /\ arg_ptr' = arg_ptr + size
                /\ ret' = OSC_OK
           ELSE /\ arg_ptr' = IF tag = "b" /\ Rest >= 1 THEN arg_ptr + 1 ELSE arg_ptr
                /\ ret' = OSC_ERROR
        /\ negative' = (negative \/ (tag = "b" /\ size < 1))
  BY DEF Advance
<1>2. size \in Int /\ (tag # "b" => size >= 0)
  BY SizesType DEF ArgPtrOK
<1>3. /\ ArgStart(msg) \in Nat /\ msg.len \in Nat /\ ArgStart(msg') = ArgStart(msg)
      /\ arg_ptr \in Int /\ arg_ptr <= msg.len
      /\ negative \in BOOLEAN /\ negative' \in BOOLEAN
      /\ arg_ptr >= ArgStart(msg) \/ negative
  <2>1. ArgStart(msg) \in Nat /\ msg.len \in Nat
    BY MsgFacts
  <2>2. negative' \in BOOLEAN
    BY <1>1, Zenon DEF ArgPtrOK
  <2> QED
    BY <2>1, <2>2 DEF ArgPtrOK
<1>4. (negative => negative') /\ (tag = "b" /\ size < 1 => negative')
  BY <1>1, Zenon
<1>5. CASE size <= Rest
  <2>1. arg_ptr' = arg_ptr + size /\ ret' = OSC_OK
    BY <1>1, <1>5
  <2>2. arg_ptr' \in Int /\ arg_ptr' <= msg.len
    BY <1>2, <1>3, <1>5, <2>1 DEF Rest
  <2>3. arg_ptr' >= ArgStart(msg) \/ size < 0 \/ negative
    BY <1>2, <1>3, <2>1
  <2>4. arg_ptr' >= ArgStart(msg) \/ negative'
    BY <1>2, <1>4, <2>3
  <2> QED
    BY <1>3, <2>1, <2>2, <2>4 DEF ArgPtrOK
<1>6. CASE ~(size <= Rest)
  <2>1. ret' = OSC_ERROR
        /\ (arg_ptr' = arg_ptr \/ (Rest >= 1 /\ arg_ptr' = arg_ptr + 1))
    BY <1>1, <1>6
  <2>2. /\ arg_ptr' \in Int /\ arg_ptr' <= msg.len
        /\ arg_ptr >= ArgStart(msg) => arg_ptr' >= ArgStart(msg)
    BY <1>3, <2>1 DEF Rest
  <2> QED
    BY <1>3, <1>4, <2>1, <2>2 DEF ArgPtrOK
<1> QED
  BY <1>5, <1>6
-----------------------------------------------------------------------------
(* Where the pointers are. *)
ReaderInv ==
  /\ caller \in {"dump", "any"}
  /\ negative \in BOOLEAN
  /\ msg # NULL =>
       /\ MsgOK(msg)
       /\ arg_ptr = NULL => msg.addr = msg.len /\ type_ptr = NULL
       /\ arg_ptr # NULL => ArgPtrOK
  /\ ret = NULL => msg # NULL /\ arg_ptr = NULL /\ caller = "any"

(* An init leaves the argument pointer at NULL or where arguments start. *)
LEMMA InitStep ==
  ASSUME ReaderInv, MsgReaderInit
  PROVE  ReaderInv'
<1>1. PICK addr \in AddrWords, typed \in BOOLEAN, args \in BoundedSeq(Args, MaxArgs) :
        LET whole == [addr |-> addr, typed |-> typed, args |-> args, len |-> 0]
        IN \E len \in IF Cut THEN 1 .. WholeLen(whole) ELSE {WholeLen(whole)} :
             LET m == [whole EXCEPT !.len = len]
             IN InitFails(m) \/ InitAddressOnly(m) \/ InitArgs(m)
  BY DEF MsgReaderInit
<1> DEFINE whole == [addr |-> addr, typed |-> typed, args |-> args, len |-> 0]
<1>2. PICK len \in IF Cut THEN 1 .. WholeLen(whole) ELSE {WholeLen(whole)} :
        LET m == [whole EXCEPT !.len = len]
        IN InitFails(m) \/ InitAddressOnly(m) \/ InitArgs(m)
  BY <1>1
<1> DEFINE m == [whole EXCEPT !.len = len]
<1>3. InitFails(m) \/ InitAddressOnly(m) \/ InitArgs(m)
  BY <1>2
<1>4. args \in Seq(Args)
  BY ReaderAssumption DEF BoundedSeq, SeqOf
<1>5. /\ m.addr = addr /\ m.typed = typed /\ m.args = args /\ m.len = len
      /\ whole.addr = addr /\ whole.typed = typed /\ whole.args = args
  OBVIOUS
<1> HIDE DEF m, whole
<1>6. MsgOK(m) /\ ArgStart(m) \in Nat
  <2>1. Len(DataOf(args)) \in Nat /\ Len(args) \in Nat
    BY <1>4, DataType
  <2>2. addr \in Nat
    BY ReaderAssumption
  <2>3. TagWords(m) \in Nat
    BY <1>5, <2>1, WordsType DEF TagWords
  <2>4. WholeLen(whole) = WholeLen(m) /\ WholeLen(m) \in Nat /\ ArgStart(m) \in Nat
    BY <1>5, <2>1, <2>2, <2>3 DEF WholeLen, ArgStart, TagWords
  <2>5. len \in Nat /\ len <= WholeLen(m)
    BY <1>2, <2>4
  <2> QED
    BY <1>4, <1>5, <2>2, <2>4, <2>5 DEF MsgOK
<1>7. UNCHANGED <<caller, negative>> /\ negative \in BOOLEAN /\ NULL \notin Int
  BY ReaderAssumption DEF MsgReaderInit, ReaderInv
<1>8. CASE InitFails(m)
  BY <1>7, <1>8 DEF InitFails, ReaderInv, OSC_ERROR
<1>9. CASE InitAddressOnly(m)
  BY <1>6, <1>7, <1>9 DEF InitAddressOnly, ReaderInv, OSC_OK
<1>10. CASE InitArgs(m)
  <2>1. msg' = m /\ arg_ptr' = ArgStart(m) /\ ret' # NULL /\ ArgStart(m) # NULL
    BY <1>6, <1>7, <1>10 DEF InitArgs, OSC_OK
  <2>2. ArgPtrOK'
    <3>1. arg_ptr' \in Int /\ arg_ptr' <= m.len /\ arg_ptr' >= ArgStart(m)
      BY <1>6, <1>10, <2>1 DEF InitArgs, MsgOK
    <3> QED
      BY <1>7, <2>1, <3>1 DEF ArgPtrOK
  <2> QED
    BY <1>6, <1>7, <2>1, <2>2 DEF ReaderInv
<1> QED
  BY <1>3, <1>8, <1>9, <1>10

LEMMA HighTagsType ==
  \A tag \in DOMAIN HighTags :
    HighTags[tag] \in Int /\ 128 <= HighTags[tag] /\ HighTags[tag] <= 255
<1> TAKE tag \in DOMAIN HighTags
<1>1. HighTags[tag] \in 128 .. 255
  BY ReaderAssumption
<1> QED
  BY <1>1

(* What osc_msg_reader_next_arg answers is a number. *)
LEMMA CharType ==
  /\ NoTagChar \in Int
  /\ TagChar \in Int /\ TagChar # OSC_OK
<1>1. NoTagChar \in Int
  BY DEF NoTagChar, OSC_ERROR, OSC_END
<1>2. \A tag \in DOMAIN HighTags : HighTags[tag] - 256 \in Int /\ HighTags[tag] - 256 # 0
  <2> TAKE tag \in DOMAIN HighTags
  <2>1. HighTags[tag] \in Int /\ HighTags[tag] <= 255
    BY HighTagsType, Zenon
  <2> QED
    BY <2>1
<1> QED
  BY <1>1, <1>2 DEF TagChar, OSC_OK

(* A read by its tag keeps the invariant. *)
LEMMA GetArgStep ==
  ASSUME ReaderInv, UNCHANGED caller, GetArg \/ GetArgNone \/ NextArg
  PROVE  ReaderInv'
<1>1. /\ msg # NULL /\ MsgOK(msg) /\ UNCHANGED msg /\ NULL \notin Int
      /\ negative \in BOOLEAN
      /\ arg_ptr = NULL => msg.addr = msg.len /\ type_ptr = NULL
      /\ arg_ptr # NULL => ArgPtrOK
  BY ReaderAssumption DEF ReaderInv, GetArg, GetArgNone, NextArg, Open
<1>2. DOMAIN msg.args \subseteq Int
  BY <1>1 DEF MsgOK
<1>3. CASE GetArg
  <2>1. type_ptr \in Int /\ arg_ptr # NULL /\ ArgPtrOK
    BY <1>1, <1>2, <1>3 DEF GetArg, NoTag
  <2>2. ArgPtrOK' /\ ret' \in Int
    <3>1. CASE msg.args[type_ptr].tag \in Known
      <4>1. Advance(msg.args[type_ptr].tag)
        BY <1>3, <3>1 DEF GetArg
      <4>2. ArgPtrOK' /\ ret' \in {OSC_OK, OSC_ERROR}
        BY <1>1, <2>1, <3>1, <4>1, AdvanceStays
      <4> QED
        BY <4>2 DEF OSC_OK, OSC_ERROR
    <3>2. CASE msg.args[type_ptr].tag \notin Known
      <4>1. UNCHANGED <<arg_ptr, negative>> /\ (ret' = TagChar \/ ret' = OSC_ERROR)
        BY <1>3, <3>2 DEF GetArg
      <4>2. ArgPtrOK'
        BY <1>1, <2>1, <4>1 DEF ArgPtrOK
      <4> QED
        BY <4>1, <4>2, CharType DEF OSC_ERROR
    <3> QED
      BY <3>1, <3>2
  <2>3. arg_ptr' # NULL /\ ret' # NULL /\ negative' \in BOOLEAN
    BY <1>1, <2>2 DEF ArgPtrOK
  <2> QED
    BY <1>1, <2>2, <2>3 DEF ReaderInv
<1>4. CASE GetArgNone
  <2>1. ret' \in Int
    BY <1>4, CharType DEF GetArgNone, OSC_ERROR
  <2>2. ArgPtrOK => ArgPtrOK'
    BY <1>4 DEF GetArgNone, ArgPtrOK
  <2> QED
    BY <1>1, <1>4, <2>1, <2>2 DEF GetArgNone, ReaderInv
<1>5. CASE NextArg
  <2>1. ret' \in Int
    BY <1>5, CharType DEF NextArg
  <2>2. type_ptr = NULL => type_ptr' = NULL
    BY <1>1, <1>2, <1>5 DEF NextArg, NoTag
  <2>3. ArgPtrOK => ArgPtrOK'
    BY <1>5 DEF NextArg, ArgPtrOK
  <2> QED
    BY <1>1, <1>5, <2>1, <2>2, <2>3 DEF NextArg, ReaderInv
<1> QED
  BY <1>3, <1>4, <1>5

(* So does a read of any type. *)
LEMMA GetArgOfStep ==
  ASSUME ReaderInv, UNCHANGED caller, caller = "any",
         NEW tag \in {"i", "h", "s", "b"}, GetArgOf(tag)
  PROVE  ReaderInv'
<1>1. /\ msg # NULL /\ MsgOK(msg) /\ UNCHANGED <<msg, type_ptr>> /\ NULL \notin Int
      /\ negative \in BOOLEAN
      /\ arg_ptr = NULL => msg.addr = msg.len /\ type_ptr = NULL
      /\ arg_ptr # NULL => ArgPtrOK
  BY ReaderAssumption DEF ReaderInv, GetArgOf, Open
<1>2. CASE arg_ptr = NULL
  BY <1>1, <1>2 DEF GetArgOf, ReaderInv
<1>3. CASE arg_ptr # NULL
  <2>1. tag \in Known
    BY Kinds
  <2>2. Advance(tag)
    BY <1>3 DEF GetArgOf
  <2>3. ArgPtrOK' /\ ret' \in {OSC_OK, OSC_ERROR}
    BY <1>1, <1>3, <2>1, <2>2, AdvanceStays
  <2>4. arg_ptr' # NULL /\ ret' # NULL /\ negative' \in BOOLEAN
    BY <1>1, <2>3 DEF ArgPtrOK, OSC_OK, OSC_ERROR
  <2> QED
    BY <1>1, <2>3, <2>4 DEF ReaderInv
<1> QED
  BY <1>2, <1>3

LEMMA ReaderInvariant == Spec => []ReaderInv
<1>0. OSC_OK # NULL
  BY ReaderAssumption DEF OSC_OK
<1>1. Init => ReaderInv
  BY <1>0, Zenon DEF Init, ReaderInv
<1>2. ReaderInv /\ [Next]_vars => ReaderInv'
  <2> SUFFICES ASSUME ReaderInv, [Next]_vars
               PROVE  ReaderInv'
    OBVIOUS
  <2>1. CASE MsgReaderInit
    BY <2>1, InitStep
  <2>2. CASE caller = "dump" /\ DumpArg
    BY <2>2, GetArgStep DEF DumpArg
  <2>3. CASE caller = "any" /\ ReadAnything
    BY <2>3, GetArgStep, GetArgOfStep DEF ReadAnything
  <2>4. CASE NextMessage
    BY <1>0, <2>4, Zenon DEF NextMessage, ReaderInv
  <2>5. CASE UNCHANGED vars
    BY <2>5 DEF vars, ReaderInv, ArgPtrOK
  <2> QED
    BY <2>1, <2>2, <2>3, <2>4, <2>5 DEF Next
<1> QED
  BY <1>1, <1>2, PTL DEF Spec

(* Only a message that is its address alone is read through NULL. *)
THEOREM NullReads == Spec => []NullReadAtAddressOnly
<1>1. ReaderInv => NullReadAtAddressOnly
  BY DEF ReaderInv, NullReadAtAddressOnly
<1> QED
  BY <1>1, ReaderInvariant, PTL
-----------------------------------------------------------------------------
(* Where argument i of m lies, and whether the dump can print it. *)
PlaceIn(m, i) == ArgStart(m) + Len(DataOf(SubSeq(m.args, 1, i - 1)))

Fits(m, i) == m.args[i].tag \in Known /\ PlaceIn(m, i + 1) <= m.len

(* The words of the first i arguments. *)
LEMMA DataPrefix ==
  ASSUME NEW args \in Seq(Args), NEW i \in 0 .. Len(args)
  PROVE  DataOf(SubSeq(args, 1, i)) = FlatTo(Data(args), i)
<1>1. Len(args) \in Nat /\ Len(Data(args)) = Len(args) /\ Data(args) \in Seq(Seq(Sent))
  BY DataType
<1>2. /\ SubSeq(args, 1, i) \in Seq(Args) /\ Len(SubSeq(args, 1, i)) = i
      /\ \A j \in 1 .. i : SubSeq(args, 1, i)[j] = args[j] /\ j \in DOMAIN args
  OBVIOUS
<1>3. DOMAIN SubSeq(args, 1, i) = 1 .. i
  BY <1>2
<1>4. Data(SubSeq(args, 1, i)) = [j \in 1 .. i |-> args[j].words]
  BY <1>2, <1>3 DEF Data
<1>5. SubSeq(Data(args), 1, i) = [j \in 1 .. i |-> args[j].words]
  <2>1. SubSeq(Data(args), 1, i) = [j \in 1 .. i |-> Data(args)[j]]
    BY <1>1
  <2>2. \A j \in 1 .. i : Data(args)[j] = args[j].words
    BY <1>2 DEF Data
  <2> QED
    BY <2>1, <2>2
<1> QED
  BY <1>4, <1>5 DEF DataOf, Data, FlatTo

(* An argument lies behind the one before it, and its words there. *)
LEMMA PlaceNext ==
  ASSUME NEW m, MsgOK(m), NEW i \in 1 .. Len(m.args)
  PROVE  /\ PlaceIn(m, i) \in Nat /\ ArgStart(m) <= PlaceIn(m, i)
         /\ Len(m.args[i].words) \in Nat
         /\ PlaceIn(m, i + 1) = PlaceIn(m, i) + Len(m.args[i].words)
         /\ PlaceIn(m, i + 1) <= WholeLen(m)
         /\ \A k \in 1 .. Len(m.args[i].words) :
              DataOf(m.args)[PlaceIn(m, i) - ArgStart(m) + k] = m.args[i].words[k]
<1> DEFINE a == FlatTo(Data(m.args), i - 1)
           b == FlatTo(Data(m.args), i)
           x == m.args[i].words
           d == DataOf(m.args)
<1>1. /\ m.args \in Seq(Args) /\ Len(m.args) \in Nat
      /\ Data(m.args) \in Seq(Seq(Sent)) /\ Len(Data(m.args)) = Len(m.args)
      /\ d = FlattenSeq(Data(m.args)) /\ ArgStart(m) \in Nat
      /\ WholeLen(m) = ArgStart(m) + Len(d)
  BY DataType, MsgFacts DEF MsgOK, DataOf, Data
<1>2. i - 1 \in 0 .. Len(m.args) - 1 /\ (i - 1) + 1 = i /\ (i + 1) - 1 = i
      /\ i - 1 \in 0 .. Len(m.args) /\ i \in 0 .. Len(m.args)
  BY <1>1
<1>3. Data(m.args)[i] = x /\ x \in Seq(Sent)
  BY <1>1, ReaderAssumption DEF Data
<1>4. PlaceIn(m, i) = ArgStart(m) + Len(a) /\ PlaceIn(m, i + 1) = ArgStart(m) + Len(b)
  BY <1>1, <1>2, DataPrefix DEF PlaceIn
<1>5. b = a \o x
  BY <1>1, <1>2, <1>3, FlatToNext
<1>6. a \in Seq(Sent) /\ b \in Seq(Sent) /\ d \in Seq(Sent)
  BY <1>1, <1>2, FlatToWhole
<1>7. Len(b) <= Len(d) /\ \A k \in 1 .. Len(b) : d[k] = b[k]
  BY <1>1, <1>2, FlatToWhole
<1> HIDE DEF a, b, x, d
<1>8. /\ Len(a) \in Nat /\ Len(x) \in Nat /\ Len(b) = Len(a) + Len(x) /\ Len(d) \in Nat
      /\ \A k \in 1 .. Len(x) : (a \o x)[Len(a) + k] = x[k] /\ Len(a) + k \in 1 .. Len(b)
  BY <1>3, <1>5, <1>6
<1>9. \A k \in 1 .. Len(x) : d[PlaceIn(m, i) - ArgStart(m) + k] = x[k]
  <2> TAKE k \in 1 .. Len(x)
  <2>1. PlaceIn(m, i) - ArgStart(m) + k = Len(a) + k
    BY <1>1, <1>4, <1>8
  <2> QED
    BY <1>5, <1>7, <1>8, <2>1
<1>10. /\ PlaceIn(m, i) \in Nat /\ ArgStart(m) <= PlaceIn(m, i) /\ Len(x) \in Nat
       /\ PlaceIn(m, i + 1) = PlaceIn(m, i) + Len(x)
       /\ PlaceIn(m, i + 1) <= WholeLen(m)
  BY <1>1, <1>4, <1>7, <1>8
<1> QED
  BY <1>9, <1>10 DEF x, d

(* What a read takes of an argument that is all there; of one that is not it asks
   for more than there is. *)
LEMMA SizeRight ==
  ASSUME MsgOK(msg), NEW i \in 1 .. Len(msg.args), msg.args[i].tag \in Known,
         arg_ptr = PlaceIn(msg, i), arg_ptr <= msg.len,
         NEW size \in Sizes(msg.args[i].tag)
  PROVE  /\ size <= Rest <=> PlaceIn(msg, i + 1) <= msg.len
         /\ size <= Rest => size = Len(msg.args[i].words)
         /\ msg.args[i].tag = "b" => size >= 1
<1> DEFINE arg == msg.args[i]
           L == Len(arg.words)
           tag == arg.tag
<1>1. /\ arg \in Args /\ L \in Nat /\ arg_ptr \in Nat /\ msg.len \in Nat
      /\ ArgStart(msg) \in Nat /\ WholeLen(msg) \in Nat /\ tag \in Known
      /\ PlaceIn(msg, i + 1) = arg_ptr + L /\ arg_ptr + L <= WholeLen(msg)
      /\ msg.len <= WholeLen(msg) /\ arg_ptr >= ArgStart(msg)
  BY PlaceNext, MsgFacts DEF MsgOK
<1>2. \A k \in 1 .. L : Word(arg_ptr + k - 1) = arg.words[k]
  <2> TAKE k \in 1 .. L
  <2>1. (arg_ptr + k - 1) - ArgStart(msg) + 1 = arg_ptr - ArgStart(msg) + k
    BY <1>1
  <2>2. DataOf(msg.args)[PlaceIn(msg, i) - ArgStart(msg) + k] = msg.args[i].words[k]
    BY PlaceNext
  <2>3. Word(arg_ptr + k - 1) = DataOf(msg.args)[(arg_ptr + k - 1) - ArgStart(msg) + 1]
    BY DEF Word
  <2> HIDE DEF L
  <2> QED
    BY <2>1, <2>2, <2>3
<1>3. \/ tag \in NoData /\ L = 0
      \/ tag \in DOMAIN Fixed /\ L = Fixed[tag]
      \/ /\ tag \in Strings
         /\ arg.words # << >>
         /\ \A k \in 1 .. L : arg.words[k].nul <=> k = L
      \/ /\ tag = "b"
         /\ arg.words # << >>
         /\ arg.words[1].v \in 0 .. MaxInt32 - 3
         /\ L = 1 + Words(arg.words[1].v)
  <2>1. arg.words \in Seq(Sent)
    BY <1>1, ReaderAssumption
  <2>2. DOMAIN arg.words = 1 .. L
    BY <2>1
  <2>3. \/ tag \in NoData /\ arg.words = << >>
        \/ tag \in DOMAIN Fixed /\ L = Fixed[tag]
        \/ /\ tag \in Strings
           /\ arg.words # << >>
           /\ \A k \in DOMAIN arg.words : arg.words[k].nul <=> k = L
        \/ /\ tag = "b"
           /\ arg.words # << >>
           /\ arg.words[1].v \in 0 .. MaxInt32 - 3
           /\ L = 1 + Words(arg.words[1].v)
    <3>1. arg \in Args /\ tag \in Known
      BY <1>1
    <3> HIDE DEF arg
    <3> QED
      BY <3>1, ReaderAssumption
  <2>4. arg.words = << >> => L = 0
    OBVIOUS
  <2> HIDE DEF arg, L, tag
  <2> QED
    BY <2>2, <2>3, <2>4
<1>4. arg.words # << >> => L >= 1
  <2>1. arg.words \in Seq(Sent)
    BY <1>1, ReaderAssumption
  <2> QED
    BY <2>1
<1> HIDE DEF arg, L, tag
<1>5. SUFFICES /\ size <= Rest <=> arg_ptr + L <= msg.len
               /\ size <= Rest => size = L
               /\ tag = "b" => size >= 1
  BY <1>1 DEF arg, L, tag
<1>6. Rest = msg.len - arg_ptr /\ Rest \in Nat /\ size \in Sizes(tag)
  BY <1>1 DEF Rest, tag, arg
<1>7. CASE size = L /\ (tag = "b" => L >= 1)
  BY <1>1, <1>6, <1>7
<1>8. CASE tag \in NoData /\ L = 0
  <2>1. size = 0 /\ tag # "b"
    BY <1>6, <1>8, Kinds DEF Sizes, NoData, Strings
  <2> QED
    BY <1>7, <1>8, <2>1
<1>9. CASE tag \in DOMAIN Fixed /\ L = Fixed[tag]
  <2>1. tag \notin NoData
    BY <1>9, Kinds DEF NoData
  <2>2. tag \notin Strings /\ tag # "b"
    BY <1>9, Kinds DEF Strings
  <2>3. Sizes(tag) = {Fixed[tag]}
    BY <1>9, <2>1, <2>2 DEF Sizes
  <2> QED
    BY <1>6, <1>7, <1>9, <2>2, <2>3
<1>10. CASE /\ tag \in Strings
            /\ arg.words # << >>
            /\ \A k \in 1 .. L : arg.words[k].nul <=> k = L
  <2> DEFINE ends == {p \in arg_ptr .. WholeLen(msg) - 1 : Word(p).nul}
             e == arg_ptr + L - 1
  <2>1. L >= 1 /\ arg_ptr + L - 1 = e
    BY <1>4, <1>10
  <2>2. e \in ends
    <3>1. Word(e).nul
      <4>1. L \in 1 .. L
        BY <1>1, <2>1
      <4>2. Word(e) = arg.words[L]
        BY <1>2, <4>1
      <4>3. arg.words[L].nul
        BY <1>10, <4>1
      <4> QED
        BY <4>2, <4>3
    <3> QED
      BY <1>1, <2>1, <3>1
  <2>3. \A p \in ends : e <= p
    <3> SUFFICES ASSUME NEW p \in ends, p < e
                 PROVE  FALSE
      BY <1>1
    <3>1. p - arg_ptr + 1 \in 1 .. L /\ arg_ptr + (p - arg_ptr + 1) - 1 = p
          /\ p - arg_ptr + 1 # L
      <4>1. p \in Int /\ arg_ptr <= p /\ p < arg_ptr + L - 1
        BY <1>1
      <4>2. arg_ptr \in Nat /\ L \in Nat
        BY <1>1
      <4> HIDE DEF ends, e
      <4> QED
        BY ONLY <4>1, <4>2
    <3>2. Word(p) = arg.words[p - arg_ptr + 1]
      BY <1>2, <3>1
    <3> QED
      BY <1>10, <3>1, <3>2
  <2>4. Min(ends) = e
    <3>1. ends \in SUBSET Nat /\ ends # {} /\ e \in Nat
      BY <1>1, <2>1, <2>2
    <3>2. Min(ends) \in ends /\ Min(ends) <= e
      <4> HIDE DEF ends, e
      <4> QED
        BY <2>2, <3>1, MinIsLeast
    <3>3. Min(ends) \in Nat /\ e <= Min(ends)
      <4> HIDE DEF ends, e
      <4> QED
        BY <2>3, <3>1, <3>2
    <3> HIDE DEF ends, e
    <3> QED
      BY <3>1, <3>2, <3>3
  <2>5. StrWords = {e - arg_ptr + 1}
    <3>1. ~(arg_ptr < ArgStart(msg))
      BY <1>1
    <3>2. StrWords = {Min(ends) - arg_ptr + 1}
      BY <2>2, <3>1 DEF StrWords
    <3> QED
      BY <2>4, <3>2
  <2>6. Sizes(tag) = StrWords /\ tag # "b"
    BY <1>10, Kinds DEF Sizes, NoData, Strings
  <2>7. size = e - arg_ptr + 1
    <3> HIDE DEF e
    <3> QED
      BY <1>6, <2>5, <2>6
  <2>8. size = L
    BY <1>1, <2>1, <2>7
  <2> QED
    BY <1>7, <2>6, <2>8
<1>11. CASE /\ tag = "b"
            /\ arg.words # << >>
            /\ arg.words[1].v \in 0 .. MaxInt32 - 3
            /\ L = 1 + Words(arg.words[1].v)
  <2>1. Sizes(tag) = IF Rest < 1 THEN {1}
                     ELSE {1 + n : n \in UNION {Rounded(sz) : sz \in NextWord}}
    BY <1>11, Kinds DEF Sizes, NoData, Strings
  <2>2. Word(arg_ptr) = arg.words[1] /\ L >= 1
    BY <1>1, <1>2, <1>4, <1>11
  <2>3. CASE Rest < 1
    <3>1. size = 1
      BY <1>6, <2>1, <2>3
    <3> QED
      BY <1>1, <1>6, <2>2, <2>3, <3>1
  <2>4. CASE ~(Rest < 1)
    <3>1. NextWord = {arg.words[1].v}
      BY <1>1, <2>2 DEF NextWord
    <3>2. Rounded(arg.words[1].v) = {Words(arg.words[1].v)}
      <4>1. arg.words[1].v \in Int32s
        BY <1>11, MaxInt32Type, SMT DEF Int32s
      <4> QED
        BY <1>11, <4>1, RoundedType
    <3>3. UNION {Rounded(sz) : sz \in NextWord} = {Words(arg.words[1].v)}
      BY <3>1, <3>2
    <3>4. size = L
      BY <1>6, <1>11, <2>1, <2>4, <3>3
    <3> QED
      BY <1>7, <2>2, <3>4
  <2> QED
    BY <2>3, <2>4
<1> QED
  BY <1>3, <1>8, <1>9, <1>10, <1>11
-----------------------------------------------------------------------------
(* Whether the argument behind the first n has the tag that is taken for the end, or
   there is none. *)
EndsAt(m, n) ==
  n < Len(m.args) =>
    LET tag == m.args[n + 1].tag
    IN tag \in DOMAIN HighTags /\ HighTags[tag] = 254

(* How far the dump of a message has come. *)
DumpInv ==
  /\ char_signed \in BOOLEAN
  /\ caller = "dump" => ~negative
  /\ msg = NULL => got = << >>
  /\ msg # NULL /\ caller = "dump" =>
       /\ got \in Seq([tag : {m.tag : m \in Args}, at : Nat])
       /\ Len(got) <= Len(msg.args)
       /\ \A i \in 1 .. Len(got) :
            /\ got[i] = [tag |-> msg.args[i].tag, at |-> PlaceIn(msg, i)]
            /\ Fits(msg, i)
       /\ type_ptr = NULL => got = << >> /\ ret = OSC_OK
       /\ type_ptr # NULL /\ ret = OSC_OK =>
            /\ type_ptr = Len(got) + 1
            /\ arg_ptr = PlaceIn(msg, type_ptr)
       /\ ret # OSC_OK =>
            /\ Len(got) = Len(msg.args) \/ ~Fits(msg, Len(got) + 1)
            /\ ret = OSC_END <=> char_signed /\ EndsAt(msg, Len(got))

(* What the dump has printed is then what can be printed. *)
LEMMA PrintableIs ==
  ASSUME ReaderInv, DumpInv, msg # NULL, caller = "dump"
  PROVE  DumpsArgs
<1> DEFINE n == Len(got)
<1>1. /\ MsgOK(msg) /\ msg.args \in Seq(Args) /\ Len(msg.args) \in Nat
      /\ DOMAIN msg.args = 1 .. Len(msg.args) /\ DOMAIN got = 1 .. n /\ n \in Nat
      /\ n <= Len(msg.args)
      /\ \A i : Place(i) = PlaceIn(msg, i)
  BY DEF ReaderInv, MsgOK, DumpInv, Place, PlaceIn
<1>2. Printable = {i \in 1 .. Len(msg.args) : \A j \in 1 .. i : Fits(msg, j)}
  BY <1>1 DEF Printable, Fits
<1>3. \A i \in 1 .. n : Fits(msg, i)
  BY DEF DumpInv
<1> HIDE DEF n
<1>4. IsFiniteSet(1 .. Len(msg.args)) /\ IsFiniteSet(1 .. n) /\ Cardinality(1 .. n) = n
  BY <1>1, FS_Interval
<1>5. 1 .. n \subseteq Printable /\ Printable \subseteq 1 .. Len(msg.args)
  BY <1>1, <1>2, <1>3
<1>6. n <= Cardinality(Printable)
  <2>1. IsFiniteSet(Printable)
    BY <1>4, <1>5, FS_Subset
  <2>2. Cardinality(1 .. n) <= Cardinality(Printable)
    BY <1>5, <2>1, FS_Subset
  <2> QED
    BY <1>4, <2>2
<1>7. ASSUME ret # OSC_OK
      PROVE  n = Cardinality(Printable)
  <2>1. n = Len(msg.args) \/ ~Fits(msg, n + 1)
    BY <1>7 DEF DumpInv, n
  <2>2. Printable \subseteq 1 .. n
    <3> SUFFICES ASSUME NEW i \in Printable, n < i
                 PROVE  FALSE
      BY <1>1, <1>2
    <3>1. i \in 1 .. Len(msg.args) /\ n + 1 \in 1 .. i
      BY <1>1, <1>2
    <3> QED
      BY <1>1, <1>2, <2>1, <3>1
  <2>3. Printable = 1 .. n
    BY <1>5, <2>2
  <2> QED
    BY <1>4, <2>3
<1>8. \A i \in DOMAIN got : got[i] = [tag |-> msg.args[i].tag, at |-> Place(i)]
  <2>1. \A i \in 1 .. n : got[i] = [tag |-> msg.args[i].tag, at |-> PlaceIn(msg, i)]
    BY DEF DumpInv, n
  <2> QED
    BY <1>1, <2>1
<1>9. ret # OSC_OK => (ret = OSC_END <=> char_signed /\ EndsAt(msg, Len(got)))
  BY DEF DumpInv
<1> QED
  BY <1>6, <1>7, <1>8, <1>9 DEF DumpsArgs, EndsAt, n

(* An argument that is read is printed. *)
LEMMA DumpGetArg ==
  ASSUME ReaderInv, DumpInv, caller = "dump", type_ptr # NULL, ret = OSC_OK, GetArg,
         got' = IF ret' = OSC_OK
                THEN Append(got, [tag |-> msg.args[type_ptr].tag, at |-> arg_ptr])
                ELSE got,
         UNCHANGED <<char_signed, caller>>
  PROVE  DumpInv'
<1> DEFINE i == type_ptr
           tag == msg.args[i].tag
           R == [tag : {m.tag : m \in Args}, at : Nat]
<1>1. /\ msg # NULL /\ MsgOK(msg) /\ UNCHANGED msg /\ msg.args \in Seq(Args)
      /\ i \in 1 .. Len(msg.args) /\ Len(msg.args) \in Nat
      /\ arg_ptr # NULL /\ arg_ptr <= msg.len
  <2>1. msg # NULL /\ MsgOK(msg) /\ UNCHANGED msg
    BY DEF ReaderInv, GetArg, Open
  <2>2. msg.args \in Seq(Args) /\ Len(msg.args) \in Nat /\ i \in 1 .. Len(msg.args)
    BY <2>1 DEF MsgOK, GetArg, NoTag
  <2>3. arg_ptr # NULL /\ arg_ptr <= msg.len
    BY <2>1 DEF ReaderInv, ArgPtrOK
  <2> QED
    BY <2>1, <2>2, <2>3
<1>2. /\ got \in Seq(R) /\ i = Len(got) + 1 /\ arg_ptr = PlaceIn(msg, i)
      /\ \A j \in 1 .. Len(got) :
           /\ got[j] = [tag |-> msg.args[j].tag, at |-> PlaceIn(msg, j)]
           /\ Fits(msg, j)
  <2>1. msg # NULL
    BY <1>1
  <2>2. got \in Seq(R)
    BY <2>1 DEF DumpInv
  <2>3. i = Len(got) + 1 /\ arg_ptr = PlaceIn(msg, i)
    BY <2>1 DEF DumpInv
  <2>4. \A j \in 1 .. Len(got) :
          /\ got[j] = [tag |-> msg.args[j].tag, at |-> PlaceIn(msg, j)]
          /\ Fits(msg, j)
    BY <2>1 DEF DumpInv
  <2> QED
    BY <2>2, <2>3, <2>4
<1>3. type_ptr' = i + 1 /\ type_ptr' # NULL /\ Len(got) \in Nat
  BY <1>1, <1>2, ReaderAssumption DEF GetArg
<1>4. CASE tag \in Known /\ ret' = OSC_OK
  <2>1. PICK size \in Sizes(tag) :
          /\ size <= Rest /\ arg_ptr' = arg_ptr + size
          /\ negative' = (negative \/ (tag = "b" /\ size < 1))
    <3>1. Advance(tag)
      BY <1>4 DEF GetArg
    <3> HIDE DEF tag
    <3>2. OSC_OK # OSC_ERROR
      BY DEF OSC_OK, OSC_ERROR
    <3> QED
      BY <1>4, <3>1, <3>2 DEF Advance
  <2>2. Fits(msg, i) /\ size = Len(msg.args[i].words) /\ (tag = "b" => size >= 1)
    BY <1>1, <1>2, <1>4, <2>1, SizeRight DEF Fits
  <2>3. arg_ptr' = PlaceIn(msg, i + 1)
    BY <1>1, <1>2, <2>1, <2>2, PlaceNext
  <2>4. got' = Append(got, [tag |-> tag, at |-> PlaceIn(msg, i)])
    BY <1>2, <1>4
  <2>5. [tag |-> tag, at |-> PlaceIn(msg, i)] \in R
    BY <1>1, PlaceNext
  <2> HIDE DEF R, tag
  <2>6. /\ got' \in Seq(R) /\ Len(got') = Len(got) + 1
        /\ \A j \in 1 .. Len(got) : got'[j] = got[j]
        /\ got'[i] = [tag |-> tag, at |-> PlaceIn(msg, i)]
    BY <1>2, <2>4, <2>5
  <2>7. \A j \in 1 .. Len(got') :
          /\ got'[j] = [tag |-> msg.args[j].tag, at |-> PlaceIn(msg, j)]
          /\ Fits(msg, j)
    BY <1>2, <1>3, <2>2, <2>6 DEF tag
  <2>8. /\ Len(got') <= Len(msg.args) /\ type_ptr' = Len(got') + 1
        /\ arg_ptr' = PlaceIn(msg, type_ptr')
    BY <1>1, <1>2, <1>3, <2>3, <2>6
  <2>9. ~negative'
    <3>1. ~negative
      BY DEF DumpInv
    <3>2. ~(tag = "b" /\ size < 1)
      <4>1. size \in Int
        BY <1>1, <2>2, PlaceNext
      <4> QED
        BY <2>2, <4>1
    <3> QED
      BY <2>1, <3>1, <3>2, Zenon
  <2> QED
    BY <1>1, <1>3, <1>4, <2>6, <2>7, <2>8, <2>9 DEF DumpInv, R
<1>5. CASE tag \in Known /\ ret' # OSC_OK
  <2>1. PICK size \in Sizes(tag) :
          /\ ~(size <= Rest) /\ ret' = OSC_ERROR
          /\ negative' = (negative \/ (tag = "b" /\ size < 1))
    <3>1. Advance(tag)
      BY <1>5 DEF GetArg
    <3> HIDE DEF tag
    <3> QED
      BY <1>5, <3>1 DEF Advance
  <2>2. ~Fits(msg, i) /\ (tag = "b" => size >= 1)
    BY <1>1, <1>2, <1>5, <2>1, SizeRight DEF Fits
  <2>3. ~negative'
    <3>1. ~negative
      BY DEF DumpInv
    <3>2. ~(tag = "b" /\ size < 1)
      <4>1. size \in Int
        BY <1>1, <1>5, <2>1, SizesType DEF ReaderInv, ArgPtrOK
      <4> QED
        BY <2>2, <4>1
    <3> QED
      BY <2>1, <3>1, <3>2, Zenon
  <2>4. got' = got /\ ret' # OSC_OK /\ ret' # OSC_END
    BY <2>1 DEF OSC_OK, OSC_ERROR, OSC_END
  <2>5. Len(got) < Len(msg.args) /\ Len(got) <= Len(msg.args)
    BY <1>1, <1>2, <1>3
  <2>6. ~EndsAt(msg, Len(got))
    BY <1>2, <1>5, <2>5, ReaderAssumption DEF EndsAt
  <2> QED
    BY <1>1, <1>2, <1>3, <2>2, <2>3, <2>4, <2>5, <2>6 DEF DumpInv
<1>6. CASE tag \notin Known
  <2>1. UNCHANGED <<arg_ptr, negative>> /\ ret' = IF TagChar < 0 THEN TagChar ELSE OSC_ERROR
    BY <1>6 DEF GetArg
  <2>2. ~Fits(msg, i) /\ ~negative'
    BY <1>6, <2>1 DEF Fits, DumpInv
  <2>3. Len(got) < Len(msg.args) /\ Len(got) <= Len(msg.args)
    BY <1>1, <1>2, <1>3
  <2>4. ret' # OSC_OK /\ (ret' = OSC_END <=> char_signed /\ EndsAt(msg, Len(got)))
    <3>1. EndsAt(msg, Len(got)) <=> tag \in DOMAIN HighTags /\ HighTags[tag] = 254
      BY <1>2, <2>3 DEF EndsAt
    <3>2. TagChar = IF char_signed /\ tag \in DOMAIN HighTags THEN HighTags[tag] - 256 ELSE 1
      BY DEF TagChar
    <3>3. tag \in DOMAIN HighTags =>
            HighTags[tag] \in Int /\ 128 <= HighTags[tag] /\ HighTags[tag] <= 255
      BY HighTagsType, Zenon
    <3> HIDE DEF tag
    <3>4. CASE char_signed /\ tag \in DOMAIN HighTags
      <4>1. HighTags[tag] \in Int /\ 128 <= HighTags[tag] /\ HighTags[tag] <= 255
        BY <3>3, <3>4, Zenon
      <4>2. TagChar = HighTags[tag] - 256
        BY <3>2, <3>4
      <4>3. ret' = HighTags[tag] - 256
        BY <2>1, <4>1, <4>2
      <4>4. ret' # 0 /\ (ret' = -2 <=> HighTags[tag] = 254)
        BY <4>1, <4>3
      <4> QED
        BY <3>1, <3>4, <4>4 DEF OSC_OK, OSC_END
    <3>5. CASE ~(char_signed /\ tag \in DOMAIN HighTags)
      <4>1. ret' = OSC_ERROR
        BY <2>1, <3>2, <3>5
      <4> QED
        BY <3>1, <3>5, <4>1 DEF OSC_OK, OSC_END, OSC_ERROR
    <3> QED
      BY <3>4, <3>5
  <2> QED
    BY <1>1, <1>2, <1>3, <2>2, <2>3, <2>4 DEF DumpInv
<1> QED
  BY <1>4, <1>5, <1>6

(* The end of the tags. *)
LEMMA DumpGetArgNone ==
  ASSUME ReaderInv, DumpInv, caller = "dump", type_ptr # NULL, ret = OSC_OK, GetArgNone,
         UNCHANGED <<char_signed, caller, got>>
  PROVE  DumpInv'
<1>1. msg # NULL /\ msg.args \in Seq(Args)
      /\ UNCHANGED <<msg, type_ptr, arg_ptr, negative>>
  BY DEF ReaderInv, MsgOK, GetArgNone, Open
<1>2. Len(got) = Len(msg.args)
  <2>1. Len(got) \in Nat /\ Len(msg.args) \in Nat /\ Len(got) <= Len(msg.args)
        /\ type_ptr = Len(got) + 1
    BY <1>1 DEF DumpInv
  <2>2. type_ptr \notin 1 .. Len(msg.args)
    BY <1>1 DEF GetArgNone, NoTag
  <2> QED
    BY <2>1, <2>2
<1>3. ret' = IF char_signed THEN OSC_END ELSE OSC_ERROR
  <2>1. ret' = IF NoTagChar < 0 THEN NoTagChar ELSE OSC_ERROR
    BY DEF GetArgNone
  <2>2. NoTagChar = IF char_signed THEN OSC_END ELSE OSC_END % 256
    BY DEF NoTagChar
  <2>3. OSC_END < 0 /\ ~(OSC_END % 256 < 0)
    <3>1. OSC_END \in Int /\ OSC_END < 0
      BY DEF OSC_END
    <3>2. \A k \in Int : k % 256 \in Int /\ k % 256 >= 0
      OBVIOUS
    <3> QED
      BY <3>1, <3>2
  <2> QED
    BY <2>1, <2>2, <2>3
<1>4. ret' # OSC_OK /\ (ret' = OSC_END <=> char_signed)
  BY <1>3 DEF OSC_OK, OSC_END, OSC_ERROR
<1>5. EndsAt(msg, Len(got))
  BY <1>1, <1>2 DEF EndsAt
<1> QED
  BY <1>1, <1>2, <1>4, <1>5 DEF DumpInv

(* The first argument lies where arguments start. *)
LEMMA PlaceFirst ==
  ASSUME NEW m, m.args \in Seq(Args), ArgStart(m) \in Nat
  PROVE  PlaceIn(m, 1) = ArgStart(m) /\ Len(m.args) \in Nat
<1>1. SubSeq(m.args, 1, 0) = << >> /\ Len(m.args) \in Nat
  OBVIOUS
<1>2. DataOf(<< >>) = << >>
  <2> DEFINE seqs == [i \in DOMAIN << >> |-> << >>[i].words]
  <2>1. seqs = << >> /\ Len(<< >>) = 0
    OBVIOUS
  <2>2. FlattenSeq(<< >>) = << >>
    BY <2>1 DEF FlattenSeq
  <2> QED
    BY <2>1, <2>2 DEF DataOf
<1>3. SubSeq(m.args, 1, 1 - 1) = << >> /\ Len(<< >>) = 0
  BY <1>1
<1>4. PlaceIn(m, 1) = ArgStart(m) + Len(DataOf(SubSeq(m.args, 1, 1 - 1)))
  BY DEF PlaceIn
<1>5. Len(DataOf(SubSeq(m.args, 1, 1 - 1))) = 0
  BY <1>2, <1>3
<1>6. ArgStart(m) + 0 = ArgStart(m)
  OBVIOUS
<1>7. PlaceIn(m, 1) = ArgStart(m)
  BY <1>4, <1>5, <1>6
<1> QED
  BY <1>1, <1>7

(* Nothing is printed before the first read. *)
LEMMA DumpInit ==
  ASSUME ReaderInv, DumpInv, MsgReaderInit
  PROVE  DumpInv'
<1>1. got = << >> /\ UNCHANGED <<char_signed, caller, got, negative>>
  BY DEF MsgReaderInit, DumpInv
<1>2. \/ msg' = NULL
      \/ msg' # NULL /\ type_ptr' = NULL /\ ret' = OSC_OK
      \/ msg' # NULL /\ type_ptr' = 1 /\ arg_ptr' = ArgStart(msg') /\ ret' = OSC_OK
  <2> DEFINE Goal == \/ msg' = NULL
                     \/ msg' # NULL /\ type_ptr' = NULL /\ ret' = OSC_OK
                     \/ msg' # NULL /\ type_ptr' = 1 /\ arg_ptr' = ArgStart(msg') /\ ret' = OSC_OK
  <2>1. ASSUME NEW m, InitFails(m) \/ InitAddressOnly(m) \/ InitArgs(m)
        PROVE  Goal
    BY <2>1 DEF InitFails, InitAddressOnly, InitArgs
  <2> HIDE DEF Goal
  <2>2. Goal
    BY <2>1 DEF MsgReaderInit
  <2> QED
    BY <2>2 DEF Goal
<1>3. msg' # NULL => msg'.args \in Seq(Args)
  BY InitStep DEF ReaderInv, MsgOK
<1>4. msg' # NULL => PlaceIn(msg', 1) = ArgStart(msg') /\ Len(msg'.args) \in Nat
  <2> SUFFICES ASSUME msg' # NULL
               PROVE  PlaceIn(msg', 1) = ArgStart(msg') /\ Len(msg'.args) \in Nat
    OBVIOUS
  <2>1. ArgStart(msg') \in Nat
    BY InitStep, MsgFacts DEF ReaderInv
  <2> QED
    BY <1>3, <2>1, PlaceFirst
<1> QED
  BY <1>1, <1>2, <1>4 DEF DumpInv

LEMMA DumpInvariant == Spec => []DumpInv
<1>1. Init => DumpInv
  BY DEF Init, DumpInv
<1>2. ReaderInv /\ DumpInv /\ [Next]_vars => DumpInv'
  <2> SUFFICES ASSUME ReaderInv, DumpInv, [Next]_vars
               PROVE  DumpInv'
    OBVIOUS
  <2>1. CASE MsgReaderInit
    BY <2>1, DumpInit
  <2>2. CASE caller = "dump" /\ DumpArg
    BY <2>2, DumpGetArg, DumpGetArgNone DEF DumpArg
  <2>3. CASE caller = "any" /\ ReadAnything
    <3>1. msg # NULL /\ UNCHANGED <<char_signed, caller, got, msg>>
      BY <2>3 DEF ReadAnything, GetArgOf, NextArg, GetArg, GetArgNone, Open
    <3> QED
      BY <2>3, <3>1 DEF DumpInv
  <2>4. CASE NextMessage
    BY <2>4 DEF NextMessage, DumpInv
  <2>5. CASE UNCHANGED vars
    BY <2>5 DEF vars, DumpInv
  <2> QED
    BY <2>1, <2>2, <2>3, <2>4, <2>5 DEF Next
<1> QED
  BY <1>1, <1>2, ReaderInvariant, PTL DEF Spec

(* The dump prints the arguments that were sent, up to the first that is cut off
   or unknown. *)
THEOREM DumpPrintsArgs == Spec => []DumpsArgs
<1>1. ReaderInv /\ DumpInv => DumpsArgs
  BY PrintableIs DEF DumpsArgs
<1> QED
  BY <1>1, ReaderInvariant, DumpInvariant, PTL

(* The argument pointer is never behind the end of the message, and in front of its
   arguments only after a size below zero, which the dump never reads. *)
THEOREM ArgPtrStays == Spec => []WithinMsg
<1>1. ReaderInv /\ DumpInv => WithinMsg
  BY DEF ReaderInv, DumpInv, WithinMsg, ArgPtrOK
<1> QED
  BY <1>1, ReaderInvariant, DumpInvariant, PTL
=============================================================================
