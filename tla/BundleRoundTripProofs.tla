----------------------- MODULE BundleRoundTripProofs -----------------------
(***************************************************************************)
(* The writer of OscWriter, proved for every length of the buffer, every   *)
(* string, blob and number of arguments, and any order of calls; then that *)
(* the dump of PacketDump stays in its datagram, whatever the datagram     *)
(* says; then that the packets of the writer are read as they were written *)
(***************************************************************************)
EXTENDS BundleRoundTrip, FiniteSetTheorems, TLAPS

(* Padding: ROUND32 is the next multiple of 4. *)
LEMMA Rounding ==
  ASSUME NEW i \in Nat
  PROVE  /\ ROUND32(i) \in Nat /\ ROUND32(i) % 4 = 0
         /\ ROUND32(i) >= i /\ ROUND32(i) < i + 4
  BY DEF ROUND32

LEMMA StringRounding ==
  ASSUME NEW n \in Nat
  PROVE  /\ StringBytes(n) \in Nat /\ StringBytes(n) % 4 = 0
         /\ n % 4 # 0 => StringBytes(n) = ROUND32(n)
  BY Rounding DEF StringBytes, ROUND32

LEMMA SumAligned ==
  ASSUME NEW p \in Nat, NEW n \in Nat, p % 4 = 0, n % 4 = 0
  PROVE  p + n \in Nat /\ (p + n) % 4 = 0
  OBVIOUS

(* A buffer keeps its type whatever is written to it. *)
BufferOK(d) ==
  /\ DOMAIN d \subseteq Nat
  /\ \A w \in DOMAIN d : d[w].k \in Contents /\ d[w].n \in Nat

ContentOK(c) == c.k \in Contents /\ c.n \in Nat

LEMMA WriteBufferOK ==
  ASSUME NEW d, BufferOK(d), NEW p \in Nat, NEW n \in Nat, NEW c, ContentOK(c)
  PROVE  BufferOK(Write(d, p, n, c))
<1> DEFINE D == DOMAIN d \cup {p \div 4 + k : k \in 0 .. n \div 4 - 1}
           e == Write(d, p, n, c)
<1>1. p \div 4 \in Nat /\ n \div 4 \in Nat
  OBVIOUS
<1>2. D \subseteq Nat
  BY <1>1 DEF BufferOK
<1>3. DOMAIN e = D
  BY DEF Write
<1>4. ASSUME NEW w \in D
      PROVE  ContentOK(e[w])
  <2>1. CASE w \in p \div 4 .. (p + n) \div 4 - 1
    BY <2>1 DEF Write
  <2>2. CASE w \notin p \div 4 .. (p + n) \div 4 - 1
    <3>1. w \in DOMAIN d
      <4>1. ASSUME NEW k \in 0 .. n \div 4 - 1
            PROVE  p \div 4 + k \in p \div 4 .. (p + n) \div 4 - 1
        BY <1>1
      <4> QED
        BY <2>2, <4>1
    <3>2. e[w] = d[w]
      BY <2>2 DEF Write
    <3> QED
      BY <3>1, <3>2 DEF BufferOK, ContentOK
  <2> QED
    BY <2>1, <2>2
<1> QED
  BY <1>2, <1>3, <1>4 DEF BufferOK, ContentOK

LEMMA WordOK ==
  /\ \A kind \in Contents : ContentOK(Word(kind))
  /\ \A n \in Nat : ContentOK(SizeWord(n))
  BY DEF ContentOK, Word, SizeWord, Contents
-----------------------------------------------------------------------------
(* What every step but the start of a message and the write of an argument needs
   no more than its own definition for. *)
LEMMA TypeParts ==
  ASSUME WriterInv
  PROVE  /\ BufferOK(data) /\ pos \in Nat /\ msg_start \in Nat /\ type_pos \in Nat
         /\ pos % 4 = 0 /\ state \in Modes /\ MsgPos \in Nat /\ MsgPos % 4 = 0
         /\ base \in Nat /\ base <= pos /\ MsgPos >= pos
         /\ (state = {"BUNDLE"} => MsgPos >= base + 4)
<1>1. /\ BufferOK(data) /\ pos \in Nat /\ msg_start \in Nat /\ type_pos \in Nat
      /\ pos % 4 = 0 /\ state \in Modes /\ base \in Nat /\ base <= pos
  BY DEF WriterInv, TypeOK, Aligned, MsgBehindPos, BufferOK
<1>2. pos + 4 \in Nat /\ (pos + 4) % 4 = 0 /\ pos + 4 >= pos /\ pos + 4 >= base + 4
  BY <1>1
<1> QED
  BY <1>1, <1>2 DEF MsgPos

LEMMA StartMsgStep ==
  ASSUME WriterInv, StartAnyMsg, va' \in BOOLEAN, base' = base
  PROVE  WriterInv'
<1> USE WriterAssumption
<1>1. CASE StartMsgInside
  BY <1>1 DEF StartMsgInside, Fail, WriterInv, TypeOK, Aligned, MsgBehindPos
<1>2. ASSUME NEW n \in StrLens, StartMsgNoRoomForAddress(n)
      PROVE  WriterInv'
  <2>1. /\ MsgPos \in Nat /\ MsgPos % 4 = 0 /\ base \in Nat /\ base <= MsgPos
        /\ (state = {"BUNDLE"} => MsgPos >= base + 4)
    BY TypeParts
  <2> QED
    BY <1>2, <2>1
       DEF StartMsgNoRoomForAddress, Fail, WriterInv, TypeOK, Aligned, MsgBehindPos
<1>3. ASSUME NEW n \in StrLens, NEW nargs \in 0 .. MaxArgs,
             StartMsgNoRoomForTypes(n, nargs) \/ StartMsg(n, nargs)
      PROVE  WriterInv'
  <2> DEFINE a == MsgPos + StringBytes(n)
             d == Write(data, MsgPos, StringBytes(n), Word("address"))
  <2>1. /\ n \in Nat /\ nargs \in Nat
        /\ StringBytes(n) \in Nat /\ StringBytes(n) % 4 = 0
        /\ ROUND32(nargs) \in Nat /\ ROUND32(nargs) % 4 = 0
    <3>1. n \in Nat /\ nargs \in Nat
      BY DEF WriterAssumption
    <3> QED
      BY <3>1, StringRounding, Rounding
  <2>2. a \in Nat /\ a % 4 = 0 /\ a >= MsgPos
    BY <2>1, TypeParts, SumAligned
  <2>3. a + ROUND32(nargs) \in Nat /\ (a + ROUND32(nargs)) % 4 = 0
        /\ a + ROUND32(nargs) >= MsgPos
    <3> HIDE DEF a
    <3> QED
      BY <2>1, <2>2, TypeParts, SumAligned
  <2>4. BufferOK(d) /\ BufferOK(Write(d, a, ROUND32(nargs), Word("types")))
    <3>1. BufferOK(d)
      BY <2>1, TypeParts, WriteBufferOK, WordOK DEF Contents
    <3> HIDE DEF d, a
    <3> QED
      BY <3>1, <2>1, <2>2, WriteBufferOK, WordOK DEF Contents
  <2>5. /\ MsgPos \in Nat /\ MsgPos % 4 = 0 /\ MsgPos >= base /\ base \in Nat
        /\ (state = {"BUNDLE"} => MsgPos >= base + 4)
    BY TypeParts
  <2> HIDE DEF a, d
  <2>6. CASE StartMsgNoRoomForTypes(n, nargs)
    <3>1. a >= base
      BY <2>2, <2>5
    <3> QED
      BY <2>6, <2>2, <2>4, <2>5, <3>1
       DEF StartMsgNoRoomForTypes, Fail, WriterInv, TypeOK, Aligned, MsgBehindPos,
           BufferOK, a, d
  <2>7. CASE StartMsg(n, nargs)
    <3>1. /\ data' = Write(d, a, ROUND32(nargs), Word("types"))
          /\ pos' = a + ROUND32(nargs) /\ msg_start' = MsgPos /\ type_pos' = a
          /\ state' = state \cup {"MSG"} /\ "MSG" \notin state /\ left' = nargs
          /\ UNCHANGED <<k_bundle, failed, elems, packets>>
      BY <2>7 DEF StartMsg, a, d
    <3>2. state' \in Modes /\ ("BUNDLE" \in state' => state = {"BUNDLE"})
      BY <3>1 DEF WriterInv, TypeOK, Modes
    <3>3. TypeOK'
      BY <3>1, <3>2, <2>2, <2>3, <2>4, <2>5 DEF WriterInv, TypeOK, BufferOK
    <3>4. Aligned' /\ MsgBehindPos'
      BY <3>1, <3>2, <2>2, <2>3, <2>5 DEF Aligned, MsgBehindPos
    <3> QED
      BY <3>3, <3>4 DEF WriterInv
  <2> QED
    BY <1>3, <2>6, <2>7
<1> QED
  BY <1>1, <1>2, <1>3 DEF StartAnyMsg

(* The write of an argument: the type tag and n bytes, or the type tag alone. *)
LEMMA ArgSize ==
  ASSUME NEW n \in Nat
  PROVE  /\ StringBytes(n) \in Nat /\ StringBytes(n) % 4 = 0
         /\ 4 + ROUND32(n) \in Nat /\ (4 + ROUND32(n)) % 4 = 0
<1> DEFINE r == ROUND32(n)
<1>1. r \in Nat /\ r % 4 = 0
  BY Rounding
<1> HIDE DEF r
<1>2. 4 + r \in Nat /\ (4 + r) % 4 = 0
  BY <1>1
<1> QED
  BY <1>2, StringRounding DEF r

LEMMA PutOK ==
  ASSUME WriterInv, NEW n \in Nat, n % 4 = 0, Put(n) \/ PutNothing
  PROVE  /\ BufferOK(data)' /\ failed' \in BOOLEAN
         /\ pos' \in Nat /\ pos' % 4 = 0 /\ pos' >= pos
<1>1. BufferOK(AddType(data))
  <2>1. (type_pos \div 4) * 4 \in Nat
    BY TypeParts
  <2> QED
    BY <2>1, TypeParts, WriteBufferOK, WordOK DEF AddType, Contents
<1>2. CASE Put(n)
  <2>1. BufferOK(Write(AddType(data), pos, n, Word("arg")))
    BY <1>1, TypeParts, WriteBufferOK, WordOK DEF Contents
  <2>2. pos + n \in Nat /\ (pos + n) % 4 = 0 /\ pos + n >= pos
    BY TypeParts, SumAligned
  <2>3. /\ data' = Write(AddType(data), pos, n, Word("arg")) /\ pos' = pos + n
        /\ failed' = failed /\ failed \in BOOLEAN
    BY <1>2 DEF Put, WriterInv, TypeOK
  <2> QED
    BY <2>1, <2>2, <2>3 DEF BufferOK
<1>3. CASE PutNothing
  BY <1>1, <1>3, TypeParts DEF PutNothing, Fail, BufferOK
<1> QED
  BY <1>2, <1>3

LEMMA ArgIsPut ==
  ASSUME WriterInv, WriteArg \/ WritevArg
  PROVE  \E n \in Nat : n % 4 = 0 /\ (Put(n) \/ PutNothing)
<1>1. \A n \in StrLens \cup BlobLens : n \in Nat
  BY WriterAssumption DEF WriterAssumption
<1>2. CASE WriteEmpty
  BY <1>2 DEF WriteEmpty
<1>3. ASSUME NEW n \in {4, 8}, WriteFixed(n)
      PROVE  \E m \in Nat : m % 4 = 0 /\ (Put(m) \/ PutNothing)
  BY <1>3 DEF WriteFixed
<1>4. ASSUME NEW n \in StrLens, WriteStr(n)
      PROVE  \E m \in Nat : m % 4 = 0 /\ (Put(m) \/ PutNothing)
  BY <1>1, <1>4, ArgSize DEF WriteStr
<1>5. ASSUME NEW n \in BlobLens, WriteBlob(n)
      PROVE  \E m \in Nat : m % 4 = 0 /\ (Put(m) \/ PutNothing)
  BY <1>1, <1>5, ArgSize DEF WriteBlob
<1>6. CASE WritevFails
  BY <1>6 DEF WritevFails
<1>7. ASSUME NEW n \in {0, 4, 8}, WritevPut(n)
      PROVE  \E m \in Nat : m % 4 = 0 /\ (Put(m) \/ PutNothing)
  BY <1>7 DEF WritevPut
<1>8. ASSUME NEW n \in StrLens, WritevPut(StringBytes(n))
      PROVE  \E m \in Nat : m % 4 = 0 /\ (Put(m) \/ PutNothing)
  BY <1>1, <1>8, ArgSize DEF WritevPut
<1>9. CASE WriteArg
  BY <1>2, <1>3, <1>4, <1>5, <1>9 DEF WriteArg
<1>10. CASE WritevArg
  BY <1>6, <1>7, <1>8, <1>10 DEF WritevArg
<1> QED
  BY <1>9, <1>10

LEMMA WriteArgStep ==
  ASSUME WriterInv, WriteArg \/ WritevArg, va' \in BOOLEAN, base' = base
  PROVE  WriterInv'
<1>1. \E n \in Nat : n % 4 = 0 /\ (Put(n) \/ PutNothing)
  BY ArgIsPut
<1>2. /\ BufferOK(data)' /\ failed' \in BOOLEAN
      /\ pos' \in Nat /\ pos' % 4 = 0 /\ pos' >= pos
  BY <1>1, PutOK
<1>3. /\ type_pos' = type_pos + 1 /\ left > 0 /\ left' = left - 1
      /\ UNCHANGED <<msg_start, state, k_bundle, elems, packets>>
  BY DEF WriteArg, WritevArg
<1>4. TypeOK'
  BY <1>2, <1>3, WriterAssumption DEF WriterInv, TypeOK, BufferOK, WriterAssumption
<1>5. Aligned' /\ MsgBehindPos'
  BY <1>2, <1>3 DEF WriterInv, TypeOK, Aligned, MsgBehindPos
<1> QED
  BY <1>4, <1>5 DEF WriterInv

LEMMA EndMsgStep ==
  ASSUME WriterInv, EndMsg, va' \in BOOLEAN, base' = base
  PROVE  WriterInv'
<1>1. CASE "BUNDLE" \in state
  <2>1. /\ "MSG" \in state /\ msg_start - 4 \in Nat /\ pos - msg_start \in Nat
        /\ base <= pos
    BY <1>1, TypeParts DEF EndMsg, WriterInv, MsgBehindPos
  <2>2. BufferOK(data')
    BY <1>1, <2>1, TypeParts, WriteBufferOK, WordOK DEF EndMsg
  <2>3. state' = {"BUNDLE"}
    BY <1>1, <2>1, TypeParts DEF EndMsg, Modes
  <2>4. elems' \in Seq(Nat \X Nat)
    <3>1. elems \in Seq(Nat \X Nat) /\ <<msg_start, pos - msg_start>> \in Nat \X Nat
      BY <2>1, TypeParts DEF WriterInv, TypeOK
    <3>2. elems' = Append(elems, <<msg_start, pos - msg_start>>)
      BY <1>1 DEF EndMsg
    <3> QED
      BY <3>1, <3>2
  <2>5. TypeOK'
    BY <2>2, <2>3, <2>4, WriterAssumption
       DEF EndMsg, WriterInv, TypeOK, BufferOK, Modes, WriterAssumption
  <2> QED
    BY <2>3, <2>5 DEF EndMsg, WriterInv, Aligned, MsgBehindPos
<1>2. CASE "BUNDLE" \notin state
  BY <1>2, WriterAssumption
     DEF EndMsg, WriterInv, TypeOK, Aligned, MsgBehindPos, Modes, WriterAssumption
<1> QED
  BY <1>1, <1>2

LEMMA StartBundleStep ==
  ASSUME WriterInv, StartBundle, va' \in BOOLEAN, base' = base
  PROVE  WriterInv'
<1> DEFINE kind == IF k_bundle THEN "#bundle" ELSE "nul"
           d == Write(data, pos, Header, Word(kind))
<1>1. Header \in Nat /\ pos + Header \in Nat /\ Header % 4 = 0 /\ 8 % 4 = 0
  BY TypeParts DEF Header
<1>2. BufferOK(d)
  BY <1>1, TypeParts, WriteBufferOK, WordOK DEF Contents
<1>3. /\ data' = Write(d, pos + Header, 8, Word("timetag"))
      /\ pos' = pos + Header + 8 /\ state' = {"BUNDLE"} /\ k_bundle' = FALSE
      /\ UNCHANGED <<msg_start, type_pos, left, failed, elems, packets>>
  BY DEF StartBundle
<1> HIDE DEF d
<1>4. BufferOK(data')
  BY <1>1, <1>2, <1>3, WriteBufferOK, WordOK DEF Contents
<1>5. pos' \in Nat /\ pos' % 4 = 0 /\ pos' >= base
  BY <1>1, <1>3, TypeParts, SumAligned DEF Header
<1> QED
  BY <1>3, <1>4, <1>5
     DEF WriterInv, TypeOK, BufferOK, Aligned, MsgBehindPos, Modes

LEMMA WriterSteps ==
  /\ Init => WriterInv
  /\ WriterInv /\ [Next]_vars => WriterInv'
<1> USE WriterAssumption DEF WriterAssumption
<1>0. <<>> \in Seq(Nat \X Nat) /\ DOMAIN [w \in {} |-> Word("none")] = {}
  OBVIOUS
<1>1. Init => WriterInv
  <2> SUFFICES ASSUME Init
               PROVE  WriterInv
    OBVIOUS
  <2>1. /\ DOMAIN data \subseteq Nat
        /\ \A w \in DOMAIN data : data[w].k \in Contents /\ data[w].n \in Nat
    BY <1>0 DEF Init
  <2>2. elems \in Seq(Nat \X Nat) /\ packets \in 1 .. MaxPackets \cup {1}
    BY <1>0 DEF Init
  <2>3. left \in 0 .. MaxArgs
    BY DEF Init
  <2>4. TypeOK
    BY <2>1, <2>2, <2>3 DEF Init, TypeOK, Modes
  <2>5. Aligned
    BY DEF Init, Aligned
  <2> QED
    BY <2>4, <2>5 DEF Init, WriterInv, MsgBehindPos
<1>2. WriterInv /\ [Next]_vars => WriterInv'
  <2> SUFFICES ASSUME WriterInv, [Next]_vars
               PROVE  WriterInv'
    OBVIOUS
  <2>0. va' \in BOOLEAN
    BY DEF Next, vars, WriterInv, TypeOK, Writev, WritevStart, WritevArg, WritevPut,
           WritevFails, WritevEnd
  <2>1. CASE InitWriter \/ InitChild
    <3>1. /\ DOMAIN data' \subseteq Nat
          /\ \A w \in DOMAIN data' : data'[w].k \in Contents /\ data'[w].n \in Nat
      BY <1>0, <2>1 DEF InitWriter, InitChild, WriterInv, TypeOK
    <3>2. /\ base' \in Nat /\ base' % 4 = 0 /\ pos' = base' /\ state' = {"OUT"}
          /\ left' = 0 /\ failed' = FALSE /\ elems' = <<>> /\ packets' = packets + 1
          /\ packets < MaxPackets /\ UNCHANGED <<msg_start, type_pos, k_bundle>>
      BY <2>1, TypeParts DEF InitWriter, InitChild, InitAt
    <3>3. elems' \in Seq(Nat \X Nat) /\ packets' \in 1 .. MaxPackets \cup {1}
      BY <1>0, <3>2 DEF WriterInv, TypeOK
    <3>4. left' \in 0 .. MaxArgs
      BY <3>2
    <3>5. TypeOK'
      BY <2>0, <3>1, <3>2, <3>3, <3>4 DEF WriterInv, TypeOK, Modes
    <3>6. "MSG" \notin state'
      BY <3>2
    <3>7. pos' % 4 = 0 /\ base' <= pos'
      <4>1. base' \in Nat /\ base' % 4 = 0 /\ pos' = base'
        BY <3>2
      <4>2. base' <= base'
        BY <4>1
      <4> QED
        BY <4>1, <4>2, Zenon
    <3> QED
      BY <3>5, <3>6, <3>7 DEF WriterInv, Aligned, MsgBehindPos
  <2>2. ASSUME EndMsgOutside \/ StartBundleFails, base' = base
        PROVE  WriterInv'
    BY <2>0, <2>2 DEF EndMsgOutside, StartBundleFails, Fail, WriterInv, TypeOK,
                Aligned, MsgBehindPos
  <2>3. ASSUME EndBundle, base' = base
        PROVE  WriterInv'
    BY <2>0, <2>3 DEF EndBundle, WriterInv, TypeOK, Aligned, MsgBehindPos, Modes
  <2>4. CASE UNCHANGED vars
    BY <2>4 DEF vars, WriterInv, TypeOK, Aligned, MsgBehindPos
  <2>5. ASSUME Call, base' = base
        PROVE  WriterInv'
    BY <2>0, <2>2, <2>3, <2>5, StartMsgStep, EndMsgStep, StartBundleStep,
       WriteArgStep DEF Call
  <2>6. ASSUME Writev, base' = base
        PROVE  WriterInv'
    <3>1. CASE WritevStart
      BY <2>0, <2>6, <3>1, StartMsgStep DEF WritevStart, StartAnyMsg
    <3>2. CASE WritevArg
      BY <2>0, <2>6, <3>2, WriteArgStep
    <3>3. CASE WritevEnd
      BY <2>0, <2>6, <3>3, EndMsgStep DEF WritevEnd
    <3> QED
      BY <2>6, <3>1, <3>2, <3>3 DEF Writev
  <2> QED
    BY <2>1, <2>4, <2>5, <2>6 DEF Next
<1> QED
  BY <1>1, <1>2

(* The writer's fields are aligned after any calls, the failed and the careless
   ones too. *)
THEOREM WriterInvariant == Spec => []WriterInv
  BY WriterSteps, PTL DEF Spec
-----------------------------------------------------------------------------
(* Writing below the end of the buffer stays in the buffer. *)
Below(d) == \A w \in DOMAIN d : 4 * w + 4 <= Len32

LEMMA WriteBelow ==
  ASSUME NEW d, Below(d), NEW p \in Nat, NEW n \in Nat, p % 4 = 0, n % 4 = 0,
         p + n <= Len32, NEW c
  PROVE  Below(Write(d, p, n, c))
<1>1. DOMAIN Write(d, p, n, c) = DOMAIN d \cup {p \div 4 + k : k \in 0 .. n \div 4 - 1}
  BY DEF Write
<1>2. ASSUME NEW k \in 0 .. n \div 4 - 1
      PROVE  4 * (p \div 4 + k) + 4 <= Len32
  BY WriterAssumption DEF WriterAssumption
<1> QED
  BY <1>1, <1>2 DEF Below

(* The strengthening of WithinBuffer: the writer has not passed the end of its
   buffer, and the tags of the arguments to come are behind it. *)
Inside ==
  /\ WriterInv
  /\ pos <= Len32
  /\ "BUNDLE" \notin state
  /\ Below(data)
  /\ left > 0 => type_pos + left <= pos

(* An argument of n bytes that fits. *)
LEMMA PutInside ==
  ASSUME Inside, left > 0, NEW n \in Nat, n % 4 = 0,
         (Put(n) /\ pos + n <= Len32) \/ PutNothing
  PROVE  pos' <= Len32 /\ Below(data)' /\ pos' >= pos
<1> USE WriterAssumption DEF WriterAssumption
<1>1. /\ pos \in Nat /\ pos % 4 = 0 /\ type_pos \in Nat /\ left \in Nat
      /\ pos <= Len32 /\ type_pos + left <= pos
  BY TypeParts DEF Inside, WriterInv, TypeOK
<1>2. Below(AddType(data))
  <2> DEFINE p == (type_pos \div 4) * 4
  <2>1. p \in Nat /\ p % 4 = 0 /\ p + 4 <= Len32
    BY <1>1
  <2> HIDE DEF p
  <2>2. Below(Write(data, p, 4, Word("types")))
    BY <2>1, WriteBelow DEF Inside
  <2> QED
    BY <2>2 DEF AddType, p
<1>3. CASE Put(n) /\ pos + n <= Len32
  <2>1. Below(Write(AddType(data), pos, n, Word("arg")))
    BY <1>1, <1>2, <1>3, WriteBelow
  <2>2. data' = Write(AddType(data), pos, n, Word("arg")) /\ pos' = pos + n
    BY <1>3 DEF Put
  <2> QED
    BY <1>1, <1>3, <2>1, <2>2 DEF Below
<1>4. CASE PutNothing
  BY <1>1, <1>2, <1>4 DEF PutNothing, Below
<1> QED
  BY <1>3, <1>4

LEMMA WriteArgInside ==
  ASSUME Inside, WriteArg \/ WritevArg, \A n \in StrLens : n % 4 # 0
  PROVE  pos' <= Len32 /\ Below(data)' /\ pos' >= pos
<1> USE WriterAssumption DEF WriterAssumption
<1>1. left > 0 /\ pos \in Nat /\ pos <= Len32
  BY TypeParts DEF WriteArg, WritevArg, Inside
<1>2. \A n \in StrLens :
        /\ StringBytes(n) \in Nat /\ StringBytes(n) % 4 = 0
        /\ RemainUnsigned(pos, ROUND32(n)) => pos + StringBytes(n) <= Len32
  <2> SUFFICES ASSUME NEW n \in StrLens
               PROVE  /\ StringBytes(n) \in Nat /\ StringBytes(n) % 4 = 0
                      /\ RemainUnsigned(pos, ROUND32(n)) => pos + StringBytes(n) <= Len32
    OBVIOUS
  <2> DEFINE b == StringBytes(n)
  <2>1. n \in Nat
    OBVIOUS
  <2>2. b \in Nat /\ b % 4 = 0 /\ b = ROUND32(n)
    BY <2>1, StringRounding
  <2> HIDE DEF b
  <2>3. RemainUnsigned(pos, b) => pos + b <= Len32
    BY <1>1, <2>2 DEF RemainUnsigned
  <2> QED
    BY <2>2, <2>3 DEF b
<1>3. \A n \in BlobLens :
        /\ 4 + ROUND32(n) \in Nat /\ (4 + ROUND32(n)) % 4 = 0 /\ 4 + ROUND32(n) >= 4
        /\ Remain(pos, 4 + ROUND32(n)) => pos + (4 + ROUND32(n)) <= Len32
  <2> SUFFICES ASSUME NEW n \in BlobLens
               PROVE  /\ 4 + ROUND32(n) \in Nat /\ (4 + ROUND32(n)) % 4 = 0
                      /\ 4 + ROUND32(n) >= 4
                      /\ Remain(pos, 4 + ROUND32(n)) => pos + (4 + ROUND32(n)) <= Len32
    OBVIOUS
  <2> DEFINE b == 4 + ROUND32(n)
  <2>1. n \in Nat
    OBVIOUS
  <2>2. b \in Nat /\ b % 4 = 0
    BY <2>1, ArgSize
  <2>3. b >= 4
    BY <2>1, Rounding
  <2> HIDE DEF b
  <2>4. Remain(pos, b) => pos + b <= Len32
    BY <1>1, <2>2 DEF Remain
  <2> QED
    BY <2>2, <2>3, <2>4 DEF b
<1>4. \E n \in Nat : n % 4 = 0 /\ ((Put(n) /\ pos + n <= Len32) \/ PutNothing)
  <2>1. CASE WriteEmpty \/ WritevPut(0)
    BY <1>1, <2>1 DEF WriteEmpty, WritevPut
  <2>2. ASSUME NEW n \in {4, 8},
               WriteFixed(n) \/ (Remain(pos, n) /\ WritevPut(n))
        PROVE  <1>4!:
    BY <1>1, <2>2 DEF WriteFixed, WritevPut, Remain
  <2>3. ASSUME NEW n \in StrLens,
               \/ WriteStr(n)
               \/ RemainUnsigned(pos, ROUND32(n)) /\ WritevPut(StringBytes(n))
        PROVE  <1>4!:
    BY <1>2, <2>3 DEF WriteStr, WritevPut
  <2>4. ASSUME NEW n \in BlobLens, WriteBlob(n)
        PROVE  <1>4!:
    BY <1>3, <2>4 DEF WriteBlob
  <2>5. ASSUME NEW n \in BlobLens, Remain(pos, 4 + ROUND32(n)), WritevPut(4)
        PROVE  <1>4!:
    <3> DEFINE b == 4 + ROUND32(n)
    <3>1. b \in Nat /\ b >= 4 /\ pos + b <= Len32
      BY <1>3, <2>5
    <3> HIDE DEF b
    <3>2. pos + 4 <= Len32
      BY <1>1, <3>1
    <3> QED
      BY <2>5, <3>2 DEF WritevPut
  <2>6. CASE WritevFails
    BY <2>6 DEF WritevFails
  <2>7. CASE WriteArg
    BY <2>1, <2>2, <2>3, <2>4, <2>7 DEF WriteArg
  <2>8. CASE WritevArg
    BY <2>1, <2>2, <2>3, <2>5, <2>6, <2>8 DEF WritevArg
  <2> QED
    BY <2>7, <2>8
<1> QED
  BY <1>1, <1>4, PutInside

LEMMA StartMsgInsideStep ==
  ASSUME Inside, StartAnyMsg, \A n \in StrLens : n % 4 # 0
  PROVE  pos' <= Len32 /\ "BUNDLE" \notin state' /\ Below(data)'
         /\ (left' > 0 => type_pos' + left' <= pos')
<1> USE WriterAssumption DEF WriterAssumption
<1>1. /\ pos \in Nat /\ pos % 4 = 0 /\ pos <= Len32 /\ MsgPos = pos
      /\ type_pos \in Nat /\ left \in Nat /\ Below(data) /\ "BUNDLE" \notin state
      /\ left > 0 => type_pos + left <= pos
  BY TypeParts DEF Inside, MsgPos, WriterInv, TypeOK
<1>2. CASE StartMsgInside
  BY <1>1, <1>2 DEF StartMsgInside, Below
<1>3. ASSUME NEW n \in StrLens, StartMsgNoRoomForAddress(n)
      PROVE  pos' = pos /\ UNCHANGED <<data, type_pos, state, left>>
  BY <1>1, <1>3 DEF StartMsgNoRoomForAddress
<1>4. ASSUME NEW n \in StrLens, NEW nargs \in 0 .. MaxArgs,
             StartMsgNoRoomForTypes(n, nargs) \/ StartMsg(n, nargs)
      PROVE  pos' <= Len32 /\ "BUNDLE" \notin state' /\ Below(data')
             /\ (left' > 0 => type_pos' + left' <= pos')
  <2> DEFINE b == StringBytes(n)
             r == ROUND32(nargs)
             d == Write(data, pos, b, Word("address"))
  <2>1. n \in Nat /\ nargs \in Nat
    OBVIOUS
  <2>2. b \in Nat /\ b % 4 = 0 /\ b = ROUND32(n)
    BY <2>1, StringRounding
  <2>3. r \in Nat /\ r % 4 = 0 /\ r >= nargs
    BY <2>1, Rounding
  <2>4. Len32 - pos >= b \/ pos > Len32
    BY <1>1, <1>4, <2>2 DEF StartMsgNoRoomForTypes, StartMsg, RemainUnsigned
  <2> HIDE DEF b, r
  <2>5. pos + b \in Nat /\ (pos + b) % 4 = 0 /\ pos + b >= pos /\ pos + b <= Len32
    BY <1>1, <2>2, <2>4, SumAligned
  <2>6. Below(d)
    BY <1>1, <2>2, <2>5, WriteBelow
  <2> HIDE DEF d
  <2>7. CASE StartMsgNoRoomForTypes(n, nargs)
    <3>1. data' = d /\ pos' = pos + b /\ UNCHANGED <<type_pos, state, left>>
      BY <1>1, <2>7 DEF StartMsgNoRoomForTypes, b, d
    <3> QED
      BY <1>1, <2>5, <2>6, <3>1
  <2>8. CASE StartMsg(n, nargs)
    <3>1. /\ data' = Write(d, pos + b, r, Word("types")) /\ pos' = pos + b + r
          /\ type_pos' = pos + b /\ left' = nargs /\ state' = state \cup {"MSG"}
          /\ Len32 - (pos + b) >= r
      BY <1>1, <2>8 DEF StartMsg, Remain, b, r, d
    <3>2. pos + b + r <= Len32
      BY <2>3, <2>5, <3>1
    <3>3. Below(data')
      BY <2>3, <2>5, <2>6, <3>1, <3>2, WriteBelow
    <3> QED
      BY <1>1, <2>1, <2>3, <2>5, <3>1, <3>2, <3>3
  <2> QED
    BY <1>4, <2>7, <2>8
<1> QED
  BY <1>1, <1>2, <1>3, <1>4 DEF StartAnyMsg, Below

(* Messages outside bundles whose strings never have a length that is a multiple
   of 4 stay in their buffer, whatever its length and whatever calls fail: the
   checks of write.c:16-17 suffice there, and only there. *)
THEOREM WriterFits ==
  ASSUME ~Bundles, \A n \in StrLens : n % 4 # 0
  PROVE  Spec => []WithinBuffer
<1> USE WriterAssumption DEF WriterAssumption
<1>1. Init => pos <= Len32 /\ "BUNDLE" \notin state /\ Below(data) /\ left = 0
  BY DEF Init, Below
<1>2. Inside /\ WriterInv' /\ [Next]_vars => Inside'
  <2> SUFFICES ASSUME Inside, WriterInv', [Next]_vars
               PROVE  Inside'
    OBVIOUS
  <2>1. /\ pos \in Nat /\ pos <= Len32 /\ type_pos \in Nat /\ left \in Nat
        /\ "BUNDLE" \notin state
    BY TypeParts DEF Inside, WriterInv, TypeOK
  <2>2. CASE InitWriter \/ InitChild
    <3>1. /\ data' = data \/ data' = [w \in {} |-> Word("none")]
          /\ pos' = 0 \/ pos' = pos
          /\ state' = {"OUT"} /\ left' = 0
      BY <2>2 DEF InitWriter, InitChild, InitAt
    <3>2. Below(data')
      BY <3>1 DEF Inside, Below
    <3> QED
      BY <2>1, <3>1, <3>2 DEF Inside, Below
  <2>3. CASE StartAnyMsg
    BY <2>3, StartMsgInsideStep DEF Inside
  <2>4. CASE EndMsg
    <3>1. UNCHANGED <<data, pos, type_pos>> /\ state' = {"COMPLETE"} /\ left' = 0
      BY <2>1, <2>4 DEF EndMsg
    <3> QED
      BY <3>1 DEF Inside, Below
  <2>5. CASE EndMsgOutside \/ UNCHANGED vars
    BY <2>5 DEF EndMsgOutside, vars, Inside, Below
  <2>6. CASE WriteArg \/ WritevArg
    <3>1. pos' <= Len32 /\ Below(data)' /\ pos' >= pos /\ pos' \in Nat
      BY <2>6, WriteArgInside DEF Inside, WriterInv, TypeOK
    <3>2. type_pos' = type_pos + 1 /\ left' = left - 1 /\ state' = state /\ left > 0
      BY <2>6 DEF WriteArg, WritevArg
    <3> QED
      BY <2>1, <3>1, <3>2 DEF Inside
  <2>7. CASE WritevStart \/ WritevEnd
    BY <2>3, <2>4, <2>7 DEF WritevStart, WritevEnd, StartAnyMsg
  <2> QED
    BY <2>2, <2>3, <2>4, <2>5, <2>6, <2>7
       DEF Next, Call, Writev, StartBundle, StartBundleFails, EndBundle
<1>3. Inside => WithinBuffer
  BY DEF Inside, Below, WithinBuffer
<1>4. Init /\ WriterInv => Inside
  BY <1>1 DEF Inside
<1> QED
  BY <1>2, <1>3, <1>4, WriterInvariant, PTL DEF Spec
-----------------------------------------------------------------------------
(* Buffer e holds what d does, and perhaps more. *)
Keeps(d, e) == DOMAIN d \subseteq DOMAIN e /\ \A w \in DOMAIN d : e[w] = d[w]

(* Nothing of d is at or behind p. *)
WrittenBefore(d, p) == \A w \in DOMAIN d : w < p \div 4

(* A field behind all that is written is added to it. *)
LEMMA WriteBehind ==
  ASSUME NEW d, BufferOK(d), NEW p \in Nat, NEW n \in Nat, p % 4 = 0, n % 4 = 0,
         WrittenBefore(d, p), NEW c
  PROVE  /\ Keeps(d, Write(d, p, n, c))
         /\ WrittenBefore(Write(d, p, n, c), p + n)
         /\ \A w \in DOMAIN Write(d, p, n, c) : w \in DOMAIN d \/ w >= p \div 4
         /\ \A w \in p \div 4 .. (p + n) \div 4 - 1 :
              w \in DOMAIN Write(d, p, n, c) /\ Write(d, p, n, c)[w] = c
<1> DEFINE P == p \div 4
           N == n \div 4
           e == Write(d, p, n, c)
<1>1. P \in Nat /\ N \in Nat /\ (p + n) \div 4 = P + N
  OBVIOUS
<1>2. e = [w \in DOMAIN d \cup {P + k : k \in 0 .. N - 1} |->
             IF w \in P .. P + N - 1 THEN c ELSE d[w]]
  BY <1>1 DEF Write
<1>3. DOMAIN d \subseteq Int /\ \A w \in DOMAIN d : w < P
  BY DEF WrittenBefore, BufferOK
<1> HIDE DEF P, N, e
<1>4. {P + k : k \in 0 .. N - 1} = P .. P + N - 1
  <2>1. ASSUME NEW w \in P .. P + N - 1
        PROVE  w \in {P + k : k \in 0 .. N - 1}
    <3>1. w - P \in 0 .. N - 1 /\ w = P + (w - P)
      BY <1>1
    <3> QED
      BY <3>1
  <2>2. \A k \in 0 .. N - 1 : P + k \in P .. P + N - 1
    BY <1>1
  <2> QED
    BY <2>1, <2>2
<1>5. DOMAIN e = DOMAIN d \cup (P .. P + N - 1)
  BY <1>2, <1>4
<1>6. \A w \in P .. P + N - 1 : w \in DOMAIN e /\ e[w] = c
  BY <1>2, <1>5
<1>7. \A w \in DOMAIN d : w \in DOMAIN e /\ e[w] = d[w]
  <2> SUFFICES ASSUME NEW w \in DOMAIN d
               PROVE  w \in DOMAIN e /\ e[w] = d[w]
    OBVIOUS
  <2>1. w \notin P .. P + N - 1
    BY <1>1, <1>3
  <2> QED
    BY <1>2, <1>5, <2>1
<1>8. \A w \in DOMAIN e : w < P + N /\ (w \in DOMAIN d \/ w >= P)
  BY <1>1, <1>3, <1>5
<1>9. Keeps(d, e)
  BY <1>7 DEF Keeps
<1>10. WrittenBefore(e, p + n)
  BY <1>1, <1>8 DEF WrittenBefore
<1> QED
  BY <1>1, <1>6, <1>8, <1>9, <1>10 DEF P, e

LEMMA KeepsBoth ==
  ASSUME NEW d, NEW e, NEW f, Keeps(d, e), Keeps(e, f)
  PROVE  Keeps(d, f)
  BY DEF Keeps

(* The strengthening of WriteOnce: nothing is written behind writer->pos, nor to
   the word kept for the size of an open element, and the words the tags to come go
   to are words of tags. *)
TagsKept(d, p, n) ==
  \A k \in 0 .. n - 1 :
    (p + k) \div 4 \in DOMAIN d /\ d[(p + k) \div 4] = Word("types")

SizeFree(d) == msg_start \div 4 - 1 \notin DOMAIN d

Fresh ==
  /\ WriterInv
  /\ WrittenBefore(data, pos)
  /\ state = {"BUNDLE", "MSG"} => SizeFree(data)
  /\ TagsKept(data, type_pos, left)

LEMMA KeepsTags ==
  ASSUME NEW d, NEW e, Keeps(d, e), NEW p, NEW n, TagsKept(d, p, n)
  PROVE  TagsKept(e, p, n)
  BY DEF Keeps, TagsKept

LEMMA FartherBefore ==
  ASSUME NEW d, BufferOK(d), NEW p \in Nat, NEW q \in Nat, p <= q, WrittenBefore(d, p)
  PROVE  WrittenBefore(d, q)
<1>1. p \div 4 \in Nat /\ q \div 4 \in Nat /\ p \div 4 <= q \div 4
  OBVIOUS
<1>2. \A w \in DOMAIN d : w \in Nat
  BY DEF BufferOK
<1> QED
  BY <1>1, <1>2 DEF WrittenBefore

(* A single word is written that was not there, or held the same. *)
LEMMA WriteWord ==
  ASSUME NEW d, NEW p \in Nat, p % 4 = 0, NEW c, p \div 4 \in DOMAIN d => d[p \div 4] = c
  PROVE  /\ DOMAIN Write(d, p, 4, c) = DOMAIN d \cup {p \div 4}
         /\ Keeps(d, Write(d, p, 4, c))
<1> DEFINE t == p \div 4
           m == 4 \div 4 - 1
           z == (p + 4) \div 4 - 1
<1>1. t \in Nat /\ m = 0 /\ z = t
  OBVIOUS
<1>2. Write(d, p, 4, c) =
        [w \in DOMAIN d \cup {t + k : k \in 0 .. m} |->
           IF w \in t .. z THEN c ELSE d[w]]
  BY DEF Write
<1> HIDE DEF m, z, t
<1>3. {t + k : k \in 0 .. 0} = {t} /\ t .. t = {t}
  BY <1>1
<1>4. Write(d, p, 4, c) =
        [w \in DOMAIN d \cup {t} |-> IF w \in {t} THEN c ELSE d[w]]
  BY <1>1, <1>2, <1>3
<1>5. t \in DOMAIN d => d[t] = c
  BY DEF t
<1> DEFINE e == Write(d, p, 4, c)
<1>6. DOMAIN e = DOMAIN d \cup {t}
  BY <1>4
<1>7. Keeps(d, e)
  BY <1>4, <1>5 DEF Keeps
<1> QED
  BY <1>6, <1>7 DEF t

(* The tag of an argument goes to a word of tags. *)
LEMMA TagKeeps ==
  ASSUME Fresh, left > 0
  PROVE  DOMAIN AddType(data) = DOMAIN data /\ Keeps(data, AddType(data))
<1> DEFINE t == type_pos \div 4
<1>1. left \in Nat /\ type_pos \in Nat
  BY TypeParts, WriterAssumption DEF Fresh, WriterInv, TypeOK, WriterAssumption
<1>2. t \in Nat /\ (t * 4) \div 4 = t /\ (t * 4 + 4) \div 4 = t + 1
  BY <1>1
<1>3. t \in DOMAIN data /\ data[t] = Word("types")
  <2>1. 0 \in 0 .. left - 1 /\ type_pos + 0 = type_pos
    BY <1>1
  <2> QED
    BY <2>1 DEF Fresh, TagsKept
<1> DEFINE p == t * 4
<1>4. AddType(data) = Write(data, p, 4, Word("types")) 
        /\ p \in Nat /\ p % 4 = 0 /\ p \div 4 = t
  BY <1>2 DEF AddType
<1> HIDE DEF t, p
<1>5. DOMAIN AddType(data) = DOMAIN data \cup {t} /\ Keeps(data, AddType(data))
  BY <1>3, <1>4, WriteWord
<1> QED
  BY <1>3, <1>5

(* What WriteOnce says of a step, and what is left of Fresh after WriterInv. *)
FreshAfter ==
  /\ Keeps(data, data')
  /\ WrittenBefore(data', pos')
  /\ state' = {"BUNDLE", "MSG"} => msg_start' \div 4 - 1 \notin DOMAIN data'
  /\ TagsKept(data', type_pos', left')

LEMMA KeepsItself == \A d : Keeps(d, d)
  BY DEF Keeps

LEMMA StartMsgFresh ==
  ASSUME Fresh, StartAnyMsg
  PROVE  FreshAfter
<1> USE WriterAssumption DEF WriterAssumption
<1>1. /\ BufferOK(data) /\ pos \in Nat /\ pos % 4 = 0 /\ MsgPos \in Nat /\ MsgPos % 4 = 0
      /\ pos <= MsgPos /\ WrittenBefore(data, pos) /\ TagsKept(data, type_pos, left)
  BY TypeParts DEF Fresh
<1>2. WrittenBefore(data, MsgPos)
  BY <1>1, FartherBefore
<1>3. CASE StartMsgInside
  BY <1>3, KeepsItself DEF StartMsgInside, Fresh, FreshAfter, SizeFree
<1>4. ASSUME NEW n \in StrLens, StartMsgNoRoomForAddress(n)
      PROVE  FreshAfter
  <2>1. /\ data' = data /\ pos' = MsgPos /\ UNCHANGED <<type_pos, state, left>>
        /\ "MSG" \notin state
    BY <1>4 DEF StartMsgNoRoomForAddress
  <2> QED
    BY <1>1, <1>2, <2>1, KeepsItself DEF FreshAfter
<1>5. ASSUME NEW n \in StrLens, NEW nargs \in 0 .. MaxArgs,
             StartMsgNoRoomForTypes(n, nargs) \/ StartMsg(n, nargs)
      PROVE  FreshAfter
  <2> DEFINE b == StringBytes(n)
             r == ROUND32(nargs)
             a == MsgPos + b
             d == Write(data, MsgPos, b, Word("address"))
             e == Write(d, a, r, Word("types"))
  <2>1. n \in Nat /\ nargs \in Nat
    OBVIOUS
  <2>2. b \in Nat /\ b % 4 = 0 /\ r \in Nat /\ r % 4 = 0 /\ r >= nargs
    BY <2>1, StringRounding, Rounding
  <2> HIDE DEF b, r
  <2>3. a \in Nat /\ a % 4 = 0 /\ a >= MsgPos
    BY <1>1, <2>2, SumAligned
  <2>4. /\ Keeps(data, d) /\ WrittenBefore(d, a) /\ BufferOK(d)
        /\ \A w \in DOMAIN d : w \in DOMAIN data \/ w >= MsgPos \div 4
    BY <1>1, <1>2, <2>2, WriteBehind, WriteBufferOK, WordOK DEF Contents
  <2> HIDE DEF a, d
  <2>5. CASE StartMsgNoRoomForTypes(n, nargs)
    <3>1. /\ data' = d /\ pos' = a /\ UNCHANGED <<type_pos, state, left>>
          /\ "MSG" \notin state
      BY <2>5 DEF StartMsgNoRoomForTypes, a, b, d
    <3>2. TagsKept(d, type_pos, left)
      BY <1>1, <2>4, KeepsTags
    <3> QED
      BY <2>4, <3>1, <3>2 DEF FreshAfter
  <2>6. CASE StartMsg(n, nargs)
    <3>1. /\ data' = e /\ pos' = a + r /\ type_pos' = a /\ left' = nargs
          /\ msg_start' = MsgPos /\ state' = state \cup {"MSG"} /\ "MSG" \notin state
      BY <2>6 DEF StartMsg, a, b, r, d
    <3>2. /\ Keeps(d, e) /\ WrittenBefore(e, a + r)
          /\ \A w \in DOMAIN e : w \in DOMAIN d \/ w >= a \div 4
          /\ \A w \in a \div 4 .. (a + r) \div 4 - 1 :
               w \in DOMAIN e /\ e[w] = Word("types")
      BY <2>2, <2>3, <2>4, WriteBehind
    <3> HIDE DEF e
    <3>3. Keeps(data, e)
      BY <2>4, <3>2, KeepsBoth
    <3>4. TagsKept(e, a, nargs)
      <4>1. ASSUME NEW k \in 0 .. nargs - 1
            PROVE  (a + k) \div 4 \in a \div 4 .. (a + r) \div 4 - 1
        BY <2>1, <2>2, <2>3
      <4> QED
        BY <3>2, <4>1 DEF TagsKept
    <3>5. state' = {"BUNDLE", "MSG"} => MsgPos \div 4 - 1 \notin DOMAIN e
      <4> SUFFICES ASSUME state' = {"BUNDLE", "MSG"}
                   PROVE  MsgPos \div 4 - 1 \notin DOMAIN e
        OBVIOUS
      <4>1. state = {"BUNDLE"}
        BY <3>1
      <4>2. MsgPos = pos + 4
        BY <4>1 DEF MsgPos
      <4>3. MsgPos \div 4 - 1 = pos \div 4
        BY <1>1, <4>2
      <4>4. pos \div 4 \notin DOMAIN data
        BY <1>1 DEF WrittenBefore
      <4>5. ~(pos \div 4 >= MsgPos \div 4) /\ ~(pos \div 4 >= a \div 4)
        BY <1>1, <2>3, <4>3
      <4> QED
        BY <2>4, <3>2, <4>3, <4>4, <4>5
    <3> QED
      BY <3>1, <3>2, <3>3, <3>4, <3>5 DEF FreshAfter
  <2> QED
    BY <1>5, <2>5, <2>6
<1> QED
  BY <1>3, <1>4, <1>5 DEF StartAnyMsg

LEMMA WriteArgFresh ==
  ASSUME Fresh, WriteArg \/ WritevArg
  PROVE  FreshAfter
<1> DEFINE f == AddType(data)
<1>1. /\ type_pos' = type_pos + 1 /\ left > 0 /\ left' = left - 1
      /\ UNCHANGED <<msg_start, state>>
  BY DEF WriteArg, WritevArg
<1>2. /\ pos \in Nat /\ pos % 4 = 0 /\ msg_start \in Nat /\ type_pos \in Nat
      /\ left \in Nat /\ BufferOK(data) /\ WrittenBefore(data, pos)
      /\ ("MSG" \in state => msg_start <= pos)
  BY TypeParts, WriterAssumption
     DEF Fresh, WriterInv, TypeOK, MsgBehindPos, WriterAssumption
<1>3. DOMAIN f = DOMAIN data /\ Keeps(data, f)
  BY <1>1, TagKeeps
<1>4. BufferOK(f)
  <2>1. (type_pos \div 4) * 4 \in Nat
    BY <1>2
  <2> QED
    BY <1>2, <2>1, WriteBufferOK, WordOK DEF AddType, Contents
<1> HIDE DEF f
<1>5. WrittenBefore(f, pos)
  BY <1>2, <1>3 DEF WrittenBefore
<1>6. TagsKept(data, type_pos + 1, left - 1)
  <2> SUFFICES ASSUME NEW k \in 0 .. left - 1 - 1
               PROVE  /\ (type_pos + 1 + k) \div 4 \in DOMAIN data
                      /\ data[(type_pos + 1 + k) \div 4] = Word("types")
    BY DEF TagsKept
  <2>1. k + 1 \in 0 .. left - 1 /\ type_pos + 1 + k = type_pos + (k + 1)
    BY <1>2
  <2> QED
    BY <2>1 DEF Fresh, TagsKept
<1>7. \E n \in Nat : n % 4 = 0 /\ (Put(n) \/ PutNothing)
  BY ArgIsPut DEF Fresh
<1>8. /\ Keeps(f, data') /\ WrittenBefore(data', pos')
      /\ \A w \in DOMAIN data' : w \in DOMAIN data \/ w >= pos \div 4
  <2>1. CASE PutNothing
    <3>1. data' = f /\ pos' = pos
      BY <2>1 DEF PutNothing, f
    <3> QED
      BY <1>3, <1>5, <3>1, KeepsItself
  <2>2. ASSUME NEW n \in Nat, n % 4 = 0, Put(n)
        PROVE  <1>8
    <3>1. data' = Write(f, pos, n, Word("arg")) /\ pos' = pos + n
      BY <2>2 DEF Put, f
    <3> QED
      BY <1>2, <1>3, <1>4, <1>5, <2>2, <3>1, WriteBehind
  <2> QED
    BY <1>7, <2>1, <2>2
<1>9. Keeps(data, data')
  BY <1>3, <1>8, KeepsBoth
<1>10. TagsKept(data', type_pos', left')
  BY <1>1, <1>6, <1>9, KeepsTags
<1>11. state' = {"BUNDLE", "MSG"} => msg_start' \div 4 - 1 \notin DOMAIN data'
  <2> SUFFICES ASSUME state = {"BUNDLE", "MSG"}
               PROVE  msg_start \div 4 - 1 \notin DOMAIN data'
    BY <1>1
  <2>1. msg_start \div 4 - 1 \notin DOMAIN data
    BY DEF Fresh, SizeFree
  <2>2. ~(msg_start \div 4 - 1 >= pos \div 4)
    BY <1>2
  <2> QED
    BY <1>8, <2>1, <2>2
<1> QED
  BY <1>8, <1>9, <1>10, <1>11 DEF FreshAfter

LEMMA EndMsgFresh ==
  ASSUME Fresh, EndMsg
  PROVE  FreshAfter
<1>1. /\ BufferOK(data) /\ pos \in Nat /\ msg_start \in Nat /\ WrittenBefore(data, pos)
      /\ pos % 4 = 0 /\ msg_start % 4 = 0 /\ state \in Modes /\ "MSG" \in state
      /\ msg_start <= pos /\ base \in Nat
  BY TypeParts DEF Fresh, WriterInv, Aligned, MsgBehindPos, EndMsg
<1>2. UNCHANGED <<pos, msg_start, type_pos>> /\ left' = 0 /\ "MSG" \notin state'
  BY DEF EndMsg
<1>3. \A d, p : TagsKept(d, p, 0)
  BY DEF TagsKept
<1>4. CASE "BUNDLE" \notin state
  <2>1. data' = data
    BY <1>4 DEF EndMsg
  <2> QED
    BY <1>1, <1>2, <1>3, <2>1, KeepsItself DEF FreshAfter
<1>5. CASE "BUNDLE" \in state
  <2> DEFINE s == msg_start \div 4 - 1
             c == SizeWord(pos - msg_start)
  <2>1. state = {"BUNDLE", "MSG"}
    BY <1>1, <1>5 DEF Modes
  <2>2. s \notin DOMAIN data
    BY <2>1 DEF Fresh, SizeFree
  <2>3. s \in Nat /\ s < pos \div 4 /\ msg_start - 4 \in Nat
    BY <1>1, <1>5 DEF Fresh, WriterInv, MsgBehindPos
  <2> DEFINE p == msg_start - 4
  <2>4. data' = Write(data, p, 4, c) /\ p \in Nat /\ p % 4 = 0 /\ p \div 4 = s
    BY <1>1, <1>5, <2>3 DEF EndMsg
  <2> HIDE DEF s, c, p
  <2>5. DOMAIN data' = DOMAIN data \cup {s} /\ Keeps(data, data')
    BY <2>2, <2>4, WriteWord
  <2>6. Keeps(data, data') /\ WrittenBefore(data', pos)
    BY <1>1, <2>2, <2>3, <2>5 DEF Keeps, WrittenBefore
  <2> QED
    BY <1>2, <1>3, <2>6 DEF FreshAfter
<1> QED
  BY <1>4, <1>5

LEMMA StartBundleFresh ==
  ASSUME Fresh, StartBundle
  PROVE  FreshAfter
<1> DEFINE h == Header
           q == pos + h
           kind == IF k_bundle THEN "#bundle" ELSE "nul"
           d == Write(data, pos, h, Word(kind))
<1>1. /\ BufferOK(data) /\ pos \in Nat /\ pos % 4 = 0 /\ WrittenBefore(data, pos)
      /\ TagsKept(data, type_pos, left)
  BY TypeParts DEF Fresh
<1>2. /\ data' = Write(d, q, 8, Word("timetag")) /\ pos' = q + 8
      /\ state' = {"BUNDLE"} /\ UNCHANGED <<msg_start, type_pos, left>>
  BY DEF StartBundle
<1>3. h \in Nat /\ h % 4 = 0 /\ 8 % 4 = 0 /\ kind \in Contents
  BY DEF Header, Contents
<1> HIDE DEF h, kind
<1>4. q \in Nat /\ q % 4 = 0
  BY <1>1, <1>3, SumAligned
<1>5. Keeps(data, d) /\ WrittenBefore(d, q) /\ BufferOK(d)
  BY <1>1, <1>3, WriteBehind, WriteBufferOK, WordOK
<1> HIDE DEF q, d
<1>6. Keeps(d, data') /\ WrittenBefore(data', pos')
  BY <1>2, <1>3, <1>4, <1>5, WriteBehind
<1>7. Keeps(data, data') /\ TagsKept(data', type_pos', left')
  BY <1>1, <1>2, <1>5, <1>6, KeepsBoth, KeepsTags
<1> QED
  BY <1>2, <1>6, <1>7 DEF FreshAfter

LEMMA FreshSteps ==
  /\ Init /\ WriterInv => Fresh
  /\ Fresh /\ [Next]_vars => InitWriter \/ FreshAfter
  /\ Fresh /\ [Next]_vars => Fresh'
  /\ Fresh /\ [Next]_vars =>
       (base' # 0 \/ packets' = packets => \A w \in DOMAIN data : data'[w] = data[w])
<1>1. Init => WrittenBefore(data, pos) /\ state # {"BUNDLE", "MSG"} /\ left = 0
  BY DEF Init, WrittenBefore
<1>2. Init /\ WriterInv => Fresh
  BY <1>1 DEF Fresh, TagsKept
<1>3. ASSUME Fresh, [Next]_vars
      PROVE  InitWriter \/ FreshAfter
  <2>1. CASE InitChild \/ EndBundle
    <3>1. /\ data' = data /\ pos' = pos
          /\ state' \in {{"OUT"}, {"COMPLETE"}}
          /\ (left' = 0 \/ (left' = left /\ type_pos' = type_pos))
      BY <2>1 DEF InitChild, InitAt, EndBundle
    <3> QED
      BY <1>3, <3>1, KeepsItself DEF Fresh, FreshAfter, TagsKept
  <2>2. CASE EndMsgOutside \/ StartBundleFails \/ UNCHANGED vars
    <3>1. UNCHANGED <<data, pos, msg_start, type_pos, state, left>>
      BY <2>2 DEF EndMsgOutside, StartBundleFails, vars
    <3> QED
      BY <1>3, <3>1, KeepsItself DEF Fresh, FreshAfter, SizeFree
  <2>3. CASE StartAnyMsg \/ WritevStart
    BY <1>3, <2>3, StartMsgFresh DEF WritevStart, StartAnyMsg
  <2>4. CASE EndMsg \/ WritevEnd
    BY <1>3, <2>4, EndMsgFresh DEF WritevEnd
  <2>5. CASE StartBundle
    BY <1>3, <2>5, StartBundleFresh
  <2>6. CASE WriteArg \/ WritevArg
    BY <1>3, <2>6, WriteArgFresh
  <2> QED
    BY <1>3, <2>1, <2>2, <2>3, <2>4, <2>5, <2>6 DEF Next, Call, Writev
<1>4. ASSUME Fresh, InitWriter
      PROVE  /\ WrittenBefore(data', pos') /\ left' = 0 /\ state' = {"OUT"}
             /\ base' = 0 /\ packets' # packets
  <2>1. data' = [w \in {} |-> Word("none")] /\ pos' = 0 /\ packets' = packets + 1
        /\ left' = 0 /\ state' = {"OUT"} /\ base' = 0
    BY <1>4 DEF InitWriter, InitAt
  <2>2. packets \in Nat
    BY <1>4, WriterAssumption DEF Fresh, WriterInv, TypeOK, WriterAssumption
  <2> QED
    BY <2>1, <2>2 DEF WrittenBefore
<1>5. Fresh /\ [Next]_vars => Fresh'
  BY <1>3, <1>4, WriterSteps DEF Fresh, FreshAfter, SizeFree, TagsKept
<1>6. Fresh /\ [Next]_vars =>
        (base' # 0 \/ packets' = packets => \A w \in DOMAIN data : data'[w] = data[w])
  BY <1>3, <1>4 DEF FreshAfter, Keeps
<1> QED
  BY <1>2, <1>3, <1>5, <1>6

(* A word is written once: whatever is called in whatever order, failed calls and
   children's included, only the init of a writer over the whole buffer gives its
   words up. *)
THEOREM WrittenOnce == Spec => WriteOnce
<1>1. Init => Fresh
  BY WriterSteps, FreshSteps
<1> QED
  BY <1>1, FreshSteps, PTL DEF Spec, WriteOnce
-----------------------------------------------------------------------------
(* The dump. *)
(* The bytes below e lie in the buffer w. *)
Covered(w, e) == \A p \in Nat : p < e => p \div 4 \in DOMAIN w

WordsOK(w) == \A i \in DOMAIN w : w[i].n \in Int

ReaderOK(w, x) ==
  /\ x.msg_ptr \in Nat /\ x.bundle_end \in Nat
  /\ x.msg_ptr % 4 = 0 /\ x.bundle_end % 4 = 0
  /\ x.msg_ptr <= x.bundle_end
  /\ Covered(w, x.bundle_end)

DumpedOK(w, m) ==
  /\ m.at \in Nat /\ m.len \in Nat
  /\ m.at % 4 = 0 /\ m.len % 4 = 0 /\ m.len >= 4
  /\ Covered(w, m.at + m.len)

(* The messages of d end at or before p. *)
Before(d, p) == d # <<>> => d[Len(d)].at + d[Len(d)].len <= p

ReadersOK(w, r) ==
  /\ r \in Seq([msg_ptr : Nat, bundle_end : Nat])
  /\ \A i \in DOMAIN r : ReaderOK(w, r[i])
  /\ \A i \in DOMAIN r : i > 1 => r[i].bundle_end <= r[i - 1].msg_ptr

MessagesOK(w, d) ==
  /\ d \in Seq([at : Nat, len : Nat, indent : Nat])
  /\ \A i \in DOMAIN d : DumpedOK(w, d[i])
  /\ \A i \in DOMAIN d : i > 1 => d[i - 1].at + d[i - 1].len <= d[i].at

(* A call that begins is at an element that the reader around it has left. *)
CallOK(w, c, r, d) ==
  /\ c[1] \in Nat /\ c[1] % 4 = 0 /\ c[2] \in Int
  /\ Covered(w, c[1] + c[2])
  /\ Before(d, c[1])
  /\ r # <<>> => c[1] <= r[Len(r)].msg_ptr

(* The strengthening of DumpInside. *)
DumpInv ==
  /\ WordsOK(buffer)
  /\ ReadersOK(buffer, readers)
  /\ MessagesOK(buffer, dumped)
  /\ call # <<>> => /\ CallOK(buffer, call, readers, dumped)
                    /\ readers # <<>> => call[1] + call[2] <= br.msg_ptr
  /\ call = <<>> /\ readers # <<>> => Before(dumped, br.msg_ptr)

LEMMA LastOfEach ==
  ASSUME NEW w, NEW d, NEW r
  PROVE  /\ MessagesOK(w, d) /\ d # <<>> => d[Len(d)].at \in Nat /\ d[Len(d)].len \in Nat
         /\ ReadersOK(w, r) /\ r # <<>> => r[Len(r)].msg_ptr \in Nat
<1>1. ASSUME MessagesOK(w, d), d # <<>>
      PROVE  d[Len(d)].at \in Nat /\ d[Len(d)].len \in Nat
  <2>1. d \in Seq([at : Nat, len : Nat, indent : Nat])
    BY <1>1 DEF MessagesOK
  <2>2. Len(d) \in DOMAIN d
    BY <1>1, <2>1
  <2> QED
    BY <1>1, <2>2 DEF MessagesOK, DumpedOK
<1>2. ASSUME ReadersOK(w, r), r # <<>>
      PROVE  r[Len(r)].msg_ptr \in Nat
  <2>1. r \in Seq([msg_ptr : Nat, bundle_end : Nat])
    BY <1>2 DEF ReadersOK
  <2>2. Len(r) \in DOMAIN r
    BY <1>2, <2>1
  <2> QED
    BY <1>2, <2>2 DEF ReadersOK, ReaderOK
<1> QED
  BY <1>1, <1>2

LEMMA BeforeLater ==
  ASSUME NEW w, NEW d, MessagesOK(w, d), NEW p \in Nat, NEW q \in Nat, p <= q,
         Before(d, p)
  PROVE  Before(d, q)
<1> SUFFICES ASSUME d # <<>>
             PROVE  d[Len(d)].at + d[Len(d)].len <= q
  BY DEF Before
<1> DEFINE a == d[Len(d)].at
           n == d[Len(d)].len
<1>1. a \in Nat /\ n \in Nat /\ a + n <= p
  BY LastOfEach DEF Before
<1> HIDE DEF a, n
<1>2. a + n <= q
  BY <1>1
<1> QED
  BY <1>2 DEF a, n

(* Adding a message behind the others. *)
LEMMA AppendMessage ==
  ASSUME NEW w, NEW d, MessagesOK(w, d), NEW at \in Nat, NEW len \in Nat, NEW k \in Nat,
         at % 4 = 0, len % 4 = 0, len >= 4, Covered(w, at + len), Before(d, at)
  PROVE  LET e == Append(d, [at |-> at, len |-> len, indent |-> k])
         IN MessagesOK(w, e) /\ (\A p \in Nat : at + len <= p => Before(e, p))
<1> DEFINE m == [at |-> at, len |-> len, indent |-> k]
           e == Append(d, m)
<1>1. /\ d \in Seq([at : Nat, len : Nat, indent : Nat]) /\ Len(d) \in Nat
      /\ m \in [at : Nat, len : Nat, indent : Nat] /\ m.at = at /\ m.len = len
  BY DEF MessagesOK
<1>2. DumpedOK(w, m)
  BY DEF DumpedOK
<1> HIDE DEF m
<1>3. /\ e \in Seq([at : Nat, len : Nat, indent : Nat])
      /\ Len(e) = Len(d) + 1 /\ e[Len(d) + 1] = m /\ DOMAIN e = 1 .. Len(d) + 1
      /\ \A i \in 1 .. Len(d) : e[i] = d[i]
      /\ DOMAIN d = 1 .. Len(d)
  BY <1>1
<1> HIDE DEF e
<1>4. Len(d) \in Nat
  BY <1>1
<1>5. \A i \in DOMAIN e : i \in 1 .. Len(d) \/ i = Len(d) + 1
  BY <1>1, <1>3
<1>6. \A i \in DOMAIN e : DumpedOK(w, e[i])
  <2>1. \A i \in 1 .. Len(d) : DumpedOK(w, d[i])
    BY <1>3 DEF MessagesOK
  <2> QED
    BY <1>2, <1>3, <1>5, <2>1, Zenon
<1>7. ASSUME NEW i \in DOMAIN e, i > 1
      PROVE  e[i - 1].at + e[i - 1].len <= e[i].at
  <2>1. CASE i = Len(d) + 1
    <3>1. e[i - 1] = d[Len(d)] /\ e[i] = m /\ d # <<>>
      BY <1>1, <1>3, <1>7, <2>1
    <3> QED
      BY <1>1, <3>1 DEF Before
  <2>2. CASE i # Len(d) + 1
    <3>1. i \in 1 .. Len(d) /\ i - 1 \in 1 .. Len(d)
      <4>1. i \in 1 .. Len(d)
        BY <1>5, <2>2
      <4> QED
        BY <1>7, <1>4, <4>1
    <3> QED
      BY <1>3, <1>7, <3>1 DEF MessagesOK
  <2> QED
    BY <2>1, <2>2
<1>8. MessagesOK(w, e) /\ (\A p \in Nat : at + len <= p => Before(e, p))
  BY <1>1, <1>3, <1>6, <1>7 DEF MessagesOK, Before
<1> QED
  BY <1>8 DEF e, m

LEMMA DumpInvInside == DumpInv => DumpInside
<1> SUFFICES ASSUME DumpInv
             PROVE  DumpInside
  OBVIOUS
<1>1. ASSUME NEW i \in DOMAIN readers
      PROVE  /\ readers[i].msg_ptr <= readers[i].bundle_end
             /\ readers[i].msg_ptr # readers[i].bundle_end => InBuffer(readers[i].msg_ptr)
             /\ i > 1 => readers[i].bundle_end <= readers[i - 1].msg_ptr
  <2> DEFINE m == readers[i].msg_ptr
             n == readers[i].bundle_end
  <2>1. /\ m \in Nat /\ n \in Nat /\ m % 4 = 0 /\ m <= n
        /\ \A p \in Nat : p < n => p \div 4 \in DOMAIN buffer
    BY DEF DumpInv, ReadersOK, ReaderOK, Covered
  <2> HIDE DEF m, n
  <2>2. m <= n /\ (m # n => m >= 0 /\ m % 4 = 0 /\ m \div 4 \in DOMAIN buffer)
    BY <2>1
  <2> QED
    BY <2>2 DEF m, n, InBuffer, DumpInv, ReadersOK
<1>2. ASSUME NEW i \in DOMAIN dumped
      PROVE  /\ InBuffer(dumped[i].at) /\ InBuffer(End(dumped[i]) - 4)
             /\ i > 1 => End(dumped[i - 1]) <= dumped[i].at
  <2> DEFINE a == dumped[i].at
             n == dumped[i].len
  <2>1. /\ a \in Nat /\ n \in Nat /\ a % 4 = 0 /\ n % 4 = 0 /\ n >= 4
        /\ \A p \in Nat : p < a + n => p \div 4 \in DOMAIN buffer
    BY DEF DumpInv, MessagesOK, DumpedOK, Covered
  <2> HIDE DEF a, n
  <2>2. a >= 0 /\ a \div 4 \in DOMAIN buffer
    BY <2>1
  <2>3. a + n - 4 \in Nat /\ (a + n - 4) % 4 = 0 /\ (a + n - 4) \div 4 \in DOMAIN buffer
    BY <2>1
  <2>4. InBuffer(a) /\ InBuffer(a + n - 4)
    BY <2>1, <2>2, <2>3 DEF InBuffer
  <2>5. i > 1 => dumped[i - 1].at + dumped[i - 1].len <= a
    BY DEF a, DumpInv, MessagesOK
  <2>6. InBuffer(dumped[i].at)
    BY <2>4 DEF a
  <2>7. InBuffer(End(dumped[i]) - 4)
    <3> DEFINE e == End(dumped[i])
    <3>1. e = a + n
      BY DEF a, n, End
    <3> HIDE DEF e
    <3>2. e - 4 >= 0 /\ (e - 4) % 4 = 0 /\ (e - 4) \div 4 \in DOMAIN buffer
      BY <2>1, <2>3, <3>1
    <3>3. InBuffer(e - 4)
      BY <3>2 DEF InBuffer
    <3> QED
      BY <3>3 DEF e
  <2>8. i > 1 => End(dumped[i - 1]) <= dumped[i].at
    BY <2>5 DEF a, End
  <2> QED
    BY <2>6, <2>7, <2>8
<1> QED
  BY <1>1, <1>2 DEF DumpInside

(* A datagram begins a dump, in a buffer of its own. *)
LEMMA ReceiveStep ==
  ASSUME DumpInv, NEW words, NEW n, Received(words, n), Receive(words, n)
  PROVE  DumpInv'
<1>1. /\ call' = <<0, n>> /\ buffer' = words /\ dumped' = <<>> /\ readers = <<>>
      /\ readers' = <<>>
  BY DEF Receive, Dumping
<1>2. Covered(words, n)
  BY DEF Covered, Received
<1>3. WordsOK(words) /\ n \in Int
  BY DEF WordsOK, Received
<1>4. /\ call'[1] = 0 /\ call'[2] = n /\ call' # <<>>
      /\ \A r : <<>> \in Seq(r)
      /\ DOMAIN <<>> = {}
  BY <1>1
<1>5. Covered(words, 0 + n)
  BY <1>2, <1>3
<1> QED
  BY <1>1, <1>3, <1>4, <1>5
     DEF DumpInv, ReadersOK, MessagesOK, CallOK, Before

(* The byte order changes the value of a size and not that it is one. *)
LEMMA SizeIsInt ==
  ASSUME NEW n \in Int
  PROVE  osc_ntoh32(n) \in Int
  BY DEF osc_ntoh32, SignedByte, Byte

(* An element that is read lies in its bundle, behind its size word. *)
LEMMA ElementInside ==
  ASSUME DumpInv, readers # <<>>, NextType \in {"message", "bundle"}
  PROVE  /\ ReaderOK(buffer, br) /\ Len(readers) \in Nat \ {0}
         /\ Start \in Nat /\ Size \in Nat /\ Start % 4 = 0 /\ Size % 4 = 0 /\ Size >= 4
         /\ br.msg_ptr <= Start /\ Start + Size \in Nat /\ (Start + Size) % 4 = 0
         /\ Start + Size <= br.bundle_end /\ Covered(buffer, Start + Size)
<1> DEFINE m == br.msg_ptr
           e == br.bundle_end
           n == Size
<1>1. /\ Len(readers) \in Nat \ {0} /\ Len(readers) \in DOMAIN readers
  BY DEF DumpInv, ReadersOK
<1>2. ReaderOK(buffer, br)
  BY <1>1 DEF br, DumpInv, ReadersOK
<1>3. /\ m \in Nat /\ e \in Nat /\ m % 4 = 0 /\ m <= e
      /\ \A p \in Nat : p < e => p \div 4 \in DOMAIN buffer
  BY <1>2 DEF ReaderOK, Covered
<1>4. m # e /\ ~(Start + n > e) /\ ~(n < 4 \/ n % 4 # 0)
  BY DEF NextType, PacketType
<1> HIDE DEF m, e
<1>5. m \div 4 \in DOMAIN buffer
  BY <1>3, <1>4
<1>6. n \in Int
  <2>1. buffer[m \div 4].n \in Int
    BY <1>5 DEF DumpInv, WordsOK
  <2> QED
    BY <2>1, SizeIsInt DEF Size, m
<1> HIDE DEF n
<1>7. m + 4 \in Nat /\ (m + 4) % 4 = 0 /\ m <= m + 4
  BY <1>3
<1>8. ASSUME NEW s \in Nat, s % 4 = 0, ~(s + n > e), ~(n < 4 \/ n % 4 # 0)
      PROVE  /\ n \in Nat /\ n % 4 = 0 /\ n >= 4
             /\ s + n \in Nat /\ (s + n) % 4 = 0 /\ s + n <= e
             /\ \A p \in Nat : p < s + n => p \div 4 \in DOMAIN buffer
  BY <1>3, <1>6, <1>8
<1>9. /\ n \in Nat /\ n % 4 = 0 /\ n >= 4
      /\ m + 4 + n \in Nat /\ (m + 4 + n) % 4 = 0 /\ m + 4 + n <= e
      /\ \A p \in Nat : p < m + 4 + n => p \div 4 \in DOMAIN buffer
  BY <1>4, <1>7, <1>8 DEF Start, m
<1> QED
  BY <1>1, <1>2, <1>7, <1>9 DEF Start, Covered, m, e, n

(* A reader whose end is not past where the innermost one is comes on top. *)
LEMMA PushReader ==
  ASSUME NEW w, NEW r, ReadersOK(w, r), NEW x \in [msg_ptr : Nat, bundle_end : Nat],
         ReaderOK(w, x), r # <<>> => x.bundle_end <= r[Len(r)].msg_ptr
  PROVE  ReadersOK(w, Append(r, x))
<1> DEFINE s == Append(r, x)
<1>1. r \in Seq([msg_ptr : Nat, bundle_end : Nat]) /\ Len(r) \in Nat
  BY DEF ReadersOK
<1>2. /\ s \in Seq([msg_ptr : Nat, bundle_end : Nat])
      /\ s[Len(r) + 1] = x /\ DOMAIN s = 1 .. Len(r) + 1 /\ DOMAIN r = 1 .. Len(r)
      /\ \A i \in 1 .. Len(r) : s[i] = r[i]
  BY <1>1
<1> HIDE DEF s
<1>3. Len(r) \in Nat
  BY <1>1
<1>4. \A i \in DOMAIN s : i \in 1 .. Len(r) \/ i = Len(r) + 1
  BY <1>2, <1>3
<1>5. \A i \in DOMAIN s : ReaderOK(w, s[i])
  <2>1. \A i \in 1 .. Len(r) : ReaderOK(w, r[i])
    BY <1>2 DEF ReadersOK
  <2> QED
    BY <1>2, <1>4, <2>1, Zenon
<1>6. ASSUME NEW i \in DOMAIN s, i > 1
      PROVE  s[i].bundle_end <= s[i - 1].msg_ptr
  <2>1. CASE i = Len(r) + 1
    <3>1. s[i - 1] = r[Len(r)] /\ s[i] = x /\ r # <<>>
      BY <1>2, <1>3, <1>6, <2>1
    <3> QED
      BY <3>1
  <2>2. CASE i # Len(r) + 1
    <3>1. i \in 1 .. Len(r)
      BY <1>4, <2>2
    <3>2. i - 1 \in 1 .. Len(r)
      BY <1>3, <1>6, <3>1
    <3> QED
      BY <1>2, <1>6, <3>1, <3>2 DEF ReadersOK
  <2> QED
    BY <2>1, <2>2
<1>7. ReadersOK(w, s)
  BY <1>2, <1>5, <1>6 DEF ReadersOK
<1> QED
  BY <1>7 DEF s

(* The innermost reader may go on, up to its end. *)
LEMMA AdvanceReader ==
  ASSUME NEW w, NEW r, ReadersOK(w, r), r # <<>>, NEW p \in Nat, p % 4 = 0,
         r[Len(r)].msg_ptr <= p, p <= r[Len(r)].bundle_end
  PROVE  LET s == [r EXCEPT ![Len(r)].msg_ptr = p]
         IN ReadersOK(w, s) /\ Len(s) = Len(r) /\ s # <<>> /\ s[Len(s)].msg_ptr = p
<1> DEFINE s == [r EXCEPT ![Len(r)].msg_ptr = p]
           R == [msg_ptr : Nat, bundle_end : Nat]
<1>1. r \in Seq(R) /\ Len(r) \in DOMAIN r /\ Len(r) \in Nat
  BY DEF ReadersOK
<1>2. /\ DOMAIN s = DOMAIN r
      /\ \A i \in DOMAIN r : i # Len(r) => s[i] = r[i]
      /\ s[Len(r)] = [r[Len(r)] EXCEPT !.msg_ptr = p]
  BY <1>1
<1>3. s[Len(r)] \in R /\ s[Len(r)].msg_ptr = p /\ s[Len(r)].bundle_end = r[Len(r)].bundle_end
  <2> HIDE DEF s, R
  <2>1. r[Len(r)] \in R
    BY <1>1
  <2> QED
    BY <1>2, <2>1 DEF R
<1>4. s \in Seq(R) /\ Len(s) = Len(r) /\ s # <<>>
  BY <1>1, <1>3
<1> HIDE DEF s, R
<1>5. ReaderOK(w, r[Len(r)])
  BY <1>1 DEF ReadersOK
<1>6. ReaderOK(w, s[Len(r)])
  BY <1>3, <1>5 DEF ReaderOK
<1>7. \A i \in DOMAIN s : ReaderOK(w, s[i])
  BY <1>2, <1>6, Zenon DEF ReadersOK
<1>8. ASSUME NEW i \in DOMAIN s, i > 1
      PROVE  s[i].bundle_end <= s[i - 1].msg_ptr
  <2>1. /\ i \in DOMAIN r /\ i - 1 \in DOMAIN r /\ i - 1 # Len(r)
        /\ r[i].bundle_end <= r[i - 1].msg_ptr
    BY <1>1, <1>2, <1>8 DEF ReadersOK, R
  <2>2. s[i - 1] = r[i - 1]
    BY <1>2, <2>1
  <2>3. s[i].bundle_end = r[i].bundle_end
    BY <1>2, <1>3, <2>1
  <2> QED
    BY <2>1, <2>2, <2>3
<1>9. ReadersOK(w, s)
  BY <1>4, <1>7, <1>8 DEF ReadersOK, R
<1> QED
  BY <1>3, <1>4, <1>9 DEF s

(* The innermost reader ends: the one around it is not behind it. *)
LEMMA PopReader ==
  ASSUME NEW w, NEW r, ReadersOK(w, r), r # <<>>
  PROVE  /\ ReadersOK(w, Front(r))
         /\ Front(r) # <<>> => r[Len(r)].msg_ptr <= Front(r)[Len(Front(r))].msg_ptr
         /\ Front(r) # <<>> => Front(r)[Len(Front(r))].msg_ptr \in Nat
<1> DEFINE s == Front(r)
           R == [msg_ptr : Nat, bundle_end : Nat]
           k == Len(r) - 1
<1>1. r \in Seq(R) /\ Len(r) \in Nat \ {0} /\ DOMAIN r = 1 .. Len(r)
  BY DEF ReadersOK
<1>2. k \in Nat /\ s \in Seq(R) /\ Len(s) = k /\ DOMAIN s = 1 .. k
      /\ \A i \in 1 .. k : s[i] = r[i]
  <2>1. s = [i \in 1 .. k |-> r[i]]
    BY DEF Front
  <2>2. k \in Nat /\ 1 .. k \subseteq 1 .. Len(r)
    BY <1>1
  <2> HIDE DEF s, R, k
  <2>3. \A i \in 1 .. k : r[i] \in R
    BY <1>1, <2>2
  <2>4. s \in Seq(R)
    BY <2>1, <2>2, <2>3
  <2> QED
    BY <2>1, <2>2, <2>4
<1>3. 1 .. k \subseteq DOMAIN r
  BY <1>1
<1>4. k # 0 => k \in 1 .. k /\ k + 1 \in DOMAIN r /\ k + 1 > 1 /\ Len(r) = k + 1
               /\ k + 1 - 1 = k
  BY <1>1
<1>5. s # <<>> => k # 0
  BY <1>2
<1> HIDE DEF s, R, k
<1>6. ReadersOK(w, s)
  <2>1. \A i \in DOMAIN s : ReaderOK(w, s[i])
    BY <1>2, <1>3 DEF ReadersOK
  <2>2. ASSUME NEW i \in DOMAIN s, i > 1
        PROVE  s[i].bundle_end <= s[i - 1].msg_ptr
    <3>1. i \in 1 .. k /\ i - 1 \in 1 .. k
      BY <1>2, <2>2
    <3> QED
      BY <1>2, <1>3, <2>2, <3>1 DEF ReadersOK
  <2> QED
    BY <1>2, <2>1, <2>2 DEF ReadersOK, R
<1>7. ASSUME s # <<>>
      PROVE  r[Len(r)].msg_ptr <= s[k].msg_ptr /\ s[k].msg_ptr \in Nat
  <2>1. k \in 1 .. k /\ k + 1 \in DOMAIN r /\ k + 1 > 1 /\ Len(r) = k + 1 /\ k + 1 - 1 = k
    BY <1>4, <1>5, <1>7
  <2>2. r[k + 1].bundle_end <= r[k + 1 - 1].msg_ptr
    BY <2>1 DEF ReadersOK
  <2>3. ReaderOK(w, r[k + 1]) /\ ReaderOK(w, r[k]) /\ s[k] = r[k]
    BY <1>2, <1>3, <2>1 DEF ReadersOK
  <2> QED
    BY <2>1, <2>2, <2>3 DEF ReaderOK
<1> QED
  BY <1>2, <1>6, <1>7 DEF s

LEMMA DumpPacketStep ==
  ASSUME DumpInv, DumpPacket
  PROVE  DumpInv'
<1> DEFINE at == call[1]
           len == call[2]
<1>1. /\ call' = <<>> /\ buffer' = buffer /\ call # <<>>
      /\ CallOK(buffer, call, readers, dumped)
      /\ WordsOK(buffer) /\ ReadersOK(buffer, readers) /\ MessagesOK(buffer, dumped)
  BY DEF DumpPacket, DumpInv
<1>2. /\ at \in Nat /\ at % 4 = 0 /\ len \in Int /\ Covered(buffer, at + len)
      /\ Before(dumped, at)
      /\ readers # <<>> => /\ at <= br.msg_ptr /\ at + len <= br.msg_ptr
                           /\ br.msg_ptr \in Nat
  <2>1. readers # <<>> => br.msg_ptr \in Nat
    BY <1>1, LastOfEach DEF br
  <2> QED
    BY <1>1, <2>1 DEF CallOK, DumpInv, br
<1>3. Len(readers) \in Nat /\ readers \in Seq([msg_ptr : Nat, bundle_end : Nat])
  BY <1>1 DEF ReadersOK
<1>4. /\ dumped' = IF PacketType(at, len) = "message" /\ Readable(at)
                   THEN Dumped(at, len, Len(readers)) ELSE dumped
      /\ readers' = IF PacketType(at, len) = "bundle" /\ len >= 20
                    THEN Append(readers, [msg_ptr |-> at + 16, bundle_end |-> at + len])
                    ELSE readers
  BY DEF DumpPacket
<1> HIDE DEF at, len
<1>5. CASE PacketType(at, len) = "message" /\ Readable(at)
  <2>1. len \in Nat /\ len % 4 = 0 /\ len >= 4
    BY <1>2, <1>5 DEF PacketType
  <2>2. dumped' = Append(dumped, [at |-> at, len |-> len, indent |-> Len(readers)])
        /\ readers' = readers
    BY <1>4, <1>5 DEF Dumped
  <2>3. MessagesOK(buffer, dumped') /\ (\A p \in Nat : at + len <= p => Before(dumped', p))
    BY <1>1, <1>2, <1>3, <2>1, <2>2, AppendMessage
  <2> QED
    BY <1>1, <1>2, <2>2, <2>3 DEF DumpInv, br
<1>6. CASE PacketType(at, len) = "bundle" /\ len >= 20
  <2> DEFINE x == [msg_ptr |-> at + 16, bundle_end |-> at + len]
  <2>1. len % 4 = 0
    BY <1>6 DEF PacketType
  <2>2. /\ at + 16 \in Nat /\ at + len \in Nat /\ (at + 16) % 4 = 0 /\ (at + len) % 4 = 0
        /\ at + 16 <= at + len /\ at <= at + 16
    BY <1>2, <1>6, <2>1
  <2>3. /\ x \in [msg_ptr : Nat, bundle_end : Nat] /\ ReaderOK(buffer, x)
        /\ x.bundle_end = at + len /\ x.msg_ptr = at + 16
    BY <1>2, <2>2 DEF ReaderOK
  <2>4. dumped' = dumped /\ readers' = Append(readers, x)
    BY <1>4, <1>6
  <2> HIDE DEF x
  <2>5. ReadersOK(buffer, readers')
    BY <1>1, <1>2, <2>3, <2>4, PushReader DEF br
  <2>6. readers'[Len(readers')] = x
    BY <1>3, <2>3, <2>4
  <2>7. Before(dumped, at + 16)
    BY <1>1, <1>2, <2>2, BeforeLater
  <2> QED
    BY <1>1, <2>3, <2>4, <2>5, <2>6, <2>7 DEF DumpInv, br
<1>7. CASE UNCHANGED <<dumped, readers>>
  <2>1. readers # <<>> => Before(dumped, br.msg_ptr)
    BY <1>1, <1>2, BeforeLater
  <2> QED
    BY <1>1, <1>7, <2>1 DEF DumpInv, br
<1> QED
  BY <1>4, <1>5, <1>6, <1>7

LEMMA DumpEndStep ==
  ASSUME DumpInv, DumpEnd
  PROVE  DumpInv'
<1>1. /\ call = <<>> /\ readers # <<>> /\ readers' = Front(readers)
      /\ UNCHANGED <<buffer, call, dumped>>
      /\ Before(dumped, readers[Len(readers)].msg_ptr)
      /\ ReadersOK(buffer, readers) /\ WordsOK(buffer) /\ MessagesOK(buffer, dumped)
  BY DEF DumpEnd, DumpInv, br
<1>2. ReadersOK(buffer, Front(readers))
  BY <1>1, PopReader
<1>3. Front(readers) # <<>> => Before(dumped, Front(readers)[Len(Front(readers))].msg_ptr)
  <2> DEFINE p == readers[Len(readers)].msg_ptr
             q == Front(readers)[Len(Front(readers))].msg_ptr
  <2>1. Front(readers) # <<>> => p <= q /\ q \in Nat
    BY <1>1, PopReader
  <2>2. p \in Nat
    BY <1>1, LastOfEach
  <2>3. Before(dumped, p)
    BY <1>1
  <2> HIDE DEF p, q
  <2>4. Front(readers) # <<>> => Before(dumped, q)
    BY <1>1, <2>1, <2>2, <2>3, BeforeLater
  <2> QED
    BY <2>4 DEF q
<1> QED
  BY <1>1, <1>2, <1>3 DEF DumpInv, br

LEMMA DumpElementStep ==
  ASSUME DumpInv, DumpElement
  PROVE  DumpInv'
<1> DEFINE p == Start + Size
<1>1. /\ call = <<>> /\ readers # <<>> /\ NextType \in {"message", "bundle"}
      /\ readers' = [readers EXCEPT ![Len(readers)].msg_ptr = p]
      /\ buffer' = buffer /\ WordsOK(buffer)
      /\ ReadersOK(buffer, readers) /\ MessagesOK(buffer, dumped)
      /\ Before(dumped, br.msg_ptr)
  BY DEF DumpElement, DumpInv
<1>2. /\ Len(readers) \in Nat \ {0} /\ ReaderOK(buffer, br)
      /\ Start \in Nat /\ Size \in Nat /\ Start % 4 = 0 /\ Size % 4 = 0 /\ Size >= 4
      /\ br.msg_ptr <= Start /\ p \in Nat /\ p % 4 = 0
      /\ p <= br.bundle_end /\ Covered(buffer, p)
  BY <1>1, ElementInside
<1>3. Start <= p /\ br.msg_ptr <= p
  <2>1. br.msg_ptr \in Nat
    BY <1>2 DEF ReaderOK
  <2> QED
    BY <1>2, <2>1
<1> HIDE DEF p
<1>4. /\ ReadersOK(buffer, readers') /\ readers' # <<>>
      /\ readers'[Len(readers')].msg_ptr = p
  BY <1>1, <1>2, <1>3, AdvanceReader DEF br
<1>5. Before(dumped, Start)
  <2>1. br.msg_ptr \in Nat
    BY <1>2 DEF ReaderOK
  <2> QED
    BY <1>1, <1>2, <2>1, BeforeLater
<1>6. CASE call' = <<Start, Size>> /\ UNCHANGED dumped
  <2>1. call' # <<>> /\ call'[1] = Start /\ call'[2] = Size
    BY <1>6
  <2>2. Covered(buffer, Start + Size) /\ Start + Size <= p
    BY <1>2 DEF p
  <2>3. CallOK(buffer, call', readers', dumped)
    BY <1>2, <1>3, <1>4, <1>5, <2>1, <2>2 DEF CallOK
  <2> QED
    BY <1>1, <1>4, <1>6, <2>1, <2>2, <2>3 DEF DumpInv, br
<1>7. CASE dumped' = Dumped(Start, Size, Len(readers)) /\ UNCHANGED call
  <2>1. dumped' = Append(dumped, [at |-> Start, len |-> Size, indent |-> Len(readers)])
    BY <1>7 DEF Dumped
  <2>2. Covered(buffer, Start + Size) /\ Start + Size <= p
    BY <1>2 DEF p
  <2>3. MessagesOK(buffer, dumped')
        /\ (\A q \in Nat : Start + Size <= q => Before(dumped', q))
    BY <1>1, <1>2, <1>5, <2>1, <2>2, AppendMessage
  <2>4. Before(dumped', p)
    BY <1>2, <2>2, <2>3
  <2> QED
    BY <1>1, <1>4, <1>7, <2>3, <2>4 DEF DumpInv, br
<1> QED
  BY <1>6, <1>7 DEF DumpElement

LEMMA DumpInitInv == DumpInit => DumpInv
<1>1. /\ \A r : <<>> \in Seq(r)
      /\ DOMAIN <<>> = {} /\ DOMAIN [w \in {} |-> 0] = {}
  OBVIOUS
<1> QED
  BY <1>1 DEF DumpInit, DumpInv, WordsOK, ReadersOK, MessagesOK

LEMMA DumpTurnStep ==
  ASSUME DumpInv, DumpTurn
  PROVE  DumpInv'
  BY DumpPacketStep, DumpEndStep, DumpElementStep DEF DumpTurn

(* Whatever datagrams arrive, and on machines of either byte order, the program
   reads sizes and prints messages only inside the datagram, each element inside
   its bundle and none twice. *)
THEOREM DumpStaysInside == DumpSpec => []DumpInside
<1>1. DumpInv /\ [DumpNext]_dvars => DumpInv'
  <2> SUFFICES ASSUME DumpInv, [DumpNext]_dvars
               PROVE  DumpInv'
    OBVIOUS
  <2>1. ASSUME NEW d \in Datagrams, Receive(d.words, d.n)
        PROVE  DumpInv'
    <3>1. Received(d.words, d.n)
      BY DumpAssumption DEF DumpAssumption
    <3> QED
      BY <2>1, <3>1, ReceiveStep
  <2>2. CASE UNCHANGED dvars
    BY <2>2 DEF dvars, DumpInv, br
  <2> QED
    BY <2>1, <2>2, DumpTurnStep DEF DumpNext
<1> QED
  BY <1>1, DumpInitInv, DumpInvInside, PTL DEF DumpSpec
-----------------------------------------------------------------------------
Words == Cardinality(DOMAIN buffer)

(* A bundle takes 20 bytes at least, of which 4 are in the bundle around it. *)
DepthInv ==
  /\ \E k \in Nat : DOMAIN buffer = 0 .. k - 1
  /\ \A i \in DOMAIN readers : readers[i].msg_ptr >= 20 * i - 4 /\ readers[i].bundle_end >= 20 * i
  /\ call # <<>> => call[1] >= 20 * Len(readers) /\ (readers = <<>> => call[1] = 0)

(* What is ahead of the dump: bytes, and the calls it has to return from. *)
Cursor == IF call # <<>> THEN call[1] ELSE br.msg_ptr

Ahead ==
  IF Dumping THEN 4 * Words - Cursor + Len(readers) + (IF call # <<>> THEN 1 ELSE 0) ELSE 0

(* The innermost reader and its bundle. *)
LEMMA Innermost ==
  ASSUME DumpInv, DepthInv, readers # <<>>
  PROVE  /\ Len(readers) \in Nat /\ Len(readers) >= 1 /\ Len(readers) \in DOMAIN readers
         /\ ReaderOK(buffer, br) /\ br.msg_ptr \in Nat
         /\ br.msg_ptr >= 20 * Len(readers) - 4 /\ br.bundle_end >= 20 * Len(readers)
<1>1. /\ Len(readers) \in Nat /\ Len(readers) >= 1 /\ Len(readers) \in DOMAIN readers
  BY DEF DumpInv, ReadersOK
<1> QED
  BY <1>1 DEF DumpInv, ReadersOK, ReaderOK, DepthInv, br

(* What is covered by the buffer ends in it. *)
LEMMA CoveredEnds ==
  ASSUME DepthInv
  PROVE  Words \in Nat /\ \A e \in Nat : Covered(buffer, e) => e <= 4 * Words
<1>1. PICK k \in Nat : DOMAIN buffer = 0 .. k - 1
  BY DEF DepthInv
<1>2. Words = k
  BY <1>1, FS_Interval DEF Words
<1>3. ASSUME NEW e \in Nat, Covered(buffer, e)
      PROVE  e <= 4 * k
  <2> SUFFICES ASSUME e > 4 * k
               PROVE  FALSE
    OBVIOUS
  <2>1. (4 * k) \div 4 = k /\ 4 * k \in Nat
    OBVIOUS
  <2>2. k \in DOMAIN buffer
    BY <1>3, <2>1 DEF Covered
  <2> QED
    BY <1>1, <2>2
<1> QED
  BY <1>2, <1>3

(* The bytes that are ahead are never less than none. *)
LEMMA CursorInside ==
  ASSUME DumpInv, DepthInv
  PROVE  /\ Words \in Nat /\ Len(readers) \in Nat
         /\ readers # <<>> => br.msg_ptr \in Nat /\ br.msg_ptr <= 4 * Words
                              /\ br.bundle_end <= 4 * Words
         /\ call # <<>> => call[1] \in Nat /\ call[1] <= 4 * Words
         /\ Dumping => Cursor \in Nat /\ Cursor <= 4 * Words
         /\ Ahead \in Nat /\ (Dumping => Ahead >= 1)
<1>1. Words \in Nat /\ Len(readers) \in Nat
  BY CoveredEnds DEF DumpInv, ReadersOK
<1>2. ASSUME readers # <<>>
      PROVE  /\ br.msg_ptr \in Nat /\ br.msg_ptr <= 4 * Words /\ br.bundle_end <= 4 * Words
             /\ Len(readers) >= 1
  <2>1. ReaderOK(buffer, br) /\ Len(readers) >= 1
    BY <1>2, Innermost
  <2>2. br.bundle_end \in Nat /\ br.bundle_end <= 4 * Words
    BY <2>1, CoveredEnds DEF ReaderOK
  <2> QED
    BY <1>1, <2>1, <2>2 DEF ReaderOK
<1>3. ASSUME call # <<>>
      PROVE  call[1] \in Nat /\ call[1] <= 4 * Words
  <2>1. /\ call[1] \in Nat /\ (readers # <<>> => call[1] <= br.msg_ptr)
        /\ (readers = <<>> => call[1] = 0)
    BY <1>3 DEF DumpInv, CallOK, DepthInv, br
  <2>2. CASE readers = <<>>
    BY <1>1, <2>1, <2>2
  <2>3. CASE readers # <<>>
    BY <1>1, <1>2, <2>1, <2>3
  <2> QED
    BY <2>2, <2>3
<1>4. Dumping => Cursor \in Nat /\ Cursor <= 4 * Words
  BY <1>2, <1>3 DEF Cursor, Dumping
<1>5. ASSUME Dumping
      PROVE  Ahead \in Nat /\ Ahead >= 1
  <2>1. PICK c \in Nat : c = Cursor /\ c <= 4 * Words
    BY <1>4, <1>5
  <2>2. Ahead = 4 * Words - c + Len(readers) + (IF call # <<>> THEN 1 ELSE 0)
    BY <1>5, <2>1 DEF Ahead
  <2>3. CASE call # <<>>
    BY <1>1, <2>1, <2>2, <2>3
  <2>4. CASE call = <<>>
    <3>1. Len(readers) >= 1
      BY <1>2, <1>5, <2>4 DEF Dumping
    <3> QED
      BY <1>1, <2>1, <2>2, <2>4, <3>1
  <2> QED
    BY <2>3, <2>4
<1>6. ~Dumping => Ahead \in Nat
  BY DEF Ahead
<1> QED
  BY <1>1, <1>2, <1>3, <1>4, <1>5, <1>6

LEMMA ReceiveDepth ==
  ASSUME NEW words, NEW n, Received(words, n), Receive(words, n)
  PROVE  DepthInv'
<1>1. /\ call' = <<0, n>> /\ buffer' = words /\ readers' = <<>>
  BY DEF Receive, Dumping
<1>2. \E k \in Nat : DOMAIN words = 0 .. k - 1
  <2>1. PICK j \in Int : j = (n + 3) \div 4
    BY DEF Received
  <2>2. DOMAIN words = 0 .. j - 1
    BY <2>1 DEF Received
  <2>3. CASE j >= 0
    BY <2>1, <2>2, <2>3
  <2>4. CASE j < 0
    <3>1. 0 .. j - 1 = {} /\ 0 .. 0 - 1 = {}
      BY <2>4
    <3> QED
      BY <2>2, <3>1
  <2> QED
    BY <2>1, <2>3, <2>4
<1>3. Len(<<>>) = 0 /\ DOMAIN <<>> = {} /\ <<0, n>>[1] = 0
  OBVIOUS
<1> QED
  BY <1>1, <1>2, <1>3 DEF DepthInv

(* Each turn of dump_osc_packet is deeper by at most 20 bytes' worth, and leaves less
   ahead. *)
LEMMA DumpPacketTurn ==
  ASSUME DumpInv, DepthInv, DumpInv', DumpPacket
  PROVE  DepthInv' /\ Ahead' < Ahead
<1> DEFINE R == [msg_ptr : Nat, bundle_end : Nat]
<1>1. /\ call # <<>> /\ call' = <<>> /\ buffer' = buffer
      /\ readers' = IF PacketType(call[1], call[2]) = "bundle" /\ call[2] >= 20
                    THEN Append(readers, [msg_ptr |-> call[1] + 16,
                                          bundle_end |-> call[1] + call[2]])
                    ELSE readers
  BY DEF DumpPacket
<1>2. PICK a \in Nat, n \in Int, l \in Nat : a = call[1] /\ n = call[2] /\ l = Len(readers)
  BY <1>1, CursorInside DEF DumpInv, CallOK
<1>3. a >= 20 * l /\ (readers = <<>> => a = 0)
  BY <1>1, <1>2 DEF DepthInv
<1>4. PICK w \in Nat : w = Words /\ Words' = w
  BY <1>1, CursorInside DEF Words
<1>5. Ahead = 4 * w - a + l + 1 /\ a <= 4 * w
  BY <1>1, <1>2, <1>4, CursorInside DEF Ahead, Dumping, Cursor
<1>6. readers \in Seq(R)
  BY DEF DumpInv, ReadersOK
<1>7. CASE PacketType(call[1], call[2]) = "bundle" /\ call[2] >= 20
  <2>1. PICK x \in R : x = [msg_ptr |-> a + 16, bundle_end |-> a + n]
    <3>1. a + 16 \in Nat /\ a + n \in Nat
      BY <1>2, <1>7
    <3> QED
      BY <3>1
  <2>2. readers' = Append(readers, x) /\ n >= 20
    BY <1>1, <1>2, <1>7, <2>1
  <2>3. /\ readers' \in Seq(R) /\ Len(readers') = l + 1 /\ readers'[l + 1] = x
        /\ DOMAIN readers' = 1 .. l + 1 /\ \A i \in 1 .. l : readers'[i] = readers[i]
        /\ readers' # <<>> /\ DOMAIN readers = 1 .. l
    <3> HIDE DEF R
    <3>1. DOMAIN readers = 1 .. l /\ Len(readers) = l
      BY <1>2, <1>6
    <3>2. \A r \in Seq(R) : /\ Append(r, x) \in Seq(R) /\ Len(Append(r, x)) = Len(r) + 1
                            /\ Append(r, x)[Len(r) + 1] = x /\ Append(r, x) # <<>>
                            /\ \A i \in 1 .. Len(r) : Append(r, x)[i] = r[i]
      OBVIOUS
    <3>3. \A r \in Seq(R) : DOMAIN r = 1 .. Len(r)
      OBVIOUS
    <3> QED
      BY <1>6, <2>2, <3>1, <3>2, <3>3
  <2>4. x.msg_ptr = a + 16 /\ x.bundle_end = a + n
    BY <2>1
  <2>5. ASSUME NEW i \in 1 .. l + 1
        PROVE  readers'[i].msg_ptr >= 20 * i - 4 /\ readers'[i].bundle_end >= 20 * i
    <3>1. CASE i = l + 1
      BY <1>3, <2>2, <2>3, <2>4, <3>1
    <3>2. CASE i # l + 1
      <4>1. i \in 1 .. l
        BY <3>2
      <4> QED
        BY <2>3, <4>1 DEF DepthInv
    <3> QED
      BY <3>1, <3>2
  <2>6. DepthInv'
    BY <1>1, <2>3, <2>5 DEF DepthInv
  <2>7. Ahead' = 4 * w - (a + 16) + (l + 1) + 0
    BY <1>1, <1>4, <2>3, <2>4 DEF Ahead, Dumping, Cursor, br
  <2> QED
    BY <1>5, <2>6, <2>7
<1>8. CASE ~(PacketType(call[1], call[2]) = "bundle" /\ call[2] >= 20)
  <2>1. readers' = readers
    BY <1>1, <1>8
  <2>2. DepthInv'
    BY <1>1, <2>1 DEF DepthInv
  <2>3. CASE readers = <<>>
    <3>1. Ahead' = 0
      BY <1>1, <2>1, <2>3 DEF Ahead, Dumping
    <3> QED
      BY <1>5, <2>2, <3>1
  <2>4. CASE readers # <<>>
    <3>1. PICK p \in Nat : p = br.msg_ptr /\ a <= p
      BY <1>1, <1>2, <2>4, CursorInside DEF DumpInv, CallOK, br
    <3>2. Ahead' = 4 * w - p + l + 0
      BY <1>1, <1>2, <1>4, <2>1, <2>4, <3>1 DEF Ahead, Dumping, Cursor, br
    <3> QED
      BY <1>5, <2>2, <3>1, <3>2
  <2> QED
    BY <2>3, <2>4
<1> QED
  BY <1>7, <1>8

LEMMA DumpEndTurn ==
  ASSUME DumpInv, DepthInv, DumpEnd
  PROVE  DepthInv' /\ Ahead' < Ahead
<1> DEFINE R == [msg_ptr : Nat, bundle_end : Nat]
<1>1. /\ call = <<>> /\ readers # <<>> /\ readers' = Front(readers)
      /\ call' = <<>> /\ buffer' = buffer
  BY DEF DumpEnd
<1>2. PICK l \in Nat, p \in Nat : l = Len(readers) /\ l >= 1 /\ p = br.msg_ptr
  BY <1>1, Innermost
<1>3. PICK w \in Nat : w = Words /\ Words' = w /\ p <= 4 * w
  BY <1>1, <1>2, CursorInside DEF Words
<1>4. Ahead = 4 * w - p + l + 0
  BY <1>1, <1>2, <1>3 DEF Ahead, Dumping, Cursor
<1>5. readers \in Seq(R) /\ ReadersOK(buffer, readers)
  BY DEF DumpInv, ReadersOK
<1>6. /\ Len(readers') = l - 1 /\ DOMAIN readers' = 1 .. l - 1
      /\ \A i \in 1 .. l - 1 : readers'[i] = readers[i] /\ i \in DOMAIN readers
  <2>1. readers' = [i \in 1 .. l - 1 |-> readers[i]]
    BY <1>1, <1>2 DEF Front
  <2>2. \A i \in 1 .. l - 1 : i \in DOMAIN readers /\ readers[i] \in R
    <3> HIDE DEF R
    <3>1. DOMAIN readers = 1 .. l
      BY <1>2, <1>5
    <3>2. \A i \in 1 .. l - 1 : i \in 1 .. l
      OBVIOUS
    <3>3. \A i \in DOMAIN readers : readers[i] \in R
      BY <1>5
    <3> QED
      BY <3>1, <3>2, <3>3
  <2> QED
    BY <1>2, <2>1, <2>2
<1>7. DepthInv'
  BY <1>1, <1>6 DEF DepthInv
<1>8. CASE readers' = <<>>
  <2>1. Ahead' = 0
    BY <1>1, <1>8 DEF Ahead, Dumping
  <2> QED
    BY <1>2, <1>3, <1>4, <1>7, <2>1
<1>9. CASE readers' # <<>>
  <2>1. PICK q \in Nat : q = br.msg_ptr' /\ p <= q
    BY <1>1, <1>2, <1>5, <1>9, PopReader DEF br
  <2>2. Ahead' = 4 * w - q + (l - 1) + 0
    BY <1>1, <1>3, <1>6, <1>9, <2>1 DEF Ahead, Dumping, Cursor
  <2> QED
    BY <1>4, <1>7, <2>1, <2>2
<1> QED
  BY <1>8, <1>9

LEMMA DumpElementTurn ==
  ASSUME DumpInv, DepthInv, DumpElement
  PROVE  DepthInv' /\ Ahead' < Ahead
<1>1. /\ call = <<>> /\ readers # <<>> /\ NextType \in {"message", "bundle"}
      /\ readers' = [readers EXCEPT ![Len(readers)].msg_ptr = Start + Size]
      /\ buffer' = buffer
      /\ call' = <<Start, Size>> \/ call' = <<>>
  BY DEF DumpElement
<1>2. PICK l \in Nat, p \in Nat : /\ l = Len(readers) /\ l >= 1 /\ p = br.msg_ptr
                                  /\ p >= 20 * l - 4 /\ l \in DOMAIN readers
  BY <1>1, Innermost
<1>3. PICK w \in Nat : w = Words /\ Words' = w /\ p <= 4 * w
  BY <1>1, <1>2, CursorInside DEF Words
<1>4. Ahead = 4 * w - p + l + 0
  BY <1>1, <1>2, <1>3 DEF Ahead, Dumping, Cursor
<1>5. PICK s \in Nat, e \in Nat : /\ s = p + 4 /\ s = Start /\ e = Start + Size /\ e >= s + 4
                                  /\ e % 4 = 0 /\ e <= br.bundle_end
  <2>1. /\ Start \in Nat /\ Size \in Nat /\ Size >= 4 /\ Start + Size \in Nat
        /\ (Start + Size) % 4 = 0 /\ Start + Size <= br.bundle_end
    BY <1>1, ElementInside
  <2>2. Start = p + 4
    BY <1>2 DEF Start
  <2> QED
    BY <2>1, <2>2
<1>6. ReadersOK(buffer, readers)
  BY DEF DumpInv
<1>7. /\ Len(readers') = l /\ readers' # <<>> /\ readers'[l].msg_ptr = e
  <2>1. p <= e /\ p = readers[Len(readers)].msg_ptr /\ e <= readers[Len(readers)].bundle_end
    BY <1>2, <1>5 DEF br
  <2> QED
    BY <1>1, <1>2, <1>5, <1>6, <2>1, AdvanceReader
<1>8. /\ DOMAIN readers' = DOMAIN readers
      /\ \A i \in DOMAIN readers : /\ readers'[i].bundle_end = readers[i].bundle_end
                                   /\ i # l => readers'[i] = readers[i]
  BY <1>1, <1>2, <1>6 DEF ReadersOK
<1>9. ASSUME NEW i \in DOMAIN readers
      PROVE  readers'[i].msg_ptr >= 20 * i - 4 /\ readers'[i].bundle_end >= 20 * i
  <2>1. readers[i].msg_ptr >= 20 * i - 4 /\ readers[i].bundle_end >= 20 * i
    BY DEF DepthInv
  <2>2. CASE i = l
    BY <1>2, <1>5, <1>7, <1>8, <2>1, <2>2
  <2>3. CASE i # l
    BY <1>8, <2>1, <2>3
  <2> QED
    BY <2>2, <2>3
<1>10. CASE call' = <<Start, Size>>
  <2>1. call' # <<>> /\ call'[1] = s /\ s >= 20 * l
    BY <1>2, <1>5, <1>10
  <2>2. DepthInv'
    BY <1>1, <1>7, <1>8, <1>9, <2>1 DEF DepthInv
  <2>3. Ahead' = 4 * w - s + l + 1
    BY <1>3, <1>7, <2>1 DEF Ahead, Dumping, Cursor
  <2> QED
    BY <1>4, <1>5, <2>2, <2>3
<1>11. CASE call' = <<>>
  <2>1. DepthInv'
    BY <1>1, <1>8, <1>9, <1>11 DEF DepthInv
  <2>2. Ahead' = 4 * w - e + l + 0
    BY <1>3, <1>7, <1>11 DEF Ahead, Dumping, Cursor, br
  <2> QED
    BY <1>4, <1>5, <2>1, <2>2
<1> QED
  BY <1>1, <1>10, <1>11

LEMMA DepthInvStep ==
  /\ DumpInit => DumpInv /\ DepthInv
  /\ DumpInv /\ DepthInv /\ [DumpNext]_dvars => DumpInv' /\ DepthInv'
  /\ DumpInv /\ DepthInv /\ DumpTurn => Ahead \in Nat /\ Ahead' \in Nat /\ Ahead' < Ahead
<1>1. DumpInit => DumpInv /\ DepthInv
  <2> SUFFICES ASSUME DumpInit
               PROVE  DepthInv
    BY DumpInitInv
  <2>1. DOMAIN [w \in {} |-> 0] = 0 .. 0 - 1 /\ DOMAIN <<>> = {} /\ 0 \in Nat
    OBVIOUS
  <2> QED
    BY <2>1 DEF DumpInit, DepthInv
<1>2. ASSUME DumpInv, DepthInv, DumpTurn
      PROVE  DumpInv' /\ DepthInv' /\ Ahead' < Ahead
  <2>1. DumpInv'
    BY <1>2, DumpTurnStep
  <2> QED
    BY <1>2, <2>1, DumpPacketTurn, DumpEndTurn, DumpElementTurn DEF DumpTurn
<1>3. ASSUME DumpInv, DepthInv, [DumpNext]_dvars
      PROVE  DumpInv' /\ DepthInv'
  <2>1. ASSUME NEW d \in Datagrams, Receive(d.words, d.n)
        PROVE  DumpInv' /\ DepthInv'
    <3>1. Received(d.words, d.n)
      BY DumpAssumption DEF DumpAssumption
    <3> QED
      BY <1>3, <2>1, <3>1, ReceiveStep, ReceiveDepth
  <2>2. CASE UNCHANGED dvars
    BY <1>3, <2>2 DEF dvars, DumpInv, br, DepthInv
  <2> QED
    BY <1>2, <1>3, <2>1, <2>2 DEF DumpNext
<1>4. ASSUME DumpInv, DepthInv, DumpTurn
      PROVE  Ahead \in Nat /\ Ahead' \in Nat /\ Ahead' < Ahead
  <2>1. DumpInv' /\ DepthInv' /\ Ahead' < Ahead
    BY <1>2, <1>4
  <2>2. (DumpInv /\ DepthInv => Ahead \in Nat)'
    BY CursorInside, PTL
  <2> QED
    BY <1>4, <2>1, <2>2, CursorInside
<1> QED
  BY <1>1, <1>3, <1>4

(* However bundles are nested in a datagram, dump_osc_packet calls itself no deeper
   than once for each 20 bytes of it (read.c:10, udp_dump.c:101-112). *)
DepthBounded == 20 * Len(readers) <= 4 * Words

THEOREM DepthOfCalls == DumpSpec => []DepthBounded
<1>1. DumpInv /\ DepthInv => DepthBounded
  <2> SUFFICES ASSUME DumpInv, DepthInv
               PROVE  DepthBounded
    OBVIOUS
  <2>1. PICK w \in Nat, l \in Nat : w = Words /\ l = Len(readers)
    BY CursorInside
  <2>2. CASE readers = <<>>
    BY <2>1, <2>2 DEF DepthBounded
  <2>3. CASE readers # <<>>
    <3>1. br.bundle_end \in Nat /\ br.bundle_end >= 20 * l /\ br.bundle_end <= 4 * w
      BY <2>1, <2>3, Innermost, CursorInside DEF ReaderOK
    <3> QED
      BY <2>1, <3>1 DEF DepthBounded
  <2> QED
    BY <2>2, <2>3
<1> QED
  BY <1>1, DepthInvStep, PTL DEF DumpSpec

(* No datagram keeps dump_osc_packet in its loops or its calls: each turn leaves less
   of it ahead, whatever its sizes say, zeros and negative ones too (read.c:24-40,
   udp_dump.c:101-112).  A dump of n words is over after at most 4 * n + 1 turns. *)
THEOREM TurnsAdvance ==
  DumpSpec => [][DumpTurn => Ahead \in Nat /\ Ahead' \in Nat /\ Ahead' < Ahead]_dvars
<1>1. DumpInv /\ DepthInv /\ [DumpNext]_dvars
        => [DumpTurn => Ahead \in Nat /\ Ahead' \in Nat /\ Ahead' < Ahead]_dvars
  BY DepthInvStep
<1> QED
  BY <1>1, DepthInvStep, PTL DEF DumpSpec
-----------------------------------------------------------------------------
(* An element [start, bytes] of a bundle in the buffer d, behind byte p and before
   byte q: a message with its size in front. *)
ElementIn(d, x, p, q) ==
  /\ x[1] = p + 4 /\ x[2] % 4 = 0 /\ x[2] >= 4 /\ x[1] + x[2] <= q
  /\ p \div 4 \in DOMAIN d /\ d[p \div 4].n = x[2]
  /\ x[1] \div 4 \in DOMAIN d /\ d[x[1] \div 4].k = "address"

(* Where the next element of a bundle begins whose elements so far are e. *)
EndOfAll(e) == IF e = <<>> THEN base + 16 ELSE e[Len(e)][1] + e[Len(e)][2]

(* The elements lie one behind the other from the bundle's header on to q. *)
LaidOut(d, q) ==
  /\ \A i \in DOMAIN elems :
       /\ elems[i][1] >= base + 4
       /\ ElementIn(d, elems[i],
                    IF i = 1 THEN base + 16 ELSE elems[i - 1][1] + elems[i - 1][2], q)
  /\ q = EndOfAll(elems)

StartsWith(kind) == base \div 4 \in DOMAIN data /\ data[base \div 4].k = kind

NothingYet == elems = <<>> /\ pos = base /\ state \in {{"OUT"}, {"COMPLETE"}} /\ left = 0

AMessage ==
  /\ elems = <<>> /\ pos >= base + 4
  /\ StartsWith("address")
  /\ state \in {{"OUT", "MSG"}, {"COMPLETE"}}

OpenElement ==
  /\ LaidOut(data, msg_start - 4)
  /\ pos >= msg_start + 4
  /\ msg_start \div 4 \in DOMAIN data /\ data[msg_start \div 4].k = "address"

ABundle ==
  /\ StartsWith("#bundle")
  /\ \/ state = {"BUNDLE", "MSG"} /\ OpenElement
     \/ state \in {{"BUNDLE"}, {"COMPLETE"}} /\ LaidOut(data, pos) /\ left = 0

(* A bundle of a process that has written one before. *)
ALaterBundle ==
  /\ StartsWith("nul")
  /\ state \in {{"BUNDLE"}, {"BUNDLE", "MSG"}, {"COMPLETE"}}

(* What a packet is in which no call has failed and whose caller was careful. *)
PacketInv ==
  /\ base % 4 = 0
  /\ careful /\ ~failed => NothingYet \/ AMessage \/ ABundle \/ ALaterBundle

LEMMA LaidOutKept ==
  ASSUME NEW d, NEW f, Keeps(d, f), NEW q, LaidOut(d, q)
  PROVE  LaidOut(f, q)
<1>1. ASSUME NEW x, NEW p, ElementIn(d, x, p, q)
      PROVE  ElementIn(f, x, p, q)
  BY <1>1 DEF ElementIn, Keeps
<1> QED
  BY <1>1 DEF LaidOut

LEMMA StartsKept ==
  ASSUME Keeps(data, data'), base' = base, NEW kind, StartsWith(kind)
  PROVE  StartsWith(kind)'
  BY DEF Keeps, StartsWith

(* A message that start_msg has begun starts with its address. *)
LEMMA StartMsgAddress ==
  ASSUME Fresh, NEW n \in StrLens, NEW nargs \in 0 .. MaxArgs, StartMsg(n, nargs)
  PROVE  /\ MsgPos \div 4 \in DOMAIN data' /\ data'[MsgPos \div 4].k = "address"
         /\ pos' >= MsgPos + 4 /\ msg_start' = MsgPos
<1> USE WriterAssumption DEF WriterAssumption
<1> DEFINE b == StringBytes(n)
           r == ROUND32(nargs)
           a == MsgPos + b
           d == Write(data, MsgPos, b, Word("address"))
           e == Write(d, a, r, Word("types"))
<1>1. /\ BufferOK(data) /\ pos \in Nat /\ pos % 4 = 0 /\ MsgPos \in Nat /\ MsgPos % 4 = 0
      /\ pos <= MsgPos /\ WrittenBefore(data, pos)
  BY TypeParts DEF Fresh
<1>2. WrittenBefore(data, MsgPos)
  BY <1>1, FartherBefore
<1>3. n \in Nat /\ nargs \in Nat
  OBVIOUS
<1>4. b \in Nat /\ b % 4 = 0 /\ b >= 4 /\ r \in Nat /\ r % 4 = 0
  BY <1>3, StringRounding, Rounding DEF StringBytes, ROUND32
<1>5. data' = e /\ pos' = a + r /\ msg_start' = MsgPos
  BY DEF StartMsg
<1> HIDE DEF b, r
<1>6. a \in Nat /\ a % 4 = 0 /\ pos' >= MsgPos + 4
  BY <1>1, <1>4, <1>5, SumAligned
<1>7. MsgPos \div 4 \in MsgPos \div 4 .. (MsgPos + b) \div 4 - 1
  BY <1>1, <1>4
<1>8. /\ WrittenBefore(d, a) /\ BufferOK(d)
      /\ MsgPos \div 4 \in DOMAIN d /\ d[MsgPos \div 4] = Word("address")
  <2>1. ContentOK(Word("address"))
    BY WordOK DEF Contents
  <2>2. BufferOK(d)
    BY <1>1, <1>4, <2>1, WriteBufferOK
  <2>3. /\ WrittenBefore(d, a)
        /\ \A w \in MsgPos \div 4 .. (MsgPos + b) \div 4 - 1 :
             w \in DOMAIN d /\ d[w] = Word("address")
    BY <1>1, <1>2, <1>4, WriteBehind
  <2> QED
    BY <1>7, <2>2, <2>3
<1> HIDE DEF a, d
<1>9. Keeps(d, e)
  BY <1>4, <1>6, <1>8, WriteBehind
<1>10. MsgPos \div 4 \in DOMAIN data' /\ data'[MsgPos \div 4] = Word("address")
  BY <1>5, <1>8, <1>9 DEF Keeps
<1> QED
  BY <1>5, <1>6, <1>10 DEF Word

LEMMA StartMsgPacket ==
  ASSUME Fresh, PacketInv, FreshAfter, careful, ~failed, base' = base,
         NEW n \in StrLens, NEW nargs \in 0 .. MaxArgs, StartMsg(n, nargs),
         "COMPLETE" \notin state
  PROVE  AMessage' \/ ABundle' \/ ALaterBundle'
<1>1. /\ MsgPos \div 4 \in DOMAIN data' /\ data'[MsgPos \div 4].k = "address"
      /\ pos' >= MsgPos + 4 /\ msg_start' = MsgPos
  BY StartMsgAddress
<1>2. /\ elems' = elems /\ state' = state \cup {"MSG"} /\ "MSG" \notin state
      /\ pos \in Nat /\ Keeps(data, data')
  BY TypeParts DEF StartMsg, Fresh, FreshAfter
<1>3. CASE NothingYet
  <2>1. state = {"OUT"} /\ MsgPos = base
    BY <1>3 DEF NothingYet, MsgPos
  <2> QED
    BY <1>1, <1>2, <1>3, <2>1 DEF NothingYet, AMessage, StartsWith
<1>4. CASE ABundle
  <2>1. state = {"BUNDLE"} /\ LaidOut(data, pos)
    BY <1>2, <1>4 DEF ABundle
  <2>2. MsgPos = pos + 4 /\ MsgPos - 4 = pos
    BY <1>2, <2>1 DEF MsgPos
  <2>3. LaidOut(data', pos)
    BY <1>2, <2>1, LaidOutKept
  <2>4. OpenElement'
    BY <1>1, <1>2, <2>2, <2>3 DEF OpenElement, LaidOut, EndOfAll
  <2>5. StartsWith("#bundle")'
    BY <1>2, <1>4, StartsKept DEF ABundle
  <2> QED
    BY <1>2, <2>1, <2>4, <2>5 DEF ABundle
<1>5. CASE ALaterBundle
  <2>1. StartsWith("nul")'
    BY <1>2, <1>5, StartsKept DEF ALaterBundle
  <2> QED
    BY <1>2, <1>5, <2>1 DEF ALaterBundle
<1>6. ~AMessage
  BY <1>2 DEF AMessage
<1> QED
  BY <1>3, <1>4, <1>5, <1>6 DEF PacketInv

LEMMA EndMsgPacket ==
  ASSUME Fresh, PacketInv, FreshAfter, careful, ~failed, base' = base, EndMsg
  PROVE  AMessage' \/ ABundle' \/ ALaterBundle'
<1>1. /\ "MSG" \in state /\ Keeps(data, data') /\ UNCHANGED <<pos, msg_start>> /\ left' = 0
      /\ pos \in Nat /\ msg_start \in Nat /\ base \in Nat
      /\ pos % 4 = 0 /\ msg_start % 4 = 0 /\ base % 4 = 0
      /\ elems \in Seq(Nat \X Nat) /\ BufferOK(data)
  BY TypeParts DEF EndMsg, Fresh, FreshAfter, PacketInv, WriterInv, TypeOK, Aligned
<1>2. CASE AMessage
  <2>1. "BUNDLE" \notin state
    BY <1>2 DEF AMessage
  <2>2. data' = data /\ elems' = elems /\ state' = {"COMPLETE"}
    BY <2>1 DEF EndMsg
  <2> QED
    BY <1>1, <1>2, <2>2 DEF AMessage, StartsWith
<1>3. CASE ABundle
  <2> DEFINE s == msg_start - 4
             n == pos - msg_start
             x == <<msg_start, n>>
             e == Append(elems, x)
  <2>1. state = {"BUNDLE", "MSG"} /\ OpenElement
    BY <1>1, <1>3 DEF ABundle
  <2>2. /\ data' = Write(data, s, 4, SizeWord(n)) /\ state' = {"BUNDLE"}
        /\ elems' = e
    BY <2>1 DEF EndMsg
  <2>3. /\ s \in Nat /\ s % 4 = 0 /\ n \in Nat /\ n % 4 = 0 /\ n >= 4
        /\ s \div 4 = msg_start \div 4 - 1 /\ msg_start = s + 4 /\ msg_start + n = pos
    <3>1. msg_start >= base + 4 /\ pos >= msg_start + 4
      BY <1>1, <2>1 DEF OpenElement, Fresh, WriterInv, MsgBehindPos
    <3>2. s \in Nat /\ n \in Nat /\ n >= 4
      BY <1>1, <3>1
    <3>3. s % 4 = 0 /\ n % 4 = 0 /\ s \div 4 = msg_start \div 4 - 1
      BY <1>1, <3>1
    <3> QED
      BY <1>1, <3>2, <3>3
  <2>4. s \div 4 \notin DOMAIN data
    BY <2>1, <2>3 DEF Fresh, SizeFree
  <2>5. s \div 4 \in DOMAIN data' /\ data'[s \div 4].n = n
    <3>1. data' = [w \in DOMAIN data \cup {s \div 4 + k : k \in 0 .. 4 \div 4 - 1} |->
                     IF w \in s \div 4 .. (s + 4) \div 4 - 1 THEN SizeWord(n) ELSE data[w]]
      BY <2>2 DEF Write
    <3>2. /\ s \div 4 = s \div 4 + 0 /\ 0 \in 0 .. 4 \div 4 - 1
          /\ s \div 4 \in s \div 4 .. (s + 4) \div 4 - 1
      BY <2>3
    <3>3. s \div 4 \in DOMAIN data' /\ data'[s \div 4] = SizeWord(n)
      BY <3>1, <3>2
    <3> QED
      BY <3>3 DEF SizeWord
  <2>6. msg_start >= base + 4
    BY <1>1, <2>1 DEF Fresh, WriterInv, MsgBehindPos
  <2>7. msg_start \div 4 \in DOMAIN data' /\ data'[msg_start \div 4].k = "address"
    BY <1>1, <2>1 DEF OpenElement, Keeps
  <2>8. LaidOut(data', s)
    BY <1>1, <2>1, LaidOutKept DEF OpenElement
  <2>9. ElementIn(data', x, s, pos)
    BY <1>1, <2>3, <2>5, <2>7 DEF ElementIn
  <2>10. /\ Len(elems) \in Nat /\ DOMAIN elems = 1 .. Len(elems)
        /\ Len(e) = Len(elems) + 1 /\ DOMAIN e = 1 .. Len(elems) + 1 /\ e # <<>>
        /\ e[Len(elems) + 1] = x /\ \A i \in 1 .. Len(elems) : e[i] = elems[i]
    <3>1. x \in Nat \X Nat
      BY <1>1, <2>3
    <3> HIDE DEF x
    <3>2. Len(elems) \in Nat /\ DOMAIN elems = 1 .. Len(elems)
      BY <1>1
    <3>3. /\ Len(e) = Len(elems) + 1 /\ DOMAIN e = 1 .. Len(elems) + 1
          /\ e[Len(elems) + 1] = x /\ \A i \in 1 .. Len(elems) : e[i] = elems[i]
      BY <1>1, <3>1
    <3>4. e # <<>>
      <4>1. Len(e) # Len(<<>>)
        BY <3>2, <3>3
      <4> QED
        BY <4>1, Zenon
    <3> QED
      BY <3>2, <3>3, <3>4
  <2>11. LaidOut(data, pos)'
    <3>1. ASSUME NEW i \in DOMAIN e
          PROVE  /\ e[i][1] >= base + 4
                 /\ ElementIn(data', e[i],
                              IF i = 1 THEN base + 16 ELSE e[i - 1][1] + e[i - 1][2],
                              pos)
      <4>1. CASE i \in 1 .. Len(elems)
        <5> DEFINE p == IF i = 1 THEN base + 16 ELSE elems[i - 1][1] + elems[i - 1][2]
        <5>1. elems[i][1] >= base + 4 /\ ElementIn(data', elems[i], p, s)
          BY <2>8, <2>10, <4>1 DEF LaidOut
        <5>2. ElementIn(data', elems[i], p, pos)
          <6>1. elems[i][1] \in Nat /\ elems[i][2] \in Nat
            <7>1. elems \in Seq(Nat \X Nat) /\ i \in 1 .. Len(elems)
              BY <1>1, <4>1
            <7> QED
              BY <7>1
          <6>2. s <= pos
            BY <1>1, <2>3
          <6>3. ASSUME NEW m \in Nat, NEW k \in Nat, m + k <= s
                PROVE  m + k <= pos
            <7> HIDE DEF s
            <7> QED
              BY <1>1, <2>3, <6>2, <6>3
          <6> QED
            BY <5>1, <6>1, <6>3 DEF ElementIn
        <5>3. e[i] = elems[i]
          BY <2>10, <4>1
        <5>4. i # 1 => e[i - 1] = elems[i - 1]
          <6>1. i # 1 => i - 1 \in 1 .. Len(elems)
            BY <2>10, <4>1
          <6> QED
            BY <2>10, <6>1
        <5> HIDE DEF e
        <5> QED
          BY <5>1, <5>2, <5>3, <5>4
      <4>2. CASE i = Len(elems) + 1
        <5>1. s = IF i = 1 THEN base + 16 ELSE elems[i - 1][1] + elems[i - 1][2]
          <6>1. s = EndOfAll(elems)
            BY <2>8 DEF LaidOut
          <6>2. elems = <<>> <=> i = 1
            BY <1>1, <2>10, <4>2
          <6>3. i - 1 = Len(elems)
            BY <2>10, <4>2
          <6> QED
            BY <6>1, <6>2, <6>3 DEF EndOfAll
        <5>2. e[i] = x
          BY <2>10, <4>2
        <5>3. i # 1 => e[i - 1] = elems[i - 1]
          <6>1. i # 1 => i - 1 \in 1 .. Len(elems)
            BY <2>10, <4>2
          <6> QED
            BY <2>10, <6>1
        <5> HIDE DEF e, x, s
        <5>4. ElementIn(data', e[i],
                        IF i = 1 THEN base + 16 ELSE e[i - 1][1] + e[i - 1][2], pos)
          <6>1. CASE i = 1
            BY <2>9, <5>1, <5>2, <6>1
          <6>2. CASE i # 1
            BY <2>9, <5>1, <5>2, <5>3, <6>2
          <6> QED
            BY <6>1, <6>2
        <5>5. e[i][1] >= base + 4
          BY <2>6, <5>2 DEF x
        <5> QED
          BY <5>4, <5>5
      <4> QED
        BY <2>10, <4>1, <4>2
    <3>2. pos = e[Len(e)][1] + e[Len(e)][2]
      BY <2>3, <2>10
    <3> HIDE DEF e
    <3> QED
      BY <1>1, <2>2, <2>10, <3>1, <3>2 DEF LaidOut, EndOfAll
  <2>12. StartsWith("#bundle")'
    BY <1>1, <1>3, StartsKept DEF ABundle
  <2> QED
    BY <1>1, <2>2, <2>11, <2>12 DEF ABundle
<1>4. CASE ALaterBundle
  <2>1. state = {"BUNDLE", "MSG"}
    BY <1>1, <1>4 DEF ALaterBundle
  <2>2. state' = {"BUNDLE"}
    BY <2>1 DEF EndMsg
  <2>3. StartsWith("nul")'
    BY <1>1, <1>4, StartsKept DEF ALaterBundle
  <2> QED
    BY <2>2, <2>3 DEF ALaterBundle
<1>5. ~NothingYet
  BY <1>1 DEF NothingYet
<1> QED
  BY <1>2, <1>3, <1>4, <1>5 DEF PacketInv

LEMMA StartBundlePacket ==
  ASSUME Fresh, PacketInv, FreshAfter, careful, ~failed, base' = base, StartBundle
  PROVE  ABundle' \/ ALaterBundle'
<1> DEFINE h == Header
           q == pos + h
           kind == IF k_bundle THEN "#bundle" ELSE "nul"
           d == Write(data, pos, h, Word(kind))
<1>1. /\ state = {"OUT"} /\ data' = Write(d, q, 8, Word("timetag")) /\ pos' = q + 8
      /\ state' = {"BUNDLE"} /\ UNCHANGED <<elems, left>>
  BY DEF StartBundle
<1>2. NothingYet
  <2>1. "MSG" \notin state /\ "BUNDLE" \notin state /\ "COMPLETE" \notin state
    BY <1>1
  <2>2. ~AMessage
    BY <2>1 DEF AMessage
  <2>3. ~ABundle
    BY <2>1 DEF ABundle
  <2>4. ~ALaterBundle
    BY <2>1 DEF ALaterBundle
  <2> QED
    BY <2>2, <2>3, <2>4 DEF PacketInv
<1>3. /\ BufferOK(data) /\ pos \in Nat /\ pos % 4 = 0 /\ WrittenBefore(data, pos)
      /\ pos = base /\ elems = <<>> /\ left = 0
  BY <1>2, TypeParts DEF Fresh, NothingYet
<1>4. /\ h \in Nat /\ h % 4 = 0 /\ h >= 4 /\ 8 % 4 = 0 /\ kind \in Contents
      /\ (kind = "#bundle" => h = 8) /\ kind \in {"#bundle", "nul"}
  BY DEF Header, Contents
<1> HIDE DEF h, kind
<1>5. q \in Nat /\ q % 4 = 0 /\ pos \div 4 \in pos \div 4 .. (pos + h) \div 4 - 1
  BY <1>3, <1>4, SumAligned
<1>6. /\ WrittenBefore(d, q)
      /\ \A w \in pos \div 4 .. (pos + h) \div 4 - 1 : w \in DOMAIN d /\ d[w] = Word(kind)
  BY <1>3, <1>4, WriteBehind
<1>7. BufferOK(d)
  BY <1>3, <1>4, WriteBufferOK, WordOK
<1>8. pos \div 4 \in DOMAIN d /\ d[pos \div 4] = Word(kind)
  BY <1>5, <1>6
<1>9. kind = "#bundle" => pos' = base + 16
  BY <1>1, <1>3, <1>4
<1> HIDE DEF q, d
<1>10. Keeps(d, data')
  BY <1>1, <1>4, <1>5, <1>6, <1>7, WriteBehind
<1>11. pos \div 4 \in DOMAIN data' /\ data'[pos \div 4].k = kind
  BY <1>8, <1>10 DEF Keeps, Word
<1>12. base' \div 4 \in DOMAIN data' /\ data'[base' \div 4].k = kind
  BY <1>3, <1>11
<1>13. LaidOut(data, base + 16)'
  BY <1>1, <1>3 DEF LaidOut, EndOfAll
<1>14. CASE kind = "#bundle"
  BY <1>1, <1>3, <1>9, <1>12, <1>13, <1>14 DEF ABundle, StartsWith, LaidOut, EndOfAll
<1>15. CASE kind = "nul"
  BY <1>1, <1>12, <1>15 DEF ALaterBundle, StartsWith
<1> QED
  BY <1>4, <1>14, <1>15

LEMMA WriteArgPacket ==
  ASSUME Fresh, PacketInv, FreshAfter, careful, ~failed, base' = base,
         WriteArg \/ WritevArg
  PROVE  AMessage' \/ ABundle' \/ ALaterBundle'
<1>1. /\ left > 0 /\ UNCHANGED <<msg_start, state, elems>> /\ Keeps(data, data')
  BY DEF WriteArg, WritevArg, FreshAfter
<1>2. pos \in Nat /\ pos' \in Nat /\ pos' >= pos /\ base \in Nat /\ msg_start \in Nat
      /\ left # 0
  <2>1. PICK n \in Nat : n % 4 = 0 /\ (Put(n) \/ PutNothing)
    BY ArgIsPut DEF Fresh
  <2>2. pos' \in Nat /\ pos' >= pos
    BY <2>1, PutOK DEF Fresh
  <2> QED
    BY <1>1, <2>2, TypeParts DEF Fresh
<1>3. CASE AMessage
  <2>1. pos' >= base + 4
    BY <1>2, <1>3 DEF AMessage
  <2>2. StartsWith("address")'
    BY <1>1, <1>3, StartsKept DEF AMessage
  <2> QED
    BY <1>1, <1>3, <2>1, <2>2 DEF AMessage
<1>4. CASE ABundle
  <2>1. state = {"BUNDLE", "MSG"} /\ OpenElement
    BY <1>2, <1>4 DEF ABundle
  <2>2. LaidOut(data', msg_start - 4)
    BY <1>1, <2>1, LaidOutKept DEF OpenElement
  <2>3. pos' >= msg_start + 4
    BY <1>2, <2>1 DEF OpenElement
  <2>4. OpenElement'
    BY <1>1, <2>1, <2>2, <2>3 DEF OpenElement, LaidOut, EndOfAll, Keeps
  <2>5. StartsWith("#bundle")'
    BY <1>1, <1>4, StartsKept DEF ABundle
  <2> QED
    BY <1>1, <2>1, <2>4, <2>5 DEF ABundle
<1>5. CASE ALaterBundle
  <2>1. StartsWith("nul")'
    BY <1>1, <1>5, StartsKept DEF ALaterBundle
  <2> QED
    BY <1>1, <1>5, <2>1 DEF ALaterBundle
<1>6. ~NothingYet
  BY <1>2 DEF NothingYet
<1> QED
  BY <1>3, <1>4, <1>5, <1>6 DEF PacketInv

LEMMA EndBundlePacket ==
  ASSUME PacketInv, careful, ~failed, base' = base, EndBundle,
         "COMPLETE" \notin state \/ state' = state, state # {"BUNDLE", "MSG"}
  PROVE  NothingYet' \/ AMessage' \/ ABundle' \/ ALaterBundle'
<1>1. state' = {"COMPLETE"} /\ UNCHANGED <<data, pos, msg_start, left, elems>>
  BY DEF EndBundle
<1>2. CASE NothingYet
  BY <1>1, <1>2 DEF NothingYet
<1>3. CASE AMessage
  BY <1>1, <1>3 DEF AMessage, StartsWith
<1>4. CASE ABundle
  <2>1. LaidOut(data, pos) /\ left = 0 /\ StartsWith("#bundle")
    BY <1>4 DEF ABundle
  <2> QED
    BY <1>1, <2>1 DEF ABundle, LaidOut, EndOfAll, StartsWith
<1>5. CASE ALaterBundle
  BY <1>1, <1>5 DEF ALaterBundle, StartsWith
<1> QED
  BY <1>2, <1>3, <1>4, <1>5 DEF PacketInv

(* A packet stays one through the calls of its caller. *)
LEMMA WriterCallPacket ==
  ASSUME Fresh, PacketInv, WriterCall
  PROVE  PacketInv'
<1>1. /\ Next
      /\ careful' = \/ packets' # packets
                    \/ /\ careful
                       /\ "COMPLETE" \notin state \/ state' = state
                       /\ state = {"BUNDLE", "MSG"} => "COMPLETE" \notin state'
  BY DEF WriterCall
<1>2. CASE InitWriter \/ InitChild
  <2>1. /\ elems' = <<>> /\ pos' = base' /\ state' = {"OUT"} /\ left' = 0
        /\ base' = 0 \/ base' = pos
    BY <1>2 DEF InitWriter, InitChild, InitAt
  <2>2. base' % 4 = 0
    BY <2>1, TypeParts DEF Fresh
  <2> QED
    BY <2>1, <2>2 DEF PacketInv, NothingYet
<1>3. ASSUME Call \/ Writev, base' = base
      PROVE  PacketInv'
  <2> SUFFICES ASSUME careful', ~failed'
               PROVE  NothingYet' \/ AMessage' \/ ABundle' \/ ALaterBundle'
    BY <1>3 DEF PacketInv
  <2>1. packets' = packets
    BY <1>3 DEF Call, Writev, WritevStart, WritevArg, WritevEnd, StartAnyMsg,
                StartMsgInside, StartMsgNoRoomForAddress, StartMsgNoRoomForTypes,
                StartMsg, EndMsg, EndMsgOutside, StartBundle, StartBundleFails,
                EndBundle, WriteArg
  <2>2. careful /\ ("COMPLETE" \notin state \/ state' = state)
        /\ (state = {"BUNDLE", "MSG"} => "COMPLETE" \notin state')
    BY <1>1, <2>1
  <2>3. ~InitWriter => FreshAfter
    BY <1>1, FreshSteps
  <2>4. ~InitWriter
    <3>1. packets \in Nat
      BY WriterAssumption DEF Fresh, WriterInv, TypeOK, WriterAssumption
    <3> QED
      BY <2>1, <3>1 DEF InitWriter, InitAt
  <2>5. ASSUME NEW n \in StrLens, NEW nargs \in 0 .. MaxArgs, StartMsg(n, nargs)
        PROVE  AMessage' \/ ABundle' \/ ALaterBundle'
    <3>1. ~failed /\ "COMPLETE" \notin state
      BY <2>2, <2>5 DEF StartMsg
    <3> QED
      BY <1>3, <2>2, <2>3, <2>4, <2>5, <3>1, StartMsgPacket
  <2>6. CASE StartAnyMsg \/ WritevStart
    <3>1. \E n \in StrLens, nargs \in 0 .. MaxArgs : StartMsg(n, nargs)
      BY <2>6 DEF StartAnyMsg, StartMsgInside, StartMsgNoRoomForAddress,
                  StartMsgNoRoomForTypes, WritevStart, Fail
    <3> QED
      BY <2>5, <3>1
  <2>7. CASE EndMsg \/ WritevEnd
    <3>1. EndMsg /\ ~failed
      BY <2>7 DEF WritevEnd, EndMsg
    <3> QED
      BY <1>3, <2>2, <2>3, <2>4, <3>1, EndMsgPacket
  <2>8. CASE StartBundle
    <3>1. ~failed
      BY <2>8 DEF StartBundle
    <3> QED
      BY <1>3, <2>2, <2>3, <2>4, <2>8, <3>1, StartBundlePacket
  <2>9. CASE EndBundle
    <3>1. ~failed /\ state # {"BUNDLE", "MSG"}
      BY <2>2, <2>9 DEF EndBundle
    <3> QED
      BY <1>3, <2>2, <2>9, <3>1, EndBundlePacket
  <2>10. CASE WriteArg \/ WritevArg
    <3>1. ~failed
      <4>1. PICK n \in Nat : n % 4 = 0 /\ (Put(n) \/ PutNothing)
        BY <2>10, ArgIsPut DEF Fresh
      <4> QED
        BY <4>1 DEF Put, PutNothing, Fail
    <3> QED
      BY <1>3, <2>2, <2>3, <2>4, <2>10, <3>1, WriteArgPacket
  <2>11. ~EndMsgOutside /\ ~StartBundleFails
    BY DEF EndMsgOutside, StartBundleFails, Fail
  <2> QED
    BY <1>3, <2>6, <2>7, <2>8, <2>9, <2>10, <2>11 DEF Call, Writev
<1> QED
  BY <1>1, <1>2, <1>3 DEF Next
-----------------------------------------------------------------------------
Messages == [at : Nat, len : Nat, indent : Nat]

(* The same elements as the program receives them, in a datagram of n bytes. *)
MessageIn(b, m, p, n) ==
  /\ m.at = p + 4 /\ m.len % 4 = 0 /\ m.len >= 4 /\ End(m) <= n
  /\ m.indent = 1
  /\ b[p \div 4].n = m.len
  /\ b[m.at \div 4].k = "address"

GivenMessage(n) ==
  /\ buffer[0].k = "address"
  /\ expected = <<[at |-> 0, len |-> n, indent |-> 0]>>

GivenBundle(n) ==
  /\ buffer[0].k = "#bundle"
  /\ \A i \in DOMAIN expected :
       MessageIn(buffer, expected[i], IF i = 1 THEN 16 ELSE End(expected[i - 1]), n)
  /\ n = IF expected = <<>> THEN 16 ELSE End(expected[Len(expected)])

Given(n) ==
  /\ n >= 4 /\ n % 4 = 0
  /\ expected \in Seq(Messages)
  /\ GivenMessage(n) \/ GivenBundle(n)

PrintedEnd == IF dumped = <<>> THEN 16 ELSE End(expected[Len(dumped)])

Called(n) == call = <<0, n>> /\ readers = <<>> /\ dumped = <<>>

InBundle(n) ==
  /\ call = <<>> /\ GivenBundle(n)
  /\ readers = <<[msg_ptr |-> PrintedEnd, bundle_end |-> n]>>
  /\ \E k \in 0 .. Len(expected) : dumped = SubSeq(expected, 1, k)

Returned == call = <<>> /\ readers = <<>> /\ dumped = expected

(* A packet of the writer that begins with an address or with "#bundle" is read so
   far as it is printed. *)
ReadingInv ==
  0 \in DOMAIN buffer /\ buffer[0].k # "nul" =>
    \E n \in Nat : Given(n) /\ (Called(n) \/ InBundle(n) \/ Returned)

LEMMA PrefixOf ==
  ASSUME NEW S, NEW s \in Seq(S), NEW k \in 0 .. Len(s)
  PROVE  /\ SubSeq(s, 1, k) \in Seq(S) /\ Len(SubSeq(s, 1, k)) = k
         /\ \A i \in 1 .. k : SubSeq(s, 1, k)[i] = s[i]
         /\ SubSeq(s, 1, k) = <<>> <=> k = 0
         /\ IsPrefix(SubSeq(s, 1, k), s)
         /\ k < Len(s) => Append(SubSeq(s, 1, k), s[k + 1]) = SubSeq(s, 1, k + 1)
         /\ SubSeq(s, 1, Len(s)) = s
<1> DEFINE p == SubSeq(s, 1, k)
<1>1. p \in Seq(S) /\ Len(p) = k /\ \A i \in 1 .. k : p[i] = s[i]
  OBVIOUS
<1>2. p = <<>> <=> k = 0
  <2>1. k = 0 => p = <<>>
    BY <1>1
  <2>2. p = <<>> => Len(p) = 0
    OBVIOUS
  <2> QED
    BY <1>1, <2>1, <2>2
<1>3. SubSeq(p, 1, k) = p
  BY <1>1
<1>4. IsPrefix(p, s)
  BY <1>1, <1>3 DEF IsPrefix
<1>5. k < Len(s) => Append(p, s[k + 1]) = SubSeq(s, 1, k + 1)
  OBVIOUS
<1>6. SubSeq(s, 1, Len(s)) = s
  OBVIOUS
<1> QED
  BY <1>1, <1>2, <1>4, <1>5, <1>6

(* What osc_bundle_reader_next finds at the k-th element. *)
LEMMA AtElement ==
  ASSUME BigEndian, NEW n \in Nat, Given(n), InBundle(n), NEW k \in 0 .. Len(expected),
         dumped = SubSeq(expected, 1, k)
  PROVE  /\ k = Len(expected) => NextType = "end"
         /\ k < Len(expected) =>
              /\ NextType = "message" /\ Readable(Start) /\ Len(readers) = 1
              /\ [at |-> Start, len |-> Size, indent |-> 1] = expected[k + 1]
              /\ Start + Size = End(expected[k + 1])
<1>1. expected \in Seq(Messages) /\ Len(dumped) = k /\ (dumped = <<>> <=> k = 0)
  BY PrefixOf DEF Given
<1>2. k \in Nat /\ Len(expected) \in Nat /\ DOMAIN expected = 1 .. Len(expected)
  BY <1>1
<1>3. br = [msg_ptr |-> PrintedEnd, bundle_end |-> n] /\ Len(readers) = 1
  BY DEF br, InBundle
<1>4. PrintedEnd = IF k = 0 THEN 16 ELSE End(expected[k])
  BY <1>1 DEF PrintedEnd
<1>5. br.msg_ptr = PrintedEnd /\ br.bundle_end = n
  BY <1>3
<1>6. CASE k = Len(expected)
  <2>1. expected = <<>> <=> k = 0
    BY <1>1, <1>6
  <2>2. n = PrintedEnd
    BY <1>4, <1>6, <2>1 DEF InBundle, GivenBundle
  <2> QED
    BY <1>2, <1>5, <1>6, <2>2 DEF NextType
<1>7. CASE k < Len(expected)
  <2> DEFINE m == expected[k + 1]
  <2>1. k + 1 \in DOMAIN expected /\ (k + 1 = 1 <=> k = 0) /\ k + 1 - 1 = k
    BY <1>2, <1>7
  <2>2. MessageIn(buffer, m, PrintedEnd, n)
    <3>1. \A i \in DOMAIN expected :
            MessageIn(buffer, expected[i], IF i = 1 THEN 16 ELSE End(expected[i - 1]), n)
      BY DEF InBundle, GivenBundle
    <3>2. MessageIn(buffer, m, IF k + 1 = 1 THEN 16 ELSE End(expected[k + 1 - 1]), n)
      BY <2>1, <3>1
    <3>3. PrintedEnd = IF k + 1 = 1 THEN 16 ELSE End(expected[k + 1 - 1])
      BY <1>4, <2>1
    <3> QED
      BY <3>2, <3>3, Zenon
  <2>3. m \in Messages
    BY <1>1, <2>1
  <2> HIDE DEF m
  <2>4. m.at \in Nat /\ m.len \in Nat /\ m = [at |-> m.at, len |-> m.len, indent |-> m.indent]
    BY <2>3 DEF Messages
  <2>5. Start = m.at /\ Size = m.len
    BY <1>5, <2>2 DEF Start, Size, MessageIn, osc_ntoh32
  <2>6. m.indent = 1
    BY <2>2 DEF MessageIn
  <2>7. [at |-> Start, len |-> Size, indent |-> 1] = m
    BY <2>4, <2>5, <2>6
  <2>8. Start + Size = End(m)
    BY <2>5 DEF End
  <2>9. Readable(Start)
    BY <2>2, <2>5 DEF Readable, MessageIn
  <2>10. PacketType(Start, Size) = "message"
    BY <2>2, <2>4, <2>5 DEF PacketType, MessageIn
  <2>11. PrintedEnd # n /\ ~(Start + Size > n)
    <3>1. m.at = PrintedEnd + 4 /\ m.at + m.len <= n /\ m.len >= 4
      BY <2>2 DEF MessageIn, End
    <3>2. PrintedEnd = n => FALSE
      BY <2>4, <3>1
    <3> QED
      BY <2>4, <2>5, <3>1, <3>2
  <2>12. NextType = "message"
    BY <1>5, <2>10, <2>11 DEF NextType
  <2>13. k # Len(expected)
    <3>1. \A a, b \in Nat : a < b => a # b
      OBVIOUS
    <3> QED
      BY <1>2, <1>7, <3>1, Zenon
  <2> QED
    BY <1>3, <2>7, <2>8, <2>9, <2>12, <2>13, Zenon DEF m
<1> QED
  BY <1>2, <1>6, <1>7

(* The program's turns. *)
LEMMA DumpReads ==
  ASSUME BigEndian, ReadingInv, Dump, 0 \in DOMAIN buffer, buffer[0].k # "nul"
  PROVE  ReadingInv'
<1>1. PICK n \in Nat : Given(n) /\ (Called(n) \/ InBundle(n) \/ Returned)
  BY DEF ReadingInv
<1>2. buffer' = buffer /\ expected' = expected
  BY DEF Dump, DumpTurn, DumpPacket, DumpEnd, DumpElement
<1>3. Given(n)'
  BY <1>1, <1>2 DEF Given, GivenMessage, GivenBundle, MessageIn
<1>4. GivenBundle(n) => GivenBundle(n)'
  BY <1>2 DEF GivenBundle, MessageIn
<1> SUFFICES Called(n)' \/ InBundle(n)' \/ Returned'
  BY <1>3 DEF ReadingInv
<1>5. CASE Called(n)
  <2>1. DumpPacket
    BY <1>5 DEF Called, Dump, DumpTurn, DumpEnd, DumpElement
  <2>2. /\ call = <<0, n>> /\ call # <<>> /\ call[1] = 0 /\ call[2] = n
        /\ readers = <<>> /\ dumped = <<>> /\ Len(readers) = 0 /\ call' = <<>>
    BY <1>5, <2>1 DEF Called, DumpPacket
  <2>3. /\ n >= 4 /\ n % 4 = 0 /\ ~(n < 4 \/ n % 4 # 0) /\ 0 \div 4 = 0
    BY <1>1 DEF Given
  <2>4. CASE GivenMessage(n)
    <3>1. PacketType(0, n) = "message" /\ Readable(0)
      BY <2>3, <2>4 DEF GivenMessage, PacketType, Readable
    <3>2. /\ dumped' = Append(<<>>, [at |-> 0, len |-> n, indent |-> 0])
          /\ readers' = readers
      BY <2>1, <2>2, <3>1 DEF DumpPacket, Dumped
    <3>3. dumped' = expected
      BY <2>4, <3>2 DEF GivenMessage
    <3> QED
      BY <1>2, <2>2, <3>2, <3>3 DEF Returned
  <2>5. CASE GivenBundle(n)
    <3>1. PacketType(0, n) = "bundle"
      BY <2>3, <2>5 DEF GivenBundle, PacketType
    <3>2. /\ dumped' = <<>>
          /\ readers' = IF n >= 20
                        THEN Append(<<>>, [msg_ptr |-> 0 + 16, bundle_end |-> 0 + n])
                        ELSE <<>>
      BY <2>1, <2>2, <3>1 DEF DumpPacket
    <3>3. expected \in Seq(Messages)
      BY <1>1 DEF Given
    <3>4. CASE n >= 20
      <4>1. readers' = <<[msg_ptr |-> 16, bundle_end |-> n]>>
        BY <3>2, <3>4
      <4>2. PrintedEnd' = 16
        BY <3>2 DEF PrintedEnd
      <4>3. 0 \in 0 .. Len(expected) /\ <<>> = SubSeq(expected, 1, 0)
        BY <3>3
      <4> QED
        BY <1>2, <1>4, <2>2, <2>5, <3>2, <4>1, <4>2, <4>3 DEF InBundle
    <3>5. CASE ~(n >= 20)
      <4>1. expected = <<>>
        <5> SUFFICES ASSUME expected # <<>>
                     PROVE  FALSE
          OBVIOUS
        <5>1. 1 \in DOMAIN expected /\ expected[1] \in Messages
          BY <3>3
        <5>2. MessageIn(buffer, expected[1], 16, n)
          BY <2>5, <5>1 DEF GivenBundle
        <5>3. /\ expected[1].at = 20 /\ expected[1].len >= 4
              /\ expected[1].at + expected[1].len <= n /\ expected[1].len \in Nat
          BY <5>1, <5>2 DEF MessageIn, End, Messages
        <5> QED
          BY <3>5, <5>3
      <4> QED
        BY <1>2, <2>2, <3>2, <3>5, <4>1 DEF Returned
    <3> QED
      BY <3>4, <3>5
  <2> QED
    BY <1>1, <2>4, <2>5 DEF Given
<1>6. CASE InBundle(n)
  <2>1. PICK k \in 0 .. Len(expected) : dumped = SubSeq(expected, 1, k)
    BY <1>6 DEF InBundle
  <2>2. expected \in Seq(Messages) /\ Len(expected) \in Nat
    BY <1>1 DEF Given
  <2>3. /\ call = <<>> /\ readers = <<[msg_ptr |-> PrintedEnd, bundle_end |-> n]>>
        /\ Len(readers) = 1 /\ GivenBundle(n)'
    BY <1>4, <1>6 DEF InBundle
  <2>4. CASE k = Len(expected)
    <3>1. NextType = "end"
      BY <1>1, <1>6, <2>1, <2>4, AtElement
    <3>2. DumpEnd
      BY <2>3, <3>1 DEF Dump, DumpTurn, DumpPacket, DumpElement
    <3>3. readers' = Front(readers) /\ UNCHANGED <<call, dumped>>
      BY <3>2 DEF DumpEnd
    <3>4. Front(readers) = <<>>
      BY <2>3 DEF Front
    <3>5. dumped = expected
      BY <2>1, <2>2, <2>4, PrefixOf
    <3> QED
      BY <1>2, <2>3, <3>3, <3>4, <3>5 DEF Returned
  <2>5. CASE k < Len(expected)
    <3>1. /\ NextType = "message" /\ Readable(Start)
          /\ [at |-> Start, len |-> Size, indent |-> 1] = expected[k + 1]
          /\ Start + Size = End(expected[k + 1])
      BY <1>1, <1>6, <2>1, <2>5, AtElement
    <3>2. DumpElement
      BY <2>3, <3>1 DEF Dump, DumpTurn, DumpPacket, DumpEnd
    <3>3. /\ readers' = [readers EXCEPT ![1].msg_ptr = Start + Size]
          /\ dumped' = Append(dumped, expected[k + 1]) /\ call' = call
      BY <2>3, <3>1, <3>2 DEF DumpElement, Dumped
    <3>4. dumped' = SubSeq(expected, 1, k + 1)
      BY <2>1, <2>2, <2>5, <3>3, PrefixOf
    <3>5. k + 1 \in 0 .. Len(expected)
      BY <2>1, <2>2, <2>5
    <3>6. Len(dumped') = k + 1 /\ dumped' # <<>>
      BY <2>1, <2>2, <3>4, <3>5, PrefixOf
    <3>7. PrintedEnd' = End(expected[k + 1])
      BY <1>2, <3>6 DEF PrintedEnd
    <3>8. readers' = <<[msg_ptr |-> Start + Size, bundle_end |-> n]>>
      BY <2>3, <3>3
    <3> QED
      BY <1>2, <2>3, <3>1, <3>3, <3>4, <3>5, <3>7, <3>8 DEF InBundle
  <2> QED
    BY <2>1, <2>2, <2>4, <2>5
<1>7. ~Returned
  BY DEF Returned, Dump, DumpTurn, DumpPacket, DumpEnd, DumpElement
<1> QED
  BY <1>1, <1>5, <1>6, <1>7

(* An element of the writer's buffer is one of the datagram that is sent. *)
LEMMA SentElement ==
  ASSUME NEW d, NEW f, NEW B \in Nat, NEW b \in Nat, b = 4 * B, NEW n \in Nat, n % 4 = 0,
         f = [w \in 0 .. n \div 4 - 1 |-> d[B + w]],
         NEW x, NEW a \in Nat, NEW l \in Nat, x = <<a, l>>, NEW p \in Nat, p >= b,
         NEW q \in Nat, n = q - b, ElementIn(d, x, p, q)
  PROVE  MessageIn(f, [at |-> a - b, len |-> l, indent |-> 1], p - b, n)
<1>1. /\ a = p + 4 /\ l % 4 = 0 /\ l >= 4 /\ a + l <= q
      /\ d[p \div 4].n = l /\ d[a \div 4].k = "address"
  BY DEF ElementIn
<1>2. PICK r \in Nat : r = p - b
  OBVIOUS
<1>3. a - b = r + 4 /\ r + 4 + l <= n
  BY <1>1, <1>2
<1>4. B + r \div 4 = p \div 4 /\ r \div 4 \in 0 .. n \div 4 - 1
  BY <1>1, <1>2, <1>3
<1>5. B + (r + 4) \div 4 = a \div 4 /\ (r + 4) \div 4 \in 0 .. n \div 4 - 1
  BY <1>1, <1>2, <1>3
<1>6. f[r \div 4].n = l
  BY <1>1, <1>4
<1>7. f[(r + 4) \div 4].k = "address"
  BY <1>1, <1>5
<1> DEFINE m == [at |-> r + 4, len |-> l, indent |-> 1]
<1>8. MessageIn(f, m, r, n)
  BY <1>1, <1>3, <1>6, <1>7 DEF MessageIn, End
<1> QED
  BY <1>2, <1>3, <1>8

(* What is sent is a whole packet. *)
LEMMA SendGives ==
  ASSUME Fresh, PacketInv, Send
  PROVE  ReadingInv'
<1> SUFFICES ASSUME 0 \in DOMAIN buffer', buffer'[0].k # "nul"
             PROVE  \E n \in Nat : Given(n)' /\ Called(n)'
  BY DEF ReadingInv
<1>n. PICK n \in Int : n = pos - base
  BY TypeParts DEF Fresh
<1>B. PICK B \in Int : B = base \div 4
  BY TypeParts DEF Fresh
<1>1. /\ state = {"COMPLETE"} /\ careful /\ ~failed /\ pos # base
      /\ buffer' = [w \in 0 .. n \div 4 - 1 |-> data[B + w]]
      /\ call' = <<0, n>> /\ readers' = <<>> /\ dumped' = <<>>
      /\ expected' = Elements
  BY <1>n, <1>B DEF Send, Receive, Dumping
<1>2. /\ base \in Nat /\ pos \in Nat /\ base % 4 = 0 /\ pos % 4 = 0 /\ base <= pos
      /\ elems \in Seq(Nat \X Nat)
  BY TypeParts DEF Fresh, PacketInv, WriterInv, TypeOK
<1>3. n \in Nat /\ n % 4 = 0 /\ n >= 4 /\ B \in Nat /\ base = 4 * B
  <2>1. n # 0 /\ n \in Nat
    BY <1>1, <1>2, <1>n
  <2>2. n % 4 = 0
    <3>1. PICK k \in Nat : pos = 4 * k
      BY <1>2
    <3>2. PICK j \in Nat : base = 4 * j
      BY <1>2
    <3> QED
      BY <1>n, <2>1, <3>1, <3>2
  <2>3. B \in Nat /\ base = 4 * B
    BY <1>2, <1>B
  <2> QED
    BY <2>1, <2>2, <2>3
<1>4. 0 \in 0 .. n \div 4 - 1 /\ buffer'[0] = data[base \div 4]
  BY <1>1, <1>3, <1>B
<1>5. Called(n)'
  BY <1>1 DEF Called
<1>6. ASSUME AMessage
      PROVE  Given(n)'
  <2>1. data[base \div 4].k = "address" /\ elems = <<>>
    BY <1>6 DEF AMessage, StartsWith
  <2>2. expected' = <<[at |-> 0, len |-> n, indent |-> 0]>>
    BY <1>1, <1>n, <2>1 DEF Elements
  <2>3. expected' \in Seq(Messages)
    BY <1>3, <2>2 DEF Messages
  <2> QED
    BY <1>3, <1>4, <2>1, <2>2, <2>3 DEF Given, GivenMessage
<1>7. ASSUME ABundle
      PROVE  Given(n)'
  <2>1. data[base \div 4].k = "#bundle" /\ LaidOut(data, pos)
    BY <1>1, <1>7 DEF ABundle, StartsWith
  <2>2. CASE elems = <<>>
    <3>1. expected' = <<>> /\ n = 16
      BY <1>1, <1>2, <1>n, <2>1, <2>2 DEF Elements, LaidOut, EndOfAll
    <3> QED
      BY <1>3, <1>4, <2>1, <3>1 DEF Given, GivenBundle
  <2>3. CASE elems # <<>>
    <3>e. PICK e : e = [i \in DOMAIN elems |->
                        [at |-> elems[i][1] - base, len |-> elems[i][2], indent |-> 1]]
      OBVIOUS
    <3>1. expected' = e
      BY <1>1, <2>3, <3>e DEF Elements
    <3>2. /\ DOMAIN elems = 1 .. Len(elems) /\ Len(elems) \in Nat /\ Len(elems) # 0
          /\ \A i \in DOMAIN elems : elems[i][1] \in Nat /\ elems[i][2] \in Nat
      BY <1>2, <2>3
    <3>3. ASSUME NEW i \in DOMAIN elems
          PROVE  /\ elems[i][1] \in Nat /\ elems[i][2] \in Nat /\ elems[i][1] - base \in Nat
                 /\ e[i] = [at |-> elems[i][1] - base, len |-> elems[i][2], indent |-> 1]
                 /\ e[i] \in Messages
                 /\ End(e[i]) = elems[i][1] + elems[i][2] - base
      <4>0. PICK a, l : a = elems[i][1] /\ l = elems[i][2]
        OBVIOUS
      <4>1. a \in Nat /\ l \in Nat /\ a >= base + 4
        BY <2>1, <3>2, <3>3, <4>0 DEF LaidOut
      <4>2. a - base \in Nat
        BY <1>2, <4>1
      <4>3. e[i] = [at |-> a - base, len |-> l, indent |-> 1]
        BY <3>3, <3>e, <4>0
      <4>4. e[i] \in Messages
        BY <4>1, <4>2, <4>3 DEF Messages
      <4>5. End(e[i]) = a + l - base
        BY <1>2, <4>1, <4>3 DEF End
      <4> QED
        BY <4>0, <4>1, <4>2, <4>3, <4>4, <4>5
    <3>4. e \in Seq(Messages) /\ Len(e) = Len(elems) /\ DOMAIN e = DOMAIN elems
      BY <3>2, <3>3, <3>e
    <3>5. ASSUME NEW i \in DOMAIN elems
          PROVE  MessageIn(buffer', e[i], IF i = 1 THEN 16 ELSE End(e[i - 1]), n)
      <4>p. PICK p : p = IF i = 1 THEN base + 16 ELSE elems[i - 1][1] + elems[i - 1][2]
        OBVIOUS
      <4>1. ElementIn(data, elems[i], p, pos)
        BY <2>1, <4>p DEF LaidOut
      <4>2. p \in Nat /\ p >= base /\ p - base = IF i = 1 THEN 16 ELSE End(e[i - 1])
        <5>1. CASE i = 1
          BY <1>2, <4>p, <5>1
        <5>2. CASE i # 1
          <6>1. PICK j \in DOMAIN elems : j = i - 1
            BY <3>2, <5>2
          <6>2. /\ elems[j][1] \in Nat /\ elems[j][2] \in Nat /\ elems[j][1] - base \in Nat
                /\ End(e[j]) = elems[j][1] + elems[j][2] - base
            BY <3>3
          <6>3. p = elems[j][1] + elems[j][2]
            BY <4>p, <5>2, <6>1
          <6>4. p \in Nat /\ p >= base /\ p - base = End(e[j])
            <7>0. PICK a, l : a = elems[j][1] /\ l = elems[j][2]
              OBVIOUS
            <7>1. a \in Nat /\ l \in Nat /\ a - base \in Nat /\ p = a + l
              BY <6>2, <6>3, <7>0
            <7>2. p \in Nat /\ p >= base
              BY <1>2, <7>1
            <7>3. End(e[j]) = a + l - base
              BY <6>2, <7>0
            <7> QED
              BY <1>2, <7>1, <7>2, <7>3
          <6> QED
            BY <5>2, <6>1, <6>4
        <5> QED
          BY <5>1, <5>2
      <4>3. elems[i] = <<elems[i][1], elems[i][2]>>
        <5>1. elems[i] \in Nat \X Nat
          BY <1>2
        <5> QED
          BY <5>1
      <4>4. MessageIn(buffer', e[i], p - base, n)
        <5>1. /\ elems[i][1] \in Nat /\ elems[i][2] \in Nat
              /\ e[i] = [at |-> elems[i][1] - base, len |-> elems[i][2], indent |-> 1]
          BY <3>3
        <5>2. PICK a \in Nat, l \in Nat : a = elems[i][1] /\ l = elems[i][2]
          BY <5>1
        <5>3. PICK x : x = elems[i] /\ x = <<a, l>>
          BY <4>3, <5>2
        <5>4. ElementIn(data, x, p, pos) /\ e[i] = [at |-> a - base, len |-> l, indent |-> 1]
          BY <4>1, <5>1, <5>2, <5>3
        <5>5. MessageIn(buffer', [at |-> a - base, len |-> l, indent |-> 1], p - base, n)
          BY <1>1, <1>2, <1>3, <1>n, <4>2, <5>3, <5>4, SentElement
        <5> QED
          BY <5>4, <5>5
      <4> QED
        BY <4>2, <4>4
    <3>6. n = End(e[Len(e)]) /\ e # <<>>
      <4>1. Len(elems) \in DOMAIN elems
        BY <3>2
      <4>2. pos = elems[Len(elems)][1] + elems[Len(elems)][2]
        BY <2>1, <2>3 DEF LaidOut, EndOfAll
      <4>3. n = End(e[Len(elems)])
        <5>1. PICK k \in DOMAIN elems : k = Len(elems)
          BY <4>1
        <5>2. End(e[k]) = elems[k][1] + elems[k][2] - base
          BY <3>3
        <5> QED
          <6>1. pos = elems[k][1] + elems[k][2]
            BY <4>2, <5>1
          <6>2. End(e[k]) = pos - base
            BY <1>2, <3>3, <5>2, <6>1
          <6> QED
            BY <1>n, <5>1, <6>2
      <4>4. e # <<>>
        BY <3>2, <3>4
      <4> QED
        BY <3>4, <4>3, <4>4
    <3>7. GivenBundle(n)'
      <4>1. buffer'[0].k = "#bundle"
        BY <1>4, <2>1
      <4>2. \A i \in DOMAIN expected' :
              MessageIn(buffer', expected'[i],
                        IF i = 1 THEN 16 ELSE End(expected'[i - 1]), n)
        BY <3>1, <3>4, <3>5, Zenon
      <4>3. n = IF expected' = <<>> THEN 16 ELSE End(expected'[Len(expected')])
        BY <3>1, <3>6
      <4> QED
        BY <4>1, <4>2, <4>3 DEF GivenBundle
    <3> QED
      BY <1>3, <3>1, <3>4, <3>7 DEF Given
  <2> QED
    BY <2>2, <2>3
<1>8. ASSUME ALaterBundle
      PROVE  FALSE
  BY <1>4, <1>8 DEF ALaterBundle, StartsWith
<1>9. Given(n)'
  BY <1>1, <1>6, <1>7, <1>8 DEF PacketInv, NothingYet
<1> QED
  BY <1>3, <1>5, <1>9

(* The packets of the writer, dumped. *)
PacketsInv == Fresh /\ PacketInv /\ ReadingInv

LEMMA ReadingGives == ReadingInv => BundleReadsBack
<1> SUFFICES ASSUME ReadingInv, 0 \in DOMAIN buffer, buffer[0].k # "nul"
             PROVE  IF Dumping THEN IsPrefix(dumped, expected) ELSE dumped = expected
  BY DEF BundleReadsBack, ReadsBack
<1>1. PICK n \in Nat : Given(n) /\ (Called(n) \/ InBundle(n) \/ Returned)
  BY DEF ReadingInv
<1>2. expected \in Seq(Messages)
  BY <1>1 DEF Given
<1>3. CASE Called(n)
  <2>1. 0 \in 0 .. Len(expected) /\ dumped = SubSeq(expected, 1, 0) /\ call # <<>>
    BY <1>2, <1>3 DEF Called
  <2> QED
    BY <1>2, <2>1, PrefixOf DEF Dumping
<1>4. CASE InBundle(n)
  <2>1. PICK k \in 0 .. Len(expected) : dumped = SubSeq(expected, 1, k)
    BY <1>4 DEF InBundle
  <2>2. readers # <<>>
    BY <1>4 DEF InBundle
  <2> QED
    BY <1>2, <2>1, <2>2, PrefixOf DEF Dumping
<1>5. CASE Returned
  BY <1>5 DEF Returned, Dumping
<1> QED
  BY <1>1, <1>3, <1>4, <1>5

(* Where no other sender's datagrams arrive, what the program prints of a packet of
   a careful caller, that begins with an address or with "#bundle", is the messages
   that its calls have put in it: the sizes that end_msg stores are those that the
   reader follows (write.c:76, read.c:24-40), on a machine whose byte order is the
   network's. *)
THEOREM PacketsReadBack ==
  ASSUME BigEndian, Datagrams = {}
  PROVE  RSpec => []BundleReadsBack
<1>1. RInit => PacketsInv
  <2> SUFFICES ASSUME RInit
               PROVE  PacketsInv
    OBVIOUS
  <2>1. Init /\ buffer = [w \in {} |-> 0] /\ careful = TRUE
    BY DEF RInit, DumpInit
  <2>2. Fresh
    BY <2>1, WriterSteps, FreshSteps DEF Fresh
  <2>3. PacketInv
    BY <2>1 DEF Init, PacketInv, NothingYet
  <2>4. ReadingInv
    BY <2>1 DEF ReadingInv
  <2> QED
    BY <2>2, <2>3, <2>4 DEF PacketsInv
<1>2. PacketsInv /\ [RNext]_<<vars, rvars>> => PacketsInv'
  <2> SUFFICES ASSUME PacketsInv, [RNext]_<<vars, rvars>>
               PROVE  PacketsInv'
    OBVIOUS
  <2>1. Fresh /\ PacketInv /\ ReadingInv
    BY DEF PacketsInv
  <2>2. UNCHANGED vars => Fresh'
    BY <2>1 DEF vars, Fresh, WriterInv, TypeOK, Aligned, MsgBehindPos, BufferOK,
                WrittenBefore, SizeFree, TagsKept
  <2>3. UNCHANGED <<vars, careful>> => PacketInv'
    <3> SUFFICES ASSUME UNCHANGED <<vars, careful>>
                 PROVE  PacketInv'
      OBVIOUS
    <3>1. UNCHANGED <<data, base, pos, msg_start, state, left, failed, elems, careful>>
      BY DEF vars
    <3>2. (LaidOut(data, pos) => LaidOut(data, pos)') /\ (OpenElement => OpenElement')
      BY <3>1 DEF OpenElement, LaidOut, EndOfAll
    <3>3. ABundle => ABundle'
      BY <3>1, <3>2 DEF ABundle, StartsWith
    <3>4. /\ NothingYet => NothingYet'
          /\ AMessage => AMessage'
          /\ ALaterBundle => ALaterBundle'
      BY <3>1 DEF NothingYet, AMessage, ALaterBundle, StartsWith
    <3> QED
      BY <2>1, <3>1, <3>3, <3>4 DEF PacketInv
  <2>4. UNCHANGED <<dvars, expected>> => ReadingInv'
    BY <2>1 DEF dvars, ReadingInv, Given, GivenMessage, GivenBundle, Called, InBundle,
                Returned, PrintedEnd
  <2>5. buffer' = [w \in {} |-> 0] => ReadingInv'
    BY DEF ReadingInv
  <2>6. CASE WriterCall
    <3>1. Next /\ UNCHANGED <<dvars, expected>>
      BY <2>6 DEF WriterCall
    <3>2. Fresh'
      BY <2>1, <3>1, WriterSteps, FreshSteps DEF Fresh
    <3>3. PacketInv'
      BY <2>1, <2>6, WriterCallPacket
    <3> QED
      BY <2>4, <3>1, <3>2, <3>3 DEF PacketsInv
  <2>7. CASE Send
    <3>1. UNCHANGED <<vars, careful>>
      BY <2>7 DEF Send
    <3>2. ReadingInv'
      BY <2>1, <2>7, SendGives
    <3> QED
      BY <2>2, <2>3, <3>1, <3>2 DEF PacketsInv
  <2>8. CASE Dump
    <3>1. UNCHANGED <<vars, careful>> /\ buffer' = buffer
      BY <2>8 DEF Dump, DumpTurn, DumpPacket, DumpEnd, DumpElement
    <3>2. ReadingInv'
      <4>1. CASE 0 \in DOMAIN buffer /\ buffer[0].k # "nul"
        BY <2>1, <2>8, <4>1, DumpReads
      <4>2. CASE ~(0 \in DOMAIN buffer /\ buffer[0].k # "nul")
        BY <3>1, <4>2 DEF ReadingInv
      <4> QED
        BY <4>1, <4>2
    <3> QED
      BY <2>2, <2>3, <3>1, <3>2 DEF PacketsInv
  <2>9. CASE Forget
    <3>1. UNCHANGED <<vars, careful>> /\ buffer' = [w \in {} |-> 0]
      BY <2>9 DEF Forget
    <3> QED
      BY <2>2, <2>3, <2>5, <3>1 DEF PacketsInv
  <2>10. CASE UNCHANGED <<vars, rvars>>
    BY <2>2, <2>3, <2>4, <2>10 DEF rvars, PacketsInv
  <2>11. ~ReceiveOther
    BY DEF ReceiveOther
  <2> QED
    BY <2>6, <2>7, <2>8, <2>9, <2>10, <2>11 DEF RNext
<1>3. PacketsInv => BundleReadsBack
  BY ReadingGives DEF PacketsInv
<1> QED
  BY <1>1, <1>2, <1>3, PTL DEF RSpec
-----------------------------------------------------------------------------
(* The word that an open element of a bundle keeps for its size. *)
SizeToCome(w) == {"BUNDLE", "MSG"} \subseteq state /\ w = msg_start \div 4 - 1

(* What a careful caller has written without an error has no gap. *)
Gapless ==
  careful /\ ~failed =>
    \A w \in base \div 4 .. pos \div 4 - 1 : w \in DOMAIN data \/ SizeToCome(w)

(* A write of whole words adds these and takes none away. *)
LEMMA WriteFills ==
  ASSUME NEW d, NEW p \in Nat, NEW n \in Nat, p % 4 = 0, n % 4 = 0, NEW c
  PROVE  DOMAIN Write(d, p, n, c) = DOMAIN d \cup (p \div 4 .. (p + n) \div 4 - 1)
<1>1. PICK u \in Nat : p = 4 * u /\ p \div 4 = u
  OBVIOUS
<1>2. PICK m \in Nat : n = 4 * m /\ n \div 4 = m
  OBVIOUS
<1>3. (p + n) \div 4 = u + m
  <2>1. p + n = 4 * (u + m) /\ u + m \in Int
    BY <1>1, <1>2
  <2> QED
    BY <2>1
<1>4. {u + k : k \in 0 .. m - 1} = u .. u + m - 1
  <2>1. ASSUME NEW w \in u .. u + m - 1
        PROVE  w - u \in 0 .. m - 1 /\ w = u + (w - u)
    OBVIOUS
  <2>2. ASSUME NEW k \in 0 .. m - 1
        PROVE  u + k \in u .. u + m - 1
    OBVIOUS
  <2> QED
    BY <2>1, <2>2
<1>5. DOMAIN Write(d, p, n, c) = DOMAIN d \cup {p \div 4 + k : k \in 0 .. n \div 4 - 1}
  BY DEF Write
<1>6. {p \div 4 + k : k \in 0 .. n \div 4 - 1} = p \div 4 .. (p + n) \div 4 - 1
  BY <1>1, <1>2, <1>3, <1>4
<1> QED
  BY <1>5, <1>6

(* The words below a position that is moved on by what is written there. *)
LEMMA FilledTo ==
  ASSUME NEW d, NEW p \in Nat, NEW n \in Nat, p % 4 = 0, n % 4 = 0, NEW c,
         NEW b \in Int, NEW H,
         \A w \in b .. p \div 4 - 1 : w \in DOMAIN d \/ w \in H
  PROVE  \A w \in b .. (p + n) \div 4 - 1 : w \in DOMAIN Write(d, p, n, c) \/ w \in H
<1>1. p \div 4 \in Int /\ (p + n) \div 4 \in Int
  OBVIOUS
<1>2. PICK x \in Int : x = p \div 4
  BY <1>1
<1>3. PICK y \in Int : y = (p + n) \div 4
  BY <1>1
<1>4. ASSUME NEW w \in b .. y - 1
      PROVE  w \in b .. x - 1 \/ w \in x .. y - 1
  OBVIOUS
<1>5. DOMAIN Write(d, p, n, c) = DOMAIN d \cup (p \div 4 .. (p + n) \div 4 - 1)
  BY WriteFills
<1>6. PICK D : D = DOMAIN Write(d, p, n, c)
  OBVIOUS
<1>7. D = DOMAIN d \cup (x .. y - 1)
  BY <1>2, <1>3, <1>5, <1>6
<1>8. \A w \in b .. x - 1 : w \in DOMAIN d \/ w \in H
  BY <1>2
<1>9. \A w \in b .. y - 1 : w \in D \/ w \in H
  BY <1>4, <1>7, <1>8
<1> QED
  BY <1>3, <1>6, <1>9

LEMMA StartMsgGapless ==
  ASSUME WriterInv, Gapless, careful, ~failed, base' = base,
         NEW n \in StrLens, NEW nargs \in 0 .. MaxArgs, StartMsg(n, nargs),
         "COMPLETE" \notin state
  PROVE  Gapless'
<1>1. PICK p \in Nat : p = MsgPos /\ p % 4 = 0
  BY TypeParts
<1>2. PICK s \in Nat : s = StringBytes(n) /\ s % 4 = 0
  BY WriterAssumption, StringRounding DEF WriterAssumption
<1>3. PICK t \in Nat : t = ROUND32(nargs) /\ t % 4 = 0
  BY WriterAssumption, Rounding DEF WriterAssumption
<1>4. PICK d : d = Write(data, p, s, Word("address"))
  OBVIOUS
<1>5. /\ data' = Write(d, p + s, t, Word("types"))
      /\ pos' = p + s + t /\ msg_start' = p /\ state' = state \cup {"MSG"}
      /\ "MSG" \notin state
  BY <1>1, <1>2, <1>3, <1>4 DEF StartMsg
<1>6. PICK b \in Int : b = base \div 4
  BY TypeParts
<1>7. PICK H : H = {w \in Int : SizeToCome(w)'}
  OBVIOUS
<1>8. \A w \in b .. p \div 4 - 1 : w \in DOMAIN data \/ w \in H
  <2>1. pos \in Nat /\ pos % 4 = 0
    BY TypeParts
  <2>2. \A w \in b .. pos \div 4 - 1 : w \in DOMAIN data
    BY <1>5, <1>6 DEF Gapless, SizeToCome
  <2>3. CASE state = {"BUNDLE"}
    <3>1. p = pos + 4
      BY <1>1, <2>3 DEF MsgPos
    <3>2. PICK q \in Nat : pos = 4 * q /\ pos \div 4 = q
      BY <2>1
    <3>3. p \div 4 = q + 1
      BY <3>1, <3>2
    <3>4. q \in H
      BY <1>5, <1>7, <2>3, <3>2, <3>3 DEF SizeToCome
    <3>5. \A w \in b .. q : w \in b .. q - 1 \/ w = q
      OBVIOUS
    <3> QED
      BY <2>2, <3>2, <3>3, <3>4, <3>5
  <2>4. CASE state # {"BUNDLE"}
    BY <1>1, <2>2, <2>4 DEF MsgPos
  <2> QED
    BY <2>3, <2>4
<1>9. \A w \in b .. (p + s) \div 4 - 1 : w \in DOMAIN d \/ w \in H
  BY <1>2, <1>1, <1>4, <1>8, FilledTo
<1>10. p + s \in Nat /\ (p + s) % 4 = 0
  BY <1>1, <1>2, SumAligned
<1>11. \A w \in b .. (p + s + t) \div 4 - 1 : w \in DOMAIN data' \/ w \in H
  BY <1>3, <1>5, <1>9, <1>10, FilledTo
<1>12. \A w \in base' \div 4 .. pos' \div 4 - 1 : w \in DOMAIN data' \/ SizeToCome(w)'
  BY <1>5, <1>6, <1>7, <1>11
<1> QED
  BY <1>12 DEF Gapless

LEMMA EndMsgGapless ==
  ASSUME WriterInv, Gapless, careful, ~failed, base' = base, EndMsg
  PROVE  Gapless'
<1>1. PICK b \in Int : b = base \div 4
  BY TypeParts
<1>2. PICK q \in Int : q = pos \div 4 /\ pos' \div 4 = q
  BY TypeParts DEF EndMsg
<1>3. CASE "BUNDLE" \in state
  <2>1. PICK m \in Nat : m = msg_start - 4 /\ m % 4 = 0 /\ m \div 4 = msg_start \div 4 - 1
    <3>1. msg_start \in Nat /\ base \in Nat /\ "MSG" \in state
      BY TypeParts DEF EndMsg
    <3>2. msg_start % 4 = 0 /\ msg_start >= base + 4
      BY <1>3, <3>1 DEF WriterInv, Aligned, MsgBehindPos
    <3>3. PICK k \in Int : msg_start = 4 * k /\ msg_start \div 4 = k /\ k >= 1
      BY <3>1, <3>2
    <3>4. msg_start - 4 = 4 * (k - 1) /\ k - 1 \in Nat
      BY <3>3
    <3> QED
      BY <3>3, <3>4
  <2>2. data' = Write(data, m, 4, SizeWord(pos - msg_start))
    BY <1>3, <2>1 DEF EndMsg
  <2>3. DOMAIN data' = DOMAIN data \cup (m \div 4 .. (m + 4) \div 4 - 1)
    <3>1. PICK f \in Nat : f = 4 /\ f % 4 = 0
      OBVIOUS
    <3>2. PICK c : c = SizeWord(pos - msg_start)
      OBVIOUS
    <3>3. m \in Nat /\ m % 4 = 0 /\ data' = Write(data, m, f, c)
      BY <2>1, <2>2, <3>1, <3>2
    <3>0. f \in Nat /\ f % 4 = 0
      BY <3>1
    <3>4. DOMAIN Write(data, m, f, c) = DOMAIN data \cup (m \div 4 .. (m + f) \div 4 - 1)
      BY <3>0, <3>3, WriteFills
    <3> QED
      BY <3>1, <3>3, <3>4
  <2>4. m \div 4 \in m \div 4 .. (m + 4) \div 4 - 1
    BY <2>1
  <2>5. \A w : SizeToCome(w) => w \in DOMAIN data'
    BY <2>1, <2>3, <2>4 DEF SizeToCome
  <2> QED
    BY <1>1, <1>2, <2>3, <2>5 DEF Gapless
<1>4. CASE "BUNDLE" \notin state
  BY <1>1, <1>2, <1>4 DEF EndMsg, Gapless, SizeToCome
<1> QED
  BY <1>3, <1>4

LEMMA StartBundleGapless ==
  ASSUME WriterInv, Gapless, careful, ~failed, base' = base, StartBundle
  PROVE  Gapless'
<1>1. PICK p \in Nat : p = pos /\ p % 4 = 0
  BY TypeParts
<1>2. PICK h \in Nat : h = Header /\ h % 4 = 0
  BY DEF Header
<1>3. PICK d : d = Write(data, p, h, Word(IF k_bundle THEN "#bundle" ELSE "nul"))
  OBVIOUS
<1>4. /\ data' = Write(d, p + h, 8, Word("timetag")) /\ pos' = p + h + 8
      /\ state = {"OUT"}
  BY <1>1, <1>2, <1>3 DEF StartBundle
<1>5. PICK b \in Int : b = base \div 4
  BY TypeParts
<1>6. \A w \in b .. p \div 4 - 1 : w \in DOMAIN data \/ w \in {}
  BY <1>1, <1>4, <1>5 DEF Gapless, SizeToCome
<1>7. \A w \in b .. (p + h) \div 4 - 1 : w \in DOMAIN d \/ w \in {}
  BY <1>1, <1>2, <1>3, <1>6, FilledTo
<1>8. p + h \in Nat /\ (p + h) % 4 = 0 /\ 8 % 4 = 0
  BY <1>1, <1>2, SumAligned
<1>9. \A w \in b .. (p + h + 8) \div 4 - 1 : w \in DOMAIN data' \/ w \in {}
  BY <1>4, <1>7, <1>8, FilledTo
<1>10. \A w \in base' \div 4 .. pos' \div 4 - 1 : w \in DOMAIN data'
  BY <1>4, <1>5, <1>9
<1> QED
  BY <1>10 DEF Gapless

LEMMA WriteArgGapless ==
  ASSUME WriterInv, Gapless, careful, ~failed, ~failed', base' = base,
         WriteArg \/ WritevArg
  PROVE  Gapless'
<1>1. PICK n \in Nat : n % 4 = 0 /\ (Put(n) \/ PutNothing)
  BY ArgIsPut
<1>2. Put(n)
  BY <1>1 DEF PutNothing, Fail
<1>3. PICK p \in Nat : p = pos /\ p % 4 = 0
  BY TypeParts
<1>4. PICK d : d = AddType(data)
  OBVIOUS
<1>5. data' = Write(d, p, n, Word("arg")) /\ pos' = p + n /\ UNCHANGED <<msg_start, state>>
  BY <1>2, <1>3, <1>4 DEF Put, WriteArg, WritevArg
<1>6. DOMAIN data \subseteq DOMAIN d
  BY <1>4 DEF AddType, Write
<1>7. PICK b \in Int : b = base \div 4
  BY TypeParts
<1>8. PICK H : H = {w \in Int : SizeToCome(w)}
  OBVIOUS
<1>9. \A w \in b .. p \div 4 - 1 : w \in DOMAIN d \/ w \in H
  BY <1>3, <1>6, <1>7, <1>8 DEF Gapless
<1>10. \A w \in b .. (p + n) \div 4 - 1 : w \in DOMAIN data' \/ w \in H
  BY <1>1, <1>3, <1>5, <1>9, FilledTo
<1>11. \A w \in base' \div 4 .. pos' \div 4 - 1 : w \in DOMAIN data' \/ SizeToCome(w)'
  BY <1>5, <1>7, <1>8, <1>10 DEF SizeToCome
<1> QED
  BY <1>11 DEF Gapless

(* The packet has no gap through the calls of its caller. *)
WholeInv == WriterInv /\ base % 4 = 0 /\ Gapless

LEMMA WriterCallGapless ==
  ASSUME WholeInv, WriterCall
  PROVE  WholeInv'
<1>1. /\ Next /\ WriterInv /\ Gapless /\ base % 4 = 0
      /\ careful' = \/ packets' # packets
                    \/ /\ careful
                       /\ "COMPLETE" \notin state \/ state' = state
                       /\ state = {"BUNDLE", "MSG"} => "COMPLETE" \notin state'
  BY DEF WriterCall, WholeInv
<1>2. WriterInv'
  BY <1>1, WriterSteps
<1>3. CASE InitWriter \/ InitChild
  <2>1. pos' = base' /\ (base' = 0 \/ base' = pos)
    BY <1>3 DEF InitWriter, InitChild, InitAt
  <2>2. base' % 4 = 0
    BY <1>1, <2>1, TypeParts
  <2>3. PICK b \in Int : b = base' \div 4
    BY <1>1, <2>1, TypeParts
  <2>4. Gapless'
    BY <2>1, <2>3 DEF Gapless
  <2> QED
    BY <1>2, <2>2, <2>4 DEF WholeInv
<1>4. ASSUME Call \/ Writev, base' = base
      PROVE  WholeInv'
  <2> SUFFICES ASSUME careful', ~failed'
               PROVE  Gapless'
    BY <1>1, <1>2, <1>4 DEF Gapless, WholeInv
  <2>1. packets' = packets
    BY <1>4 DEF Call, Writev, WritevStart, WritevArg, WritevEnd, StartAnyMsg,
                StartMsgInside, StartMsgNoRoomForAddress, StartMsgNoRoomForTypes,
                StartMsg, EndMsg, EndMsgOutside, StartBundle, StartBundleFails,
                EndBundle, WriteArg
  <2>2. careful /\ ("COMPLETE" \notin state \/ state' = state)
        /\ (state = {"BUNDLE", "MSG"} => "COMPLETE" \notin state')
    BY <1>1, <2>1
  <2>3. CASE StartAnyMsg \/ WritevStart
    <3>1. PICK n \in StrLens, nargs \in 0 .. MaxArgs : StartMsg(n, nargs)
      BY <2>3 DEF StartAnyMsg, StartMsgInside, StartMsgNoRoomForAddress,
                  StartMsgNoRoomForTypes, WritevStart, Fail
    <3>2. ~failed /\ "COMPLETE" \notin state
      BY <2>2, <3>1 DEF StartMsg
    <3> QED
      BY <1>1, <1>4, <2>2, <3>1, <3>2, StartMsgGapless
  <2>4. CASE EndMsg \/ WritevEnd
    <3>1. EndMsg /\ ~failed
      BY <2>4 DEF WritevEnd, EndMsg
    <3> QED
      BY <1>1, <1>4, <2>2, <3>1, EndMsgGapless
  <2>5. CASE StartBundle
    <3>1. ~failed
      BY <2>5 DEF StartBundle
    <3> QED
      BY <1>1, <1>4, <2>2, <2>5, <3>1, StartBundleGapless
  <2>6. CASE EndBundle
    <3>1. ~failed /\ state # {"BUNDLE", "MSG"} /\ UNCHANGED <<data, pos>>
      BY <2>2, <2>6 DEF EndBundle
    <3>2. ~({"BUNDLE", "MSG"} \subseteq state)
      BY <1>1, <3>1, TypeParts DEF Modes
    <3> QED
      BY <1>1, <1>4, <2>2, <3>1, <3>2 DEF Gapless, SizeToCome
  <2>7. CASE WriteArg \/ WritevArg
    <3>1. ~failed
      <4>1. PICK n \in Nat : n % 4 = 0 /\ (Put(n) \/ PutNothing)
        BY <1>1, <2>7, ArgIsPut
      <4> QED
        BY <4>1 DEF Put, PutNothing, Fail
    <3> QED
      BY <1>1, <1>4, <2>2, <2>7, <3>1, WriteArgGapless
  <2>8. ~EndMsgOutside /\ ~StartBundleFails
    BY DEF EndMsgOutside, StartBundleFails, Fail
  <2> QED
    BY <1>4, <2>3, <2>4, <2>5, <2>6, <2>7, <2>8 DEF Call, Writev
<1> QED
  BY <1>1, <1>3, <1>4 DEF Next

(* What is sent is a datagram: every byte of it has been written. *)
LEMMA SendReceives ==
  ASSUME WholeInv, DumpInv, Send
  PROVE  DumpInv' /\ DepthInv'
<1>1. /\ state = {"COMPLETE"} /\ careful /\ ~failed
      /\ Receive([w \in 0 .. (pos - base) \div 4 - 1 |-> data[base \div 4 + w]], pos - base)
  BY DEF Send
<1>2. PICK b \in Nat : base = 4 * b /\ base \div 4 = b
  BY TypeParts DEF WholeInv
<1>3. PICK q \in Nat : pos = 4 * q /\ pos \div 4 = q
  BY TypeParts DEF WholeInv
<1>4. b <= q
  BY <1>2, <1>3, TypeParts DEF WholeInv
<1>5. PICK k \in Nat : k = q - b
  BY <1>4
<1>6. pos - base = 4 * k
  BY <1>2, <1>3, <1>5
<1>7. (4 * k) \div 4 = k /\ (4 * k + 3) \div 4 = k /\ 4 * k \in Int
  OBVIOUS
<1>8. PICK words : words = [w \in 0 .. k - 1 |-> data[b + w]]
  OBVIOUS
<1>9. Receive(words, 4 * k)
  BY <1>1, <1>2, <1>6, <1>7, <1>8
<1>10. ASSUME NEW w \in 0 .. k - 1
       PROVE  words[w].n \in Int
  <2>1. b + w \in b .. q - 1
    BY <1>5
  <2>2. ~({"BUNDLE", "MSG"} \subseteq state)
    BY <1>1
  <2>3. b + w \in DOMAIN data
    BY <1>1, <1>2, <1>3, <2>1, <2>2 DEF WholeInv, Gapless, SizeToCome
  <2>4. data[b + w].n \in Nat
    BY <2>3, TypeParts DEF WholeInv, BufferOK
  <2> QED
    BY <1>8, <2>4
<1>11. Received(words, 4 * k)
  BY <1>7, <1>8, <1>10 DEF Received
<1> QED
  BY <1>9, <1>11, ReceiveStep, ReceiveDepth

(* The writer, the datagrams of others and the dump of both. *)
RoundTripInv == WholeInv /\ DumpInv /\ DepthInv

LEMMA RoundTripSteps ==
  /\ RInit => RoundTripInv
  /\ RoundTripInv /\ [RNext]_<<vars, rvars>> => RoundTripInv'
<1>1. RInit => RoundTripInv
  <2> SUFFICES ASSUME RInit
               PROVE  RoundTripInv
    OBVIOUS
  <2>1. Init /\ DumpInit
    BY DEF RInit
  <2>2. WriterInv /\ DumpInv /\ DepthInv
    BY <2>1, WriterSteps, DepthInvStep
  <2>3. base % 4 = 0 /\ base \div 4 = 0 /\ pos \div 4 = 0
    BY <2>1 DEF Init
  <2>4. Gapless
    BY <2>3 DEF Gapless
  <2> QED
    BY <2>2, <2>3, <2>4 DEF WholeInv, RoundTripInv
<1>2. RoundTripInv /\ [RNext]_<<vars, rvars>> => RoundTripInv'
  <2> SUFFICES ASSUME WholeInv, DumpInv, DepthInv, [RNext]_<<vars, rvars>>
               PROVE  WholeInv' /\ DumpInv' /\ DepthInv'
    BY DEF RoundTripInv
  <2>1. UNCHANGED <<vars, careful>> => WholeInv'
    BY DEF vars, WholeInv, WriterInv, TypeOK, Aligned, MsgBehindPos, Gapless, SizeToCome
  <2>2. UNCHANGED dvars => DumpInv' /\ DepthInv'
    BY DEF dvars, DumpInv, br, DepthInv
  <2>3. CASE WriterCall
    <3>1. UNCHANGED dvars
      BY <2>3 DEF WriterCall
    <3> QED
      BY <2>2, <2>3, <3>1, WriterCallGapless
  <2>4. CASE Send
    <3>1. UNCHANGED <<vars, careful>>
      BY <2>4 DEF Send
    <3> QED
      BY <2>1, <2>4, <3>1, SendReceives
  <2>5. CASE ReceiveOther
    <3>1. PICK d \in Datagrams : Receive(d.words, d.n)
      BY <2>5 DEF ReceiveOther
    <3>2. Received(d.words, d.n)
      BY DumpAssumption DEF DumpAssumption
    <3>3. UNCHANGED <<vars, careful>>
      BY <2>5 DEF ReceiveOther
    <3> QED
      BY <2>1, <3>1, <3>2, <3>3, ReceiveStep, ReceiveDepth
  <2>6. CASE Dump
    <3>1. DumpTurn /\ UNCHANGED <<vars, careful>>
      BY <2>6 DEF Dump
    <3> QED
      BY <2>1, <3>1, DepthInvStep DEF DumpNext
  <2>7. CASE Forget
    <3>1. /\ UNCHANGED <<vars, careful, call, readers>>
          /\ buffer' = [w \in {} |-> 0] /\ dumped' = <<>>
          /\ call = <<>> /\ readers = <<>>
      BY <2>7 DEF Forget, Dumping
    <3>2. /\ \A r : <<>> \in Seq(r)
          /\ DOMAIN <<>> = {} /\ DOMAIN [w \in {} |-> 0] = {}
          /\ 0 .. 0 - 1 = {} /\ 0 \in Nat
      OBVIOUS
    <3>3. DumpInv'
      BY <3>1, <3>2 DEF DumpInv, WordsOK, ReadersOK, MessagesOK
    <3>4. DepthInv'
      BY <3>1, <3>2 DEF DepthInv
    <3> QED
      BY <2>1, <3>1, <3>3, <3>4
  <2>8. CASE UNCHANGED <<vars, rvars>>
    BY <2>1, <2>2, <2>8 DEF rvars
  <2> QED
    BY <2>3, <2>4, <2>5, <2>6, <2>7, <2>8 DEF RNext
<1> QED
  BY <1>1, <1>2

(* Packets of the writer are datagrams like any others: what a careful caller sends
   has been written to the last word, and the dump of it, too, reads and prints
   inside of it and prints nothing twice (write.c:48-157, udp_dump.c:93-113). *)
THEOREM PacketsStayInside == RSpec => []DumpInside
<1>1. RoundTripInv => DumpInside
  BY DumpInvInside DEF RoundTripInv
<1> QED
  BY <1>1, RoundTripSteps, PTL DEF RSpec

(* Each turn of the dump of a packet, too, leaves less of it ahead, so that no packet
   keeps dump_osc_packet in its loops or its calls (udp_dump.c:93-113). *)
THEOREM PacketTurnsAdvance ==
  RSpec => [][Dump => Ahead \in Nat /\ Ahead' \in Nat /\ Ahead' < Ahead]_<<vars, rvars>>
<1>1. RoundTripInv /\ [RNext]_<<vars, rvars>>
        => [Dump => Ahead \in Nat /\ Ahead' \in Nat /\ Ahead' < Ahead]_<<vars, rvars>>
  BY DepthInvStep DEF RoundTripInv, Dump
<1> QED
  BY <1>1, RoundTripSteps, PTL DEF RSpec
=============================================================================
