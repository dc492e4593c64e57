----------------------------- MODULE OscWriter -----------------------------
(***************************************************************************)
(* The packet writer of src/write.c over one caller's buffer.  The caller  *)
(* fills the buffer with packets, one after another: messages, bundles of  *)
(* messages.                                                               *)
(*                                                                         *)
(* Every field the writer writes starts at a multiple of 4, so the buffer  *)
(* is a function from word indices to what the word is part of.  Payloads  *)
(* and addresses are left out; their lengths are what the writer decides   *)
(* by.  All positions are in the caller's buffer: writer->data is its byte *)
(* base, and the code's pos is pos - base.                                 *)
(***************************************************************************)
EXTENDS Integers, Sequences

CONSTANTS
  Len32,      \* the bytes in the buffer; writer->len is Len32 - base
  StrLens,    \* strlen of the addresses and string arguments of the caller
  BlobLens,   \* the sizes of its blobs
  MaxArgs,    \* the most arguments it declares for a message
  Bundles,    \* whether it writes bundles
  Careless,   \* whether it goes on after the end of a packet, and ends bundles
              \* inside a message
  MaxPackets, \* bound: the packets it writes
  MaxPos      \* bound: it starts no call with writer->pos above this

ASSUME WriterAssumption ==
  /\ Len32 \in Nat /\ MaxArgs \in Nat /\ MaxPackets \in Nat /\ MaxPos \in Nat
  /\ StrLens \subseteq Nat
  /\ BlobLens \subseteq Nat
  /\ Bundles \in BOOLEAN
  /\ Careless \in BOOLEAN

VARIABLES
  data,       \* what the words written since the buffer was taken hold
  base,       \* writer->data
  pos, msg_start, type_pos,
  state,      \* the flags of writer->state
  k_bundle,   \* whether the static pointer k_bundle is still at the '#'
  left,       \* declared arguments of the message that are still to be written
  failed,     \* a call has answered OSC_ERROR since the writer's init
  va,         \* a call of osc_writev is in progress
  elems,      \* the elements of the bundle so far: where each starts, its bytes
  packets     \* packets begun

vars == <<data, base, pos, msg_start, type_pos, state, k_bundle, left, failed, va, elems, packets>>

ROUND32(i) == ((i + 3) \div 4) * 4

(* Words p/4 .. (p+n)/4 - 1 become content c. *)
Write(d, p, n, c) ==
  [w \in DOMAIN d \cup {p \div 4 + k : k \in 0 .. n \div 4 - 1} |->
     IF w \in p \div 4 .. (p + n) \div 4 - 1 THEN c ELSE d[w]]

Word(kind) == [k |-> kind, n |-> 0]
SizeWord(n) == [k |-> "size", n |-> n]

(* Mutant of StringBytes: no padding. *)
StringUnpadded(n) == n + 1

(* What a string of strlen n takes with its NUL and its padding. *)
StringBytes(n) == ROUND32(n + 1)

(* ENSURE_REMAIN at p, of an int and of a size_t: the second converts a negative
   rest to a very large one. *)
Remain(p, n) == Len32 - p >= n
RemainUnsigned(p, n) == Len32 - p >= n \/ p > Len32

Init ==
  /\ data = [w \in {} |-> Word("none")]
  /\ base = 0
  /\ pos = 0 /\ msg_start = 0 /\ type_pos = 0
  /\ state = {"OUT"}
  /\ k_bundle = TRUE
  /\ left = 0
  /\ failed = FALSE
  /\ va = FALSE
  /\ elems = <<>>
  /\ packets = 1

(* osc_msg_writer_init, for the next packet.  msg_start and type_pos keep what they
   hold. *)
InitAt(b) ==
  /\ packets < MaxPackets
  /\ packets' = packets + 1
  /\ base' = b /\ pos' = b
  /\ state' = {"OUT"}
  /\ left' = 0
  /\ failed' = FALSE
  /\ elems' = <<>>
  /\ UNCHANGED <<msg_start, type_pos, k_bundle>>

(* Over the caller's buffer. *)
InitWriter == InitAt(0) /\ data' = [w \in {} |-> Word("none")]

(* Over what the caller's writer has left of its buffer.  The parent's pos stays,
   so the caller is done with the parent. *)
InitChild == InitAt(pos) /\ UNCHANGED data

Fail == failed' = TRUE

(* What a careful caller does not do. *)
Allowed == Careless \/ "COMPLETE" \notin state
-----------------------------------------------------------------------------
(* osc_msg_writer_start_msg.  Inside a bundle it leaves room for the size before
   the first check. *)
MsgPos == IF state = {"BUNDLE"} THEN pos + 4 ELSE pos

StartMsgInside ==
  /\ "MSG" \in state
  /\ Fail
  /\ UNCHANGED <<data, pos, msg_start, type_pos, state, k_bundle, left, elems, packets>>

StartMsgNoRoomForAddress(n) ==
  /\ "MSG" \notin state
  /\ pos <= MaxPos
  /\ ~RemainUnsigned(MsgPos, ROUND32(n))
  /\ pos' = MsgPos
  /\ msg_start' = MsgPos
  /\ Fail
  /\ UNCHANGED <<data, type_pos, state, k_bundle, left, elems, packets>>

StartMsgNoRoomForTypes(n, nargs) ==
  /\ "MSG" \notin state
  /\ pos <= MaxPos
  /\ RemainUnsigned(MsgPos, ROUND32(n))
  /\ ~Remain(MsgPos + StringBytes(n), ROUND32(nargs))
  /\ data' = Write(data, MsgPos, StringBytes(n), Word("address"))
  /\ pos' = MsgPos + StringBytes(n)
  /\ msg_start' = MsgPos
  /\ Fail
  /\ UNCHANGED <<type_pos, state, k_bundle, left, elems, packets>>

StartMsg(n, nargs) ==
  /\ "MSG" \notin state
  /\ pos <= MaxPos
  /\ RemainUnsigned(MsgPos, ROUND32(n))
  /\ Remain(MsgPos + StringBytes(n), ROUND32(nargs))
  /\ data' = Write(Write(data, MsgPos, StringBytes(n), Word("address")),
                   MsgPos + StringBytes(n), ROUND32(nargs), Word("types"))
  /\ pos' = MsgPos + StringBytes(n) + ROUND32(nargs)
  /\ msg_start' = MsgPos
  /\ type_pos' = MsgPos + StringBytes(n)
  /\ state' = state \cup {"MSG"}
  /\ left' = nargs
  /\ UNCHANGED <<k_bundle, failed, elems, packets>>

(* Mutants of EndMsg: the size is written over the start of the message; the size
   counts itself. *)
EndMsgSizeAtStart ==
  /\ "MSG" \in state
  /\ IF "BUNDLE" \in state
     THEN /\ data' = Write(data, msg_start, 4, SizeWord(pos - msg_start))
          /\ state' = state \ {"MSG"}
          /\ elems' = Append(elems, <<msg_start, pos - msg_start>>)
     ELSE /\ state' = {"COMPLETE"}
          /\ UNCHANGED <<data, elems>>
  /\ left' = 0
  /\ UNCHANGED <<pos, msg_start, type_pos, k_bundle, failed, packets>>

EndMsgCountsSize ==
  /\ "MSG" \in state
  /\ IF "BUNDLE" \in state
     THEN /\ data' = Write(data, msg_start - 4, 4, SizeWord(pos - msg_start + 4))
          /\ state' = state \ {"MSG"}
          /\ elems' = Append(elems, <<msg_start, pos - msg_start>>)
     ELSE /\ state' = {"COMPLETE"}
          /\ UNCHANGED <<data, elems>>
  /\ left' = 0
  /\ UNCHANGED <<pos, msg_start, type_pos, k_bundle, failed, packets>>

(* osc_msg_writer_end_msg. *)
EndMsg ==
  /\ "MSG" \in state
  /\ IF "BUNDLE" \in state
     THEN /\ data' = Write(data, msg_start - 4, 4, SizeWord(pos - msg_start))
          /\ state' = state \ {"MSG"}
          /\ elems' = Append(elems, <<msg_start, pos - msg_start>>)
     ELSE /\ state' = {"COMPLETE"}
          /\ UNCHANGED <<data, elems>>
  /\ left' = 0
  /\ UNCHANGED <<pos, msg_start, type_pos, k_bundle, failed, packets>>

EndMsgOutside ==
  /\ "MSG" \notin state
  /\ Fail
  /\ UNCHANGED <<data, pos, msg_start, type_pos, state, k_bundle, left, elems, packets>>

(* osc_msg_writer_start_bundle.  WRITE_STRING moves the static k_bundle to its
   NUL, so the process has one "#bundle" to write. *)
Header == IF k_bundle THEN 8 ELSE 4

StartBundle ==
  /\ Bundles
  /\ state = {"OUT"}
  /\ Remain(pos, 12)
  /\ data' = Write(Write(data, pos, Header, Word(IF k_bundle THEN "#bundle" ELSE "nul")),
                   pos + Header, 8, Word("timetag"))
  /\ pos' = pos + Header + 8
  /\ state' = {"BUNDLE"}
  /\ k_bundle' = FALSE
  /\ UNCHANGED <<msg_start, type_pos, left, failed, elems, packets>>

StartBundleFails ==
  /\ Bundles
  /\ state # {"OUT"} \/ ~Remain(pos, 12)
  /\ Fail
  /\ UNCHANGED <<data, pos, msg_start, type_pos, state, k_bundle, left, elems, packets>>

(* osc_msg_writer_end_bundle, in whatever state. *)
EndBundle ==
  /\ Bundles
  /\ state' = {"COMPLETE"}
  /\ UNCHANGED <<data, pos, msg_start, type_pos, k_bundle, left, failed, elems, packets>>
-----------------------------------------------------------------------------
(* ADD_TYPE, before any check. *)
AddType(d) == Write(d, (type_pos \div 4) * 4, 4, Word("types"))

(* A write of n bytes of argument that the check let through. *)
Put(n) ==
  /\ data' = Write(AddType(data), pos, n, Word("arg"))
  /\ pos' = pos + n
  /\ UNCHANGED failed

PutNothing ==
  /\ data' = AddType(data)
  /\ Fail
  /\ UNCHANGED pos

(* osc_msg_write_null, _true, _false, _infinity. *)
WriteEmpty == Put(0)

(* osc_msg_write_int32, _float: 4 bytes; _int64, _timetag, _double: 8. *)
WriteFixed(n) == IF Remain(pos, n) THEN Put(n) ELSE PutNothing

(* osc_msg_write_str. *)
WriteStr(n) == IF RemainUnsigned(pos, ROUND32(n)) THEN Put(StringBytes(n)) ELSE PutNothing

(* osc_msg_write_blob. *)
WriteBlob(sz) == IF Remain(pos, 4 + ROUND32(sz)) THEN Put(4 + ROUND32(sz)) ELSE PutNothing

(* A caller writes one argument for each one it declared, whether or not the
   write succeeds. *)
WriteArg ==
  /\ left > 0
  /\ pos <= MaxPos
  /\ \/ WriteEmpty
     \/ \E n \in {4, 8} : WriteFixed(n)
     \/ \E n \in StrLens : WriteStr(n)
     \/ \E sz \in BlobLens : WriteBlob(sz)
  /\ type_pos' = type_pos + 1
  /\ left' = left - 1
  /\ UNCHANGED <<msg_start, state, k_bundle, elems, packets>>

StartAnyMsg ==
  \/ StartMsgInside
  \/ \E n \in StrLens : StartMsgNoRoomForAddress(n)
  \/ \E n \in StrLens, nargs \in 0 .. MaxArgs :
       StartMsgNoRoomForTypes(n, nargs) \/ StartMsg(n, nargs)

(* An argument of osc_writev, which writes the size of a blob and not its data,
   and leaves its message open when there is no room or it does not know the
   type. *)
WritevPut(n) == Put(n) /\ va' = TRUE
WritevFails == PutNothing /\ va' = FALSE

WritevArg ==
  /\ va
  /\ left > 0
  /\ \/ WritevPut(0)
     \/ \E n \in {4, 8} : IF Remain(pos, n) THEN WritevPut(n) ELSE WritevFails
     \/ \E n \in StrLens : IF RemainUnsigned(pos, ROUND32(n))
                          THEN WritevPut(StringBytes(n)) ELSE WritevFails
     \/ \E sz \in BlobLens : IF Remain(pos, 4 + ROUND32(sz))
                           THEN WritevPut(4) ELSE WritevFails
     \/ WritevFails
  /\ type_pos' = type_pos + 1
  /\ left' = left - 1
  /\ UNCHANGED <<msg_start, state, k_bundle, elems, packets>>

(* osc_writev: the start of a message, its arguments, its end.  A start that fails
   is one of StartAnyMsg. *)
WritevStart ==
  /\ ~va
  /\ Allowed
  /\ \E n \in StrLens, nargs \in 0 .. MaxArgs : StartMsg(n, nargs)
  /\ va' = TRUE

WritevEnd ==
  /\ va
  /\ left = 0
  /\ EndMsg
  /\ va' = FALSE

Call ==
  \/ Allowed /\ StartAnyMsg
  \/ EndMsg
  \/ EndMsgOutside
  \/ StartBundle
  \/ StartBundleFails
  \/ (Careless \/ "MSG" \notin state) /\ EndBundle
  \/ WriteArg

Writev == WritevStart \/ WritevArg \/ WritevEnd

Next ==
  \/ ~va /\ (InitWriter \/ InitChild) /\ UNCHANGED va
  \/ ~va /\ Call /\ UNCHANGED <<va, base>>
  \/ Writev /\ UNCHANGED base

Spec == Init /\ [][Next]_vars
-----------------------------------------------------------------------------
Contents == {"address", "types", "arg", "size", "#bundle", "nul", "timetag"}

(* A packet is not begun, a bundle, or complete; a message may be open in it. *)
Modes == {{"OUT"}, {"OUT", "MSG"}, {"BUNDLE"}, {"BUNDLE", "MSG"}, {"COMPLETE"},
          {"COMPLETE", "MSG"}}

(* The state of a writer. *)
TypeOK ==
  /\ DOMAIN data \subseteq Nat
  /\ \A w \in DOMAIN data : data[w].k \in Contents /\ data[w].n \in Nat
  /\ base \in Nat /\ pos \in Nat /\ msg_start \in Nat /\ type_pos \in Nat
  /\ state \in Modes
  /\ k_bundle \in BOOLEAN
  /\ left \in 0 .. MaxArgs
  /\ failed \in BOOLEAN
  /\ va \in BOOLEAN
  /\ elems \in Seq(Nat \X Nat)
  /\ packets \in 1 .. MaxPackets \cup {1}

(* Every field starts at a multiple of 4 (write.c:13-14, 63): the 32-bit stores
   of WRITE_FIXED and end_msg are aligned, after any calls, failed ones too. *)
Aligned == pos % 4 = 0 /\ ("MSG" \in state => msg_start % 4 = 0)

(* No call writes over a word that an earlier one has written: type tags stay in
   the region that start_msg kept for them, the size of an element goes to the
   word kept for it, and a child leaves its parent's packet alone (write.c:33,
   41-45, 63-66, 76). *)
WriteOnce ==
  [][base' # 0 \/ packets' = packets => \A w \in DOMAIN data : data'[w] = data[w]]_vars

(* The writer stays in its buffer: "if (writer->len - writer->pos < (rlen))
   { return OSC_ERROR; }" (write.c:17) comes before each field. *)
WithinBuffer == \A w \in DOMAIN data : 4 * w + 4 <= Len32

(* An open message is behind writer->pos, and in a bundle behind its size, which
   is in the writer's own part of the buffer. *)
MsgBehindPos ==
  /\ base <= pos
  /\ "MSG" \in state =>
       /\ msg_start <= pos
       /\ "BUNDLE" \in state => msg_start >= base + 4

(* The inductive invariant of BundleRoundTripProofs. *)
WriterInv == TypeOK /\ Aligned /\ MsgBehindPos
=============================================================================
