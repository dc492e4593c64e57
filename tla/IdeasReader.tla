---------------------------- MODULE IdeasReader ----------------------------
(***************************************************************************)
(* The reader of ideas/osc.c over what IdeasBundle has written: it takes a *)
(* packet, a message or a bundle, converts the sizes of a bundle in place, *)
(* and walks the messages and their arguments.                             *)
(***************************************************************************)
EXTENDS IdeasBundle

VARIABLES
  phase,     \* of the packet's receiver: "none", "init", "messages", "args",
             \* "end", "error", or "astray" when it reads what is no word of the packet
  packet,    \* its words
  msg_start, \* of the loop of osc_reader_init
  msg_ptr, msg_end,
  tags,      \* the tags from type_ptr on, or NULL
  arg_ptr,
  got,       \* what the receiver has read: messages and their arguments
  char_signed

rvars == <<phase, packet, msg_start, msg_ptr, msg_end, tags, arg_ptr, got, char_signed>>

PacketLen == 4 * Len(packet)

Aligned(p) == p % 4 = 0 /\ p >= 0 /\ p < PacketLen

(* The word at an offset. *)
At(p) == packet[p \div 4 + 1]

IsBundle == At(0).tags = <<"#">>

RInit ==
  /\ Init
  /\ phase = "none"
  /\ packet = <<>>
  /\ msg_start = 0
  /\ msg_ptr = NULL /\ msg_end = NULL
  /\ tags = NULL /\ arg_ptr = NULL
  /\ got = <<>>
  /\ char_signed \in BOOLEAN

Write == phase = "none" /\ Next /\ UNCHANGED rvars

(* What the writer counts is sent, and the last word of it may be lost. *)
Send ==
  /\ phase = "none"
  /\ len > 0
  /\ \E lost \in 0 .. 1 :
       packet' = [w \in 1 .. Max({len \div 4 - lost, 1}) |-> data[w - 1]]
  /\ phase' = "init"
  /\ msg_start' = 20
  /\ UNCHANGED <<wvars, msg_ptr, msg_end, tags, arg_ptr, got, char_signed>>
-----------------------------------------------------------------------------
(* Mutant of ConvertSize: the size stays as it came. *)
ConvertSizeNot ==
  /\ phase = "init" /\ IsBundle
  /\ msg_start < PacketLen
  /\ IF Aligned(msg_start - 4)
     THEN LET hb_len == osc_ntoh32(At(msg_start - 4).n)
          IN /\ msg_start' = msg_start + hb_len
             /\ UNCHANGED <<phase, packet>>
     ELSE phase' = "astray" /\ UNCHANGED <<packet, msg_start>>
  /\ UNCHANGED <<msg_ptr, msg_end, tags, arg_ptr, got>>

(* A turn of the loop of osc_reader_init: from one size on by as much, to what is
   the next size in a bundle of one message only. *)
ConvertSize ==
  /\ phase = "init" /\ IsBundle
  /\ msg_start < PacketLen
  /\ IF Aligned(msg_start - 4)
     THEN LET hb_len == osc_ntoh32(At(msg_start - 4).n)
          IN /\ packet' = [packet EXCEPT ![(msg_start - 4) \div 4 + 1].n = hb_len]
             /\ msg_start' = msg_start + hb_len
             /\ UNCHANGED phase
     ELSE phase' = "astray" /\ UNCHANGED <<packet, msg_start>>
  /\ UNCHANGED <<msg_ptr, msg_end, tags, arg_ptr, got>>

InitReturns ==
  /\ phase = "init"
  /\ IsBundle => msg_start >= PacketLen
  /\ phase' = IF IsBundle /\ msg_start # PacketLen THEN "error" ELSE "messages"
  /\ UNCHANGED <<packet, msg_start, msg_ptr, msg_end, tags, arg_ptr, got>>

(* strlen + 1, rounded; behind the packet is a NUL. *)
StrBytes(p) ==
  LET ends == {w \in p \div 4 + 1 .. Len(packet) : packet[w].nul}
  IN IF ends = {} THEN PacketLen - p + 4 ELSE 4 * Min(ends) - p

SizeAt(p) == At(p - 4).n

(* osc_reader_start_msg: where the next message lies, or NULL. *)
NextMsgPtr ==
  IF IsBundle
  THEN IF msg_end = NULL THEN 20
       ELSE IF msg_ptr = NULL \/ msg_end = PacketLen THEN NULL ELSE msg_end + 4
  ELSE IF msg_end = NULL THEN 0 ELSE NULL

StartMsgEnd ==
  /\ phase = "messages"
  /\ NextMsgPtr = NULL
  /\ msg_ptr' = NULL
  /\ phase' = "end"
  /\ UNCHANGED <<packet, msg_start, msg_end, tags, arg_ptr, got>>

(* The address, tags and first argument of the message from p to e. *)
StartMsgAt(p, e) ==
  LET type_ptr == p + StrBytes(p)
      first    == type_ptr + StrBytes(type_ptr)
      typed    == type_ptr < e /\ At(type_ptr).tags # <<>>
  IN /\ msg_ptr' = p /\ msg_end' = e
     /\ IF e > PacketLen
        THEN phase' = "astray" /\ UNCHANGED <<tags, arg_ptr, got>>
        ELSE IF (e - p) % 4 # 0 \/ type_ptr > e \/ (typed /\ first > e)
        THEN phase' = "error" /\ UNCHANGED <<tags, arg_ptr, got>>
        ELSE /\ phase' = "args"
             /\ tags' = IF typed THEN Tail(At(type_ptr).tags) ELSE NULL
             /\ arg_ptr' = IF typed THEN first ELSE IF type_ptr = e THEN NULL ELSE type_ptr
             /\ got' = Append(got, [tag |-> "message", n |-> StrBytes(p)])

StartMsg ==
  /\ phase = "messages"
  /\ NextMsgPtr # NULL
  /\ IF IsBundle
     THEN StartMsgAt(NextMsgPtr, NextMsgPtr + SizeAt(NextMsgPtr))
     ELSE StartMsgAt(0, PacketLen)
  /\ UNCHANGED <<packet, msg_start>>
-----------------------------------------------------------------------------
(* A message without tags, of which osc_reader_msg_is_typed tells the receiver: it
   goes on with the next.  osc_reader_get_arg answers END through a char, which is
   an error where char has no sign, and there the receiver stops. *)
GetArgNone ==
  /\ phase = "args"
  /\ tags \in {NULL, <<>>}
  /\ phase' = IF tags = NULL \/ char_signed THEN "messages" ELSE "error"
  /\ UNCHANGED <<packet, msg_start, msg_ptr, msg_end, tags, arg_ptr, got>>

(* What an argument takes, and what is read of it. *)
ArgBytes(tag) ==
  CASE tag \in NoData       -> 0
    [] tag \in DOMAIN Fixed -> Fixed[tag]
    [] tag \in Strings      -> StrBytes(arg_ptr)
    [] tag = "b"            -> IF arg_ptr = msg_end THEN 4
                               ELSE 4 + ROUND32(osc_ntoh32(At(arg_ptr).n))

(* Of a blob the receiver has its data, here from the message on, and not its size:
   the two are members of a union (ideas/osc.h:89-92), and the pointer is stored
   last. *)
ArgValue(tag) ==
  CASE tag \in NoData       -> 0
    [] tag \in DOMAIN Fixed -> osc_ntoh32(At(arg_ptr).n)
    [] tag \in Strings      -> StrBytes(arg_ptr)
    [] tag = "b"            -> arg_ptr + 4 - msg_ptr

(* Mutant of GetArg: a blob's data are not skipped. *)
GetArgStaysAtBlob ==
  /\ phase = "args"
  /\ tags \notin {NULL, <<>>}
  /\ tags' = Tail(tags)
  /\ IF Known([tag |-> Head(tags)]) /\ arg_ptr + ArgBytes(Head(tags)) <= msg_end
     THEN /\ got' = Append(got, [tag |-> Head(tags), n |-> ArgValue(Head(tags))])
          /\ arg_ptr' = arg_ptr + (IF Head(tags) = "b" THEN 4 ELSE ArgBytes(Head(tags)))
          /\ UNCHANGED phase
     ELSE phase' = "error" /\ UNCHANGED <<arg_ptr, got>>
  /\ UNCHANGED <<packet, msg_start, msg_ptr, msg_end>>

(* osc_reader_get_arg and osc_reader_get_arg_int32 .. _blob.  The receiver stops at
   an error. *)
GetArg ==
  /\ phase = "args"
  /\ tags \notin {NULL, <<>>}
  /\ tags' = Tail(tags)
  /\ IF Known([tag |-> Head(tags)]) /\ arg_ptr + ArgBytes(Head(tags)) <= msg_end
     THEN /\ got' = Append(got, [tag |-> Head(tags), n |-> ArgValue(Head(tags))])
          /\ arg_ptr' = arg_ptr + ArgBytes(Head(tags))
          /\ UNCHANGED phase
     ELSE phase' = "error" /\ UNCHANGED <<arg_ptr, got>>
  /\ UNCHANGED <<packet, msg_start, msg_ptr, msg_end>>

Read ==
  /\ \/ ConvertSize \/ InitReturns
     \/ StartMsgEnd \/ StartMsg
     \/ GetArgNone \/ GetArg
  /\ UNCHANGED <<wvars, char_signed>>

RNext == Write \/ Send \/ Read

RSpec == RInit /\ [][RNext]_<<wvars, rvars>> /\ WF_<<wvars, rvars>>(Read)
-----------------------------------------------------------------------------
(* Where the first k arguments of m end, in words from the message on. *)
Bodies(m) == [i \in DOMAIN m.args |-> FlattenSeq(ArgFields(m.args[i]))]

Place(m, k) ==
  Len(Text(m.address)) + Len(Types(m.args)) + Len(FlattenSeq(SubSeq(Bodies(m), 1, k)))

(* What the receiver of m reads, and nothing of an argument that has no data. *)
ReadOf(m) ==
  <<[tag |-> "message", n |-> ROUND32(m.address + 1)]>>
  \o [i \in DOMAIN m.args |->
        [tag |-> m.args[i].tag,
         n   |-> CASE m.args[i].tag \in NoData  -> 0
                   [] m.args[i].tag \in Strings -> ROUND32(m.args[i].n + 1)
                   [] m.args[i].tag = "b"       -> 4 * Place(m, i - 1) + 4
                   [] OTHER                     -> m.args[i].n]]

One == Len(written) = 1 /\ ~spoiled
Whole == PacketLen = len

(* A message, alone or in a bundle of its own, reads back: osc_reader_init accepts
   it, and the receiver gets its address and its arguments, each with its tag and
   its value, of a blob its data where they lie and never its size, and then the
   end, or where char has no sign an error; of a message that lost its last word it
   gets the first ones, as they were (osc.c:40-100, 140-162, 176-364,
   ideas/osc.h:79-94). *)
OneReadsBack ==
  One =>
    /\ phase # "astray"
    /\ IsPrefix(got, ReadOf(written[1]))
    /\ Whole /\ phase \in {"end", "error"} => got = ReadOf(written[1])
    /\ Whole /\ phase = "error" => ~char_signed

(* The receiver of one message comes to the end of it or to an error: the loop of
   osc_reader_init ends (osc.c:190-195). *)
OneIsRead == One /\ phase = "init" ~> phase \in {"end", "error"}
=============================================================================
