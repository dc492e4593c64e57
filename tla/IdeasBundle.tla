---------------------------- MODULE IdeasBundle ----------------------------
(***************************************************************************)
(* The first OSC prototype, ideas/osc.c: its bundle writer with the TUIO   *)
(* bundles on top.  A call formats one whole message or fails on the way.  *)
(*                                                                         *)
(* A field takes whole words.  Of a word the reader sees whether a byte of *)
(* it is NUL, its value as an int32_t in memory and, of the first word of  *)
(* the type tags, the tags.                                                *)
(***************************************************************************)
EXTENDS ByteOrder, SequencesExt

CONSTANTS
  BufferSizes, \* of the buffers that callers have
  Messages,    \* what callers write: [address, args]
  Sources,     \* strlen of the names of TUIO sources
  AliveIds,    \* the session ids of the alive objects
  MaxAlive,    \* bound: alive objects
  MaxCalls,    \* bound: calls that write to a bundle
  NULL

Fixed == [i |-> 4, f |-> 4, h |-> 8, t |-> 8, d |-> 8]
NoData == {"T", "F", "N", "I"}
Strings == {"s", "S"}

(* An argument is a tag and an int32_t, of a string its length, of a blob its size.
   Tags of no kind are not known. *)
MaxInt32 == 2147483647
Int32s == -MaxInt32 - 1 .. MaxInt32
TypeTags == NoData \cup DOMAIN Fixed \cup Strings \cup {"b"} \cup STRING
Argument ==
  {a \in [tag : TypeTags, n : Int32s] : a.tag \in Strings \cup {"b"} => a.n >= 0}
Message  == [address : Nat, args : Seq(Argument)]

ASSUME IdeasAssumption ==
  /\ \A n \in BufferSizes : n \in 0 .. MaxInt32 /\ n % 4 = 0
  /\ Messages \subseteq Message
  /\ Sources \subseteq 0 .. MaxInt32 /\ AliveIds \subseteq Int
  /\ MaxAlive \in Nat /\ MaxCalls \in Nat
  /\ NULL \notin Int /\ NULL \notin Seq(TypeTags)

VARIABLES
  data,        \* the words written
  buffer_end,  \* offsets in the buffer, buffer_pos may be NULL
  buffer_pos,
  len,         \* bundle->len, or what osc_writev answered for a message of its own
  type,        \* the TUIO profile, NULL before tuio_bundle_start
  written,     \* the messages that the successful calls have written since the start
  places,      \* history: where they have put them, each with its size in a bundle
  failed,      \* a call has answered 0 since the start
  spoiled,     \* what comes after a failed call or a list of alive objects
  calls

wvars ==
  <<data, buffer_end, buffer_pos, len, type, written, places, failed, spoiled, calls>>

ROUND32(i) == ((i + 3) \div 4) * 4

(* The words of a string of strlen n; letters make a large number, a NUL alone is
   0. *)
Letters == osc_hton32(1073741824)

Tagged(n, tags) ==
  LET last == ROUND32(n + 1) \div 4
  IN [w \in 1 .. last |-> [nul  |-> w = last,
                          n    |-> IF w = last /\ n % 4 = 0 THEN 0 ELSE Letters,
                          tags |-> IF w = 1 THEN tags ELSE <<>>]]

Text(n) == Tagged(n, <<>>)

IntWord(n) == [nul |-> TRUE, n |-> osc_hton32(n), tags |-> <<>>]

(* A comma and the type tags. *)
Types(args) ==
  Tagged(Len(args) + 1, <<",">> \o [i \in DOMAIN args |-> args[i].tag])

Blob(n) == [w \in 1 .. ROUND32(n) \div 4 |-> [nul |-> FALSE, n |-> Letters, tags |-> <<>>]]

(* The fields of an argument, each of which is written when there is room. *)
ArgFields(arg) ==
  CASE arg.tag \in NoData      -> <<>>
    [] arg.tag \in DOMAIN Fixed -> << [w \in 1 .. Fixed[arg.tag] \div 4 |-> IntWord(arg.n)] >>
    [] arg.tag \in Strings     -> <<Text(arg.n)>>
    [] arg.tag = "b"           -> << <<IntWord(arg.n)>>, Blob(arg.n) >>

Known(arg) == arg.tag \in NoData \cup DOMAIN Fixed \cup Strings \cup {"b"}

(* Of a format with a tag that is not known, the fields before it. *)
KnownArgs(m) ==
  IF \A i \in DOMAIN m.args : Known(m.args[i]) THEN m.args
  ELSE SubSeq(m.args, 1, Min({i \in DOMAIN m.args : ~Known(m.args[i])}) - 1)

Fields(m) ==
  <<Text(m.address), Types(m.args)>>
  \o FlattenSeq([i \in DOMAIN KnownArgs(m) |-> ArgFields(m.args[i])])

Encoded(m) == FlattenSeq(Fields(m))

Bytes(words) == 4 * Len(words)

(* Mutant of Fits: a string asks for room without its NUL, as in write.c:60. *)
FitsWithoutNul(words, room) == Bytes(words) <= room + 4

(* osc_write_aligned and WRITE_FIXED write what has room. *)
Fits(words, room) == Bytes(words) <= room

(* osc_writev: it succeeds, or what it has written on the way. *)
Succeeds(m, room) == KnownArgs(m) = m.args /\ Fits(Encoded(m), room)

WrittenOf(m, room) ==
  FlattenSeq(SubSeq(Fields(m), 1,
    Max({k \in 0 .. Len(Fields(m)) : Fits(FlattenSeq(SubSeq(Fields(m), 1, k)), room)})))

Put(d, at, words) ==
  [w \in DOMAIN d \cup {at \div 4 + k : k \in 0 .. Len(words) - 1} |->
     IF w \in at \div 4 .. at \div 4 + Len(words) - 1 THEN words[w - at \div 4 + 1] ELSE d[w]]

(* The comma is written before the room for the format is checked, over the first
   byte of a word. *)
Comma(word) ==
  [word EXCEPT !.n = Letters, !.tags = IF @ = <<>> THEN <<",">> ELSE @]

(* What a call that fails leaves in the buffer from at on. *)
PutFailed(d, at, m, room) ==
  LET ws == WrittenOf(m, room)
      w  == at \div 4 + Len(ws)
  IN Put(d, at, IF ws = Text(m.address) /\ Bytes(ws) < room THEN Append(ws, Comma(d[w])) ELSE ws)

Init ==
  /\ buffer_end \in BufferSizes
  /\ data = [w \in 0 .. buffer_end \div 4 - 1 |-> IntWord(0)]
  /\ buffer_pos = 0 /\ len = 0
  /\ type = NULL
  /\ written = <<>> /\ places = <<>>
  /\ failed = FALSE /\ spoiled = FALSE
  /\ calls = 0
-----------------------------------------------------------------------------
(* osc_writev on a buffer of its own. *)
WriteMessage(m) ==
  /\ calls = 0 /\ buffer_pos = 0
  /\ Succeeds(m, buffer_end)
  /\ data' = Put(data, 0, Encoded(m))
  /\ len' = Bytes(Encoded(m))
  /\ written' = <<m>> /\ places' = <<0>>
  /\ calls' = MaxCalls
  /\ UNCHANGED <<buffer_pos, type, failed, spoiled>>

(* It answers -1, and there is no packet. *)
WriteMessageFails(m) ==
  /\ calls = 0 /\ buffer_pos = 0
  /\ ~Succeeds(m, buffer_end)
  /\ data' = PutFailed(data, 0, m, buffer_end)
  /\ len' = 0 /\ written' = <<>> /\ places' = <<>>
  /\ failed' = TRUE
  /\ calls' = MaxCalls
  /\ UNCHANGED <<buffer_pos, type, spoiled>>

Bundle == Tagged(7, <<"#">>)
Header == Bundle \o <<IntWord(0), IntWord(1)>>

(* osc_bundle_start, and tuio_bundle_start of a profile.  A start that fails leaves
   no position, or a position behind the "#bundle". *)
Start(profile) ==
  /\ calls = 0 /\ buffer_pos = 0
  /\ buffer_pos' = IF buffer_end < 8 THEN NULL ELSE IF buffer_end < 16 THEN 8 ELSE 16
  /\ data' = IF buffer_end < 8 THEN data
             ELSE Put(data, 0, IF buffer_end < 16 THEN Bundle ELSE Header)
  /\ len' = IF buffer_end < 16 THEN 0 ELSE 16
  /\ type' = IF buffer_end < 16 THEN type ELSE profile
  /\ written' = <<>> /\ places' = <<>>
  /\ failed' = (buffer_end < 16) /\ spoiled' = FALSE
  /\ UNCHANGED calls

(* A caller writes to a bundle that it has started. *)
MayWrite == len > 0 /\ calls < MaxCalls

Room == buffer_end - buffer_pos

(* Mutant of BundleWriteFails: the size of a message that fails counts. *)
BundleWriteFailsCounted(m) ==
  /\ MayWrite
  /\ Room < 4 \/ ~Succeeds(m, Room - 4)
  /\ IF Room < 4
     THEN UNCHANGED <<data, buffer_pos, len>>
     ELSE /\ data' = PutFailed(data, buffer_pos + 4, m, Room - 4)
          /\ buffer_pos' = buffer_pos + 4
          /\ len' = len + 4
  /\ failed' = TRUE
  /\ calls' = calls + 1
  /\ UNCHANGED <<type, written, places, spoiled>>

(* osc_bundle_writev.  A message that fails leaves the room for its size behind. *)
BundleWriteFails(m) ==
  /\ MayWrite
  /\ Room < 4 \/ ~Succeeds(m, Room - 4)
  /\ IF Room < 4
     THEN UNCHANGED <<data, buffer_pos>>
     ELSE /\ data' = PutFailed(data, buffer_pos + 4, m, Room - 4)
          /\ buffer_pos' = buffer_pos + 4
  /\ failed' = TRUE
  /\ calls' = calls + 1
  /\ UNCHANGED <<len, type, written, places, spoiled>>

BundleWrite(m) ==
  /\ MayWrite
  /\ Room >= 4 /\ Succeeds(m, Room - 4)
  /\ data' = Put(data, buffer_pos, <<IntWord(Bytes(Encoded(m)))>> \o Encoded(m))
  /\ buffer_pos' = buffer_pos + 4 + Bytes(Encoded(m))
  /\ len' = len + 4 + Bytes(Encoded(m))
  /\ written' = Append(written, m) /\ places' = Append(places, buffer_pos)
  /\ spoiled' = (spoiled \/ failed)
  /\ calls' = calls + 1
  /\ UNCHANGED <<type, failed>>
-----------------------------------------------------------------------------
(* "/tuio/2Dobj", "/tuio/2Dcur" and "/tuio/2Dblb". *)
ProfileAddress == 11

Str(n) == [tag |-> "s", n |-> n]
Int32(n) == [tag |-> "i", n |-> n]
Floats(n) == [i \in 1 .. n |-> [tag |-> "f", n |-> 0]]

(* tuio_bundle_source, _set and _fseq. *)
Source(n) == [address |-> ProfileAddress, args |-> <<Str(6), Str(n)>>]
Fseq      == [address |-> ProfileAddress, args |-> <<Str(4), Int32(0)>>]
Set ==
  [address |-> ProfileAddress,
   args |-> CASE type = "2Dobj" -> <<Str(3), Int32(0), Int32(0)>> \o Floats(8)
              [] type = "2Dcur" -> <<Str(3), Int32(0)>> \o Floats(5)
              [] type = "2Dblb" -> <<Str(3)>> \o Floats(11)]

(* tuio_bundle_alive.  The size it writes is 8 more than the message takes, and
   bundle->len does not count the message. *)
AliveTypes(n) == Types([i \in 1 .. n |-> Int32(0)])
AliveWords(ids) ==
  Text(ProfileAddress) \o AliveTypes(Len(ids)) \o [i \in DOMAIN ids |-> IntWord(ids[i])]

AliveFails(n) ==
  /\ Room < 4 + Bytes(Text(ProfileAddress)) + Bytes(AliveTypes(n)) + 4 * n
  /\ data' = IF Room >= 4 /\ Fits(Text(ProfileAddress), Room - 4)
             THEN Put(data, buffer_pos + 4, Text(ProfileAddress)) ELSE data
  /\ failed' = TRUE
  /\ UNCHANGED <<buffer_pos, spoiled>>

Alive(ids) ==
  /\ Room >= 4 + Bytes(AliveWords(ids))
  /\ data' = Put(data, buffer_pos, <<IntWord(Bytes(AliveWords(ids)) + 8)>> \o AliveWords(ids))
  /\ buffer_pos' = buffer_pos + 4 + Bytes(AliveWords(ids))
  /\ spoiled' = TRUE
  /\ UNCHANGED failed

AnyAlive ==
  /\ MayWrite
  /\ \/ \E n \in 0 .. MaxAlive : AliveFails(n)
     \/ \E ids \in BoundedSeq(AliveIds, MaxAlive) : Alive(ids)
  /\ calls' = calls + 1
  /\ UNCHANGED <<len, type, written, places>>

BundleMessages ==
  Messages \cup (IF type = NULL THEN {} ELSE {Source(n) : n \in Sources} \cup {Fseq, Set})

Next ==
  /\ \/ \E m \in Messages : WriteMessage(m) \/ WriteMessageFails(m)
     \/ \E profile \in {NULL, "2Dobj", "2Dcur", "2Dblb"} : Start(profile)
     \/ MayWrite /\ \E m \in BundleMessages : BundleWrite(m) \/ BundleWriteFails(m)
     \/ type # NULL /\ AnyAlive
  /\ UNCHANGED buffer_end

Spec == Init /\ [][Next]_wvars
-----------------------------------------------------------------------------
(* What the writer has written lies in the buffer, and so does the next position
   (osc.c:26, 141, 391-403). *)
WithinBuffer ==
  /\ \A w \in DOMAIN data : w \in 0 .. buffer_end \div 4 - 1
  /\ buffer_pos # NULL => buffer_pos \in 0 .. buffer_end

(* bundle->len counts the messages of the calls that have succeeded and nothing else,
   and each of them stays whole where it was written: no call that fails, for want
   of room or at a tag it does not know, at any field and however often, takes
   anything of it away.  Until a call succeeds after one that failed, which leaves a
   hole in front of it (osc.c:143-152), or after a list of alive objects, which len
   does not count (osc.c:417-422), the first len bytes are the bundle of those
   messages (osc.c:140-162). *)
Element(m) == <<IntWord(Bytes(Encoded(m)))>> \o Encoded(m)

Packet == Header \o FlattenSeq([i \in DOMAIN written |-> Element(written[i])])

(* The words from an offset on. *)
LiesAt(ws, at) == \A w \in 1 .. Len(ws) : data[at \div 4 + w - 1] = ws[w]

LenIsPacket ==
  buffer_pos # 0 /\ len > 0 =>
    /\ len = Bytes(Packet)
    /\ LiesAt(Header, 0)
    /\ Len(places) = Len(written)
    /\ \A i \in DOMAIN written : LiesAt(Element(written[i]), places[i])
    /\ ~spoiled => LiesAt(Packet, 0)
=============================================================================
