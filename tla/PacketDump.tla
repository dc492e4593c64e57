----------------------------- MODULE PacketDump -----------------------------
(***************************************************************************)
(* dump_osc_packet of test/udp_dump.c with the bundle reader of src/read.c *)
(* and osc_msg_reader_init: what the program prints of a datagram, bundles *)
(* in bundles included.                                                    *)
(*                                                                         *)
(* The buffer is a function from word indices to words [k, n]: the kind of *)
(* the word and, where it is read as a size, its value as an int32_t in    *)
(* memory.  Offsets and lengths are in bytes.                              *)
(***************************************************************************)
EXTENDS ByteOrder, SequencesExt

CONSTANT
  Datagrams   \* what arrives: [words, n], n what recvfrom answers

(* recvfrom puts n bytes in the buffer, the words of a datagram. *)
Received(words, n) ==
  /\ n \in Int
  /\ DOMAIN words = 0 .. (n + 3) \div 4 - 1
  /\ \A w \in DOMAIN words : words[w].n \in Int

ASSUME DumpAssumption == \A d \in Datagrams : Received(d.words, d.n)

VARIABLES
  buffer,
  call,     \* a call of dump_osc_packet that begins: <<buffer, len>>, or <<>>
  readers,  \* of the calls at a bundle, the innermost one last: [msg_ptr, bundle_end]
  dumped    \* the messages printed: [at, len, indent]

dvars == <<buffer, call, readers, dumped>>

Dumping == call # <<>> \/ readers # <<>>

(* Mutant of PacketType: a negative length is not refused. *)
PacketTypeAnySign(at, len) ==
  IF len = 0 \/ len % 4 # 0 THEN "error"
  ELSE IF buffer[at \div 4].k = "#bundle" THEN "bundle"
  ELSE "message"

(* osc_packet_get_type. *)
PacketType(at, len) ==
  IF len < 4 \/ len % 4 # 0 THEN "error"
  ELSE IF buffer[at \div 4].k = "#bundle" THEN "bundle"
  ELSE "message"

(* osc_msg_reader_init.  "unended" is an address or tags that do not end in their
   message: either error ends the loop of dump_osc_packet. *)
Readable(at) == buffer[at \div 4].k # "unended"

Dumped(at, len, indent) == Append(dumped, [at |-> at, len |-> len, indent |-> indent])

DumpInit ==
  /\ buffer = [w \in {} |-> 0]
  /\ call = <<>> /\ readers = <<>> /\ dumped = <<>>

(* main receives a datagram. *)
Receive(words, n) ==
  /\ ~Dumping
  /\ buffer' = words
  /\ call' = <<0, n>>
  /\ dumped' = <<>>
  /\ UNCHANGED readers

(* dump_osc_packet begins; osc_bundle_reader_init refuses less than 20 bytes. *)
DumpPacket ==
  /\ call # <<>>
  /\ LET at  == call[1]
         len == call[2]
     IN /\ dumped' = IF PacketType(at, len) = "message" /\ Readable(at)
                     THEN Dumped(at, len, Len(readers)) ELSE dumped
        /\ readers' = IF PacketType(at, len) = "bundle" /\ len >= 20
                      THEN Append(readers, [msg_ptr |-> at + 16, bundle_end |-> at + len])
                      ELSE readers
  /\ call' = <<>>
  /\ UNCHANGED buffer

br == readers[Len(readers)]

(* The element that osc_bundle_reader_next is at. *)
Start == br.msg_ptr + 4
Size  == osc_ntoh32(buffer[br.msg_ptr \div 4].n)

(* Mutant of NextType: the element may end outside its bundle. *)
NextTypeAnyEnd ==
  IF br.msg_ptr = br.bundle_end THEN "end" ELSE PacketType(Start, Size)

NextType ==
  IF br.msg_ptr = br.bundle_end THEN "end"
  ELSE IF Start + Size > br.bundle_end THEN "error"
  ELSE PacketType(Start, Size)

(* The loop of dump_osc_packet ends at the end of the bundle, at an element that
   osc_bundle_reader_next refuses and at a message that cannot be read; the call
   around it goes on. *)
DumpEnd ==
  /\ call = <<>> /\ readers # <<>>
  /\ \/ NextType \in {"end", "error"}
     \/ NextType = "message" /\ ~Readable(Start)
  /\ readers' = Front(readers)
  /\ UNCHANGED <<buffer, call, dumped>>

DumpElement ==
  /\ call = <<>> /\ readers # <<>>
  /\ NextType \in {"message", "bundle"}
  /\ readers' = [readers EXCEPT ![Len(readers)].msg_ptr = Start + Size]
  /\ \/ NextType = "bundle" /\ call' = <<Start, Size>> /\ UNCHANGED dumped
     \/ /\ NextType = "message"
        /\ Readable(Start)
        /\ dumped' = Dumped(Start, Size, Len(readers))
        /\ UNCHANGED call
  /\ UNCHANGED buffer

DumpTurn == DumpPacket \/ DumpEnd \/ DumpElement

DumpNext == (\E d \in Datagrams : Receive(d.words, d.n)) \/ DumpTurn

DumpSpec == DumpInit /\ [][DumpNext]_dvars
-----------------------------------------------------------------------------
End(m) == m.at + m.len

(* Where words of the datagram lie, a packet of it, a reader in it. *)
InBuffer(at) == at >= 0 /\ at % 4 = 0 /\ at \div 4 \in DOMAIN buffer

(* Whatever the datagram says, the size words that the readers are at lie in it,
   a bundle lies in the element of the bundle around it, and the messages that are
   printed lie in the datagram, each behind the one before: none is printed twice
   (read.c:3-40, udp_dump.c:83-120). *)
DumpInside ==
  /\ \A i \in DOMAIN readers :
       /\ readers[i].msg_ptr <= readers[i].bundle_end
       /\ readers[i].msg_ptr # readers[i].bundle_end => InBuffer(readers[i].msg_ptr)
       /\ i > 1 => readers[i].bundle_end <= readers[i - 1].msg_ptr
  /\ \A i \in DOMAIN dumped :
       /\ InBuffer(dumped[i].at) /\ InBuffer(End(dumped[i]) - 4)
       /\ i > 1 => End(dumped[i - 1]) <= dumped[i].at
=============================================================================
