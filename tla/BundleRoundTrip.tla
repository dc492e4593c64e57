-------------------------- MODULE BundleRoundTrip --------------------------
(***************************************************************************)
(* The packets that OscWriter completes, sent to the program of            *)
(* test/udp_dump.c, which also receives the datagrams of other senders.    *)
(***************************************************************************)
EXTENDS OscWriter, PacketDump

VARIABLES
  careful,   \* whether the packet's caller has left nothing open or added late
  expected   \* the messages of the datagram received, or <<>>

rvars == <<dvars, careful, expected>>

RInit == Init /\ DumpInit /\ careful = TRUE /\ expected = <<>>

(* Bound: what was received is forgotten before anything else happens. *)
Idle == ~Dumping /\ buffer = [w \in {} |-> 0]

Forget ==
  /\ ~Dumping /\ ~Idle
  /\ buffer' = [w \in {} |-> 0] /\ dumped' = <<>> /\ expected' = <<>>
  /\ UNCHANGED <<call, readers, careful, vars>>

(* A call to the writer.  A caller is careful about a packet who starts nothing in
   it once it is complete and ends no bundle inside a message. *)
WriterCall ==
  /\ Idle
  /\ Next
  /\ careful' = \/ packets' # packets
                \/ /\ careful
                   /\ "COMPLETE" \notin state \/ state' = state
                   /\ state = {"BUNDLE", "MSG"} => "COMPLETE" \notin state'
  /\ UNCHANGED <<dvars, expected>>

(* What the caller has put in the packet. *)
Elements ==
  IF elems # <<>>
  THEN [i \in DOMAIN elems |-> [at |-> elems[i][1] - base, len |-> elems[i][2], indent |-> 1]]
  ELSE IF data[base \div 4].k = "address" THEN <<[at |-> 0, len |-> pos - base, indent |-> 0]>>
  ELSE <<>>

(* Such a caller completes a packet without an error and sends the bytes up to
   writer->pos.  What is sent of a packet that overran its buffer is undefined. *)
Send ==
  /\ Idle
  /\ state = {"COMPLETE"}
  /\ ~failed
  /\ careful
  /\ WithinBuffer
  /\ pos # base
  /\ Receive([w \in 0 .. (pos - base) \div 4 - 1 |-> data[base \div 4 + w]], pos - base)
  /\ expected' = Elements
  /\ UNCHANGED <<vars, careful>>

(* Bound: the datagrams of others come before the first packet. *)
ReceiveOther ==
  /\ Idle /\ Init
  /\ \E d \in Datagrams : Receive(d.words, d.n) /\ expected' = d.messages
  /\ UNCHANGED <<vars, careful>>

Dump == DumpTurn /\ UNCHANGED <<vars, careful, expected>>

RNext == WriterCall \/ Send \/ ReceiveOther \/ Dump \/ Forget

RSpec == RInit /\ [][RNext]_<<vars, rvars>> /\ WF_<<vars, rvars>>(Dump)
-----------------------------------------------------------------------------
(* The dump prints the messages of a packet, all of them, in their order, each with
   its start, its length and its depth: the sizes that end_msg stores (write.c:76)
   and the ones osc_bundle_reader_next follows (read.c:28-38) agree, in a child
   writer's packet too, and what cannot be read of another sender's datagram ends
   its own bundle and no bundle around it.  A bundle of no messages is 16 bytes,
   which osc_bundle_reader_init takes for an error (read.c:10), as expected. *)
ReadsBack ==
  IF Dumping THEN IsPrefix(dumped, expected) ELSE dumped = expected

(* The same of what begins with "#bundle" or an address, as the first packet of a
   process does: another packet may have been in the buffer before (write.c:76,
   84-89, read.c:8-40). *)
BundleReadsBack == 0 \in DOMAIN buffer /\ buffer[0].k # "nul" => ReadsBack

(* No datagram keeps the program in dump_osc_packet: not the sizes it holds, not
   its bundles in bundles (read.c:24-40, udp_dump.c:101-112). *)
DumpReturns == Dumping ~> ~Dumping
=============================================================================
