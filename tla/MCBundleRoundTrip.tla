------------------------- MODULE MCBundleRoundTrip -------------------------
(* Datagrams for TLC: bundles of messages and bundles, with what is wrong in them. *)
EXTENDS BundleRoundTrip

Kind(k, n) == [k |-> k, n |-> n]

(* An element: its words, what is added to its size, and the messages that the dump
   prints of it, at offsets in the element. *)
Message == [words |-> <<Kind("address", 0)>>, extra |-> 0,
            messages |-> <<[at |-> 0, len |-> 4, indent |-> 0]>>, stop |-> FALSE]
LongMessage == [words |-> <<Kind("address", 99), Kind("arg", 8)>>, extra |-> 0,
                messages |-> <<[at |-> 0, len |-> 8, indent |-> 0]>>, stop |-> FALSE]
Unended == [words |-> <<Kind("unended", 0)>>, extra |-> 0, messages |-> <<>>, stop |-> TRUE]
Odd == [Message EXCEPT !.extra = 2, !.messages = <<>>, !.stop = TRUE]
Short == [Message EXCEPT !.extra = -4, !.messages = <<>>, !.stop = TRUE]
Long == [Message EXCEPT !.extra = 80, !.messages = <<>>, !.stop = TRUE]

SizeOf(e) == 4 * Len(e.words) + e.extra

Header4 == <<Kind("#bundle", 0), Kind("arg", 0), Kind("timetag", 0), Kind("timetag", 1)>>

(* What is printed of the elements from the i-th on, which is at offset at. *)
RECURSIVE MessagesFrom(_, _, _)
MessagesFrom(elements, i, at) ==
  IF i > Len(elements) \/ elements[i].stop THEN <<>>
  ELSE [j \in DOMAIN elements[i].messages |->
          [elements[i].messages[j] EXCEPT !.at = @ + at + 4, !.indent = @ + 1]]
       \o MessagesFrom(elements, i + 1, at + 4 + 4 * Len(elements[i].words))

Bundle(elements) ==
  [words |-> Header4 \o FlattenSeq([i \in DOMAIN elements |->
                                      <<Kind("size", SizeOf(elements[i]))>> \o elements[i].words]),
   extra |-> 0, messages |-> MessagesFrom(elements, 1, 16), stop |-> FALSE]

(* A bundle of no messages that says its size is -4. *)
Back == [Bundle(<<>>) EXCEPT !.extra = -20, !.stop = TRUE]

Inner == {Message, LongMessage, Unended, Odd, Short, Long, Back}
Middle == {Message, Unended, Back} \cup {Bundle(s) : s \in BoundedSeq(Inner, 2)}
Outer == {Message, LongMessage, Unended} \cup {Bundle(s) : s \in BoundedSeq(Middle, 2)}

Whole(e) == [words |-> [w \in 0 .. Len(e.words) - 1 |-> e.words[w + 1]],
             n |-> 4 * Len(e.words), messages |-> e.messages]

(* Datagrams cut in the middle of a word, and the answer of a recvfrom that fails. *)
MCDatagrams ==
  {Whole(e) : e \in Outer}
  \cup {[Whole(LongMessage) EXCEPT !.n = 7, !.messages = <<>>],
        [words |-> [w \in {} |-> 0], n |-> -1, messages |-> <<>>]}

NoDatagrams == {}
=============================================================================
