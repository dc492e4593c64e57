----------------------------- MODULE MsgReader -----------------------------
(***************************************************************************)
(* The message reader of src/read.c over one message, as a packet or the   *)
(* element of a bundle, and the loop of test/udp_dump.c that prints its    *)
(* arguments.                                                              *)
(*                                                                         *)
(* osc_packet_get_type lets through lengths that are multiples of 4 only,  *)
(* and each field takes a multiple of 4 bytes, so offsets are in words.    *)
(* Of a word the reader sees its value as an int32_t and whether one of    *)
(* its bytes is NUL.                                                       *)
(***************************************************************************)
EXTENDS Integers, SequencesExt

CONSTANTS
  Args,       \* the arguments that senders put in messages: [tag, words]
  MaxArgs,    \* bound: arguments in a message
  AddrWords,  \* the words that addresses take
  NULL,
  Cut,        \* whether a message may arrive without its last words
  HighTags,   \* the tags that are bytes of 0x80 or more, with their values
  Around,     \* what words in front of the arguments are to a reader that takes
              \* them for a size: parts of the address or the tags, or anything
  MaxBack     \* bound: words that a reader may be in front of the message and go on

OSC_OK    == 0
OSC_ERROR == -1
OSC_END   == -2

Fixed == [i |-> 1, f |-> 1, h |-> 2, t |-> 2, d |-> 2]
NoData == {"T", "F", "N", "I"}
Strings == {"s", "S", "k"}
Known == NoData \cup DOMAIN Fixed \cup Strings \cup {"b"}

MaxInt32 == 2147483647

Int32s == (-MaxInt32 - 1) .. MaxInt32

(* The number n of bytes, rounded up to words. *)
Words(n) == n \div 4 + (IF n % 4 = 0 THEN 0 ELSE 1)

(* Mutant of Rounded: a blob's padding is not skipped. *)
RoundedDown(sz) == {sz \div 4}

(* ROUND32 of an int32_t, in words; sizes below zero are rounded up too.  Where
   adding 3 overflows, the sum may wrap or be taken in a wider register. *)
Rounded(sz) == {Words(sz)} \cup (IF sz > MaxInt32 - 3 THEN {-536870912} ELSE {})

(* The words that senders put in messages. *)
Sent == UNION {{a.words[i] : i \in DOMAIN a.words} : a \in Args}

(* What senders encode, and in what tags.  A word may hold any number; only where
   it is sent as the size of a blob is it that of the data behind it. *)
ASSUME ReaderAssumption ==
  /\ \A a \in Args : a.words \in Seq(Sent)
  /\ \A w \in Sent : w.v \in Int32s
  /\ \A a \in Args :
       \/ a.tag \in NoData /\ a.words = <<>>
       \/ a.tag \in DOMAIN Fixed /\ Len(a.words) = Fixed[a.tag]
       \/ /\ a.tag \in Strings
          /\ a.words # <<>>
          /\ \A i \in DOMAIN a.words : a.words[i].nul <=> i = Len(a.words)
       \/ /\ a.tag = "b"
          /\ a.words # <<>>
          /\ a.words[1].v \in 0 .. MaxInt32 - 3
          /\ Len(a.words) = 1 + Words(a.words[1].v)
       \/ a.tag \notin Known
  /\ MaxArgs \in Nat
  /\ AddrWords \subseteq Nat \ {0}
  /\ NULL \notin Int
  /\ Cut \in BOOLEAN
  /\ DOMAIN HighTags \cap Known = {}
  /\ \A tag \in DOMAIN HighTags : HighTags[tag] \in 128 .. 255
  /\ Around \subseteq Int32s
  /\ MaxBack \in Nat

VARIABLES
  char_signed,
  caller,    \* "dump", the loop of dump_osc_message, or "any", which may read
             \* anything at any time
  msg,       \* the message under the reader, NULL before a successful init:
             \* its address, whether it is typed, its arguments, the words that came
  type_ptr,  \* the next tag, 1 for the first, or NULL
  arg_ptr,   \* the next word, 0 for the first of the message, or NULL
  ret,       \* what the last call answered, 1 for a tag that is not negative
  got,       \* what dump_osc_message has printed since init
  negative   \* history: a read since init took a size below zero

vars == <<char_signed, caller, msg, type_ptr, arg_ptr, ret, got, negative>>

(* The type tags take a comma and a NUL. *)
TagWords(m) == IF m.typed THEN Words(Len(m.args) + 2) ELSE 0

ArgStart(m) == m.addr + TagWords(m)

DataOf(args) == FlattenSeq([i \in DOMAIN args |-> args[i].words])

WholeLen(m) == ArgStart(m) + Len(DataOf(m.args))

Word(p) == DataOf(msg.args)[p - ArgStart(msg) + 1]

Init ==
  /\ char_signed \in BOOLEAN
  /\ caller \in {"dump", "any"}
  /\ msg = NULL
  /\ type_ptr = NULL /\ arg_ptr = NULL
  /\ ret = OSC_OK
  /\ got = <<>>
  /\ negative = FALSE
-----------------------------------------------------------------------------
(* osc_msg_reader_init.  An init that fails may have moved none of the pointers:
   callers do not use the reader then. *)
InitFails(m) ==
  /\ \/ m.addr > m.len
     \/ m.addr < m.len /\ ArgStart(m) > m.len
  /\ msg' = NULL
  /\ ret' = OSC_ERROR
  /\ UNCHANGED <<type_ptr, arg_ptr>>

InitAddressOnly(m) ==
  /\ m.addr = m.len
  /\ msg' = m
  /\ type_ptr' = NULL /\ arg_ptr' = NULL
  /\ ret' = OSC_OK

(* Mutant of InitArgs: no pointer to the arguments of a message without tags. *)
InitArgsTypedOnly(m) ==
  /\ m.addr < m.len
  /\ ArgStart(m) <= m.len
  /\ msg' = m
  /\ type_ptr' = IF m.typed THEN 1 ELSE NULL
  /\ arg_ptr' = IF m.typed THEN ArgStart(m) ELSE NULL
  /\ ret' = OSC_OK

InitArgs(m) ==
  /\ m.addr < m.len
  /\ ArgStart(m) <= m.len
  /\ msg' = m
  /\ type_ptr' = IF m.typed THEN 1 ELSE NULL
  /\ arg_ptr' = ArgStart(m)
  /\ ret' = OSC_OK

MsgReaderInit ==
  /\ msg = NULL
  /\ \E addr \in AddrWords, typed \in BOOLEAN, args \in BoundedSeq(Args, MaxArgs) :
       LET whole == [addr |-> addr, typed |-> typed, args |-> args, len |-> 0]
       IN \E len \in IF Cut THEN 1 .. WholeLen(whole) ELSE {WholeLen(whole)} :
            LET m == [whole EXCEPT !.len = len]
            IN InitFails(m) \/ InitAddressOnly(m) \/ InitArgs(m)
  /\ UNCHANGED <<char_signed, caller, got, negative>>
-----------------------------------------------------------------------------
Rest == msg.len - arg_ptr

(* What the next word is as an int32_t. *)
NextWord == IF arg_ptr >= ArgStart(msg) THEN {Word(arg_ptr).v} ELSE Around

(* strlen + 1, in words; a string without NUL goes on behind the message.  In front
   of the arguments it ends at the latest with the address or the tags. *)
StrWords ==
  LET ends == {p \in arg_ptr .. WholeLen(msg) - 1 : Word(p).nul}
  IN IF arg_ptr < ArgStart(msg) THEN 1 .. ArgStart(msg) - arg_ptr
     ELSE {IF ends = {} THEN Rest + 1 ELSE Min(ends) - arg_ptr + 1}

(* What a read of an argument may take at arg_ptr. *)
Sizes(tag) ==
  CASE tag \in NoData      -> {0}
    [] tag \in DOMAIN Fixed -> {Fixed[tag]}
    [] tag \in Strings     -> StrWords
    [] tag = "b"           -> IF Rest < 1 THEN {1}
                              ELSE {1 + n : n \in UNION {Rounded(sz) : sz \in NextWord}}

(* Mutant of Advance: no check of a blob's data. *)
AdvanceUnchecked(tag) ==
  \E size \in Sizes(tag) :
    /\ IF size <= Rest \/ (tag = "b" /\ Rest >= 1)
       THEN arg_ptr' = arg_ptr + size /\ ret' = OSC_OK
       ELSE arg_ptr' = arg_ptr /\ ret' = OSC_ERROR
    /\ negative' = (negative \/ (tag = "b" /\ size < 1))

(* READ_FIXED, osc_msg_reader_get_arg_str and _blob.  A blob that does not fit has
   its size read; a size below zero fits, and moves the pointer back. *)
Advance(tag) ==
  \E size \in Sizes(tag) :
    /\ IF size <= Rest
       THEN /\ arg_ptr' = arg_ptr + size
            /\ ret' = OSC_OK
       ELSE /\ arg_ptr' = IF tag = "b" /\ Rest >= 1 THEN arg_ptr + 1 ELSE arg_ptr
            /\ ret' = OSC_ERROR
    /\ negative' = (negative \/ (tag = "b" /\ size < 1))

Open == msg # NULL /\ ret # NULL

(* osc_msg_reader_get_arg_int32 .. _blob, without a look at the tags.  The end of
   the message less a NULL arg_ptr is more than any size: the read goes through
   the NULL pointer, and the program ends (ret = NULL). *)
GetArgOf(tag) ==
  /\ Open
  /\ IF arg_ptr = NULL
     THEN ret' = NULL /\ UNCHANGED <<arg_ptr, negative>>
     ELSE Advance(tag)
  /\ UNCHANGED <<msg, type_ptr>>

NoTag == type_ptr \notin DOMAIN msg.args

(* What osc_msg_reader_next_arg answers is a char: the next tag, *)
TagChar ==
  LET tag == msg.args[type_ptr].tag
  IN IF char_signed /\ tag \in DOMAIN HighTags THEN HighTags[tag] - 256 ELSE 1

(* or that there is none. *)
NoTagChar ==
  LET answer == IF type_ptr = NULL THEN OSC_ERROR ELSE OSC_END
  IN IF char_signed THEN answer ELSE answer % 256

(* osc_msg_reader_next_arg. *)
NextArg ==
  /\ Open
  /\ IF NoTag
     THEN ret' = NoTagChar /\ UNCHANGED type_ptr
     ELSE ret' = TagChar /\ type_ptr' = type_ptr + 1
  /\ UNCHANGED <<msg, arg_ptr, negative>>

(* osc_msg_reader_get_arg.  A tag that it does not know is skipped; one that is
   negative is the answer. *)
GetArg ==
  /\ Open
  /\ ~NoTag
  /\ LET tag == msg.args[type_ptr].tag
     IN IF tag \in Known THEN Advance(tag)
        ELSE /\ ret' = IF TagChar < 0 THEN TagChar ELSE OSC_ERROR
             /\ UNCHANGED <<arg_ptr, negative>>
  /\ type_ptr' = type_ptr + 1
  /\ UNCHANGED msg

(* An answer that is not negative is a tag that it does not know. *)
GetArgNone ==
  /\ Open
  /\ NoTag
  /\ ret' = IF NoTagChar < 0 THEN NoTagChar ELSE OSC_ERROR
  /\ UNCHANGED <<msg, type_ptr, arg_ptr, negative>>
-----------------------------------------------------------------------------
(* dump_osc_message prints until osc_msg_reader_get_arg answers something else. *)
DumpArg ==
  /\ type_ptr # NULL
  /\ ret = OSC_OK
  /\ \/ /\ GetArg
        /\ got' = IF ret' = OSC_OK
                  THEN Append(got, [tag |-> msg.args[type_ptr].tag, at |-> arg_ptr])
                  ELSE got
     \/ GetArgNone /\ UNCHANGED got
  /\ UNCHANGED <<char_signed, caller>>

(* Reads of whatever types, with or without the tags, after failures too. *)
ReadAnything ==
  /\ arg_ptr # NULL => arg_ptr >= -MaxBack
  /\ \/ \E tag \in {"i", "h", "s", "b"} : GetArgOf(tag)
     \/ NextArg
     \/ GetArg
     \/ GetArgNone
  /\ UNCHANGED <<char_signed, caller, got>>

(* The caller is done with the message: the dump when its loop has ended or there
   are no tags.  The next message gets a reader of its own. *)
NextMessage ==
  /\ caller = "dump" => ret # OSC_OK \/ (msg # NULL /\ type_ptr = NULL)
  /\ msg' = NULL
  /\ type_ptr' = NULL /\ arg_ptr' = NULL
  /\ ret' = OSC_OK
  /\ got' = <<>>
  /\ negative' = FALSE
  /\ UNCHANGED <<char_signed, caller>>

Next ==
  \/ MsgReaderInit
  \/ caller = "dump" /\ DumpArg
  \/ caller = "any" /\ ReadAnything
  \/ NextMessage

Spec == Init /\ [][Next]_vars
-----------------------------------------------------------------------------
(* Where argument i of the message lies. *)
Place(i) == ArgStart(msg) + Len(DataOf(SubSeq(msg.args, 1, i - 1)))

(* The arguments before the first that is cut off or has an unknown tag. *)
Printable ==
  {i \in DOMAIN msg.args :
     \A j \in 1 .. i : msg.args[j].tag \in Known /\ Place(j + 1) <= msg.len}

(* The dump of a typed message prints the arguments that were sent, each from
   where it lies, up to the first that is cut off or unknown, whether char is
   signed or not: the cursors in the tags and in the data stay together over
   arguments of no data, padded strings and padded blobs.  Only where char is
   signed is the end of the arguments told from an error, and there a tag of value
   254 is taken for the end (read.c:42-162, udp_dump.c:53-76). *)
DumpsArgs ==
  msg # NULL /\ caller = "dump" =>
    /\ Len(got) <= Cardinality(Printable)
    /\ \A i \in DOMAIN got : got[i] = [tag |-> msg.args[i].tag, at |-> Place(i)]
    /\ ret # OSC_OK =>
         /\ Len(got) = Cardinality(Printable)
         /\ ret = OSC_END <=>
              /\ char_signed
              /\ Len(got) < Len(msg.args) =>
                   LET tag == msg.args[Len(got) + 1].tag
                   IN tag \in DOMAIN HighTags /\ HighTags[tag] = 254

(* Reads of whatever types, in any order, after failures too, never take the
   argument pointer behind the end of the message, and in front of the arguments
   only when a word below zero, or one whose rounding overflows, has been read as
   the size of a blob: read.c:157-160 has no lower bound.  The dump, which reads
   what was sent as what it was sent as, never does (osc.h:158-162,
   read.c:115-162). *)
WithinMsg ==
  msg # NULL /\ arg_ptr # NULL =>
    /\ arg_ptr <= msg.len
    /\ arg_ptr >= ArgStart(msg) \/ (negative /\ caller = "any")

(* A read through NULL, which no check stops (read.c:54, 117), takes a message that
   is its address alone and a caller who did not ask osc_msg_reader_is_typed, as
   the dump does: every other message has a pointer to its arguments. *)
NullReadAtAddressOnly == ret = NULL => msg.addr = msg.len /\ caller = "any"
=============================================================================
