# little-oscar in TLA+

Models, model-checking runs and machine-checked proofs for little-oscar, a small C library for
Open Sound Control packets. Source paths below are relative to `src/`.

## The system

| Component | Code | State | Operations |
|---|---|---|---|
| message queue | `ideas/queue/queue.c`, `queue.h` | `heap`, `n_items`, `c_items`, `flags` | init, size, add, remove |
| thread-safe queue | `ideas/queue/queue.c`, `main.c` | the same, a mutex, a condition variable; each thread's place and local `msg` | `add_s`, `remove_s`, `remove_due_s`, `take_s`, `take_due_s` |
| due times | `queue.h` macros, `_osc_is_msg_due` | the clock, the head's `due`, a threshold | difference, comparison, due test |
| packet writer | `src/write.c` | `pos`, `msg_start`, `type_pos`, `state`, the buffer, the static `k_bundle` | init, start/end message, start/end bundle, one write per argument type, `osc_writev` |
| bundle reader | `src/read.c` | `msg_ptr` in a packet | packet type, init, next |
| message reader | `src/read.c` | `type_ptr`, `arg_ptr`, `msg_end` | init, next tag, a read per type, `get_arg` |
| UDP dump | `test/udp_dump.c` | the readers of one datagram | the loop over a bundle, the loop over arguments |
| portability layer | `include/little-oscar/*.h` | none | byte order, `ROUND32` |
| address patterns | `ideas/pattern.c`, `pattern.h` | what `osc_pattern_verify` found, two cursors | verify, compile, match |
| first prototype, TUIO | `ideas/osc.c`, `osc.h` | a bundle's `buffer_pos` and `len`; a reader's cursors in a packet whose sizes it converts in place | `osc_writev`, bundle start/write, the TUIO calls, reader init, start message, get argument |

Interaction: producers and consumers meet only in the queue, under its mutex; the queue orders
messages with the time macros. The writer fills a caller's buffer, the caller sends it, the
receiver asks for the packet's type and gives it, or the elements of the bundle, to the readers; for
a bundle in a bundle `dump_osc_packet` calls itself. A writer may start a child writer on what is left of
its buffer. Writer and readers share nothing but the layout of a packet. Patterns stand alone,
and the prototype is a writer and a reader of its own.

What makes each one correct, and hard to test:

* **Queue**: the heap order and the set of messages survive any sequence of calls, ties, growth at
  the limit and a failed `realloc`; the loops end.
* **Threads**: a signal is sent only by the add that ends emptiness, wakes one thread, and may be
  overtaken by a third; a head is tested and removed in two steps; a thread gives up the lock in the
  middle of a loop. No message may be lost, doubled, early, or left while everyone waits.
* **Writer**: room is checked before each field by an expression that is not the size written;
  a failed call has already moved `pos` or the type cursor.
* **Readers**: two cursors that must stay together, each with its own end; messages that were cut;
  sizes in a datagram that no one has checked and that move the reader.
* **Writer with reader**: they must agree on sizes, byte order and the header.
* **Patterns**: loops that look at no NUL, sound only by what another function let through; a mark to
  return to; the ends of a part, of the input and of the pattern.
* **Prototype**: a call that fails half-way; sizes that are converted by a loop that follows them.

## Modules

| Module | Models | Checked with |
|---|---|---|
| `PriorityQueue` | what a queue promises | `MsgHeap` implements it |
| `MsgHeap` | the heap, one turn of a sift loop per step | `MCMsgHeap` |
| `TimedDelivery` | what threads get from a queue of due messages | `MsgQueueThreads` implements it |
| `MsgQueueThreads` | the `*_s` functions and the threads of `main.c`, over `PriorityQueue` | `MCMsgQueueThreads` |
| `MsgDue` | `struct timeval` arithmetic and the due test | `MCMsgDue` |
| `OscWriter` | the writer and its child writers over one buffer | itself, `MCBundleRoundTrip` |
| `ByteOrder` | `osc_ntoh32`, `osc_hton32` on numbers | what extends it |
| `PacketDump` | `dump_osc_packet` and the bundle reader, bundles in bundles | `MCBundleRoundTrip` |
| `BundleRoundTrip` | `OscWriter` composed with `PacketDump` | `MCBundleRoundTrip` |
| `MsgReader` | the message reader and the dump loop | `MCMsgReader` |
| `Pattern` | `osc_pattern_verify`, `_compile`, `_match`, one turn of a loop per step | `MCPattern` |
| `IdeasBundle` | the prototype's writer with the TUIO calls | `MCIdeasBundle` |
| `IdeasReader` | `IdeasBundle` composed with the prototype's reader | `MCIdeasBundle` |
| `*Proofs` | the theorems about the module they are named after | |
| `SequenceLemmas` | flattening a sequence of sequences one element at a time, parts of sequences | for `MsgReaderProofs`, `PatternProofs`, `IdeasBundleProofs` |

The stack composes by refinement: `MsgHeap` refines `PriorityQueue`; `MsgQueueThreads` uses
`PriorityQueue` for what happens inside the lock and refines `TimedDelivery`; `MsgDue` is why both
may take a time as one number.

### MsgHeap

`heap`, `n_items`, `c_items`, `growable` are the fields of `osc_msg_queue_t`; `null` says that
`queue->heap` is NULL. `op` and `ix` are where a call is in its loop. An add is `AddInsert` and turns
of `SiftUp`; a removal is `RemoveRoot` and turns of `SiftDown`; no call starts before `op` is
`"idle"` again, which is what the lock ensures. After a failed `realloc` (`AddGrowFails`) the
capacity is restored and the pointer is not; the messages that `c_items` counts are still the queue's
(`Stored`), though no call can reach them. A call that then follows the pointer has no defined
behaviour: `UseLostHeap` stops the model. `realloc` to 0 bytes may answer NULL or a pointer.
Callers add no message that is still in the queue. `malloc` fails before a queue exists, so `Init`
starts after a successful one. Widths: `ix` of the removal is an `int` in the code; heaps
of more than 2^31 messages are out of scope.

### MsgQueueThreads

A step is what a thread does between two points where something else can come in. `pc` of a thread
that does not hold the mutex is `call`, `wait` (in `pthread_cond_wait`), `woken` (out of it, asking
for the mutex) or `nap` (in `usleep`); inside it is `add`, `check`, `remove`, `unlock`. The test of
the head and its removal are separate steps though both are under the lock, so that it is proved
and not assumed that nothing changes between. The clock ticks between any two steps. It is taken to
be monotonic: `gettimeofday`, which the code calls with one of its two arguments, is modelled as a
clock that does not go back. `delivered` and `refused` record what calls have answered. An add is
refused where the queue is full and may not grow (`AddRefused`); a growth that fails (`queue.c:51-55`) is
in `MsgHeap` only, since the next call of any thread on the queue that lost its block ends the program.

Fairness (`FairSpec`): weak fairness of each thread's steps while it holds the mutex or is about to
return, and of the clock; strong fairness of `Lock(t)`, since the mutex is free again and again (every
consumer of `take_due_s` gives it up for a nap of 1 ms, `queue.c:205-207`) and we assume that a thread
that keeps asking for it gets it in the end. POSIX does not promise that; a waiter loses to a thread
that unlocks and locks again at once, and here the nap lies between the two. No fairness of spurious wakeups or of the time of a message. Deadlock is not checked:
in `main.c` the consumers wait for ever when all messages are taken, and a thread may return.

### MsgDue

The macros on records of seconds and microseconds; `_osc_is_msg_due` is two steps because the second
difference is computed in place from the first. Thresholds are not negative. `struct timeval` fields
are unbounded: 64-bit seconds do not overflow.

### OscWriter

Each field starts at a multiple of 4, so the buffer maps word numbers to what the word belongs to;
contents of strings and blobs are left out and their lengths decide. `Remain` and `RemainUnsigned`
are `ENSURE_REMAIN` with an `int` and with a `size_t` argument: in the second the negative rest is
converted. The writer's caller is under this contract: it writes one argument for each that it
declared and does not repeat a failed one; it writes none outside a message, where `type_pos` is
indeterminate (0 before the first message of a writer, which no step reads). `Careless` callers go on
after a packet is complete and end a bundle with a message open. `osc_writev` is one call of several
steps: while `va` holds no other call starts, and it ends with the message, or in the middle of it when
an argument fails. (`osc_write` adds nothing to it. `osc.h` declares both `#ifdef OSC_HAVE_VARARG`,
`write.c` defines them `#ifndef`.)

A next packet begins in the whole buffer (`InitWriter`) or as a child on what the last writer has left
(`InitChild`): `base` is the child's `writer->data`, and all positions are counted from the caller's
buffer. Nothing tells the parent how far its child has come, so a caller that has begun a child is
done with the parent, and there is one writer at a time. `left`, `failed`, `elems` and `packets` are
history. `k_bundle` is the process-wide static pointer, moved by `WRITE_STRING`.

### PacketDump

A datagram is a function from word numbers to words, of which the reader sees the kind (`"#bundle"`,
an address, an address without an end) and the value as a size; its length is whatever `recvfrom`
answers, -1 and lengths that cut a word included. `readers` is the stack of `dump_osc_packet`'s
calls, `call` one that begins. `NextType` is `osc_bundle_reader_next`, with its checks in their
order: where the element ends, then its length and its sign. The two errors of
`osc_msg_reader_init` (`read.c:50`, an address that does not end in the message, and `read.c:55-58`, tags that do
not) are one kind of word, `"unended"`: `dump_osc_packet` does the same after either, and `MsgReader` has both. `Start + Size` is a pointer and an
`int32_t`: pointers are taken to be wide enough for the sum not to wrap.

### BundleRoundTrip

The packets that a careful caller completes without an error, and datagrams of others, are
given to `PacketDump`. `BigEndian` is the byte order. `ReadsBack` is about every bundle,
`BundleReadsBack` about those that begin with `#bundle`: since `k_bundle` is static only the first
bundle of a process does.

### MsgReader

Offsets are in words, since `osc_packet_get_type` refuses other lengths. Of a word a reader sees
its value and whether a byte of it is NUL: that is all that `strlen` and the size of a blob depend on.
A string without a NUL ends behind the message. What senders put behind the tag of a blob has a
size of 0 or more; what a caller takes for the size of a blob may be any `int32_t`, and `read.c:156-160` has no
lower bound: a size below zero, or one so large that `ROUND32` overflows, passes the check, and `arg_ptr` goes
back with `OSC_OK` (`Rounded`, `Advance`; where the sum overflows it may wrap or not). A pointer in front of
the arguments reads the address or the tags: what these are as a size is any of `Around`, a
string ends in them anywhere, and a reader that is more than `MaxBack` words in front of the message stops.
`negative` is history: such a size has been read. A first argument
of an untyped message does not begin with a comma. Tags that the reader does not know may occur, those
of 0x80 or more (`HighTags`) too, which are negative answers where char is signed: 0xFE is `OSC_END`. `Cut`
lets a message arrive without its last words; the dump program itself receives at most 1535 bytes, which
is no multiple of 4, so a datagram that its `recvfrom` cuts is refused as a whole, but a bundle's
sender or another caller may do it. `caller` says who reads: the loop of `dump_osc_message`, or a
program that makes any calls in any order. `char_signed` is whether char is: where it is not,
`OSC_END` of `osc_msg_reader_next_arg` is not negative in `osc_msg_reader_get_arg`
(`read.c:80-81`), which then answers `OSC_ERROR` at the end of the arguments.

### Pattern

A string is a sequence of characters with a NUL behind it, and a pointer a position. The loops of
`osc_pattern_verify` (`verify`, `brace`) and of `do_pattern_match` (`match`, `alt`) take one turn
per step; the two inner scans for the end of a brace are `Scan`. `tokens` is history: where the outer loop of
`osc_pattern_verify` has been. Callers match only with patterns that compiled.

### IdeasBundle, IdeasReader

Fields take whole words. A writer's call is one step that writes a whole message, or the fields
before the one that has no room or an unknown tag, and of the tags the comma, which is stored before
their room is checked (`PutFailed`, `Comma`). A message of its own that fails leaves no packet
(`WriteMessageFails`). `places` is history: where in a bundle each message was put. Callers write nothing into a bundle whose
start has failed. The reader has a packet of its own, whose sizes it converts; `"astray"` is where the
code would read what is no word of the packet, and the model stops. The receiver reads every
argument by its tag and stops at an error; where char is not signed (`char_signed`) the end of the
arguments is one (`osc.c:284-285`). Of a blob it gets where the data lie and not their size: `data` and `len`
are members of a union, and `osc_reader_get_arg_blob` stores the pointer last (`ideas/osc.h:89-92`,
`osc.c:299, 357-363`). So `ReadOf` has the place of a blob's data where other arguments have their value.

## Runs

| Run | Instance | Shows |
|---|---|---|
| `heap_calls` | 6 messages in 4 times, capacities 1 and 4, fixed and growable, `realloc` may fail | `HeapInv`, `HeapOrdered`, `Fits`, `LostOnlyWhenFull`, refinement of `PriorityQueue`, `CallsReturn` |
| `threads_main` | `main.c`: 1 producer, 3 messages, 3 consumers of due messages | `SomeoneAwake`, `TakenInOrder`, refinement of `TimedDelivery`, `DeliversAll`, `WaitEnds` |
| `threads_mixed` | 2 producers, capacity 2, a consumer for each function, spurious wakeups, threshold 1 | `ThreadsInv` and its parts |
| `due_times` | 12 times, 6 thresholds and NULL | `SignInSeconds`, `ComparesAsNumbers`, `DueInTime` |
| `writer_packets` | two packets in 40 bytes, the second perhaps a child's, careless callers, up to 1 argument, strings of 0 and 4, blobs of 5 bytes, overruns possible; some 3,600 datagrams of others; big-endian | `WriterInv`, `WriteOnce`, `BundleReadsBack`, `DumpInside`, `DumpReturns` |
| `reader_calls` | up to 3 arguments of 10 layouts, three of tags not known, numbers that are sizes below zero and the largest size there is, addresses of 1 and 2 words, cut anywhere, either kind of char; the dump, and any reads in any order | `DumpsArgs`, `WithinMsg`, `NullReadAtAddressOnly` |
| `pattern_match` | patterns of up to three pieces, addresses of up to four characters | `PatternInv`, `InBounds`, `MatchIsRight`, `NoMatchIsRight`, `CallsReturn` |
| `ideas_bundles` | buffers of 4, 12 and 96 bytes, up to three calls on a bundle, lists of up to two alive objects, packets whole or without their last word; little-endian | `WithinBuffer`, `LenIsPacket`, `OneReadsBack`, `OneIsRead` |

Six messages make a heap of three levels, where a sift takes two turns and a node has one child or
two, and pairs of equal times sit on each level; capacity 1 doubles three times. Three consumers are
one more than a signal and its overtaker need; three messages let two arrive between a signal and
the wakeup. The writer's buffer holds a bundle of three small messages or one large one and is overrun
by others; the second packet starts from every `k_bundle`, `msg_start`, `type_pos` and place that a
first one leaves. The datagrams are bundles of up to two elements three levels deep, in which an
element's size is odd, 0, too large or negative, or its address has no end. Three arguments have
one of each layout between two others. Three pieces put a brace between two other tokens, with an
alternative that begins another, an illegal one, an empty one or no end, and addresses of four
characters end before, in and after it. A buffer of 12 bytes ends inside a bundle's header and one of 96
has room for two or three messages and not for all. The other bounds (`MaxTime`, `MaxPackets`,
`MaxPos`, `MaxArgs`, `MaxCalls`, `MaxBack`) only end runs.

Fairness of sequential code is that it goes on: weak fairness of a sift's turns, of the dump's, of the
pattern loops' and of the prototype's receiver, and none of the calls that begin them.

Runs in which the code does not do what its documentation says (each `PROJECT.json` finding quotes it):

| Run | What happens |
|---|---|
| `heap_realloc` | a failed `realloc` overwrites the only pointer to the queued messages (`queue.c:51`) |
| `threads_stranded` | two threads call `take_s` once, two messages come, one signal is sent (`queue.c:135`) |
| `writer_overrun` | a string whose length is a multiple of 4 takes a word more than was checked (`write.c:60, 155`) |
| `bundle_again` | the second bundle of a process has no `#bundle` (`write.c:87`) |

More that modelling the code showed, without a run of its own:

* A growable queue of capacity 0 doubles to 0, and stores behind its block (`queue.c:50`): `Fits` fails
  with `Capacities = {0}`.
* A message started in a full bundle moves `pos` past the end before any check, and the check compares
  the negative rest as a `size_t` (`write.c:55, 17`): `WithinBuffer` fails with strings of 3 bytes and
  `Bundles = TRUE` in a buffer of 16.
* A message that is only an address has a NULL `arg_ptr`, and a read from it passes the check
  (`read.c:54, 117`): `GetArgOf` then answers NULL, the end of the program.
* The size of a blob has no lower bound (`read.c:156-160`): with a size of -8 the reader goes back one word
  and answers `OSC_OK`, so `arg_ptr` may leave the message at its beginning. `WithinMsg` says when.
* `osc_msg_reader_get_arg` answers `OSC_OK`, 0, for an argument (`read.c:84-98`); `osc.h:145` says 1.
* `osc_writev` asks for room for a blob's data and does not write it (`write.c:205-211`): `WritevArg`.
* A bundle of no messages is 16 bytes and the bundle reader refuses it (`read.c:10`).
* A message from the writer has no comma before its tags, so the reader takes it for one without tags.
* Element sizes are stored in host order (`write.c:76`) and read in the network's (`read.c:29`):
  `BundleReadsBack` fails with `BigEndian = FALSE`. The default macros of a little-endian build
  convert the value of a float instead of its bytes, and `osc_msg_write_double` does not compile
  (a `double` is shifted, `osc.h:48`); a port with its own conversions (`OSC_GOT_PAL`) does.
* `dump_osc_message` prints a blob's length from a union whose pointer has overwritten it
  (`osc.h:104-107`, `udp_dump.c:73`). The prototype has the same union (`ideas/osc.h:89-92`): who reads with
  `osc_reader_get_arg` has no size of a blob. `osc_reader_get_arg_blob` gives it.
* `osc_pattern_verify` accepts `{` and `[` inside a brace, which `pattern.h:29-30` excludes, and answers 2 for a
  dynamic pattern where its comment says 1. The matcher stays in bounds all the same (`InBounds`).
* The matcher tries no second alternative and no shorter star: `/{a,ab}` does not match `/ab`, nor
  `/*a` `/ba`, nor `/a**` `/a`; and `/a/*` matches `/a/`. Hence `NoChoice` in `NoMatchIsRight`.
  `test_pattern.c` goes on after a compile that failed.
* `osc_reader_init` of the prototype steps by a size without the 4 bytes of the size word (`osc.c:190-195`):
  with two messages or more the last word of a message is taken for a size. A 0 there is a loop
  that does not end, text an error, another number may be accepted with sizes left unconverted.
  `OneReadsBack` and `OneIsRead` are about one message. A second init of a buffer converts the sizes back.
* `tuio_bundle_alive` writes a size that is 8 too large and does not count its message in `len`
  (`osc.c:417-421`); a `2Dblb` set carries no session id (`osc.c:445-452`); after a failed write
  `buffer_pos` stays 4 farther on, so the next message lies behind a hole. `osc.h:104` says that
  `osc_reader_init` answers 1 or 0, the code answers `OSC_OK`, 0, or `OSC_ERROR`.

A mutant for each property of a passing run is a definition next to the one it replaces, marked as such.

## Proofs

All theorems are proved for every value of the constants under the named assumptions of the modules.

* **MsgHeapProofs**. `HeapOrdered` is not inductive: within a call the heap is out of order at `ix`.
  `HeapInv` says where. During an add only `ix` and its parent may be out of order, during a removal
  only `ix` and its children, and everything below `ix` is in order with what is above it
  (`HoleInOrder`), so that an exchange moves the hole and mends the place it leaves. `Distinct`
  makes the set of messages follow the array. From it: `HeapOrder`; `LostHeapIsFull`; `HeapFits` (from
  initial capacities above 0); `HeapImplementsQueue` (whether or not `realloc` fails), for which the
  root of an ordered heap is shown to precede all of it. `SiftsAreLogarithmic`: counted from 1, a turn
  of an add at least halves `ix`, a turn of a removal at least doubles it, inside of the heap.
* **MsgQueueThreadsProofs**. `ThreadsInv` adds to the properties that the head a thread has tested
  stays (`HeadStays`, from the lock and the clock), that a local `msg` is set only before a return, and
  which places belong to which function. From it: `TakeNeverNull`, `NoneEarly`, `Conservation`,
  `MutualExclusion`, and `ThreadsImplementDelivery` (if all consumers ask for due messages). `NoneStranded`
  needs consumers that call for ever; the run `threads_stranded` is what happens without.
  `OneProducerInOrder` needs one producer whose script is in order of time, as `main.c` has; what
  was taken had been added, and so comes before what is still to be added.
* **MsgDueProofs**. The difference of two timevals is the difference of their numbers; then the due
  test and the comparison agree with numbers (`DueOnTime`, `TimeOrder`, `ComparisonRight`,
  `SignOfDifference`).
* **BundleRoundTripProofs**, the writer first. `WriterInvariant`: alignment after any calls. `WriterFits`:
  without bundles and without strings whose length is a multiple of 4 nothing is written past the
  end; the strengthening is that `pos` is in the buffer and the tags of the arguments to come lie
  behind it. `WrittenOnce`: `WriteOnce` is a step property that needs to know what is free. `Fresh` says
  that no word behind `pos` is written, that the size word of an open element is free, and that the
  words of the tags to come are already kept for tags. Then the dump. `DumpStaysInside`, for any
  datagrams and both byte orders: `DumpInv` says that the readers are nested in each other and in
  what was received, and that what is printed lies before the innermost of them. Then both.
  `PacketsReadBack`, on a big-endian machine with no other senders, for any number of packets of any
  size: `Fresh`; `PacketInv`, that a careful caller's packet is nothing yet, a message, or a bundle
  whose elements lie one behind the other, each behind its size (`LaidOut`, with the size of an open
  element still to come); and `ReadingInv`, that the datagram holds the same elements, and that the
  reader is where the next one to print begins. `PacketsStayInside` needs neither byte order nor
  the absence of others: a careful caller's packet has no word that was never written, but for the
  size word of an open element (`Gapless`), so what is sent is a datagram like any other. The
  dump ends because of a measure (`Ahead`: the bytes before the innermost cursor, and the calls that are
  open) that falls at every turn (`TurnsAdvance`, `PacketTurnsAdvance`); and since an element lies behind
  a header of 16 bytes and a size, its calls are nested at most once per 20 bytes (`DepthOfCalls`).
* **PatternProofs**, for all patterns and inputs. First where the cursors are (`CursorInvariant`,
  `CursorsInBounds`): what verify's loops have read (`ReadTo`, `InBrace`) says where braces close, and
  the matcher's cursor is on a token they have been at or inside a brace they saw closed. Then what
  the answers mean (`MatchesAreRight`, `NoMatchesAreRight`). The language is a function over
  pairs of places (`Matches`), defined by what follows; that it satisfies its equation is shown by an
  induction on how much of the pattern is left, which is written out as a least counterexample.
  `Answering`, the strengthening, compares the rest with the whole at every turn: if the rest of the
  pattern matches the rest of the input then the whole matches the whole (so 1 is right), and for a
  pattern without choices also the other way round (so 0 is right). Inside a brace the alternative
  under the cursor has matched up to there (`Trying`), and those before it have not. `Seen` adds
  which tokens verify lets through, for the patterns that are compared by `strcmp`. `TurnsGoOn`: the
  cursor in the pattern moves forward at every turn that does not answer, also when an alternative fails
  and the input goes back to the mark; with `InBounds` that bounds a call by the length of the pattern.
* **MsgReaderProofs**. `ArgPtrStays`, for any message and any reads, of words of any value: the end of the message
  bounds `arg_ptr`, its beginning does so until a size below zero has been read, and the dump
  reads none. `NullReads`. `DumpPrintsArgs`: what is
  printed is a beginning of the message's arguments and `arg_ptr` is where the next one lies. The places of
  arguments are lengths of flattened sequences; `SequenceLemmas` takes these apart one element at a
  time. It replaces an induction over data by the well-foundedness of the subsets of a finite set.
* **IdeasBundleProofs**, for all buffers, messages and calls, and both byte orders. `BundleInvariant`
  (`BundlesFit`, `LenIsThePacket`): `BundleInv` says that `buffer_pos` is on a word of the buffer (`Shape`), that
  `len` counts the messages of the calls that succeeded and that each lies whole at its place
  in front of `buffer_pos` (`Counted`, `Intact`). All that a call writes, whether or not it fails, lies from
  `buffer_pos` on, so it disturbs none of them. That the messages lie one behind the other from the start
  (`Contents`) is said only until a call succeeds after one that failed, whose 4 bytes for a size
  (`osc.c:143-152`) are then a hole in front of it, or after a list of alive objects, which `len` does not count. `OneMessageReadsBack`: `ReadingInv` says that the packet holds
  the message behind none or 5 words, and may lack its last word (`Holds`); that a size is converted or
  still to be; and where a message is read, that `got` is what precedes the argument at `arg_ptr`, and
  `tags` the tags from there on. It is about one message: with two the loop of `osc_reader_init` loses its way. That conversion to the network's order is undone by the same
  conversion (`OrderBack`) is shown byte by byte. `StepsGoOn`: a receiver of one message converts at
  most one size, finds the message once, and takes a tag at a time. Assumed (`IdeasAssumption`): buffers are made of whole words
  and no larger than an `int32_t`; arguments are `int32_t`s, of which lengths are not negative.

Only model-checked: liveness (`CallsReturn` twice, `DeliversAll`, `WaitEnds`, `DumpReturns`,
`OneIsRead`), which TLAPS does not do under fairness, though that no call takes its turns for ever is
proved for all of the sequential ones (`SiftsAreLogarithmic`, `TurnsGoOn`, `TurnsAdvance`,
`StepsGoOn`); what is left is that a turn is enabled. `BundleReadsBack` with other senders.

## Not modelled

* Sockets and the text that is printed.
* `osc_msg_queue_teardown` (frees the block after the last call), `osc_msg_queue_lock` and `_unlock`
  (nothing in the repository calls them).
* The 64-bit conversions, which touch no size and no cursor, and the choice of macros for a platform.
* The values of a message's arguments, other than sizes: each is stored and fetched by one assignment.
* A parent writer that goes on after its child: it would write over it, and the code gives it no
  way to know.
* `tuio_bundle_init` and `osc_reader_ok`: declared in `ideas/osc.h` and not defined.
