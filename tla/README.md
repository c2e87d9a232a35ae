# sancus-core in TLA+

TLA+ models of the sancus-core C library, TLC configurations that check them on
small instances, and TLAPS proofs that what the passing runs check of safety
holds for every instance. File names below are relative to the repository
(`src/sancus/stream.c`, `include/sancus/stream.h`, ...).

## 1. The system

sancus-core is a library for event-driven programs: streams and TCP sockets on
top of an event loop, time arithmetic, netlink, a logger and a few containers.
Everything but the logger runs in the thread of the loop. What makes it hard is
that the library calls the application in the middle of its own functions, and
the application may call any function of the library again from there.

| component | state | operations | who it talks to | what is hard | what makes it correct |
|---|---|---|---|---|---|
| stream (`stream.c`) | watched descriptor, read buffer | init, start, stop, close, process, reset; `read_cb` | event loop, kernel, callbacks `on_read`, `on_error`, `on_close` | re-entrant callbacks while `read_cb` loops over the buffer; a full buffer; closing from a handler and by its answer | bytes shown once and in order; one close, and silence after it; bytes that arrive are read |
| legacy buffer (`buffer_legacy.c`) | array, base, len, size | bind, read, rebase, skip, reset | stream | the window moves inside the array | the window holds the unread bytes; an empty buffer is all available |
| tcp server (`tcp_server.c`) | descriptor, watcher | listen (IPv4, IPv6, local), start, stop, close; `connect_cb` | loop, kernel, `pre_bind`, `on_connect`, `on_error` | `on_connect` may close or reopen the server; running out of descriptors; a failed bind | each descriptor has one owner; a waiting connection is offered |
| tcp connection (`tcp_conn.c`) | descriptor, watcher, state, last activity | connect, start, stop, close; `io_cb` | loop, kernel, `on_connect`, `on_read`, `on_error` | non-blocking connect: data may arrive before its outcome is looked at; stale events; retry from the handlers | one truthful outcome per attempt; the assertions of `io_cb` hold; input is reported |
| time, clock (`time.c`, `time.h`, `clock.c`) | none; the clock | add, sub, compare, elapsed, left, conversions | everybody | carry and borrow, a clock set back, width of `int` | agreement with exact arithmetic |
| netlink receiver (`netlink_io.c`) | descriptor, watcher, port id | listen, start, stop, close; `recv_cb` | loop, kernel, `on_message`, `on_error` | several messages per datagram, foreign and control messages, re-entrant callbacks | each message shown; no descriptor lost |
| netlink messages (`netlink_msg.c`, `netlink_attr.c`) | a buffer | put header, put attributes, parse, validate, get | application | padding, 16-bit lengths | nothing outside the buffer; what is put is parsed back |
| logger (`logger.c`, `logger.h`) | tree of loggers (parent, prefix, prefixer, mask, backend), default backend, its descriptor and mutex | init, masks, prefixes, backends; printf, dump, hexdump and the macros around them | threads, prefixers, backends, `sancus_writev` | what a logger lacks it inherits, and 0 means "inherit"; threads, partial writes, buffers of fixed size | a line reaches the right backend once, with the right prefix and message; lines in one piece; dumps (of less than 100000 bytes) never lost, and none cut inside an escape |
| list (`list.h`) | two pointers per element | init, insert, append, insert before, del; four loops, size, get, first, last, next | application | bodies of loops that remove, free and add items | the pointers are those of the sequence promised; a loop comes by all that stayed, and ends |
| buffer (`buffer.c`) | array, base, len | append, appendf, strip, truncate, sparse | logger | room for a NUL, appends that are dropped or cut | as used by the logger |
| C strings (`fmt_cstr.c`) | none | format | application | escapes at the end of the buffer | only whole escapes, and the NUL inside |
| fd, socket helpers (`fd.h`, `fd.c`, `socket.h`) | none | read, close, writev, open, socket, accept | all of the above | EINTR, partial writes | `sancus_writev` writes the vector |
| serial, alloc, types | | | | | not modelled, see 7 |

**The event layer.** `include/sancus/ev.h` is a stub: its functions answer
ENOSYS, so that the library compiles without an event library. The models
take its contract from how the code uses it, which is that of libev: a watcher
is active from start to stop; the callback runs while the watcher is active and
its descriptor ready (level-triggered); stopping a watcher discards what was
pending for it; a watcher whose descriptor has become invalid is stopped and
reported with EV_ERROR. `read_cb` and `connect_cb` assert that EV_ERROR never
comes, and the models show why it cannot (`WatchedFdOpen`); `io_cb` and the
netlink `recv_cb` handle it, and it is an action there (`WatcherError`). The
stub numbers the three event flags 0, 1, 2 although they are used as bits:
`TcpServer` takes the flags as constants and is run with the values of a real
event library. With the header's values (`EvRead = {}`) readability is never
seen and `IncomingIsOffered` fails.

## 2. The modules

| module | models | state and actions |
|---|---|---|
| `LegacyBuffer` | `buffer_legacy.c` | operators on a buffer record: one per C function |
| `Stream` | `stream.c` | `stack` holds the callbacks that run; an action starts where the library is entered (an API call, the loop, a callback returning) and ends at the next callback or return |
| `ByteChannel` | the promise of a stream | an abstract queue of bytes that is opened, fed, read from the front and shut; `Stream` refines it |
| `TcpServer` | `tcp_server.c` | plus the process's descriptor table and the kernel's queue |
| `TcpConn` | `tcp_conn.c` | plus the kernel's socket, pending events (`revents`) and the clock |
| `Time`, `Timer` | `time.c`, `time.h`, `clock.c` | `Time`: an operator per function; `Timer`: a program that reads the clock, arms and extends a deadline, next to exact integers |
| `NlMsg`, `NlReceiver` | `netlink_msg.c`, `netlink_io.c` | offsets in bytes; one step per message of a datagram; a header read where no message starts is arbitrary, its length below 2^31 or (`Huge`) above |
| `NlAttr` | `netlink_attr.c` and the builders of `netlink_msg.c` | builds a message, then parses it with a callback that validates as any type, for the least or for an expected length |
| `Logger` | `log_write`, `fd_logger_write`, `sancus_writev` | threads; an I/O vector element is a stretch of the line |
| `LogTree` | `logger.h`, the look-ups of `logger.c` | the fields of each logger; an action per function that changes one; an operator per look-up (level, backend, prefix) |
| `LogCall` | the macros, `vprintf`, `vdumpf`, `vhexdumpf`, `buffer.c`, `fmt_cstr.c` | extends `LogTree` with one call at a time, from the level check to the line a backend gets. Text is a sequence of characters known by their kind and origin, because the properties are about which are cut or stripped |
| `ItemLists`, `List` | `list.h` | `ItemLists`: what the operations promise, on sequences; `List`: the pointers, changed together with them, and the cursor of a loop between two runs of its body |
| `StreamProofs`, `TimerProofs`, `TcpServerProofs`, `TcpConnProofs`, `LoggerProofs`, `LogCallProofs`, `ListProofs` | | the theorems about the module they are named after |
| `NetlinkProofs` | | the theorems about `NlReceiver` and `NlAttr`; it extends both, which is why the latter's specification is called `AttrSpec` |

`NlMsg` is extended by `NlReceiver` and `NlAttr`, `LegacyBuffer` by `Stream`,
`Time` by `Timer`, `LogTree` by `LogCall`, `ItemLists` by `List`. `LogCall` ends
where a backend is called and `Logger` starts there. Each module has a section of deliberate bugs: variants of
one definition each, which show that a property would notice that mistake in
the code. They are part of no specification.

**What is asked of the application.** It is free to call anything at any time,
except what the documentation or an assertion forbids:

- close only what is stopped, start only what has a descriptor and is not
  watched, connect or listen only on what is closed;
- `pre_bind` only sets socket options;
- a `sancus_tcp_conn` starts zeroed, and a failed connection is not left watched
  (`io_cb` says "fix your app!");
- a logger is no ancestor of itself and is not changed while it is used;
- an item is on one list at most. The body of a plain loop does not remove the
  item it runs for, that of a safe loop does not remove the one set aside.

## 3. Runs

| run | shows | instance | bounds |
|---|---|---|---|
| `stream` | type, `ByteOrder`, `EmptyIsRebased`, `WatchedFdOpen`, `CloseOnce`, `SilentOnceClosed`, refinement `IsChannel`, liveness `BytesReceived` | 96,200 states | 3-byte buffer, 5 bytes, so that the window wraps, fills and is rebased; one reopening; callbacks nested twice, which is where an inner call can change what an outer one goes on with |
| `tcp_server` | `OneOwner`, `WatchedFdOpen`, `IncomingIsOffered` | 640 states | five descriptors, so that they run out while connections are open; three waiting connections |
| `tcp_conn` | `AssertsHold`, `OutcomeTruthful`, `QuietWhenIdle`, `WatchedFdOpen`, `ActivityKnown`, `CallbackOrder`, liveness `OutcomeReported`, `InputReported` | 4,671 states | three attempts on one structure, so that one meets what its predecessor left, also when that was made from within `on_connect` (ghost `nested`); the clock up to 3 |
| `timer` | `DeadlineExact`, `DifferencesExact`, `LeftInMs` | 15,600 states | 3 ns per ms, 2 ms per second and an `int` of 16 values: every carry, borrow and rounding case, and readings near the width |
| `nl_receiver` | `OneDescriptor`, `MessagesShown`, `RefusedStaysSilent`, `DatagramReported` | 68,300 states | datagrams of one message (what multicast notifications are), a queue of two, own, foreign and anonymous senders, an unaligned length; input and the watcher's error in separate calls of `recv_cb` and in one |
| `nl_attr` | `InsideBuffer`, `RoundTrip`, `ReadsInside` | 248,000 states | a 36-byte buffer: up to five attributes, every padding, a buffer filled to the last byte; a payload of 65534 bytes, whose padded length wraps to 0; all types of data, and one past the last |
| `logger` | `LinesWhole`, `CallsReturn` | 90,000 states | two threads, two descriptors, two calls: the least in which lines can mix; every composition of a line |
| `log_call` | `LineDelivered`, `LevelsKept`, `DumpComplete`, `HexComplete` | 289,000 states | two loggers changed twice: a child that inherits and an ancestor whose mask, prefix or backend then changes; prefixes and messages shorter than, as long as and longer than their buffers; names of functions that are empty, fit, and fill the buffer with what follows them; every answer of a prefixer up to one more than there is room for; a 23-byte data buffer and up to five bytes of width 1, 2 or 4: dumps that fit, just fit and are cut at every offset, with suffixes of nine characters and of ten, the first too long for `min_suffix`. Data and long messages are tried before the tree changes (`MaxFull` = 0): what becomes of them depends on it only by the prefix. The proofs have no such limit |
| `list` | `Linked`, `QueriesAgree`, `VisitsAll`, liveness `LoopEnds` | 394,000 states | two lists and three items: an item has two distinct neighbours, and can move to the other list while a loop is on it |
| `nl_multipart` | violation of `MessagesShown` | | datagrams of two messages |
| `nl_closed` | violation of `AssertsHold` | | datagrams of one message |
| `writev` | violation of `LineIntact` | | as `logger` |

Deadlock is checked where the system cannot stop (`tcp_server`, `timer`,
`log_call`, `list`). The others reach a bound (bytes sent, attempts, calls, a message
parsed) or an aborted process, where nothing is left to do.

### What the violations show

- `sancus_nl_msg_next` (`netlink_msg.c:57`) adds a number of bytes to a pointer
  to headers and moves sixteen times too far. Only the first message of a
  datagram is read where it is; `nl_receiver` therefore looks at datagrams of
  one message.
- `recv_cb` (`netlink_io.c:125`) closes a watched receiver without telling when
  a datagram has only control messages, since `ret` is still 0. The assertion in
  `sancus_nl_receiver_close` then fails, for the application or for `recv_cb`.
- `sancus_writev` (`fd.c:79`) goes on at the wrong address after a write that
  stopped inside the second or a later element. Lines still have their length
  and are not mixed (`LinesWhole`), which is what the passing run checks.

Further disagreements met while reading, without a run of their own:

- `sancus_time_sub` (`time.c:34`), "A -= B", is not exact when the result is
  negative: 0 s - 1.000000001 s gives -0.999999999 s. `sancus_time_elapsed` and
  `sancus_time_left` compare first and are exact (`DifferencesExact`); the
  logger's time stamps meet it when the clock is set back.
- `sancus_list_swap` (`list.h:90`), "swaps two elements in a list", exchanges
  their fields and leaves their neighbours pointing at the old places.
- `unset_mask` of a logger's last level makes it inherit again, and
  `extend_mask` on one that inherits silences what it inherited (`logger.h:146`,
  `153`).
- A static prefix of exactly 128 characters has its NUL written after the
  buffer (`logger.c:259`), and a function name that fills the message buffer
  exactly loses the message, with an error (`logger.c:316`).
- `min_suffix` (`logger.c:436`) provides for the digits of a size and not for the
  NUL: a dump of 100000 bytes or more, which leaves just that room, is lost with
  an error (`logger.c:473`).
- `io_cb` sets RUNNING after `on_connect` has returned (`tcp_conn.c:93`): an
  attempt that `on_connect` made on the same structure loses its own state, stays
  watched for writing, may have `on_read` called while it is in progress, and is
  never told its outcome.
- `sancus_nl_msg_ok` (`netlink_msg.c:51`) casts `nlmsg_len` to int: a length of
  2^31 or more is negative and passes for one that fits. What is left then goes
  below zero; a length of 2^32 - 2 is aligned to 0 and the walk does not end. The
  kernel writes no such headers, but `sancus_nl_msg_next` reads where none is.
- `__sancus_nl_attr_put_check` (`netlink_attr.c:256`) aligns in 16 bits: a payload
  of 65533 bytes or more counts as none, and the copy is not guarded.
- `recv_cb` called with EV_READ and EV_ERROR at once asserts a descriptor
  (`netlink_io.c:131`) that reading, or `on_message`, may have closed. libev gives
  both when it finds the descriptor invalid.
- `sancus_nl_attr_put` (`netlink_attr.c:266`) stores the address it was given
  instead of what is there; the `_is_active` macros (`tcp_server.h:164`) deny
  descriptor 0; `sancus_time_is_gt_zero`, "A > 0", asks for both fields to be
  positive; a comment in `time.h` has the comparison of `sancus_time_left` the
  wrong way round; `sancus_time_cmp` cuts the difference of two times more than
  2^31 seconds apart (`time.h:126`).
- close() is retried after EINTR (`fd.h:54`), when Linux has closed the
  descriptor already. In one thread the second close() only fails; with several,
  it can close what another thread has just opened.

## 4. Fairness

- The loop dispatches what stays ready: strong fairness of `read_cb`,
  `connect_cb`, `io_cb` and the netlink `recv_cb` (and of the poll before
  them). Strong, because a callback that stops and restarts the watcher
  disables and re-enables the action, and a level-triggered poll finds the
  descriptor ready again.
- Callbacks return. In `Stream` this is stated per depth of nesting: a handler
  makes finitely many nested calls.
- The READ_FULL handler of a stream does not for ever answer "go on" without
  making room. `read_cb` would spin; it is the handler's contract.
- Bodies of loops over a list return. `LoopEnds` excuses a body that adds items
  for ever.
- Threads of the logger run, the mutex is handed out fairly and writev() is not
  interrupted for ever.

Nothing is assumed of peers, clients, the kernel's errors or when the
application calls. Liveness therefore always excuses a stopped watcher. accept()
may fail for ever, for want of descriptors or otherwise: the application hears of
it by `on_error`, which is what `IncomingIsOffered` asks for. Of the netlink
`recv_cb`, calls for input alone are fair; the watcher's error may come with them
or not at all. An attempt made from within `on_connect` is excused by
`OutcomeReported` (see the disagreements above).

## 5. Proofs

Each theorem is about `Init /\ [][Next]_vars` (`SafeSpec`, or `Spec` where no
fairness is stated), for every value of the constants under the assumptions the
module names. The names of bounds (`MaxBytes`, `MaxCalls`, ...) are constants
too, so no theorem depends on how large they are.

| module | invariant needed | proved of the runs' properties |
|---|---|---|
| `StreamProofs` | `BufferInv`, `ControlInv` | `TypeOK`, `ByteOrder`, `EmptyIsRebased`, `WatchedFdOpen`, `CloseOnce`, `SilentOnceClosed`, the refinement `IsChannel` |
| `TimerProofs` | the times are canonical and equal to the exact ones | `TypeOK`, `DeadlineExact`, `DifferencesExact`, `LeftInMs` |
| `TcpServerProofs` | `OneOwner`, `WatchedFdOpen`, `ConnHeld` | `OneOwner`, `WatchedFdOpen` |
| `TcpConnProofs` | `ControlInv`, `ClockKnown` | `AssertsHold`, `OutcomeTruthful`, `QuietWhenIdle`, `WatchedFdOpen`, `ActivityKnown`, `CallbackOrder` |
| `NetlinkProofs`, receiver | `FdKnown`, `WalkKnown`; `WholeLeft`; `Walking` | `OneDescriptor`, `RefusedStaysSilent`; `MessagesShown` for datagrams of one message |
| `NetlinkProofs`, attributes | `Layout`, `Chain`, `Parser`, `Getter` | `InsideBuffer`, `RoundTrip`, `ReadsInside` |
| `LoggerProofs` | `Exclusive`, `OnePiece`, `Lines`, `Finished` | `LinesWhole` |
| `LogCallProofs` | `TreeInv`; `BufferInv`, `IdleInv`, `CallInv`, `LinesInv`, `DumpInv`, `HexInv` | `LevelsKept`, `LineDelivered`, `DumpComplete`, `HexComplete` |
| `ListProofs` | `Pointers`, `Loop` | `Linked`, `VisitsAll`, `QueriesAgree` |

Type correctness is proved of each of them as well (of `LogCall` by `TreeInv` and
`BufferInv`). The invariants were checked by TLC on the instances of the runs
before they were proved.

**Stream.** The type invariant is not inductive: `sancus_buffer_read` writes
behind the window and `sancus_buffer_rebase` moves it, which stays inside the
array only if base + len <= size. `BufferInv` says where the window lies, that
its i-th byte is number consumed + i, and that an empty window is at the front;
it is kept by lemmas on each operator of `LegacyBuffer` (`ReadLemma`,
`RebaseLemma`, `SkipLemma`, ...), which `BufferStep` cites per action.
`ControlInv` ties the descriptor to the watcher and to the number of on_close
calls; `ControlStep` goes through the actions again, with one lemma for the
three ways to close. That `Stream` implements `ByteChannel` follows from both:
an action that reads appends to the queue, one that skips or resets takes from
its front exactly what was asked for (the ghost `asked`), one that closes shuts
it, and every other leaves it alone, whatever it does to the window
(`ChannelStep`).

**Time.** Lemmas about `sancus_time_fix` (carry out of any sum), `_add`, `_sub`
of a smaller from a larger time, `_cmp`, and the rounding of
`sancus_time_ts_to_ms`. `RangeAssumption` is needed: no two times are 2^31
seconds apart, since `sancus_time_cmp` cuts the difference to an `int`.

**TCP server.** `ConnHeld` says that `connect_cb` holds a descriptor exactly
while `on_connect` runs. Without it a callback that returns could hand over or
close what is not there. The kernel gives the lowest free descriptor, which
exists by the library's theorem on least elements.

**TCP connection.** The properties speak of moments (a callback starts, the
loop is idle); `ControlInv` says for every moment what the application has been
told and how the state, the watcher's mode and the kernel's socket agree with
it. `SeenKnown` is about the events that were collected and not yet delivered: while
the outcome is untold EV_WRITE is among them, and EV_READ too if the connection
was refused. It is what the assertions of `io_cb` rest on. `Nested` says what is
left of this for an attempt made from within `on_connect`: its state may be
RUNNING with nothing told, and it then has the interest of one in progress.

**Netlink receiver.** `FdKnown` says that a receiver with a descriptor is one the
application takes for open, so that it does not listen over it; the converse
is false (run `nl_closed`). `WalkKnown` says for whom a datagram is walked.
`MessagesShown` is proved under MaxMsgs = 1 and is false for 2 (run
`nl_multipart`). For any number, the type invariant says that the length left
does not go below zero unless a stray header's length is 2^31 or more, which
needs that a datagram is whole words long (`WholeLeft`, `EndLemma`): then a
message that fits there fits with its padding, even where `sancus_nl_msg_next`
reads a header that is none. The invariant `Walking` has the one message either ahead, with
nothing shown, or behind, with nothing left.

**Netlink attributes.** `Chain`: attributes follow each other without gaps from
the header to the end of the message, each as long as its aligned length. The
parser (`Parser`) is always at the start of the attribute after those it has
seen, so it ends exactly at the end. The arithmetic is that of
`SANCUS_NL_ALIGN` in a `uint16_t` (`AlignLemma`). It is exact for a message of up
to 65532 bytes (`Counted`); one that is asked to grow beyond goes to the phase
`wrapped`, of which nothing is said. Payloads and buffers have any size.

**Logger.** Who writes has the mutex; every thread is at a call of its own; no
call has two pieces; what is written of a line and what is left in the vector
add up to its length, which `sancus_writev` keeps even when it goes on at the
wrong address; and a call is done only once nothing is left. A vector's length
is a recursive function (`Bytes`), and `ConsumeLemma` says what dropping its
first bytes leaves. `ThreadsAssumption` only says that "nobody" is no thread.

**List.** `Rings`: along each list, both ways, the pointers are those of the
sequence, and the ends meet in the head; `OncePlaced`: no item is at two places.
Each operation changes four pointers at most, and a lemma per operation says
which places of the ring those are. A loop (`Passed`) has come by every item
that stayed and lies before the element it goes on from; for a plain loop that
is the item itself, for a safe one the item set aside, and removing or adding
others does not change what lies before it. `QueriesAgree` walks the pointers:
`Walked[n]` is the n-th place of the ring.

**The tree of loggers.** What a logger lacks it looks for in its parent, and so
on. `TreeInv` has the types of the fields and `Rooted`: the loggers have depths
such that each is deeper than its parent. `sancus_logger_init2` keeps it because
it is not given a descendant of the logger as its parent (`GraftLemma` finds the new
depths). From it come induction and recursion from the root (`TreeInduction`,
`TreeRecursion`), and that every look-up of the code, each a recursion of its
own, finds what the reference finds: the first of the lineage that has the field
(`LevelLemma`, `FindLemma`, `PrefixingLemma`). `LevelsKept` follows per
operation.

**A call of the logger.** The invariant says for each phase of a call what the
buffer and the lines are: while data is encoded, the quote and the whole
encodings of the first p bytes, with `min_suffix` characters left
(`EncodeStep`: a block has at most a quarter of the room, and no byte takes more
than four); while it is taken back, the same for fewer bytes, since what is
stripped is the encoding of the last one; then, with the ellipsis or without, there
is still room for a suffix of up to nine characters. The properties speak of calls that have
returned and say nothing of the room in between, which is why they are not
inductive. For a hexdump, if a line fits, the lines written are the reference's
for the first p bytes (`RowLemma`, `RowsNext`). `LineDelivered` rests on
`WrittenLemma`: the prefix and the message are what the buffer had room for,
without what is blank at the end (`StripLemma`, `CutLemma`, `MessageLemma`,
`PrefixLemma`; `SourceLemma` for the context). The assumptions are those of
`LogTree` and `LogCall`: the prefix buffer has room for a character and a NUL,
the data buffer is longer than `max_suffix`, and a suffix is at least the five
characters of `" (9)`. The exceptions (a static prefix exactly as long as its
buffer, a context that fills the message buffer, a suffix longer than `min_suffix`
has room for) are in the model and stated in the properties. Neither the depth of the tree, the number of
changes, nor the length of messages and data is limited; the tree may change
between any two calls (`MaxFull` is a constant too).

**Induction over data.** The library's induction theorems take an operator as a
parameter, which the installed provers cannot instantiate. The facts about
recursive functions are proved by a least counterexample instead: if there is a
number for which one fails, the library's theorems on well-founded relations
give the least one, it is not 0, and the fact holds for the one before
(`LeastNumber` in `LoggerProofs`, `LogCallProofs` and `ListProofs`). In `LogCallProofs` this is
done once, for sets instead of operators: `InductionUpTo` (a set with 0 that has
k whenever it has k - 1), and `RecursionExists` (there is a function with given
first value and steps). A recursive function of the model is a CHOOSE; it is
shown to exist by the latter and then described by the former. So for
the encoders, the lines of a hexdump, FlattenSeq and the walks up the tree.

**Only model-checked:**

- everything that must happen eventually: `BytesReceived`, `IncomingIsOffered`,
  `OutcomeReported`, `InputReported`, `DatagramReported`, `CallsReturn`,
  `LoopEnds`. The prover does not reason about fairness and ENABLED;
- `MessagesShown` for datagrams of more than one message, `AssertsHold` of the
  receiver and `LineIntact`, which are false and stand in runs that show the
  violation.

## 6. Abstractions

- Addresses: the wrappers that convert them (`sancus_tcp_ipv4_listen`,
  `sancus_tcp_ipv4_connect`, ...) do so before any state changes, and a failure
  changes nothing. The unlink() of a local socket's path (`tcp_server.c:222`) is
  left out with the file system. A failing fcntl() in `sancus_socket`, which
  closes the new descriptor, counts as a socket() that fails.
- The bytes of a stream are numbered; payloads of netlink attributes are
  lengths; lines of the log are lengths in `Logger` and text in `LogCall`.
- `RebaseRatio` is 10 in `buffer_legacy.c`. The run has size / ratio = 1, which
  makes the window move early; that it is 0 for arrays of less than ten bytes is
  covered by the proofs, which hold for every ratio.
- What the memory of a netlink message holds after the 16-bit lengths have wrapped
  is not modelled; the model stops there (phase `wrapped`). A protocol's own
  header (`Extras`) is at most 4096 bytes.
- The suffix of a dump is a length of its own (`Endings`) and not computed from
  the size of the data, so that short data meet long suffixes.
- The byte after the prefix buffer, in which the NUL of a prefix of exactly its
  size ends up, is not modelled. A prefix that a prefixer writes is all visible
  characters. A message whose format is not empty but prints nothing is taken for
  an empty one.
- The abort() that follows a failed sancus_assert() without NDEBUG ends the
  process and is left out, and so is the raise(SIGTRAP) of sancus_trap(); the
  messages they log are in.
- `RefusedStaysSilent` excepts the rest of a datagram whose `on_message` closed the
  receiver and answered true. The run's datagrams have one message and no rest;
  only the theorem meets that case.
- The prelude of a log line (time and level) is a length. Its time stamps are
  computed from unsynchronised statics, a data race noted as a hazard.

## 7. Not modelled

- `sancus_list_swap`: it breaks the list (above) and nothing uses it.
- `sancus_buffer_strip` of a given string: no user.
- `sancus_serial.c`: termios calls one after the other, with no state of their
  own.
- `alloc.c`: wrappers of malloc() and free().
- `types.h`, `string.h`, `common.h` and the rest of `bit.h`: macros and
  conversions without state.
- Conversions between timespecs and doubles, and `sancus_open`.
- The time stamps of log lines: text on which nothing depends.
- Several threads over one descriptor table: only the logger is meant to be
  called by more than one.

## 8. State of the project

Every part with state and control of its own is modelled and checked, and every
safety invariant and action property of the passing runs is proved for every
value of the constants that the modules' assumptions admit, `MessagesShown` for
datagrams of one message.

Left, should the code change: if `sancus_nl_msg_next` is repaired, `MessagesShown`
can be checked and proved for datagrams of several messages (`Walking` then needs
the messages behind and ahead instead of one); if `sancus_writev` is,
`LineIntact` can take the place of the lengths in `Lines`. The time stamps of log
lines and the conversions to double are the parts of the source with logic of
their own that no module has.
