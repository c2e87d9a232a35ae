------------------------------ MODULE LogCall ------------------------------
(***************************************************************************)
(* A call of the logger, from the macros of include/sancus/logger.h to the *)
(* backend (sancus_logger__vprintf, __vdumpf and __vhexdumpf of            *)
(* src/sancus/logger.c, on the buffers of src/sancus/buffer.c), and the    *)
(* formatting of a C string (src/sancus/fmt_cstr.c).                       *)
(*                                                                         *)
(* Data is the sequence of the widths its bytes are encoded to: 1 if       *)
(* printable, 2 for a C escape, 4 in hexadecimal.                          *)
(***************************************************************************)
EXTENDS LogTree

CONSTANTS MessageSize,  \* LOG_MESSAGE_SIZE
          Size,         \* LOG_DATA_SIZE
          Funcs,        \* bound: lengths of functions' names
          Digits,       \* length of a line number
          Endings,      \* bound: lengths of a closing quote and size, `" (9)'
          Span,         \* size_t counts modulo this
          Lengths,      \* bound: lengths of messages, their tails aside
          MaxData,      \* bound: bytes of data
          Widths,       \* bound: bytes per line of a hexdump, 0 for one line
          MaxFull       \* bound: changes of the tree after which no data is
                        \* logged, and only short messages

min_suffix == 4 + 6
max_suffix == min_suffix + 3

ASSUME SizeAssumption == Size \in Nat /\ Size > max_suffix
ASSUME SuffixAssumption == Endings \subseteq Nat /\ \A n \in Endings : n >= 5
ASSUME SpanAssumption == Span \in Nat /\ Span > Size
ASSUME BoundsAssumption ==
    MaxData \in Nat /\ Widths \subseteq Nat /\ Lengths \subseteq Nat /\ MaxFull \in Nat
ASSUME MessageAssumption ==
    MessageSize \in Nat \ {0} /\ Funcs \subseteq Nat /\ Digits \in Nat \ {0}

VARIABLES
    call,   \* the arguments of the call, and what the application's prefixer
            \* and vsnprintf() answer to it
    data,   \* its data
    width,  \* the bytes per line of a hexdump
    text,   \* the data buffer
    p,      \* bytes of data taken
    phase,  \* where the call is
    lines,  \* the lines given to a backend
    rc      \* its result: negative for an error

locals == <<call, data, width, text, p, phase, lines, rc>>
vars == <<tree, locals>>

Data == UNION {[1 .. n -> {1, 2, 4}] : n \in 0 .. MaxData}

\* Messages as they are formatted, by the kinds of their characters.
Messages == {Solid(n) \o t : n \in Lengths, t \in {<<>>, <<"colon", "blank">>}}

\* What the macros sancus_log_*, sancus_assert and sancus_trap call with.  What
\* the last two may do after the call, abort() and raise(SIGTRAP), is left out.
Macros == [error  |-> [level |-> ERR,   func |-> FALSE, line |-> FALSE],
           warn   |-> [level |-> WARN,  func |-> FALSE, line |-> FALSE],
           info   |-> [level |-> INFO,  func |-> FALSE, line |-> FALSE],
           trace  |-> [level |-> TRACE, func |-> TRUE,  line |-> TRUE],
           debug  |-> [level |-> DEBUG, func |-> TRUE,  line |-> FALSE],
           notice |-> [level |-> DEBUG, func |-> FALSE, line |-> FALSE],
           assert |-> [level |-> ERR,   func |-> TRUE,  line |-> TRUE],
           trap   |-> [level |-> WARN,  func |-> TRUE,  line |-> TRUE]]

Idle == [kind |-> "none"]

Piece(kind, i, n) == [c \in 1 .. n |-> <<kind, i, c>>]
Quote == Piece("quote", 0, 1)
Ellipsis == Piece("ellipsis", 0, 3)
Closing(c) == Piece("suffix", 0, c.suffix)

Init ==
    /\ TreeInit
    /\ call = Idle
    /\ data = <<>> /\ width = 0
    /\ text = <<>> /\ p = 0
    /\ phase = "idle"
    /\ lines = <<>>
    /\ rc = 0

----------------------------------------------------------------------------
(* Deliberate bugs, used only to show that the properties notice them.     *)

StripOneChar(t, i) == SubSeq(t, 1, Len(t) - 1)

KeepLine(t) == t

\* a message that is too long is refused, as by sancus_buffer_appendv
RefuseLong(size, t, s) == IF Len(s) < size - Len(t) THEN t \o s ELSE t

----------------------------------------------------------------------------
(* src/sancus/buffer.c, on the text in a buffer of a size.  A formatted    *)
(* append leaves room for a NUL; unless it may truncate, neither kind is   *)
(* done in part.                                                           *)

tail_size(size, t) == size - Len(t)

append_ok(size, t, s) == Len(s) <= tail_size(size, t)
append(size, t, s) == IF append_ok(size, t, s) THEN t \o s ELSE t

appendf_ok(size, t, s) == Len(s) < tail_size(size, t)
appendf(size, t, s) == IF appendf_ok(size, t, s) THEN t \o s ELSE t

\* sancus_buffer__appendv with truncate
appendv(size, t, s) ==
    t \o (IF appendf_ok(size, t, s) THEN s ELSE SubSeq(s, 1, tail_size(size, t) - 1))

stripn(t, n) == IF n < Len(t) THEN SubSeq(t, 1, Len(t) - n) ELSE <<>>

\* Without the characters of these kinds at the end.
stripany(t, kinds) ==
    LET keep == {n \in 1 .. Len(t) : t[n][1] \notin kinds}
    IN  SubSeq(t, 1, IF keep = {} THEN 0 ELSE CHOOSE n \in keep : \A k \in keep : k <= n)

sancus_buffer_reset(t) == <<>>

----------------------------------------------------------------------------
(* The message and the line.                                               *)

Blank == {"blank", "pad"}

Name(c) == Chars("func", Solid(c.func))
AtLine == Chars("line", <<"colon">> \o Solid(Digits))
Separator == Chars("separator", <<"colon", "blank">>)

\* Each part is left out if it does not fit, all if the name is empty.
SourceContext(c) ==
    LET name == append(MessageSize, <<>>, Name(c))
        at == IF Macros[c.f].line THEN appendf(MessageSize, name, AtLine) ELSE name
    IN  IF c.func > 0 THEN append(MessageSize, at, Separator) ELSE <<>>

log_fmt(c) ==
    LET context == SourceContext(c)
        whole == IF c.fmt = <<>> THEN context
                 ELSE appendv(MessageSize, context, Chars("message", c.fmt))
    IN  stripany(whole, {"colon"} \cup Blank)

log_buffer_trim(t) == stripany(t, Blank)

log_write(l, pbuf, mbuf, dbuf) ==
    LET line == [to     |-> log_find_backend(l, default_backend),
                 prefix |-> log_buffer_trim(pbuf),
                 msg    |-> log_buffer_trim(mbuf),
                 data   |-> log_buffer_trim(dbuf)]
    IN  IF line.prefix \o line.msg \o line.data = <<>> THEN <<>> ELSE <<line>>

\* The line of a call.
Written(c, dbuf) ==
    log_write(c.log, log_ctx_prefix2(c.log, c.answer), log_fmt(c), dbuf)

\* The backend's result, or 0 if there was nothing to write.
Result(written) == IF written = <<>> THEN {0} ELSE {-1, 0}

----------------------------------------------------------------------------
(* The macros: the logger is asked for a level, that of the function or    *)
(* one of the application's, and called if it has it.                      *)

Passes(c) == sancus_logger_has_level(c.log, c.gate)

\* The prefixer fails, or vsnprintf() does, or the context leaves no room to
\* call it; an empty message needs neither.
Faulty(c) ==
    \/ log_ctx_prefix(c.log, c.answer) < 0
    \/ ~c.formats
    \/ c.fmt # <<>> /\ tail_size(MessageSize, SourceContext(c)) = 0

Enter(c) == phase = "idle" /\ call' = c /\ UNCHANGED tree

Refuse(c) ==
    /\ Enter(c)
    /\ ~Passes(c) \/ Faulty(c)
    /\ rc' = (IF Passes(c) THEN -1 ELSE 0)
    /\ phase' = "returned"
    /\ UNCHANGED <<data, width, text, p, lines>>

sancus_logger__vprintf(c) ==
    /\ Enter(c)
    /\ Passes(c) /\ ~Faulty(c)
    /\ lines' = Written(c, <<>>)
    /\ rc' \in Result(lines')
    /\ phase' = "returned"
    /\ UNCHANGED <<data, width, text, p>>

\* Either dump of some bytes at NULL.
NoData(c) ==
    /\ Enter(c)
    /\ Passes(c)
    /\ rc' = -1
    /\ phase' = "returned"
    /\ UNCHANGED <<data, width, text, p, lines>>

----------------------------------------------------------------------------
(* The encoders give up at the first byte that does not fit.               *)

Encoded(d, i) == Piece("byte", i, d[i])

Encode(t, d, from, n, Fits(_, _)) ==
    LET after[k \in 0 .. n] ==
            IF k = 0 THEN [t |-> t, taken |-> 0]
            ELSE LET b == after[k - 1]
                     e == Encoded(d, from + k)
                 IN  IF b.taken = k - 1 /\ Fits(b.t, e)
                     THEN [t |-> b.t \o e, taken |-> k]
                     ELSE b
    IN  after[n]

dump_enc(t, from, n) ==
    Encode(t, data, from, n, LAMBDA b, e : append_ok(Size, b, e)).t

\* Into a buffer of n, with its NUL.
sancus_fmt_ascii_cstr(n, d) ==
    /\ phase = "idle"
    /\ call' = [kind |-> "cstr", size |-> n]
    /\ data' = d
    /\ LET e == Encode(<<>>, d, 0, Len(d), LAMBDA b, c : appendf_ok(n, b, c))
       IN  text' = e.t /\ p' = e.taken /\ rc' = Len(e.t)
    /\ phase' = "returned"
    /\ UNCHANGED <<tree, width, lines>>

----------------------------------------------------------------------------
(* sancus_logger__vdumpf.                                                  *)

sancus_logger__vdumpf(c, d) ==
    /\ Enter(c)
    /\ Passes(c) /\ ~Faulty(c)
    /\ data' = d
    /\ text' = append(Size, <<>>, Quote)
    /\ phase' = "encode"
    /\ UNCHANGED <<width, p, lines, rc>>

\* The bytes that fit whatever they are, counted in a size_t.
Block(t) == ((tail_size(Size, t) - min_suffix) % Span) \div 4

EncodeBlock ==
    /\ phase = "encode" /\ p < Len(data)
    /\ LET left == Len(data) - p
           bytes == IF left > Block(text) THEN Block(text) ELSE left
       IN  IF bytes = 0
           THEN phase' = "truncate" /\ UNCHANGED <<text, p>>
           ELSE /\ text' = dump_enc(text, p, bytes)
                /\ p' = p + bytes
                /\ UNCHANGED phase
    /\ UNCHANGED <<tree, call, data, width, lines, rc>>

AllEncoded ==
    /\ phase = "encode" /\ p = Len(data)
    /\ phase' = "suffix"
    /\ UNCHANGED <<tree, call, data, width, text, p, lines, rc>>

HasRoom(t) == tail_size(Size, t) >= max_suffix

\* The last byte's encoding is measured again and taken off.
StripLast(t, i) == stripn(t, data[i])

TakeBack ==
    /\ phase = "truncate" /\ p > 0 /\ ~HasRoom(text)
    /\ text' = StripLast(text, p)
    /\ p' = p - 1
    /\ UNCHANGED <<tree, call, data, width, phase, lines, rc>>

AppendEllipsis ==
    /\ phase = "truncate" /\ (p = 0 \/ HasRoom(text))
    /\ text' = append(Size, text, Ellipsis)
    /\ IF append_ok(Size, text, Ellipsis)
       THEN phase' = "suffix" /\ UNCHANGED rc
       ELSE phase' = "returned" /\ rc' = -1
    /\ UNCHANGED <<tree, call, data, width, p, lines>>

AppendSuffix ==
    /\ phase = "suffix"
    /\ phase' = "returned"
    /\ IF appendf_ok(Size, text, Closing(call))
       THEN /\ text' = text \o Closing(call)
            /\ lines' = Written(call, text')
            /\ rc' \in Result(lines')
       ELSE rc' = -1 /\ UNCHANGED <<text, lines>>
    /\ UNCHANGED <<tree, call, data, width, p>>

----------------------------------------------------------------------------
(* sancus_logger__vhexdumpf: one line per step of its loop.                *)

\* A byte takes the same room whatever it is.
sancus_logger__vhexdumpf(c, n, w) ==
    /\ Enter(c)
    /\ Passes(c) /\ ~Faulty(c)
    /\ data' = [i \in 1 .. n |-> 1] /\ width' = w
    /\ IF n = 0
       THEN lines' = Written(c, <<>>) /\ phase' = "returned" /\ rc' \in Result(lines')
       ELSE phase' = "hex" /\ UNCHANGED <<lines, rc>>
    /\ UNCHANGED <<text, p>>

\* Appended one by one for the numbers from + 1 to from + n.
EachOf(t, from, n, Add(_, _)) ==
    LET after[k \in 0 .. n] == IF k = 0 THEN t ELSE Add(after[k - 1], from + k)
    IN  after[n]

Hex(t, from, n) ==
    EachOf(t, from, n, LAMBDA b, i : appendf(Size, b, Piece("hex", i, 3)))

Padding(t, n) == EachOf(t, 0, n, LAMBDA b, i : append(Size, b, Piece("pad", 0, 3)))

Ascii(t, from, n) ==
    EachOf(t, from, n, LAMBDA b, i : append(Size, b, Piece("ascii", i, 1)))

Row(t, from, n) ==
    LET numbers ==
            IF width > 0
            THEN Padding(Hex(appendf(Size, t, Piece("offset", 0, 9)), from, n), width - n)
            ELSE Hex(t, from, n)
        shown == Ascii(append(Size, numbers, Piece("bar", 0, 2)), from, n)
    IN  append(Size, shown, Piece("end", 0, 1))

HexRow ==
    /\ phase = "hex" /\ p < Len(data)
    /\ LET left == Len(data) - p
           n == IF width = 0 \/ left < width THEN left ELSE width
           row == Row(text, p, n)
       IN  /\ lines' = lines \o Written(call, row)
           /\ p' = p + n
           /\ \/ rc' = -1 /\ phase' = "returned" /\ text' = row
              \/ rc' = 0 /\ UNCHANGED phase /\ text' = sancus_buffer_reset(row)
    /\ UNCHANGED <<tree, call, data, width>>

HexDone ==
    /\ phase = "hex" /\ p = Len(data)
    /\ phase' = "returned"
    /\ UNCHANGED <<tree, call, data, width, text, p, lines, rc>>

Return ==
    /\ phase = "returned"
    /\ phase' = "idle"
    /\ call' = Idle
    /\ data' = <<>> /\ width' = 0 /\ text' = <<>> /\ p' = 0
    /\ lines' = <<>> /\ rc' = 0
    /\ UNCHANGED tree

----------------------------------------------------------------------------
(* The calls.  What becomes of a message, of data and of a fault depends   *)
(* on the tree only by the prefix: after MaxFull changes of the tree only  *)
(* short messages are logged, by four of the macros, and no data.          *)

Call(kind, l, f, func, gate, s, answer, formats, suffix) ==
    [kind |-> kind, log |-> l, f |-> f, func |-> func, gate |-> gate, fmt |-> s,
     answer |-> answer, formats |-> formats, suffix |-> suffix]

\* The lengths of the name that a macro gives, 0 for none.
Names(f) == IF Macros[f].func THEN Funcs ELSE {0}

\* Each asks for its own level, or for none; the ones that end in 2 ask for
\* what they are given.
Gates(f) ==
    CASE f \in {"assert", "trap"} -> {{}}
      [] f = "error" -> {{}, {ERR, NEXT}}
      [] f = "info" -> {{INFO}, {NEXT}}
      [] OTHER -> {{Macros[f].level}}

Answers(l) ==
    IF Prefixing(l) # NULL /\ prefixer[Prefixing(l)]
    THEN -1 .. PrefixSize + 1
    ELSE {0}

LogMessage ==
    \E l \in Loggers \cup {NULL},
       f \in IF changes <= MaxFull THEN DOMAIN Macros ELSE {"error", "warn", "info", "debug"} :
        \E func \in Names(f), gate \in Gates(f), answer \in Answers(l),
           s \in IF changes <= MaxFull THEN Messages ELSE {<<>>, Solid(1)},
           formats \in {TRUE, changes > MaxFull} :
            /\ s = <<>> => formats
            /\ LET c == Call("printf", l, f, func, gate, s, answer, formats, 0)
               IN  Refuse(c) \/ sancus_logger__vprintf(c)

LogData ==
    /\ changes <= MaxFull
    /\ \E l \in Loggers \cup {NULL}, formats \in BOOLEAN, suffix \in Endings :
       \E answer \in Answers(l) :
          LET c == Call("dump", l, "error", 0, {ERR}, Solid(2), answer, formats, suffix)
          IN  Refuse(c) \/ NoData(c) \/ \E d \in Data : sancus_logger__vdumpf(c, d)

LogHex ==
    /\ changes <= MaxFull
    /\ \E l \in Loggers \cup {NULL}, f \in {"warn", "trace"}, formats \in BOOLEAN :
       \E func \in Names(f), answer \in Answers(l) :
          LET c == Call("hexdump", l, f, func, {WARN}, Solid(2), answer, formats, 0)
          IN  \/ Refuse(c) \/ NoData(c)
              \/ \E n \in 0 .. MaxData, w \in Widths : sancus_logger__vhexdumpf(c, n, w)

FormatString ==
    /\ changes <= MaxFull
    /\ \E n \in 1 .. 2 * MaxData, d \in Data \ {<<>>} : sancus_fmt_ascii_cstr(n, d)

Next ==
    \/ phase = "idle" /\ Configure /\ UNCHANGED locals
    \/ LogMessage \/ LogData \/ LogHex \/ FormatString
    \/ EncodeBlock \/ AllEncoded \/ TakeBack \/ AppendEllipsis \/ AppendSuffix
    \/ HexRow \/ HexDone
    \/ Return

Spec == Init /\ [][Next]_vars

----------------------------------------------------------------------------
(* Properties.                                                             *)

\* t is s as far as there is room, without what is blank at its end.
FromStart(t, s, room, blank) ==
    LET whole == IF Len(s) > room THEN SubSeq(s, 1, room) ELSE s
    IN  /\ IsPrefix(t, whole)
        /\ t # <<>> => Last(t)[1] \notin blank
        /\ \A n \in Len(t) + 1 .. Len(whole) : whole[n][1] \in blank

RightBackend(line) ==
    LET l == FirstIn(call.log, {x \in Loggers : backend[x] \notin NoBackend})
    IN  line.to = IF l = NULL THEN default_backend ELSE backend[l]

\* A prefixer that answers more than there is room for gives none.  Nothing is
\* said of a prefix as long as its buffer.
RightPrefix(line) ==
    LET l == FirstIn(call.log, {x \in Loggers : prefixer[x] \/ prefix[x] # NULL})
    IN  IF l = NULL THEN line.prefix = <<>>
        ELSE IF prefixer[l]
        THEN Len(line.prefix) = (IF call.answer > PrefixSize THEN 0 ELSE call.answer)
        ELSE Len(prefix[l]) # PrefixSize =>
                FromStart(line.prefix, Chars(l, prefix[l]), PrefixSize - 1, Blank)

\* Nothing is said of a context that leaves no room for a character more.
RightMessage(line) ==
    LET context ==
            IF call.func = 0 THEN <<>>
            ELSE Name(call) \o (IF Macros[call.f].line THEN AtLine ELSE <<>>) \o Separator
    IN  Len(context) < MessageSize =>
            FromStart(line.msg, context \o Chars("message", call.fmt), MessageSize - 1,
                      Blank \cup {"colon"})

\* l lets a mask of levels through.
LetsThrough(l, m) ==
    LET x == Nearest(l)
    IN  m = {} \/ ERR \in m \/ m \cap (IF x = NULL THEN NORMAL ELSE mask[x]) # {}

(***************************************************************************)
(* What is logged at a level that the nearest mask has, or as an error, or *)
(* without asking, arrives once, at the nearest backend that can take it,  *)
(* with the nearest prefix and the message after its context: both from    *)
(* their start, as far as their buffers go, without blanks at their end.   *)
(* Excepted are a prefix as long as its buffer and a context that fills    *)
(* its own.  What has another level arrives nowhere.                       *)
(***************************************************************************)
LineDelivered ==
    (phase = "returned" /\ call.kind # "cstr") =>
        /\ \A k \in DOMAIN lines :
              LetsThrough(call.log, call.gate)
              /\ RightBackend(lines[k]) /\ RightPrefix(lines[k]) /\ RightMessage(lines[k])
        /\ (call.kind = "printf" /\ LetsThrough(call.log, call.gate) /\ ~Faulty(call)) =>
              \/ Len(lines) = 1
              \/ LET nothing == [to |-> NULL, prefix |-> <<>>, msg |-> <<>>]
                 IN  lines = <<>> /\ RightPrefix(nothing) /\ RightMessage(nothing)

Encodings(n) == FlattenSeq([i \in 1 .. n |-> Encoded(data, i)])

(***************************************************************************)
(* A dump of less than 100000 bytes is never lost for want of room:        *)
(* whatever the bytes are, its line reaches the backend with the opening   *)
(* quote, the whole encodings of the first bytes, an ellipsis exactly if   *)
(* bytes are missing, and the suffix.  A larger one arrives so as well or, *)
(* if its suffix and the NUL do not fit in min_suffix, is lost with an     *)
(* error.  A C string has the whole encodings of as many bytes as there is *)
(* room for with its NUL.                                                  *)
(***************************************************************************)
DumpComplete ==
    phase = "returned" =>
        /\ (text # <<>> /\ Head(text) = Head(Quote)) =>
              \/ /\ Len(lines) = 1 /\ lines[1].data = text
                 /\ text = Quote \o Encodings(p)
                             \o (IF p < Len(data) THEN Ellipsis ELSE <<>>)
                             \o Closing(call)
                 /\ Len(text) < Size
              \/ lines = <<>> /\ rc = -1 /\ call.suffix >= min_suffix
        /\ call.kind = "cstr" =>
              /\ text = Encodings(p) /\ rc = Len(text) /\ Len(text) < call.size
              /\ p < Len(data) => Len(text) + data[p + 1] >= call.size

(***************************************************************************)
(* A hexdump whose lines fit the buffer shows every byte, in lines of      *)
(* `width' bytes, up to the line whose writing failed.                     *)
(***************************************************************************)
RowSize == IF width = 0 THEN 4 * Len(data) + 3 ELSE 9 + 4 * width + 3

ExpectedRow(from, n) ==
    (IF width = 0 THEN <<>> ELSE Piece("offset", 0, 9))
    \o FlattenSeq([k \in 1 .. n |-> Piece("hex", from + k, 3)])
    \o FlattenSeq([k \in 1 .. (IF width = 0 THEN 0 ELSE width - n) |-> Piece("pad", 0, 3)])
    \o Piece("bar", 0, 2)
    \o FlattenSeq([k \in 1 .. n |-> Piece("ascii", from + k, 1)])
    \o Piece("end", 0, 1)

HexComplete ==
    (phase = "hex" /\ RowSize <= Size) =>
        /\ \A k \in 1 .. Len(lines) :
              LET from == (k - 1) * width
                  n == IF width = 0 \/ Len(data) - from < width
                       THEN Len(data) - from ELSE width
              IN  n > 0 /\ lines[k].data = ExpectedRow(from, n)
        /\ p = (IF width = 0 \/ Len(lines) * width > Len(data)
                THEN (IF lines = <<>> THEN 0 ELSE Len(data))
                ELSE Len(lines) * width)
============================================================================
