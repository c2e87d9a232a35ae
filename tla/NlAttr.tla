------------------------------- MODULE NlAttr -------------------------------
(***************************************************************************)
(* The attributes of a netlink message (src/netlink/netlink_attr.c, with   *)
(* the builders of src/netlink/netlink_msg.c): a program lays out a        *)
(* message in a buffer, and a program parses it, validates each attribute  *)
(* as a type of its own choice and reads it if that is accepted.           *)
(*                                                                         *)
(* An attribute is its header, where it starts, and how many bytes of      *)
(* payload were copied and whether the last is a NUL.                      *)
(* Offsets and lengths are in bytes; nla_len is a uint16_t.                *)
(***************************************************************************)
EXTENDS NlMsg

CONSTANTS BufLen,   \* the size of the buffer
          Types,    \* nla_type values, flag bits included
          MaxType,  \* the largest type the parsing program knows
          Sizes,    \* lengths of strings, raw payloads and expectations
          Extras    \* sizes of the protocol's own header

ASSUME BufLenAssumption == BufLen \in Nat /\ BufLen >= HDRLEN
ASSUME TypesAssumption == Types \subseteq 0 .. 2^16 - 1 /\ MaxType \in Nat
ASSUME SizesAssumption == Sizes \subseteq 0 .. 2^16 - 1
\* A protocol's own header is a struct of a few words.
ASSUME ExtrasAssumption == Extras \subseteq 0 .. 2^12

VARIABLES
    len,     \* nlmsg_len
    offset,  \* the size of the extra header
    attrs,   \* the attributes put, in that order
    phase,   \* empty, header, build, parse, done or wrapped
    cur,     \* the attribute the parser is at
    seen,    \* the attributes its callback was given, by their place in attrs
    result,  \* what the callback answered last
    got      \* the last read of a payload: which attribute, how many bytes,
             \* and whether it was checked for fewer than that

attrVars == <<len, offset, attrs, phase, cur, seen, result, got>>

HDR == SANCUS_NL_ALIGN(4)  \* SANCUS_NL_ATTR_HDRLEN

SizeOf == [U8 |-> 1, U16 |-> 2, U32 |-> 4, U64 |-> 8]
DataTypes == DOMAIN SizeOf \cup
             {"UNSPEC", "STRING", "FLAG", "MSECS", "NESTED",
              "NESTED_COMPAT", "NUL_STRING", "BINARY"}

Stop == 0
Ok == 1

AttrInit ==
    /\ len = 0 /\ offset = 0 /\ attrs = <<>>
    /\ phase = "empty"
    /\ cur = 0 /\ seen = <<>> /\ result = Ok
    /\ got = [attr |-> 0, n |-> 0, short |-> FALSE]

----------------------------------------------------------------------------
(* Deliberate bugs, used only to show that the properties notice them.     *)

\* the check forgets the attribute's own header
FitsWithoutHeader(n) == len + SANCUS_NL_ALIGN(n) <= BufLen

NextUnpadded(a) == cur + a.len

MinlenUnchecked(type) == 0

----------------------------------------------------------------------------
(* Building.                                                               *)

sancus_nl_msg_put_header ==
    /\ phase = "empty"
    /\ len' = SANCUS_NL_ALIGN(HDRLEN)
    /\ phase' = "header"
    /\ UNCHANGED <<offset, attrs, cur, seen, result, got>>

\* Nothing is checked: that the header fits is up to the caller.
sancus_nl_msg_put_extra_header(size) ==
    /\ phase = "header"
    /\ len + SANCUS_NL_ALIGN(size) <= BufLen
    /\ len' = len + SANCUS_NL_ALIGN(size)
    /\ offset' = size
    /\ phase' = "build"
    /\ UNCHANGED <<attrs, cur, seen, result, got>>

Fits(n) == len + HDR + SANCUS_NL_ALIGN(n) <= BufLen

put_nocheck(type, n, nul) ==
    /\ attrs' = Append(attrs, [at |-> SANCUS_NL_ALIGN(len), type |-> type,
                               len |-> (HDR + n) % 2^16,
                               bytes |-> n, nul |-> nul])
    /\ len' = len + SANCUS_NL_ALIGN(HDR + n)

\* A message that SANCUS_NL_ALIGN and a uint16_t can count.
Counted(l) == l <= 2^16 - 4

\* Beyond that the alignment wraps: Fits may accept what does not fit (from
\* 65533 bytes of payload on it takes them for none), and what is put may
\* lie over what was.  What the memory then holds is not modelled.
put_check(type, n, nul) ==
    /\ phase = "build"
    /\ Fits(n)
    /\ \/ /\ Counted(len + HDR + n)
          /\ put_nocheck(type, n, nul)
          /\ UNCHANGED phase
       \/ /\ ~Counted(len + HDR + n)
          /\ phase' = "wrapped"
          /\ UNCHANGED <<attrs, len>>
    /\ UNCHANGED <<offset, cur, seen, result, got>>

\* n bytes are copied from the address of the parameter `data', not from
\* the address it holds: which they are is not known.
sancus_nl_attr_put(type, n) ==
    \E nul \in BOOLEAN : put_check(type, n, n > 0 /\ nul)

sancus_nl_attr_put_uint(type, int) ==
    \E nul \in BOOLEAN : put_check(type, SizeOf[int], nul)

sancus_nl_attr_put_string(type, n) == put_check(type, n, FALSE)

\* sancus_u16zu asserts that the length is a uint16_t.
sancus_nl_attr_put_nul_string(type, n) ==
    n + 1 <= 2^16 - 1 /\ put_check(type, n + 1, TRUE)

----------------------------------------------------------------------------
(* Parsing: sancus_nl_attr_parse, with sancus_nl_attr_foreach.             *)

sancus_nl_attr_parse ==
    /\ phase = "build"
    /\ cur' = HDRLEN + SANCUS_NL_ALIGN(offset)
    /\ phase' = "parse"
    /\ UNCHANGED <<len, offset, attrs, seen, result, got>>

PayloadTail == SANCUS_NL_ALIGN(len)

sancus_nl_attr_ok(a, rest) == rest >= 4 /\ a.len >= 4 /\ a.len <= rest

sancus_nl_attr_next(a) == cur + SANCUS_NL_ALIGN(a.len)

sancus_nl_attr_get_type(a) == a.type % 2^14
sancus_nl_attr_type_valid(a) == sancus_nl_attr_get_type(a) <= MaxType
sancus_nl_attr_get_payload_len(a) == (a.len - HDR) % 2^16

minlen(type) ==
    CASE type \in DOMAIN SizeOf -> SizeOf[type]
      [] type \in {"STRING", "NUL_STRING"} -> 1
      [] OTHER -> 0

validate_attr(a, type, expected_len) ==
    LET n == sancus_nl_attr_get_payload_len(a)
    IN  /\ n >= expected_len
        /\ type = "FLAG" => n = 0
        /\ type \in {"STRING", "NUL_STRING"} => n > 0
        /\ type = "NUL_STRING" => a.nul
        /\ type = "NESTED" => (n = 0 \/ n >= HDR)

sancus_nl_attr_validate_minlen(a, type) ==
    type \in DataTypes /\ validate_attr(a, type, minlen(type))

sancus_nl_attr_validate_explen(a, type, explen) ==
    type \in DataTypes /\ validate_attr(a, type, explen)

\* How far the getter of a type reads: an integer its own size, a
\* NUL-terminated string up to its NUL, the others what the length says.
Reads(a, type) ==
    CASE type \in DOMAIN SizeOf -> SizeOf[type]
      [] type = "NUL_STRING" /\ ~a.nul -> a.bytes + 1
      [] OTHER -> sancus_nl_attr_get_payload_len(a)

Gets(i, type, short) ==
    got' = [attr |-> i, n |-> Reads(attrs[i], type), short |-> short]

\* An expected length that does not make room for the integer to be read.
Short(type, explen) == type \in DOMAIN SizeOf /\ explen < SizeOf[type]

\* The callback validates as it sees fit, as any type and even as none
\* ("MAX"), and reads what was accepted; it reads nothing of a type it does
\* not know or of what was refused.
Callback(i) ==
    \/ UNCHANGED got
    \/ /\ sancus_nl_attr_type_valid(attrs[i])
       /\ \E type \in DataTypes \cup {"MAX"} :
             \/ /\ sancus_nl_attr_validate_minlen(attrs[i], type)
                /\ Gets(i, type, FALSE)
             \/ \E explen \in Sizes :
                   /\ sancus_nl_attr_validate_explen(attrs[i], type, explen)
                   /\ Gets(i, type, Short(type, explen))

\* The attribute at the parser's place; 0 where none was put.
Here ==
    LET is == {i \in 1 .. Len(attrs) : attrs[i].at = cur}
    IN  IF is = {} THEN 0 ELSE CHOOSE i \in is : TRUE

ParseOne(answer) ==
    /\ phase = "parse" /\ Here # 0
    /\ sancus_nl_attr_ok(attrs[Here], PayloadTail - cur)
    /\ Callback(Here)
    /\ seen' = Append(seen, Here)
    /\ result' = answer
    /\ cur' = sancus_nl_attr_next(attrs[Here])
    /\ phase' = IF answer <= Stop THEN "done" ELSE "parse"
    /\ UNCHANGED <<len, offset, attrs>>

ParseEnd ==
    /\ phase = "parse"
    /\ Here # 0 => ~sancus_nl_attr_ok(attrs[Here], PayloadTail - cur)
    /\ phase' = "done"
    /\ UNCHANGED <<len, offset, attrs, cur, seen, result, got>>

----------------------------------------------------------------------------
Put ==
    \E type \in Types :
        \/ \E n \in Sizes : \/ sancus_nl_attr_put(type, n)
                            \/ sancus_nl_attr_put_string(type, n)
                            \/ sancus_nl_attr_put_nul_string(type, n)
        \/ \E int \in DOMAIN SizeOf : sancus_nl_attr_put_uint(type, int)

Parse == ParseEnd \/ \E answer \in {-1, Stop, Ok} : ParseOne(answer)

AttrNext ==
    \/ sancus_nl_msg_put_header
    \/ \E size \in Extras : sancus_nl_msg_put_extra_header(size)
    \/ Put
    \/ sancus_nl_attr_parse
    \/ Parse

AttrSpec == AttrInit /\ [][AttrNext]_attrVars

----------------------------------------------------------------------------
(* Properties.                                                             *)

Attr == [at : Nat, type : Types, len : 0 .. 2^16 - 1, bytes : Nat,
         nul : BOOLEAN]

AttrTypeOK ==
    /\ len \in Nat /\ offset \in Extras \cup {0}
    /\ attrs \in Seq(Attr)
    /\ phase \in {"empty", "header", "build", "parse", "done", "wrapped"}
    /\ cur \in 0 .. BufLen
    /\ seen \in Seq(Nat) /\ result \in {-1, Stop, Ok}
    /\ got \in [attr : Nat, n : Nat, short : BOOLEAN]

(***************************************************************************)
(* "add an attribute to netlink message if it fits into the buffer": no    *)
(* sequence of headers and attributes is laid out beyond the buffer or     *)
(* over one another.  (Not so of one that is asked to grow beyond 65532    *)
(* bytes: put_check.)                                                      *)
(***************************************************************************)
InsideBuffer ==
    phase # "wrapped" =>
        /\ len <= BufLen
        /\ \A i \in 1 .. Len(attrs) :
              /\ attrs[i].at >= HDRLEN + offset
              /\ attrs[i].at + HDR + attrs[i].bytes <= len
              /\ i < Len(attrs) =>
                    attrs[i].at + HDR + attrs[i].bytes <= attrs[i + 1].at

(***************************************************************************)
(* A parser finds the attributes that were put, each once and in order,    *)
(* whatever their padding, and finds them all unless its callback stops it.*)
(***************************************************************************)
RoundTrip ==
    /\ seen = [i \in 1 .. Len(seen) |-> i]
    /\ (phase = "done" /\ result = Ok) => Len(seen) = Len(attrs)

(***************************************************************************)
(* "it checks that integer types will have enough space": a getter called  *)
(* on an attribute that validation has accepted, as any type whatever it   *)
(* was put as, reads inside its payload.  (Not so of an integer that the   *)
(* caller of sancus_nl_attr_validate_explen expected to be shorter.)       *)
(***************************************************************************)
ReadsInside ==
    (got.attr # 0 /\ ~got.short) => got.n <= attrs[got.attr].bytes
=============================================================================
