------------------------------ MODULE LogTree ------------------------------
(***************************************************************************)
(* The tree of loggers (struct sancus_logger and its operations in         *)
(* include/sancus/logger.h, the backends and prefixes of                   *)
(* src/sancus/logger.c): what a logger does not have of its own, its mask  *)
(* of levels, its prefix or its backend, it has from the nearest ancestor  *)
(* that has it.                                                            *)
(*                                                                         *)
(* A mask is the set of its bits.  A text is a sequence of characters      *)
(* <<kind, of, n>>: what it is, where it comes from and its place there;   *)
(* a prefix is given by the kinds of its characters.                       *)
(***************************************************************************)
EXTENDS Integers, Sequences, SequencesExt

CONSTANTS Loggers,
          NULL,
          PrefixSize,     \* LOG_PREFIX_SIZE
          PrefixLengths,  \* bound: lengths of static prefixes, their blank aside
          Masks,          \* bound: masks the application uses
          MaxChanges      \* bound: changes of the tree

ERR == 0
WARN == 1
INFO == 2
TRACE == 3
DEBUG == 4
NEXT == 8       \* the first of the application's own levels
Bits == {ERR, WARN, INFO, TRACE, DEBUG, NEXT}

NORMAL == {ERR, WARN, INFO}

Solid(n) == [c \in 1 .. n |-> "solid"]

\* Static prefixes: empty, or ending in a blank.
StaticPrefixes == {IF n = 0 THEN <<>> ELSE Solid(n) \o <<"blank">> : n \in PrefixLengths}

ASSUME LoggersAssumption == NULL \notin Loggers
ASSUME PrefixAssumption == PrefixSize \in Nat \ {0, 1} /\ PrefixLengths \subseteq Nat
ASSUME MasksAssumption == Masks \subseteq SUBSET Bits
ASSUME MaxChangesAssumption == MaxChanges \in Nat

\* A logger's own backend is named after it, "common" is one to be the
\* default, and "unset" one whose f is NULL.
NoBackend == {NULL, "unset"}

VARIABLES
    parent, prefix, prefixer, mask, backend,  \* struct sancus_logger
    default_backend,
    changes

tree == <<parent, prefix, prefixer, mask, backend, default_backend, changes>>

\* SANCUS__LOGGER_INIT
StaticMask(m) == IF m = {} THEN NORMAL ELSE m

TreeInit ==
    /\ parent = [l \in Loggers |-> NULL]
    /\ prefix = [l \in Loggers |-> Solid(1)]
    /\ prefixer = [l \in Loggers |-> FALSE]
    /\ mask = [l \in Loggers |-> StaticMask({})]
    /\ backend = [l \in Loggers |-> NULL]
    /\ default_backend = "fd"
    /\ changes = 0

----------------------------------------------------------------------------
(* Deliberate bugs, used only to show that the properties notice them.     *)

CmsWithoutClear(old, value, m) == old \cup (value \cap m)

----------------------------------------------------------------------------
(* The operations on a logger.                                             *)

\* A logger and its ancestors, from it to the root.
Lineage(l) ==
    LET up[x \in Loggers \cup {NULL}] ==
            IF x = NULL THEN <<>> ELSE <<x>> \o up[parent[x]]
    IN  up[l]

Change == changes < MaxChanges /\ changes' = changes + 1

\* The application makes no logger its own ancestor.
sancus_logger_init2(l, up, f, m, s) ==
    /\ Change
    /\ l \notin ToSet(Lineage(up))
    /\ parent' = [parent EXCEPT ![l] = up]
    /\ prefix' = [prefix EXCEPT ![l] = s]
    /\ prefixer' = [prefixer EXCEPT ![l] = f]
    /\ mask' = [mask EXCEPT ![l] = IF m = {} /\ up = NULL THEN NORMAL ELSE m]
    /\ backend' = [backend EXCEPT ![l] = NULL]
    /\ UNCHANGED default_backend

sancus_logger_set_prefix(l, s) ==
    /\ Change
    /\ prefix' = [prefix EXCEPT ![l] = s]
    /\ UNCHANGED <<parent, prefixer, mask, backend, default_backend>>

sancus_logger_set_prefixer(l, f) ==
    /\ Change
    /\ prefixer' = [prefixer EXCEPT ![l] = f]
    /\ UNCHANGED <<parent, prefix, mask, backend, default_backend>>

ChangeMask(l, m) ==
    /\ Change
    /\ mask' = [mask EXCEPT ![l] = m]
    /\ UNCHANGED <<parent, prefix, prefixer, backend, default_backend>>

\* The bits of m are replaced by those of value.
sancus_bit_cms(old, value, m) == (value \cap m) \cup (old \ m)

sancus_logger_set_mask(l, m) == ChangeMask(l, m)
sancus_logger_extend_mask(l, m) == ChangeMask(l, sancus_bit_cms(mask[l], m, m))
sancus_logger_unset_mask(l, m) == ChangeMask(l, sancus_bit_cms(mask[l], {}, m))

\* There is no function for it: the application assigns the field.
SetBackend(l, b) ==
    /\ Change
    /\ backend' = [backend EXCEPT ![l] = b]
    /\ UNCHANGED <<parent, prefix, prefixer, mask, default_backend>>

\* One whose f is NULL is refused.
sancus_logger_set_default_backend(b) ==
    /\ Change
    /\ default_backend' = CASE b = NULL    -> "fd"
                            [] b = "unset" -> default_backend
                            [] OTHER       -> b
    /\ UNCHANGED <<parent, prefix, prefixer, mask, backend>>

\* A new logger has no prefix or an empty one, until it is set another.
Configure ==
    \/ \E l \in Loggers :
          \/ \E up \in Loggers \cup {NULL}, f \in BOOLEAN, m \in Masks, s \in {NULL, <<>>} :
                sancus_logger_init2(l, up, f, m, s)
          \/ \E s \in StaticPrefixes \cup {NULL} : sancus_logger_set_prefix(l, s)
          \/ \E f \in BOOLEAN : sancus_logger_set_prefixer(l, f)
          \/ \E m \in Masks :
                \/ sancus_logger_set_mask(l, m)
                \/ sancus_logger_extend_mask(l, m)
                \/ sancus_logger_unset_mask(l, m)
          \/ \E b \in NoBackend \cup {l} : SetBackend(l, b)
    \/ \E b \in NoBackend \cup {"common"} : sancus_logger_set_default_backend(b)

----------------------------------------------------------------------------
(* What a logger finds in the tree; any of them may be asked of NULL.      *)

sancus_logger_has_level(log, m) ==
    LET has[l \in Loggers \cup {NULL}] ==
            IF l = NULL THEN m \cap NORMAL # {}
            ELSE IF mask[l] # {} THEN m \cap mask[l] # {}
            ELSE has[parent[l]]
    IN  m = {} \/ ERR \in m \/ has[log]

log_find_backend(log, fallback) ==
    LET find[l \in Loggers \cup {NULL}] ==
            IF l = NULL THEN fallback
            ELSE IF backend[l] \notin NoBackend THEN backend[l]
            ELSE find[parent[l]]
    IN  find[log]

\* The logger that gives the prefix.
Prefixing(log) ==
    LET from[l \in Loggers \cup {NULL}] ==
            IF l = NULL \/ prefixer[l] \/ prefix[l] # NULL THEN l ELSE from[parent[l]]
    IN  from[log]

Chars(of, kinds) == [c \in DOMAIN kinds |-> <<kinds[c], of, c>>]

\* What the prefixer of a logger writes, should it have room for n.
PrefixOf(l, n) ==
    Chars(l, IF prefixer[l] THEN Solid(n) ELSE prefix[l])

\* The length of the prefix in the buffer, or what the prefixer answers.  Of
\* a prefix as long as the buffer the NUL is written after it; what that
\* overwrites is not modelled.
log_ctx_prefix(log, answer) ==
    LET l == Prefixing(log)
    IN  IF l = NULL THEN 0
        ELSE IF prefixer[l] THEN answer
        ELSE IF PrefixSize < Len(prefix[l]) THEN PrefixSize - 1
        ELSE Len(prefix[l])

\* An answer of more than there is room for leaves the buffer empty.
log_ctx_prefix2(log, answer) ==
    LET n == log_ctx_prefix(log, answer)
    IN  IF n > 0 /\ n <= PrefixSize
        THEN SubSeq(PrefixOf(Prefixing(log), n), 1, n)
        ELSE <<>>

----------------------------------------------------------------------------
(* Properties.                                                             *)

Levels(l) == {b \in Bits : sancus_logger_has_level(l, {b})}

\* The first of l's lineage that is in S, or NULL.
FirstIn(l, S) ==
    LET s == Lineage(l)
        places == {n \in 1 .. Len(s) : s[n] \in S}
    IN  IF places = {} THEN NULL ELSE s[CHOOSE n \in places : \A k \in places : n <= k]

\* The logger whose mask is that of l.
Nearest(l) == FirstIn(l, {x \in Loggers : mask[x] # {}})

(***************************************************************************)
(* Of a logger with a mask, extend_mask lets the levels through for it and *)
(* for all that inherit its mask, and unset_mask, if it leaves it a level, *)
(* silences them, except for errors; neither changes another level, nor a  *)
(* logger that has its mask from elsewhere.                                *)
(***************************************************************************)
LevelsKept ==
    [][\A l \in Loggers, m \in Masks, x \in Loggers :
          /\ (sancus_logger_extend_mask(l, m) /\ mask[l] # {}) =>
                Levels(x)' = Levels(x) \cup (IF Nearest(x) = l THEN m ELSE {})
          /\ (sancus_logger_unset_mask(l, m) /\ mask[l] \ m # {}) =>
                Levels(x)' = Levels(x) \ (IF Nearest(x) = l THEN m \ {ERR} ELSE {})]_tree
============================================================================
