---------------------------- MODULE DuerosFormat ----------------------------
(***************************************************************************)
(* dueros_handle.c: format_duer_button_data, format_duer_string_data and   *)
(* format_duer_binary_data write a type, delimiters, the fields and a      *)
(* terminator into a block of fixed size, with no check of the size.  A    *)
(* field is what the caller passes: len is sizeof(int), or the strlen of a *)
(* format, by which the index moves on; out is what vsprintf writes.  Each *)
(* byte of the block is known by where it comes from.                      *)
(***************************************************************************)
EXTENDS Integers, Sequences

CONSTANTS IntSize,      \* sizeof(int)
          ButtonSize,   \* DIRECT_BUTTON_BUFSIZE
          UrlSize,      \* DIRECT_URL_BUFSIZE
          MaxFields,    \* bound: arguments of a call
          MaxText       \* bound: length of a text

ASSUME DuerosFormatAssumption ==
    /\ IntSize \in Nat \ {0} /\ MaxFields \in Nat \ {0} /\ MaxText \in Nat
    /\ ButtonSize \in Nat /\ UrlSize \in Nat
    /\ 2 * IntSize + 2 <= ButtonSize /\ IntSize + 2 <= UrlSize

Kinds == {"button", "string", "binary"}
Texts(out) == [len : 0..MaxText, out : out]
Ints == [len : {IntSize}, out : {IntSize}]
FieldLists(kind) ==
    CASE kind = "button" -> UNION {[1..n -> Ints] : n \in 1..MaxFields}
      [] kind = "string" -> UNION {[1..n -> Texts(0..MaxText + 1)] : n \in 1..MaxFields}
      [] kind = "binary" -> {<<[len |-> k, out |-> k]>> : k \in 0..MaxText}

Zero == <<"zero", 0, 0>>
Delimiter == <<"delimiter", 0, 0>>
Terminator == <<"terminator", 0, 0>>
Type == [b \in 1..IntSize |-> <<"type", 0, b>>]
Field(n, length) == [b \in 1..length |-> <<"field", n, b>>]

\* Memory behind the block is there to be written: how far is dfHigh.
Block == 0..(IntSize + 1 + MaxFields * (IntSize + MaxText + 2))

VARIABLES dfPc,         \* where the call is
          dfKind,       \* which function it is
          dfFields,     \* its arguments
          dest,         \* the block, and what lies behind
          dfI,          \* i, where the next byte goes
          dfArg,        \* fields written
          dfHigh,       \* history: one past the last byte written
          dfHeld        \* blocks allocated and not freed

duerosFormatVars == <<dfPc, dfKind, dfFields, dest, dfI, dfArg, dfHigh, dfHeld>>

InitDuerosFormat ==
    /\ dfPc = "idle" /\ dfKind = "button" /\ dfFields = <<>>
    /\ dest = [k \in Block |-> Zero]
    /\ dfI = 0 /\ dfArg = 0 /\ dfHigh = 0 /\ dfHeld = {}

Written(at, s) == [k \in DOMAIN dest |-> IF k >= at /\ k < at + Len(s) THEN s[k - at + 1] ELSE dest[k]]
Further(h) == IF h > dfHigh THEN h ELSE dfHigh

\* if (p) free(p): the pointer is NULL until its block has been allocated.
FreeIf(p, blocks) == IF p \in blocks THEN blocks \ {p} ELSE blocks
\* ERR: dest, then data
AfterErr(blocks) == FreeIf("data", FreeIf("dest", blocks))

\* malloc, memset, the type and a delimiter.  Without memory ERR is reached with
\* both pointers NULL.
FormatStart(kind, fields) ==
    /\ dfPc = "idle"
    /\ dfKind' = kind /\ dfFields' = fields
    /\ \/ /\ dfPc' = "null" /\ dfHeld' = AfterErr(dfHeld)
          /\ UNCHANGED <<dest, dfI, dfHigh>>
       \/ /\ dest' = Written(0, Append(Type, Delimiter))
          /\ dfI' = IntSize + 1 /\ dfHigh' = IntSize + 1
          /\ dfHeld' = dfHeld \cup {"dest"}
          /\ dfPc' = "fields"
    /\ UNCHANGED dfArg

\* Fault: the delimiter does not move the index.
NoStep(len) == dfI + len
\* i += length, i++
NextI(len) == dfI + len + 1

\* memcpy or vsprintf, which adds a zero, then the delimiter (the binary function
\* writes the terminator here that the others put over the last delimiter).
FormatField ==
    /\ dfPc = "fields" /\ dfArg < Len(dfFields)
    /\ LET f == dfFields[dfArg + 1]
           text == Field(dfArg + 1, f.out) \o (IF dfKind = "string" THEN <<Zero>> ELSE <<>>)
       IN  /\ dest' = [Written(dfI, text) EXCEPT ![dfI + f.len] = Delimiter]
           /\ dfI' = NextI(f.len)
           /\ dfHigh' = Further(dfI + (IF Len(text) > f.len THEN Len(text) ELSE f.len + 1))
    /\ dfArg' = dfArg + 1
    /\ UNCHANGED <<dfPc, dfKind, dfFields, dfHeld>>

\* The terminator over the last delimiter, then the BUF_INF.  Only the button
\* function looks whether calloc gave one, and goes to ERR with data NULL.
FormatEnd ==
    /\ dfPc = "fields" /\ dfArg = Len(dfFields)
    /\ dest' = [dest EXCEPT ![dfI - 1] = Terminator]
    /\ \/ dfPc' = "data" /\ dfHeld' = dfHeld \cup {"data"}
       \/ dfKind = "button" /\ dfPc' = "null" /\ dfHeld' = AfterErr(dfHeld)
       \/ dfKind # "button" /\ dfPc' = "crashed" /\ UNCHANGED dfHeld
    /\ UNCHANGED <<dfKind, dfFields, dfI, dfArg, dfHigh>>

NextDuerosFormat ==
    \/ \E kind \in Kinds : \E fields \in FieldLists(kind) : FormatStart(kind, fields)
    \/ FormatField \/ FormatEnd
-----------------------------------------------------------------------------
\* The layout: type and fields, a delimiter after each but the last.
Upto[n \in Nat] ==
    IF n = 0 THEN Type
    ELSE Upto[n - 1] \o <<Delimiter>> \o Field(n, dfFields[n].len)
Layout == Append(Upto[Len(dfFields)], Terminator)
BlockSize == IF dfKind = "button" THEN ButtonSize ELSE UrlSize
Literal == \A n \in DOMAIN dfFields : dfFields[n].out = dfFields[n].len

(***************************************************************************)
(* If no text holds a conversion and the message fits its block, to the    *)
(* last byte, then the caller gets exactly the layout, its length in       *)
(* data->len, and nothing behind the block is written.  (The code does not *)
(* see to either condition itself.)                                        *)
(***************************************************************************)
FormatsLayout ==
    dfPc = "data" /\ Literal /\ Len(Layout) <= BlockSize =>
        /\ dfI = Len(Layout)
        /\ \A k \in 1..dfI : dest[k - 1] = Layout[k]
        /\ dfHigh <= BlockSize
=============================================================================
