--------------------------- MODULE TypeValueCodec ---------------------------
(***************************************************************************)
(* Bytecode::readType(), Bytecode::writeValue() and Bytecode::readValue()  *)
(* of src/libycp/src/Bytecode.cc, over the primitives of PrimitiveCodec.   *)
(*                                                                         *)
(* A type is [kind, args]: an atomic kind without arguments, a list type   *)
(* with its element type, a map type with its key and value types.  A      *)
(* value is [kind, val]: void, a boolean, an integer, a string or a list   *)
(* of values.  Type::toStream, the Type and YCPValue stream constructors   *)
(* and the value classes' toStream are not under src/: their encodings     *)
(* follow spec sections 4.2 and 4.3 and are built from the primitives.     *)
(* The numbers of Type::tkind and YCPValueType are constants.              *)
(***************************************************************************)
EXTENDS PrimitiveCodec

CONSTANTS
    AtomicKinds,    \* the Type::tkind values readType constructs as a plain Type
    ListT, MapT,    \* the list and map type kinds
    ErrorT,         \* the kind of Type::Error
    YT_VOID, YT_BOOLEAN, YT_INTEGER, YT_STRING, YT_LIST,
    NullValue       \* YCPNull ()

\* Type::Error->clone ()
ErrorType == [kind |-> ErrorT, args |-> <<>>]

\* Type::toStream: writeInt32 (kind), then each nested type
RECURSIVE EncodeType(_)
EncodeType(t) ==
    EncodeInt32(t.kind) \o FlattenSeq([i \in DOMAIN t.args |-> EncodeType(t.args[i])])

\* whether a read function stored past the buffer it allocated
Overran(o) == o.stored > o.alloc

\* the outcome of a nested read: overran if one of its parts did
Nested(st, val, ok, over) == Outcome(st, val, ok, 0, IF over THEN 1 ELSE 0)

(***************************************************************************)
(* readType: readInt32 the kind, then switch on it.  An atomic kind is a  *)
(* Type of that kind, ListType and MapType read their nested types; a kind *)
(* the switch has no case for is reported and Type::Error is returned.     *)
(* None of them touches the stream's state beyond its reads: an unknown    *)
(* kind does not fail the stream.                                          *)
(***************************************************************************)
RECURSIVE ReadType(_)
ReadType(st) ==
    UNION {CASE r.val \in AtomicKinds ->
                  {Outcome(r.st, [kind |-> r.val, args |-> <<>>], TRUE, 0, 0)}
             [] r.val = ListT ->
                  {Nested(e.st, [kind |-> ListT, args |-> <<e.val>>], TRUE, Overran(e)) :
                     e \in ReadType(r.st)}
             [] r.val = MapT ->
                  UNION {{Nested(v.st, [kind |-> MapT, args |-> <<k.val, v.val>>], TRUE, Overran(k) \/ Overran(v)) :
                            v \in ReadType(k.st)} : k \in ReadType(r.st)}
             [] OTHER -> {Outcome(r.st, ErrorType, TRUE, 0, 0)}
           : r \in ReadInt32(st)}

\* a value's payload after its valuetype byte (the classes' toStream):
\* writeBool, writeInt32, writeString, or a count and the elements
RECURSIVE EncodeValue(_)
EncodeValue(v) ==
    <<v.kind>> \o
    CASE v.kind = YT_VOID    -> <<>>
      [] v.kind = YT_BOOLEAN -> <<IF v.val THEN 1 ELSE 0>>
      [] v.kind = YT_INTEGER -> EncodeInt32(v.val)
      [] v.kind = YT_STRING  -> EncodeString(v.val)
      [] v.kind = YT_LIST    -> EncodeInt32(Len(v.val))
                              \o FlattenSeq([i \in DOMAIN v.val |-> EncodeValue(v.val[i])])

(***************************************************************************)
(* writeValue: a NULL value sets the failbit of the ostream and writes     *)
(* nothing; every write after it on that ostream is a no-op.  Otherwise    *)
(* put ((char) valuetype) and the payload.  The result: the bytes, and     *)
(* whether the stream has failed.                                          *)
(***************************************************************************)
WriteValue(v) ==
    IF v = NullValue THEN [bytes |-> <<>>, fail |-> TRUE]
    ELSE [bytes |-> EncodeValue(v), fail |-> FALSE]

\* a value read from a payload read function: null if the stream failed
FromRead(vt, o) ==
    Nested(o.st, IF o.st.fail THEN NullValue ELSE [kind |-> vt, val |-> o.val],
           ~o.st.fail, Overran(o))

(***************************************************************************)
(* count elements, each by readValue: the first null one makes the list   *)
(* null (YCPList (str)).                                                   *)
(***************************************************************************)
RECURSIVE ReadValue(_)
RECURSIVE ReadElements(_, _, _)
ReadElements(st, n, acc) ==
    IF n <= 0 THEN {Outcome(st, acc, TRUE, 0, 0)}
    ELSE UNION {IF e.val = NullValue THEN {Nested(e.st, <<>>, FALSE, Overran(e))}
                ELSE {Nested(r.st, r.val, r.ok, Overran(e) \/ Overran(r)) :
                        r \in ReadElements(e.st, n - 1, Append(acc, e.val))}
                : e \in ReadValue(st)}

(***************************************************************************)
(* readValue: get (vt), as a (signed) char; a failed get is YCPNull; the   *)
(* switch builds the value of the case of vt; a vt without a case is       *)
(* reported and YCPNull is returned.                                       *)
(***************************************************************************)
ReadValue(st) ==
    UNION {LET vt == IF g.bs[1] >= 128 THEN g.bs[1] - 256 ELSE g.bs[1]
           IN  IF g.st.fail THEN {Outcome(g.st, NullValue, FALSE, 0, 0)}
               ELSE CASE vt = YT_VOID ->
                           {Outcome(g.st, [kind |-> YT_VOID, val |-> <<>>], TRUE, 0, 0)}
                      [] vt = YT_BOOLEAN -> {FromRead(vt, o) : o \in ReadBool(g.st)}
                      [] vt = YT_INTEGER -> {FromRead(vt, o) : o \in ReadInt32(g.st)}
                      [] vt = YT_STRING  -> {FromRead(vt, o) : o \in ReadString(g.st)}
                      [] vt = YT_LIST ->
                           UNION {IF c.st.fail THEN {Outcome(c.st, NullValue, FALSE, 0, 0)}
                                  ELSE {Nested(l.st, IF l.ok THEN [kind |-> YT_LIST, val |-> l.val]
                                                     ELSE NullValue, l.ok, Overran(l)) :
                                          l \in ReadElements(c.st, c.val, <<>>)}
                                  : c \in ReadInt32(g.st)}
                      [] OTHER -> {Outcome(g.st, NullValue, FALSE, 0, 0)}
           : g \in GetBytes(st, Undef, 1)}

=============================================================================
