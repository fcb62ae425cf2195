---------------------------- MODULE PrimitiveCodec ----------------------------
(***************************************************************************)
(* The primitive codec of src/libycp/src/Bytecode.cc: writeBool/readBool,  *)
(* writeInt32/readInt32, writeString/readString, writeCharp/readCharp and  *)
(* writeBytep/readBytep, as operators over byte sequences and istreams.    *)
(* Codec writes and reads them over one file.                              *)
(*                                                                         *)
(* A u_int32_t is kept as the int32 with the same bit pattern (TLC's       *)
(* integers are 32-bit); a byte is 0..255; the istream is its bytes, a     *)
(* position and the fail bit.                                              *)
(***************************************************************************)
EXTENDS Integers, Sequences, SequencesExt

CONSTANTS
    UndefBytes, \* what an uninitialized char may hold
    Undef       \* a char before its first get

Byte == 0 .. 255
MaxInt32 == 2147483647
\* a buffer size of 2^31 bytes or more: larger than any stream here
Huge == MaxInt32

\* (char)(value>>8*k & 0xff): an arithmetic shift and mask of the pattern
ByteOf(v, k) == (v \div 2 ^ (8 * k)) % 256

\* writeInt32: the tag 4, then the value little-endian
EncodeInt32(v) == <<4, ByteOf(v, 0), ByteOf(v, 1), ByteOf(v, 2), ByteOf(v, 3)>>

\* value |= cv << 8*k with cv = (unsigned char)c, then the u_int32_t as int
DecodeLE(bs) ==
    bs[1] + 256 * bs[2] + 65536 * bs[3]
      + 16777216 * (IF bs[4] >= 128 THEN bs[4] - 256 ELSE bs[4])

\* strlen: the bytes before the first NUL
CStr(s) == LET n == SelectInSeq(s, LAMBDA b : b = 0)
           IN  IF n = 0 THEN s ELSE SubSeq(s, 1, n - 1)

\* mutant: the terminating NUL of c_str() is written too
EncodeStringWithNul(s) == EncodeInt32(Len(s)) \o s \o <<0>>

\* writeString: the length, then size() bytes of the string
EncodeString(s) == EncodeInt32(Len(s)) \o s

\* writeBool: the byte 1 for true, 0 for false
EncodeBool(b) == <<IF b THEN 1 ELSE 0>>

\* writeCharp: len = strlen (charp) as an int32, then those len bytes
EncodeCharp(s) == EncodeInt32(Len(CStr(s))) \o CStr(s)

\* writeBytep: len as an int32, then the len bytes
EncodeBytep(bs) == EncodeInt32(Len(bs)) \o bs

-----------------------------------------------------------------------------
(***************************************************************************)
(* The istream.  get(c) takes the next byte, or at the end sets the fail   *)
(* bit and leaves c as it was (an uninitialized c holds any of             *)
(* UndefBytes).  GetBytes(st, c, n) is the set of outcomes of n gets into  *)
(* the same char c: the stream after them and the n values c took.         *)
(***************************************************************************)
Get(st, c) ==
    IF ~st.fail /\ st.pos < Len(st.bytes)
      THEN {[st |-> [st EXCEPT !.pos = @ + 1], c |-> st.bytes[st.pos + 1]]}
      ELSE {[st |-> [st EXCEPT !.fail = TRUE], c |-> x] :
               x \in IF c = Undef THEN UndefBytes ELSE {c}}

RECURSIVE GetBytes(_, _, _)
GetBytes(st, c, n) ==
    IF n = 0 THEN {[st |-> st, bs |-> <<>>]}
    ELSE UNION {{[st |-> r.st, bs |-> <<g.c>> \o r.bs] : r \in GetBytes(g.st, g.c, n - 1)}
                : g \in Get(st, c)}

\* read (buf, len): copies what is there, up to len (unsigned); it succeeds
\* only when len bytes were there and the stream was good
ReadRaw(st, len) ==
    LET avail == Len(st.bytes) - st.pos
        n == IF st.fail THEN 0 ELSE IF len < 0 THEN avail ELSE Min({len, avail})
        ok == ~st.fail /\ len >= 0 /\ len <= avail
    IN  [st |-> [st EXCEPT !.pos = @ + n, !.fail = ~ok],
         data |-> SubSeq(st.bytes, st.pos + 1, st.pos + n), ok |-> ok]

\* new char [len+1] with len a u_int32_t: 0xffffffff + 1 wraps to 0
AllocPlus1(len) ==
    IF len = -1 THEN 0 ELSE IF len < 0 \/ len = MaxInt32 THEN Huge ELSE len + 1

\* new unsigned char [len]
AllocOf(len) == IF len < 0 THEN Huge ELSE len

\* the outcome of a read function: stream, value, success, and the bytes
\* allocated for and stored into its buffer
Outcome(st, val, ok, alloc, stored) ==
    [st |-> st, val |-> val, ok |-> ok, alloc |-> alloc, stored |-> stored]

\* readBool: get (c); c != 0
ReadBool(st) ==
    {Outcome(g.st, g.bs[1] # 0, TRUE, 0, 0) : g \in GetBytes(st, Undef, 1)}

\* mutant: the bytes are assembled big-endian
ReadInt32BigEndian(st) ==
    UNION {IF t.bs[1] # 4 THEN {Outcome(t.st, 0, TRUE, 0, 0)}
           ELSE {Outcome(r.st, DecodeLE(Reverse(r.bs)), TRUE, 0, 0) : r \in GetBytes(t.st, 4, 4)}
           : t \in GetBytes(st, Undef, 1)}

\* readInt32: a wrong tag returns false, i.e. 0; four more gets into c
ReadInt32(st) ==
    UNION {IF t.bs[1] # 4 THEN {Outcome(t.st, 0, TRUE, 0, 0)}
           ELSE {Outcome(r.st, DecodeLE(r.bs), TRUE, 0, 0) : r \in GetBytes(t.st, 4, 4)}
           : t \in GetBytes(st, Undef, 1)}

\* mutant: new char [len], so buf[len] = 0 is one past the buffer
ReadStringNoTerm(st) ==
    UNION {IF r.val = 0 THEN {Outcome(r.st, <<>>, FALSE, 0, 0)}
           ELSE LET rd == ReadRaw(r.st, r.val)
                IN  {Outcome(rd.st, IF rd.ok THEN CStr(rd.data) ELSE <<>>, rd.ok,
                             AllocOf(r.val), Len(rd.data) + IF rd.ok THEN 1 ELSE 0)}
           : r \in ReadInt32(st)}

\* readString: len > 0 only; buf[len] = 0; string (buf) stops at a NUL
ReadString(st) ==
    UNION {IF r.val = 0 THEN {Outcome(r.st, <<>>, FALSE, 0, 0)}
           ELSE LET rd == ReadRaw(r.st, r.val)
                IN  {Outcome(rd.st, IF rd.ok THEN CStr(rd.data) ELSE <<>>, rd.ok,
                             AllocPlus1(r.val), Len(rd.data) + IF rd.ok THEN 1 ELSE 0)}
           : r \in ReadInt32(st)}

\* readCharp: only if str.good() after the length; NULL on a short read
ReadCharp(st) ==
    UNION {IF r.st.fail THEN {Outcome(r.st, <<>>, FALSE, 0, 0)}
           ELSE LET rd == ReadRaw(r.st, r.val)
                IN  {Outcome(rd.st, IF rd.ok THEN rd.data ELSE <<>>, rd.ok,
                             AllocPlus1(r.val), Len(rd.data) + IF rd.ok THEN 1 ELSE 0)}
           : r \in ReadInt32(st)}

\* readBytep: new unsigned char [len], no terminator
ReadBytep(st) ==
    UNION {IF r.st.fail THEN {Outcome(r.st, <<>>, FALSE, 0, 0)}
           ELSE LET rd == ReadRaw(r.st, r.val)
                IN  {Outcome(rd.st, IF rd.ok THEN rd.data ELSE <<>>, rd.ok,
                             AllocOf(r.val), Len(rd.data))}
           : r \in ReadInt32(st)}

=============================================================================
