-------------------------------- MODULE Codec --------------------------------
(***************************************************************************)
(* One bytecode file written and read back through the codec of            *)
(* src/libycp/src/Bytecode.cc: the primitives of PrimitiveCodec and the   *)
(* types and values of TypeValueCodec.                                     *)
(*                                                                         *)
(* A writer emits items on one ostream; the file then holds those bytes    *)
(* followed by a tail (nothing, or the damage of a foreign or corrupt      *)
(* file); a reader calls the read function matching each item in turn,     *)
(* and may go on calling read functions on whatever follows.               *)
(***************************************************************************)
EXTENDS TypeValueCodec

CONSTANTS
    Items,      \* items a writer may write: [kind, val]
    Tails,      \* byte sequences the file may hold after what was written
    MaxItems,   \* bound on items written
    MaxReads    \* bound on read calls

Kinds == {"bool", "int32", "string", "charp", "bytep", "type", "value"}

VARIABLES stream, \* the bytes written, then the istream over the file
          written, \* the items the writer has written
          wfail,   \* the ostream's failbit
          phase, read,
          overrun  \* a read function has stored past its buffer

vars == <<stream, written, wfail, phase, read, overrun>>

\* the bytes and failure of one write function
Encode(item) ==
    CASE item.kind = "bool"   -> [bytes |-> EncodeBool(item.val), fail |-> FALSE]
      [] item.kind = "int32"  -> [bytes |-> EncodeInt32(item.val), fail |-> FALSE]
      [] item.kind = "string" -> [bytes |-> EncodeString(item.val), fail |-> FALSE]
      [] item.kind = "charp"  -> [bytes |-> EncodeCharp(item.val), fail |-> FALSE]
      [] item.kind = "bytep"  -> [bytes |-> EncodeBytep(item.val), fail |-> FALSE]
      [] item.kind = "type"   -> [bytes |-> EncodeType(item.val), fail |-> FALSE]
      [] item.kind = "value"  -> WriteValue(item.val)

ReadOf(kind, st) ==
    CASE kind = "bool"   -> ReadBool(st)
      [] kind = "int32"  -> ReadInt32(st)
      [] kind = "string" -> ReadString(st)
      [] kind = "charp"  -> ReadCharp(st)
      [] kind = "bytep"  -> ReadBytep(st)
      [] kind = "type"   -> ReadType(st)
      [] kind = "value"  -> ReadValue(st)

-----------------------------------------------------------------------------
Init ==
    /\ stream = [bytes |-> <<>>, pos |-> 0, fail |-> FALSE]
    /\ written = <<>>
    /\ wfail = FALSE
    /\ phase = "write"
    /\ read = <<>>
    /\ overrun = FALSE

\* one write call of the writer: nothing reaches a failed ostream
Write(item) ==
    /\ phase = "write"
    /\ Len(written) < MaxItems
    /\ LET e == Encode(item)
       IN  /\ stream' = IF wfail THEN stream ELSE [stream EXCEPT !.bytes = @ \o e.bytes]
           /\ wfail' = (wfail \/ e.fail)
    /\ written' = Append(written, item)
    /\ UNCHANGED <<phase, read, overrun>>

\* the file is closed and opened for reading, with tail after the items
Reopen(tail) ==
    /\ phase = "write"
    /\ stream' = [bytes |-> stream.bytes \o tail, pos |-> 0, fail |-> FALSE]
    /\ phase' = "read"
    /\ UNCHANGED <<written, wfail, read, overrun>>

\* the reader calls the read function of kind: the one of the next written
\* item, or any one once the written items are read and bytes remain
ReadCall(kind) ==
    /\ phase = "read"
    /\ Len(read) < MaxReads
    /\ IF Len(read) < Len(written) THEN kind = written[Len(read) + 1].kind
       ELSE stream.pos < Len(stream.bytes) /\ ~stream.fail
    /\ \E o \in ReadOf(kind, stream) :
         /\ stream' = o.st
         /\ read' = Append(read, [kind |-> kind, val |-> o.val, ok |-> o.ok])
         /\ overrun' = (overrun \/ Overran(o))
    /\ UNCHANGED <<written, wfail, phase>>

\* the reader is done
ReadDone ==
    /\ phase = "read"
    /\ Len(read) >= Len(written)
    /\ phase' = "done"
    /\ UNCHANGED <<stream, written, wfail, read, overrun>>

Finished ==
    /\ phase = "done"
    /\ UNCHANGED vars

Next ==
    \/ \E item \in Items : Write(item)
    \/ \E tail \in Tails : Reopen(tail)
    \/ \E kind \in Kinds : ReadCall(kind)
    \/ ReadDone
    \/ Finished

Spec == Init /\ [][Next]_vars

-----------------------------------------------------------------------------
\* the first k written items all reached the ostream
Intact(k) == \A j \in 1 .. k : ~Encode(written[j]).fail

\* What a read of the k-th written item gives back (spec section 8): the
\* value, with readString reporting failure for the empty string; a type
\* or a value read back is the one written.
Expected(item) ==
    [kind |-> item.kind,
     val |-> IF item.kind = "charp" THEN CStr(item.val) ELSE item.val,
     ok |-> item.kind # "string" \/ item.val # <<>>]

\* Every item that reached the file comes back from the matching read
\* function, in the order written: writeInt32's byte order and tag,
\* writeString's length prefix and readString's copy, readType's and
\* readValue's dispatch and nesting all agree with the writers.
RoundTrip ==
    \A k \in 1 .. Min({Len(read), Len(written)}) :
        Intact(k) => read[k] = Expected(written[k])

\* After the k-th matching read of items that reached the file the stream
\* stands at the first byte the (k+1)-th write produced: no read takes more
\* or fewer bytes than written, at any depth of a type or a value.
StaysAligned ==
    phase # "write" /\ Len(read) <= Len(written) /\ Intact(Len(read))
      => stream.pos = Len(FlattenSeq([k \in 1 .. Len(read) |-> Encode(written[k]).bytes]))

\* No read function stores past the buffer it allocated, whatever bytes
\* the file holds, in a string nested in a value too: new char [len + 1],
\* read (buf, len), buf[len] = 0.
InBounds == ~overrun

=============================================================================
