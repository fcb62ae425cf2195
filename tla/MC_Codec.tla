------------------------------- MODULE MC_Codec -------------------------------
EXTENDS Codec

Item(k, v) == [kind |-> k, val |-> v]
T(k, a) == [kind |-> k, args |-> a]
V(vt, v) == [kind |-> vt, val |-> v]

\* Type::tkind: UnspecT, ErrorT, BooleanT are atomic; the list and map kinds
\* lie apart from 0 and 0x04040404, what readInt32 yields on a failed stream
MC_AtomicKinds == {0, 1, 3}
MC_ListT == 16
MC_MapT == 17
MC_ErrorT == 1

\* both bools, the int32 boundaries (0xffffffff is -1), empty and non-ASCII
\* strings and byte blocks, an atomic, a list and a nested map type, and
\* void, an integer, a string, a nested list and the NULL value
MC_Items ==
    {Item("bool", b) : b \in BOOLEAN}
    \cup {Item("int32", v) : v \in {0, 256, -1, MaxInt32, -MaxInt32 - 1}}
    \cup {Item("string", s) : s \in {<<>>, <<65>>, <<65, 200>>}}
    \cup {Item("charp", s) : s \in {<<>>, <<65>>}}
    \cup {Item("bytep", s) : s \in {<<>>, <<200, 0>>}}
    \cup {Item("type", t) : t \in {T(3, <<>>), T(16, <<T(3, <<>>)>>),
                                    T(17, <<T(3, <<>>), T(16, <<T(0, <<>>)>>)>>)}}
    \cup {Item("value", v) : v \in {V(0, <<>>), V(2, -1), V(4, <<>>),
                                     V(6, <<V(1, TRUE), V(6, <<V(4, <<65>>)>>)>>),
                                     NullValue}}

\* an intact file, a bad tag, a length longer than the bytes that follow
MC_Tails == {<<>>, <<7>>, <<4, 2, 0, 0, 0, 65>>}

\* a corrupt length 0xffffffff followed by one byte
MC_OverrunTails == {<<4, 255, 255, 255, 255, 65>>}
\* no tail, and no items
MC_NoTails == {<<>>}
MC_NoItems == {}
=============================================================================
