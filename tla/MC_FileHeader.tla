---------------------------- MODULE MC_FileHeader ----------------------------
EXTENDS FileHeader

CONSTANTS H1, H2    \* the bytes of a two-byte magic header

MC_Header == <<H1, H2>>

Written(v, body) == [kind |-> "written", ver |-> v, body |-> body, cut |-> 0]

\* intact files: every branch of the header compare and the version gate,
\* a multi-digit minor, releases that wrap in the int (70000 to 4464, and
\* 65535 to -1, which the gate admits), a code byte '5'
MC_Files ==
    {Written(v, <<Other>>) :
        v \in {<<1, 3, 2>>, <<1, 3, 1>>, <<1, 3, 3>>, <<1, 2, 2>>,
               <<2, 3, 2>>, <<11, 3, 2>>, <<1, 13, 2>>, <<1, 3, 70000>>,
               <<1, 3, 65535>>}}
    \cup {Written(<<1, 3, 2>>, <<5, Other>>), Written(<<1, 3, 0>>, <<5>>)}
    \cup {[kind |-> "foreign", ver |-> <<>>, body |-> <<Other, 5>>, cut |-> 0],
          [kind |-> "missing", ver |-> <<>>, body |-> <<>>, cut |-> 0]}

=============================================================================
