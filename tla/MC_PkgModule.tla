------------------------------ MODULE MC_PkgModule ------------------------------
EXTENDS PkgModule

CONSTANTS pa, pb, pc, s1, s2

\* "a" is installed and has an update from a source of unknown rank; "b"
\* and "c" are only candidates, "b" also providing the tag "x"; "y" is
\* provided by nothing
MC_Order == <<pa, pb, pc>>
MC_NameOf == (pa :> "a") @@ (pb :> "b") @@ (pc :> "c")
MC_InstProv == (pa :> {"a"}) @@ (pb :> {}) @@ (pc :> {})
MC_CandProv == (pa :> {"a"}) @@ (pb :> {"b", "x"}) @@ (pc :> {"c"})
MC_Installed == {pa}
MC_Candidate == {pa, pb, pc}
MC_Names == {"a", "x", "y", ""}
MC_Garbage == {0, 7}
MC_TagLists == {<<"a", "x">>, <<NotString, "c">>, <<"y">>}

\* installed in the order s2, s1, against the rank order s1, s2; "b" is on
\* medium 2 of s1, which has one medium, and needs the resize
MC_InstOrder == <<s2, s1>>
MC_SrcRank == (s1 :> 1) @@ (s2 :> 2)
MC_MediaCount == (s1 :> 1) @@ (s2 :> 2)
MC_CandRank == (pa :> 3) @@ (pb :> 1) @@ (pc :> 2)
MC_MediaNr == (pa :> 1) @@ (pb :> 2) @@ (pc :> 1)
MC_Size == (pa :> 7) @@ (pb :> 5) @@ (pc :> 3)
MC_AvObjs == (pa :> <<"candidate">>) @@ (pb :> <<"candidate", "older">>) @@ (pc :> <<"candidate">>)
=============================================================================
