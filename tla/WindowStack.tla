---------------------------- MODULE WindowStack ----------------------------
(***************************************************************************)
(* What the namespace stack of Bytecode.cc promises (spec sections 3 and   *)
(* 5): a stack of windows, one per tare level.  Only the top window is     *)
(* visible: push, pop and popUpTo act on it, tare opens a new empty window *)
(* above it, and untare, once the frames pushed since are popped, closes   *)
(* that window and makes the one below visible again.  A namespace pushed  *)
(* with cross-references has its references open exactly while its frame  *)
(* is on the stack.                                                        *)
(*                                                                         *)
(* NamespaceStack implements this specification: its flat array and tare  *)
(* level are mapped onto the windows (NamespaceStack!Windows).             *)
(***************************************************************************)
EXTENDS Integers, Sequences, SequencesExt, FiniteSets

CONSTANTS Spaces, MaxDepth, MaxTares

VARIABLES
    windows,    \* the windows, bottom first; each a sequence of frames
    open        \* per namespace: its open cross-reference tables

vars == <<windows, open>>

\* every frame on the stack, bottom first
Frames == FlattenSeq(windows)

Top == Last(windows)

\* the frames pushed with cross-references, per namespace
OpenOf(stack) ==
    [s \in Spaces |-> Cardinality({i \in DOMAIN stack :
                                     stack[i].name_space = s /\ stack[i].with_xrefs})]

\* the top window becomes w; the open tables follow the frames
SetTop(w) ==
    /\ windows' = [windows EXCEPT ![Len(windows)] = w]
    /\ open' = OpenOf(FlattenSeq(windows'))

\* the last frame of w holding ns (0: none)
LastOf(w, ns) == SelectLastInSeq(w, LAMBDA f : f.name_space = ns)

Init ==
    /\ windows = <<<<>>>>
    /\ open = [s \in Spaces |-> 0]

\* push: a namespace not yet on the stack goes on top of the top window
Push(ns, wx) ==
    /\ Len(Frames) < MaxDepth
    /\ \A i \in DOMAIN Frames : Frames[i].name_space # ns
    /\ SetTop(Append(Top, [name_space |-> ns, with_xrefs |-> wx]))

\* pop: only the top frame of the top window, and only when it holds ns;
\* any other pop changes nothing
Pop(ns) ==
    /\ Top # <<>>
    /\ Last(Top).name_space = ns
    /\ SetTop(Front(Top))

\* popUpTo: the top window loses ns and every frame above it, or all of
\* its frames when ns is not in it; the windows below are untouched
PopUpto(ns) ==
    SetTop(IF LastOf(Top, ns) > 0 THEN SubSeq(Top, 1, LastOf(Top, ns) - 1) ELSE <<>>)

\* tare: a new, empty window
Tare ==
    /\ Len(windows) <= MaxTares
    /\ windows' = Append(windows, <<>>)
    /\ UNCHANGED open

\* untare: the emptied top window is closed
Untare ==
    /\ Len(windows) > 1
    /\ Top = <<>>
    /\ windows' = Front(windows)
    /\ UNCHANGED open

Next ==
    \/ \E ns \in Spaces, wx \in BOOLEAN : Push(ns, wx)
    \/ \E ns \in Spaces : Pop(ns) \/ PopUpto(ns)
    \/ Tare
    \/ Untare

Spec == Init /\ [][Next]_vars

=============================================================================
