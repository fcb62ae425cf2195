--------------------------- MODULE NamespaceStack ---------------------------
(***************************************************************************)
(* The namespace nesting stack of src/libycp/src/Bytecode.cc: the static   *)
(* array m_namespace_nesting_array[0..m_namespace_nesting_level] and the   *)
(* tare level m_namespace_tare_level.  The array is a sequence whose       *)
(* length is nesting_level + 1; nsStack[i] is array slot i - 1.  A frame   *)
(* holds the namespace and its with_xrefs flag; xrefs[ns] counts the       *)
(* openXRefs() calls on ns's symbol table not yet closed.                  *)
(*                                                                         *)
(* The code operations are operators over the three stack variables, so   *)
(* that ModuleLoader can take them inside its own steps.  The specification*)
(* at the end lets an arbitrary caller invoke them; the ghost variable     *)
(* tokens pairs every tareStack() with its untareStack().                  *)
(***************************************************************************)
EXTENDS Integers, Sequences, SequencesExt, FiniteSets

CONSTANTS
    Spaces,     \* namespaces (Y2Namespace objects) a caller may push
    MaxDepth,   \* bound on the nesting level (the array grows unbounded)
    MaxTares,   \* bound on tareStack() calls outstanding at once
    NoSpace     \* the null Y2Namespace pointer returned by namespacePtr

ASSUME MaxDepth \in Nat /\ MaxTares \in Nat /\ NoSpace \notin Spaces

VARIABLES nsStack, tare, xrefs, tokens

stackVars == <<nsStack, tare, xrefs>>
vars == <<nsStack, tare, xrefs, tokens>>

Frame == [name_space : Spaces, with_xrefs : BOOLEAN]

\* m_namespace_nesting_level
Level == Len(nsStack) - 1

\* namespaceInit(): empty array, level -1, tare 0
StackInit ==
    /\ nsStack = <<>>
    /\ tare = 0
    /\ xrefs = [s \in Spaces |-> 0]

(***************************************************************************)
(* namespaceId(): scan slots tare..level upward, first match wins; -1 when *)
(* the namespace is not in the window above the tare level.                *)
(***************************************************************************)
NamespaceId(ns) ==
    LET i == SelectInSubSeq(nsStack, tare + 1, Len(nsStack),
                            LAMBDA f : f.name_space = ns)
    IN  IF i = 0 THEN -1 ELSE i - 1 - tare

\* namespacePtr(): negative id (foreach entries) or id beyond the level -> 0
NamespacePtr(id) ==
    IF id < 0 \/ id + tare > Level THEN NoSpace
    ELSE nsStack[id + tare + 1].name_space

CloseXRefs(popped) ==
    [s \in DOMAIN xrefs |->
        xrefs[s] - Cardinality({i \in DOMAIN popped :
                                  popped[i].name_space = s /\ popped[i].with_xrefs})]

\* pushNamespace(ns, with_xrefs); the returned id is Level' - tare
PushNamespace(ns, wx) ==
    /\ nsStack' = Append(nsStack, [name_space |-> ns, with_xrefs |-> wx])
    /\ xrefs' = IF wx THEN [xrefs EXCEPT ![ns] = @ + 1] ELSE xrefs
    /\ UNCHANGED tare

\* mutant: only an empty array is refused, not an empty tare window
PopRefusedNoFloor(ns) ==
    IF Level < 0 THEN TRUE ELSE Last(nsStack).name_space # ns

\* popNamespace(ns) reports and ignores an empty window or a wrong top
PopRefused(ns) ==
    IF Level < tare THEN TRUE ELSE Last(nsStack).name_space # ns

PopNamespace(ns) ==
    \/ /\ PopRefused(ns)
       /\ UNCHANGED stackVars
    \/ /\ ~PopRefused(ns)
       /\ nsStack' = Front(nsStack)
       /\ xrefs' = CloseXRefs(<<Last(nsStack)>>)
       /\ UNCHANGED tare

(***************************************************************************)
(* popUptoNamespace(ns): pop from the top while level >= tare, stopping    *)
(* after ns is popped; without ns in the window it empties the window.     *)
(***************************************************************************)
PopUptoCut(ns) ==
    LET j == SelectLastInSubSeq(nsStack, tare + 1, Len(nsStack),
                                LAMBDA f : f.name_space = ns)
    IN  IF j > 0 THEN j - 1
        ELSE IF Len(nsStack) > tare THEN tare ELSE Len(nsStack)

PopUptoNamespace(ns) ==
    LET cut == PopUptoCut(ns)
    IN  /\ nsStack' = SubSeq(nsStack, 1, cut)
        /\ xrefs' = CloseXRefs(SubSeq(nsStack, cut + 1, Len(nsStack)))
        /\ UNCHANGED tare

\* mutant: the token misses the + 1
TareTokenOff == Level - tare

\* tareStack(): the token is level - tare + 1, the new tare is level + 1
TareToken == Level - tare + 1

TareStack ==
    /\ tare' = Level + 1
    /\ UNCHANGED <<nsStack, xrefs>>

\* mutant: one level too many is given back
UntareStackOff(t) ==
    /\ tare' = tare - t - 1
    /\ UNCHANGED <<nsStack, xrefs>>

\* untareStack(tare_id)
UntareStack(t) ==
    /\ tare' = tare - t
    /\ UNCHANGED <<nsStack, xrefs>>

-----------------------------------------------------------------------------
(***************************************************************************)
(* Any caller: the stack operations in every order.  A caller pushes only  *)
(* a namespace not already on the stack (a block is pushed once while it   *)
(* is being read or written) and pairs each untare with its tare, issued   *)
(* once the frames pushed since are popped again, as readModule() does.    *)
(***************************************************************************)
Init ==
    /\ StackInit
    /\ tokens = <<>>

Push(ns, wx) ==
    /\ Len(nsStack) < MaxDepth
    /\ \A i \in DOMAIN nsStack : nsStack[i].name_space # ns
    /\ PushNamespace(ns, wx)
    /\ UNCHANGED tokens

Pop(ns) ==
    /\ PopNamespace(ns)
    /\ UNCHANGED tokens

PopUpto(ns) ==
    /\ PopUptoNamespace(ns)
    /\ UNCHANGED tokens

Tare ==
    /\ Len(tokens) < MaxTares
    /\ TareStack
    /\ tokens' = Append(tokens, [id |-> TareToken, floor |-> tare,
                                  depth |-> Len(nsStack)])

Untare ==
    /\ tokens # <<>>
    /\ Len(nsStack) = Last(tokens).depth
    /\ UntareStack(Last(tokens).id)
    /\ tokens' = Front(tokens)

Next ==
    \/ \E ns \in Spaces, wx \in BOOLEAN : Push(ns, wx)
    \/ \E ns \in Spaces : Pop(ns) \/ PopUpto(ns)
    \/ Tare
    \/ Untare

Spec == Init /\ [][Next]_vars

-----------------------------------------------------------------------------
TypeOK ==
    /\ nsStack \in Seq(Frame)
    /\ tare \in Nat
    /\ xrefs \in [Spaces -> Nat]
    /\ tokens \in Seq([id : Int, floor : Nat, depth : Nat])

\* The stack never becomes shorter than its tare floor: popNamespace and
\* popUptoNamespace refuse to pop below m_namespace_tare_level.
FloorRespected == tare <= Len(nsStack)

\* untareStack() with the token of the matching tareStack() restores the
\* tare level that was in force before that tareStack(), whatever was
\* pushed or popped in between.
UntareRestoresFloor ==
    [][Untare => tare' = Last(tokens).floor]_vars

(***************************************************************************)
(* The refinement mapping: the array cut at the depths where the           *)
(* outstanding tareStack() calls were made, the last window ending at the  *)
(* top of the array; the open cross-reference counts are xrefs.            *)
(***************************************************************************)
Bound(i) == IF i = 0 THEN 0 ELSE IF i > Len(tokens) THEN Len(nsStack) ELSE tokens[i].depth

Windows == [i \in 1 .. Len(tokens) + 1 |-> SubSeq(nsStack, Bound(i - 1) + 1, Bound(i))]

Abstract == INSTANCE WindowStack WITH windows <- Windows, open <- xrefs

=============================================================================
