--------------------------- MODULE SymbolResolver ---------------------------
(***************************************************************************)
(* Bytecode::writeEntry() and Bytecode::readEntry() of                     *)
(* src/libycp/src/Bytecode.cc, on the namespace stack of NamespaceStack.   *)
(* writeEntry() writes a SymbolEntry reference as the pair (namespaceId of *)
(* the entry's namespace, the entry's position); readEntry() reads the     *)
(* pair back and resolves it through namespacePtr() and the namespace's    *)
(* symbol table.  Any caller uses the stack as in NamespaceStack; in       *)
(* between, references are written.                                        *)
(*                                                                         *)
(* An entry is its namespace and its slot: slot k >= 0 is position k of   *)
(* the namespace's own symbols, slot -k - 1 is its cross-reference slot k *)
(* (spec section 4.6: SymbolEntry::position() and the SymbolTable are not  *)
(* under src/).  The two int32 of the pair are kept as numbers; their      *)
(* encoding is PrimitiveCodec's.                                           *)
(***************************************************************************)
EXTENDS Integers, Sequences, SequencesExt, FiniteSets

CONSTANTS Spaces, MaxDepth, MaxTares, NoSpace,
    NumLocal,   \* symbols each namespace declares (positions 0 .. NumLocal-1)
    NumXRefs,   \* cross-reference slots of each namespace's table
    MaxRefs,    \* bound on the references written
    NoEntry     \* the null SymbolEntryPtr

VARIABLES nsStack, tare, xrefs, tokens,
    refs,       \* the references written: the pair and, as ghosts, the
                \* entry and the tare-relative window it was written in
    aborted     \* writeEntry() has called abort ()

NS == INSTANCE NamespaceStack

vars == <<nsStack, tare, xrefs, tokens, refs, aborted>>

Entry == [space : Spaces, slot : (-NumXRefs) .. (NumLocal - 1)]

\* the namespaces of the window above the tare level, bottom first
Window == [j \in 1 .. Len(nsStack) - tare |-> nsStack[tare + j].name_space]

\* SymbolEntry::position(): the slot, negative for a cross-reference
Position(e) == e.slot

\* name_space->symbolEntry (position): 0 beyond the declared symbols
SymbolEntryAt(ns, position) ==
    IF position < NumLocal THEN [space |-> ns, slot |-> position] ELSE NoEntry

\* table->getXRef (position): 0 beyond the table's slots
GetXRef(ns, position) ==
    IF position < NumXRefs THEN [space |-> ns, slot |-> -position - 1] ELSE NoEntry

\* mutant: the cross-reference slot is taken as -position, without the - 1
ReadEntryXRefOff(namespace_id, position) ==
    IF namespace_id = -1 THEN NoEntry
    ELSE LET name_space == NS!NamespacePtr(namespace_id)
         IN  IF name_space = NoSpace THEN NoEntry
             ELSE IF position < 0 THEN GetXRef(name_space, -position)
             ELSE SymbolEntryAt(name_space, position)

(***************************************************************************)
(* readEntry(): id -1 is an entry without a namespace (0); an id with no   *)
(* namespace is an error (0); a negative position is cross-reference slot  *)
(* -position - 1 of the namespace's table, else a declared symbol.  Every  *)
(* table lookup may yield 0, which is reported and returned.               *)
(***************************************************************************)
ReadEntry(namespace_id, position) ==
    IF namespace_id = -1 THEN NoEntry
    ELSE LET name_space == NS!NamespacePtr(namespace_id)
         IN  IF name_space = NoSpace THEN NoEntry
             ELSE IF position < 0 THEN GetXRef(name_space, -position - 1)
             ELSE SymbolEntryAt(name_space, position)

-----------------------------------------------------------------------------
Init ==
    /\ NS!Init
    /\ refs = <<>>
    /\ aborted = FALSE

\* a stack operation of any caller, as in NamespaceStack
StackStep ==
    /\ ~aborted
    /\ NS!Next
    /\ UNCHANGED <<refs, aborted>>

(***************************************************************************)
(* writeEntry (str, sentry) for an entry of a namespace anywhere on the    *)
(* stack: an id < 0 (the namespace is below the tare level) aborts the     *)
(* process; otherwise the id and the position are written.                 *)
(***************************************************************************)
WriteEntry(e) ==
    /\ ~aborted
    /\ Len(refs) < MaxRefs
    /\ LET id == NS!NamespaceId(e.space)
       IN  IF id < 0
             THEN /\ aborted' = TRUE
                  /\ UNCHANGED refs
             ELSE /\ refs' = Append(refs, [id |-> id, position |-> Position(e),
                                           entry |-> e, window |-> Window])
                  /\ UNCHANGED aborted
    /\ UNCHANGED <<nsStack, tare, xrefs, tokens>>

\* the process has died in abort ()
Aborted ==
    /\ aborted
    /\ UNCHANGED vars

\* the entries a caller can hand to writeEntry: those of namespaces on the stack
OnStack == {e \in Entry : \E i \in DOMAIN nsStack : nsStack[i].name_space = e.space}

Next ==
    \/ StackStep
    \/ \E e \in OnStack : WriteEntry(e)
    \/ Aborted

Spec == Init /\ [][Next]_vars

-----------------------------------------------------------------------------
TypeOK ==
    /\ NS!TypeOK
    /\ \A i \in DOMAIN refs : refs[i].entry \in Entry /\ refs[i].id \in Nat
    /\ aborted \in BOOLEAN

\* popNamespace and popUptoNamespace never pop below the tare level.
FloorRespected == NS!FloorRespected

\* untareStack() with its tareStack()'s token restores the tare level in
\* force before that tareStack(), whatever was pushed or popped between.
UntareRestoresFloor == NS!UntareRestoresFloor

RefsRoundTrip ==
    \A i \in DOMAIN refs :
        Window = refs[i].window
            => ReadEntry(refs[i].id, refs[i].position) = refs[i].entry

=============================================================================
