---------------------------- MODULE ModuleLoader ----------------------------
(***************************************************************************)
(* Bytecode::readModule() and Bytecode::readFile() of                      *)
(* src/libycp/src/Bytecode.cc, reading modules that import other modules,  *)
(* over the namespace stack of NamespaceStack.                             *)
(*                                                                         *)
(* The reader is one thread of recursive descent.  Its call stack is the   *)
(* sequence calls; each element is one readModule() activation:            *)
(*   "find"   readModule() entry: path search, cache lookup, tareStack()   *)
(*   "header" readFile(): magic header and version gate                    *)
(*   "body"   the module block being read: YBlock(str) has pushed itself,  *)
(*            reads nested blocks, and reads an import statement by        *)
(*            calling readModule() for the imported name                   *)
(*   "failed" an import returned NULL: the block is invalid                *)
(*   "ret"    readFile() has returned; readModule() finishes               *)
(* What YBlock(str) and YSImport(str) do is not under src/ and is taken    *)
(* from the specification (spec_modelled): a block pushes its namespace    *)
(* (a module block with its xref table), pops it when read, and unwinds    *)
(* with popUptoNamespace() on failure; an invalid import invalidates the   *)
(* enclosing block.                                                        *)
(*                                                                         *)
(* A block instance is <<module, n, k>>: the n-th read of the module's    *)
(* file, nesting level k inside it (0 is the module block itself).         *)
(***************************************************************************)
EXTENDS Integers, Sequences, SequencesExt, FiniteSets

CONSTANTS
    Modules,    \* module names
    Imports,    \* Imports[m]: the modules m's file imports, in file order
    FileKind,   \* "missing" (path search fails), "badversion" (header
                \* rejected), "script" (no module block) or "module"
    Corrupt,    \* modules whose body holds an unreadable node
    MaxLoads,   \* top-level readModule() calls
    MaxNest,    \* local blocks nested inside a module body
    MaxStmts,   \* local blocks in one module body
    MaxCalls,   \* depth of the readModule() recursion
    NoBlock     \* the NULL YBlockPtr

ASSUME /\ Imports \in [Modules -> Seq(Modules)]
       /\ FileKind \in [Modules -> {"missing", "badversion", "script", "module"}]
       /\ Corrupt \subseteq Modules

VARIABLES
    nsStack, tare, xrefs,   \* the namespace stack (NamespaceStack)
    calls,      \* the readModule() activations, innermost last
    cache,      \* m_bytecodeCache: module name -> block, or NoBlock
    reads,      \* reads[m]: how often m's file body has been read
    loads,      \* top-level readModule() calls made
    lastRet     \* history: the last readModule() return [mod, block]

vars == <<nsStack, tare, xrefs, calls, cache, reads, loads, lastRet>>

Blocks == Modules \X (1 .. MaxLoads) \X (0 .. MaxNest)

NS == INSTANCE NamespaceStack
        WITH Spaces <- Blocks, MaxDepth <- 0, MaxTares <- 0,
             NoSpace <- NoBlock, tokens <- <<>>

Top == Last(calls)

\* the module block of the top activation
TopBlock == <<Top.mod, Top.inst, 0>>

SetTop(f) == calls' = [calls EXCEPT ![Len(calls)] = f]

\* mutant: the importer goes on past an import that returned NULL
ReturnFromIgnoreNull(b) ==
    LET rest == Front(calls)
        caller == Last(rest)
    IN  /\ calls' = IF rest = <<>> THEN rest
                    ELSE [rest EXCEPT ![Len(rest)] = [caller EXCEPT !.next = @ + 1]]
        /\ lastRet' = [mod |-> Top.mod, block |-> b]

(***************************************************************************)
(* A readModule() activation returns b to its caller.  The caller is       *)
(* either the environment or the import statement of the enclosing body:   *)
(* a NULL module makes that import, and so the enclosing block, invalid.   *)
(***************************************************************************)
ReturnFrom(b) ==
    LET rest == Front(calls)
        caller == Last(rest)
    IN  /\ calls' = IF rest = <<>> THEN rest
                    ELSE [rest EXCEPT ![Len(rest)] =
                            IF b = NoBlock THEN [caller EXCEPT !.pc = "failed"]
                            ELSE [caller EXCEPT !.next = @ + 1]]
        /\ lastRet' = [mod |-> Top.mod, block |-> b]

-----------------------------------------------------------------------------
(* The environment: a top-level import of a module.                        *)
Load(m) ==
    /\ calls = <<>>
    /\ loads < MaxLoads
    /\ loads' = loads + 1
    /\ calls' = <<[mod |-> m, inst |-> 0, pc |-> "find", tareId |-> 0,
                   open |-> 0, next |-> 1, blocks |-> 0, res |-> "none"]>>
    /\ UNCHANGED <<nsStack, tare, xrefs, cache, reads, lastRet>>

(* readModule(): path search, then the cache, then tareStack().            *)
ReadModuleNotFound ==
    /\ calls # <<>> /\ Top.pc = "find"
    /\ FileKind[Top.mod] = "missing"
    /\ ReturnFrom(NoBlock)
    /\ UNCHANGED <<nsStack, tare, xrefs, cache, reads, loads>>

ReadModuleCached ==
    /\ calls # <<>> /\ Top.pc = "find"
    /\ FileKind[Top.mod] # "missing"
    /\ cache[Top.mod] # NoBlock
    /\ ReturnFrom(cache[Top.mod])
    /\ UNCHANGED <<nsStack, tare, xrefs, cache, reads, loads>>

\* mutant: the cache is not consulted
ReadModuleTareNoCache ==
    /\ calls # <<>> /\ Top.pc = "find"
    /\ FileKind[Top.mod] # "missing"
    /\ NS!TareStack
    /\ SetTop([Top EXCEPT !.pc = "header", !.tareId = NS!TareToken])
    /\ UNCHANGED <<cache, reads, loads, lastRet>>

ReadModuleTare ==
    /\ calls # <<>> /\ Top.pc = "find"
    /\ FileKind[Top.mod] # "missing"
    /\ cache[Top.mod] = NoBlock
    /\ NS!TareStack
    /\ SetTop([Top EXCEPT !.pc = "header", !.tareId = NS!TareToken])
    /\ UNCHANGED <<cache, reads, loads, lastRet>>

(* readFile(): a rejected header returns 0, and readModule() returns NULL  *)
(* at once, without untareStack().                                         *)
ReadFileRejected ==
    /\ calls # <<>> /\ Top.pc = "header"
    /\ FileKind[Top.mod] = "badversion"
    /\ ReturnFrom(NoBlock)
    /\ UNCHANGED <<nsStack, tare, xrefs, cache, reads, loads>>

(* readFile() accepts the header and readCode() constructs the YBlock,     *)
(* which pushes its namespace.                                             *)
ReadFileAccepted ==
    /\ calls # <<>> /\ Top.pc = "header"
    /\ FileKind[Top.mod] \in {"script", "module"}
    /\ LET n == reads[Top.mod] + 1
       IN  /\ reads' = [reads EXCEPT ![Top.mod] = n]
           /\ NS!PushNamespace(<<Top.mod, n, 0>>, TRUE)
           /\ SetTop([Top EXCEPT !.pc = "body", !.inst = n])
    /\ UNCHANGED <<cache, loads, lastRet>>

-----------------------------------------------------------------------------
(* Statements of the body: imports in file order, and local blocks        *)
(* (MaxStmts of them) entered and left between them.                       *)
BodyStep == calls # <<>> /\ Top.pc = "body"

ImportStatement ==
    /\ BodyStep
    /\ Top.next <= Len(Imports[Top.mod])
    /\ Len(calls) < MaxCalls
    /\ calls' = Append(calls,
                       [mod |-> Imports[Top.mod][Top.next], inst |-> 0,
                        pc |-> "find", tareId |-> 0, open |-> 0, next |-> 1,
                        blocks |-> 0, res |-> "none"])
    /\ UNCHANGED <<nsStack, tare, xrefs, cache, reads, loads, lastRet>>

EnterBlock ==
    /\ BodyStep
    /\ Top.open < MaxNest
    /\ Top.blocks < MaxStmts
    /\ NS!PushNamespace(<<Top.mod, Top.inst, Top.open + 1>>, FALSE)
    /\ SetTop([Top EXCEPT !.open = @ + 1, !.blocks = @ + 1])
    /\ UNCHANGED <<cache, reads, loads, lastRet>>

LeaveBlock ==
    /\ BodyStep
    /\ Top.open > 0
    /\ NS!PopNamespace(<<Top.mod, Top.inst, Top.open>>)
    /\ SetTop([Top EXCEPT !.open = @ - 1])
    /\ UNCHANGED <<cache, reads, loads, lastRet>>

(* The block is read completely: it pops itself and readCode() returns it. *)
FinishBlock ==
    /\ calls # <<>> /\ Top.pc = "body"
    /\ Top.next > Len(Imports[Top.mod])
    /\ Top.open = 0
    /\ NS!PopNamespace(TopBlock)
    /\ SetTop([Top EXCEPT !.pc = "ret", !.res = "ok"])
    /\ UNCHANGED <<cache, reads, loads, lastRet>>

(* A node fails to read, or an import returned NULL: the block unwinds the *)
(* stack down to itself and readCode() returns 0.                          *)
FailBlock ==
    /\ calls # <<>>
    /\ \/ Top.pc = "failed"
       \/ Top.pc = "body" /\ Top.mod \in Corrupt
    /\ NS!PopUptoNamespace(TopBlock)
    /\ SetTop([Top EXCEPT !.pc = "ret", !.res = "fail"])
    /\ UNCHANGED <<cache, reads, loads, lastRet>>

-----------------------------------------------------------------------------
(* readModule() after readFile(): NULL returns at once, without            *)
(* untareStack(); otherwise untare, reject a non-module, cache, return.    *)
ReadModuleNull ==
    /\ calls # <<>> /\ Top.pc = "ret" /\ Top.res = "fail"
    /\ ReturnFrom(NoBlock)
    /\ UNCHANGED <<nsStack, tare, xrefs, cache, reads, loads>>

ReadModuleNoModule ==
    /\ calls # <<>> /\ Top.pc = "ret" /\ Top.res = "ok"
    /\ FileKind[Top.mod] = "script"
    /\ NS!UntareStack(Top.tareId)
    /\ ReturnFrom(NoBlock)
    /\ UNCHANGED <<cache, reads, loads>>

\* mutant: the module is cached without untareStack()
ReadModuleDoneNoUntare ==
    /\ calls # <<>> /\ Top.pc = "ret" /\ Top.res = "ok"
    /\ FileKind[Top.mod] = "module"
    /\ cache' = IF cache[Top.mod] = NoBlock
                THEN [cache EXCEPT ![Top.mod] = TopBlock] ELSE cache
    /\ ReturnFrom(TopBlock)
    /\ UNCHANGED <<nsStack, tare, xrefs, reads, loads>>

(* std::map::insert keeps an entry already present                         *)
ReadModuleDone ==
    /\ calls # <<>> /\ Top.pc = "ret" /\ Top.res = "ok"
    /\ FileKind[Top.mod] = "module"
    /\ NS!UntareStack(Top.tareId)
    /\ cache' = IF cache[Top.mod] = NoBlock
                THEN [cache EXCEPT ![Top.mod] = TopBlock] ELSE cache
    /\ ReturnFrom(TopBlock)
    /\ UNCHANGED <<reads, loads>>

-----------------------------------------------------------------------------
Init ==
    /\ NS!StackInit
    /\ calls = <<>>
    /\ cache = [m \in Modules |-> NoBlock]
    /\ reads = [m \in Modules |-> 0]
    /\ loads = 0
    /\ lastRet = [mod |-> NoBlock, block |-> NoBlock]

(* The reader's own steps, one thread running each load to its end.        *)
Reader ==
    \/ ReadModuleNotFound \/ ReadModuleCached \/ ReadModuleTare
    \/ ReadFileRejected \/ ReadFileAccepted
    \/ ImportStatement \/ EnterBlock \/ LeaveBlock
    \/ FinishBlock \/ FailBlock
    \/ ReadModuleNull \/ ReadModuleNoModule \/ ReadModuleDone

(* The session ends once the environment has made its loads.              *)
SessionEnd ==
    /\ calls = <<>>
    /\ loads = MaxLoads
    /\ UNCHANGED vars

Next ==
    \/ \E m \in Modules : Load(m)
    \/ Reader
    \/ SessionEnd

Spec == Init /\ [][Next]_vars

-----------------------------------------------------------------------------
Frames == [mod : Modules, inst : 0 .. MaxLoads,
           pc : {"find", "header", "body", "failed", "ret"},
           tareId : Int, open : 0 .. MaxNest, next : Nat,
           blocks : 0 .. MaxStmts, res : {"none", "ok", "fail"}]

TypeOK ==
    /\ nsStack \in Seq([name_space : Blocks, with_xrefs : BOOLEAN])
    /\ tare \in Nat
    /\ xrefs \in [Blocks -> Nat]
    /\ calls \in Seq(Frames)
    /\ cache \in [Modules -> Blocks \cup {NoBlock}]
    /\ reads \in [Modules -> 0 .. MaxLoads]
    /\ loads \in 0 .. MaxLoads
    /\ lastRet \in [mod : Modules \cup {NoBlock}, block : Blocks \cup {NoBlock}]

(***************************************************************************)
(* A reference (namespace id, position) that writeEntry() wrote while the  *)
(* module was compiled names its k-th enclosing block as id k.  Whenever   *)
(* the reader is in a module body, namespacePtr(k) must give back the      *)
(* block read at nesting k of this very read, after any number of nested   *)
(* imports, each with its own tareStack()/untareStack(), and after failed  *)
(* loads earlier in the session.                                           *)
(***************************************************************************)
RefsResolve ==
    (calls # <<>> /\ Top.pc = "body") =>
        \A k \in 0 .. Top.open : NS!NamespacePtr(k) = <<Top.mod, Top.inst, k>>

(***************************************************************************)
(* readModule() of a name returns the block the cache holds for it: a      *)
(* module read through two import paths is read once and both importers    *)
(* get the same instance (spec: the same AST instance, not an equal one).  *)
(***************************************************************************)
CacheIdentity ==
    lastRet.block # NoBlock => cache[lastRet.mod] = lastRet.block

(***************************************************************************)
(* Between top-level loads the namespace stack is empty and untared: every *)
(* readModule() undoes its tareStack() and every block it read is popped,  *)
(* whatever failed inside.                                                 *)
(***************************************************************************)
StackBalancedAtTopLevel ==
    calls = <<>> => (nsStack = <<>> /\ tare = 0)

\* the modules a load of m reads: m and, transitively, what it imports
RECURSIVE Closure(_)
Closure(m) == {m} \cup UNION {Closure(Imports[m][i]) : i \in DOMAIN Imports[m]}

\* a load of m can succeed: m and everything it imports, transitively, is a
\* module file on the path whose header the gate accepts
RECURSIVE Loadable(_)
Loadable(m) ==
    /\ FileKind[m] = "module"
    /\ \A i \in DOMAIN Imports[m] : Loadable(Imports[m][i])

(***************************************************************************)
(* A top-level readModule() returns a block only when the module and all   *)
(* it imports, transitively, are module files the gate accepts, and it     *)
(* returns one whenever, besides, no module of that closure holds an       *)
(* unreadable node.  A NULL from an import at any depth must reach the top *)
(* through each importer's FailBlock, popUptoNamespace and NULL return,    *)
(* and nothing else, not the cache nor the tare level an earlier failed    *)
(* load left behind, may fail a load.                                      *)
(***************************************************************************)
LoadResultAgrees ==
    (calls = <<>> /\ lastRet.mod # NoBlock) =>
        /\ lastRet.block # NoBlock => Loadable(lastRet.mod)
        /\ (Loadable(lastRet.mod) /\ Closure(lastRet.mod) \cap Corrupt = {})
              => lastRet.block # NoBlock

=============================================================================
