---------------------------- MODULE YUIComponent ----------------------------
(***************************************************************************)
(* The UI component of src/libyui/src/ycp-ui/YUIComponent.cc.  Every       *)
(* instance shares the static _uiComponent (the first instance built) and  *)
(* the static _ui (the one UI).  An instance is built, may be given its    *)
(* server options, may import the "UI" namespace, may call a builtin (which *)
(* creates the UI late), may call createUI or result, and is destroyed.    *)
(*                                                                         *)
(* createUI (argc, argv, ...) is virtual: the generic one returns 0, the   *)
(* UI plugins' ones (not under src/) a new UI; the model lets it return    *)
(* either.  A UI is a number 1..MaxUIs, 0 the null pointer.                *)
(***************************************************************************)
EXTENDS Integers, Sequences, FiniteSets

CONSTANTS
    Comps,      \* the YUIComponent objects the program may build
    NoComp,     \* the null YUIComponent *
    Argvs,      \* command lines setServerOptions may be given
    MaxUIs      \* bound on the UIs created

ASSUME NoComp \notin Comps

VARIABLES
    built,      \* the instances constructed so far
    live,       \* those not yet destroyed
    opts,       \* per instance: _have_server_options, _with_threads, _macro_file
    nsp,        \* per instance: whether _namespace has been created
    uiComponent,\* the static _uiComponent
    ui,         \* the static _ui
    made,       \* the number of UIs created
    freed,      \* the UIs deleted
    exited,     \* the process has called exit (1)
    misuse      \* a deleted object has been used: the UI or the component

vars == <<built, live, opts, nsp, uiComponent, ui, made, freed, exited, misuse>>

NoOpts == [have |-> FALSE, threads |-> FALSE, macro |-> "none"]

(***************************************************************************)
(* The loop of setServerOptions over argv from index i: "--nothreads"      *)
(* clears _with_threads; "--macro" takes the next argument as the macro    *)
(* file, and with none left exits the process.                             *)
(***************************************************************************)
RECURSIVE ParseArgs(_, _, _)
ParseArgs(argv, i, acc) ==
    IF i > Len(argv) THEN acc
    ELSE IF argv[i] = "--nothreads" THEN ParseArgs(argv, i + 1, [acc EXCEPT !.threads = FALSE])
    ELSE IF argv[i] = "--macro"
      THEN IF i + 1 > Len(argv) THEN [acc EXCEPT !.exit = TRUE]
           ELSE ParseArgs(argv, i + 2, [acc EXCEPT !.macro = argv[i + 1]])
    ELSE ParseArgs(argv, i + 1, acc)

\* delete _ui after _ui->shutdownThreads (): both touch a UI already deleted
\* when it is one
DeleteUI == /\ freed' = freed \cup {ui}
            /\ misuse' = (misuse \/ ui \in freed)

(***************************************************************************)
(* createUI (): refused before setServerOptions and while _ui is set;      *)
(* otherwise _ui = createUI (argc, argv, ...), 0 or a new UI.              *)
(***************************************************************************)
CreateUI(c) ==
    IF ~opts[c].have \/ ui # 0 THEN UNCHANGED <<ui, made>>
    ELSE \/ UNCHANGED <<ui, made>>
         \/ /\ made < MaxUIs
            /\ made' = made + 1
            /\ ui' = made + 1

-----------------------------------------------------------------------------
Init ==
    /\ built = {}
    /\ live = {}
    /\ opts = [c \in Comps |-> NoOpts]
    /\ nsp = [c \in Comps |-> FALSE]
    /\ uiComponent = NoComp
    /\ ui = 0
    /\ made = 0
    /\ freed = {}
    /\ exited = FALSE
    /\ misuse = FALSE

(***************************************************************************)
(* YUIComponent (): a second instance is refused with an error naming the *)
(* existing one (_uiComponent->name ()) and is left unregistered; the      *)
(* first becomes _uiComponent.                                             *)
(***************************************************************************)
Construct(c) ==
    /\ ~exited
    /\ c \notin built
    /\ built' = built \cup {c}
    /\ live' = live \cup {c}
    /\ IF uiComponent # NoComp
         THEN /\ misuse' = (misuse \/ uiComponent \notin live)
              /\ UNCHANGED uiComponent
         ELSE /\ uiComponent' = c
              /\ UNCHANGED misuse
    /\ UNCHANGED <<opts, nsp, ui, made, freed, exited>>

\* ~YUIComponent (): if (_ui) { _ui->shutdownThreads (); delete _ui; }
Destroy(c) ==
    /\ ~exited
    /\ c \in live
    /\ live' = live \ {c}
    /\ IF ui # 0 THEN DeleteUI ELSE UNCHANGED <<freed, misuse>>
    /\ UNCHANGED <<built, opts, nsp, uiComponent, ui, made, exited>>

\* setServerOptions (argc, argv)
SetServerOptions(c, argv) ==
    /\ ~exited
    /\ c \in live
    /\ LET r == ParseArgs(argv, 1, [threads |-> TRUE, macro |-> "none", exit |-> FALSE])
       IN  IF r.exit
             THEN /\ exited' = TRUE
                  /\ UNCHANGED opts
             ELSE /\ opts' = [opts EXCEPT ![c] = [have |-> TRUE, threads |-> r.threads,
                                                  macro |-> r.macro]]
                  /\ UNCHANGED exited
    /\ UNCHANGED <<built, live, nsp, uiComponent, ui, made, freed, misuse>>

\* import ("UI"): the namespace is created on the first import
Import(c) ==
    /\ ~exited
    /\ c \in live
    /\ ~nsp[c]
    /\ nsp' = [nsp EXCEPT ![c] = TRUE]
    /\ UNCHANGED <<built, live, opts, uiComponent, ui, made, freed, exited, misuse>>

\* createUI () called directly
CallCreateUI(c) ==
    /\ ~exited
    /\ c \in live
    /\ CreateUI(c)
    /\ UNCHANGED <<built, live, opts, nsp, uiComponent, freed, exited, misuse>>

\* callBuiltin (): creates the UI late if _ui is 0, then returns
CallBuiltin(c) ==
    /\ ~exited
    /\ c \in live
    /\ IF ui = 0 THEN CreateUI(c) ELSE UNCHANGED <<ui, made>>
    /\ UNCHANGED <<built, live, opts, nsp, uiComponent, freed, exited, misuse>>

\* result (): if (_ui) { _ui->shutdownThreads (); delete _ui; _ui = 0; }
Result(c) ==
    /\ ~exited
    /\ c \in live
    /\ ui # 0
    /\ DeleteUI
    /\ ui' = 0
    /\ UNCHANGED <<built, live, opts, nsp, uiComponent, made, exited>>

\* the process has ended: exit (1), or every instance is gone
Ended ==
    /\ exited \/ (built = Comps /\ live = {})
    /\ UNCHANGED vars

Next ==
    \/ \E c \in Comps :
         \/ Construct(c) \/ Destroy(c) \/ Import(c) \/ CallCreateUI(c)
         \/ CallBuiltin(c) \/ Result(c)
         \/ \E argv \in Argvs : SetServerOptions(c, argv)
    \/ Ended

Spec == Init /\ [][Next]_vars

-----------------------------------------------------------------------------
TypeOK ==
    /\ built \subseteq Comps /\ live \subseteq built
    /\ uiComponent \in Comps \cup {NoComp}
    /\ ui \in 0 .. MaxUIs /\ made \in 0 .. MaxUIs
    /\ freed \subseteq 1 .. MaxUIs
    /\ exited \in BOOLEAN /\ misuse \in BOOLEAN

\* No instance ever touches a deleted object: neither ~YUIComponent () nor
\* result () calls shutdownThreads on, or deletes, a UI already deleted,
\* and no constructor asks a destroyed _uiComponent for its name.  The
\* statics are shared by every instance, so one instance's destructor
\* decides for all of them.
NoFreedUse == ~misuse

=============================================================================
