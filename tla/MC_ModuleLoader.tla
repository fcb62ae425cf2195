-------------------------- MODULE MC_ModuleLoader --------------------------
(***************************************************************************)
(* A: imports B then C; B and C both import D (a diamond: D must be read   *)
(* once); C's body may hold an unreadable node; S is a script importing D; *)
(* G imports D, then the script S, which is not a module;                  *)
(* F's header has an unsupported version; E is not on the module path.     *)
(***************************************************************************)
EXTENDS ModuleLoader

MC_Modules == {"A", "B", "C", "D", "E", "F", "G", "S"}

MC_Imports ==
    [m \in MC_Modules |->
        CASE m = "A" -> <<"B", "C">>
          [] m = "B" -> <<"D">>
          [] m = "C" -> <<"D">>
          [] m = "S" -> <<"D">>
          [] m = "G" -> <<"D", "S">>
          [] OTHER   -> <<>>]

MC_FileKind ==
    [m \in MC_Modules |->
        CASE m = "E" -> "missing"
          [] m = "F" -> "badversion"
          [] m = "S" -> "script"
          [] OTHER   -> "module"]

MC_Corrupt == {"C"}

=============================================================================
