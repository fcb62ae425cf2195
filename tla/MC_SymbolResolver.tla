------------------------- MODULE MC_SymbolResolver -------------------------
(* Three namespaces nested up to four frames deep with two tares           *)
(* outstanding; each declares two symbols and has one cross-reference      *)
(* slot; two references are written.                                       *)
EXTENDS SymbolResolver

MC_Spaces == {"n1", "n2", "n3"}

=============================================================================
