------------------------------ MODULE PkgModule ------------------------------
(***************************************************************************)
(* The package builtins of src/wfm/src/PkgModuleFunctionsPackage.cc and    *)
(* the constructor in PkgModuleFunctions.cc.  A YCP script calls them one  *)
(* at a time; each forwards to the package manager _y2pm (Y2PM, not part   *)
(* of this repository).  Its answers are nondeterministic here, within     *)
(* what the doc comments of the builtins say of them: a selectable's       *)
(* user_set_install may refuse, solveInstall may fail with some bad        *)
(* packages, a saved selection is restored as it was saved.                *)
(*                                                                         *)
(* A selectable is a model value with a name, an installed and a           *)
(* candidate object, each providing some tags.  Its selection is its       *)
(* status (nothing, install or delete) and who set it: the user, the       *)
(* application or the solver (by_user, by_appl, by_auto).                  *)
(***************************************************************************)
EXTENDS Integers, Sequences, SequencesExt, FiniteSets

CONSTANTS
    Order,      \* the PMSelectableVec of the package manager, in order
    NameOf,     \* the name of each selectable
    InstProv,   \* tags provided by a selectable's installed object ({}: none)
    CandProv,   \* tags provided by its candidate object ({}: none)
    Installed,  \* the selectables with an installed object
    Candidate,  \* the selectables with a candidate object
    Names,      \* the strings a script passes: names, tags, "" included
    NotString,  \* a list element that is not a string
    TagLists,   \* the lists a script passes to DoProvide and DoRemove
    MaxBad,     \* bound on the packages a failed solve reports
    Garbage,    \* what an uninitialized int member may hold
    NoPkg, NoSave,
    Uninit,     \* _solve_errors before it is first assigned
    InstOrder,  \* the installation sources, in installation order
    SrcRank,    \* each source's default_rank ()
    MediaCount, \* each source's media_count ()
    CandRank,   \* instSrcRank () of a selectable's candidate
    MediaNr,    \* medianr () of a selectable's candidate
    Size,       \* size () of a selectable's candidate
    AvObjs,     \* the objects av_begin () .. av_end () of each selectable
    Void        \* YCPVoid ()

\* medianr () is at least 1: a 0 would index media slot -1 (see the hazards)
ASSUME \A p \in DOMAIN MediaNr : MediaNr[p] >= 1

Pkgs == Range(Order)
Causes == {"user", "appl", "auto"}
Nothing == [status |-> "none", by |-> "none"]
Selection == {Nothing} \cup [status : {"install", "delete"}, by : Causes]

VARIABLES
    sel,          \* the selection of each selectable (in _y2pm)
    saved,        \* the selection saved by SaveState, or NoSave (in _y2pm)
    solveErrors,  \* _solve_errors
    ret           \* the value the last builtin returned: [fn, val]

vars == <<sel, saved, solveErrors, ret>>

\* the package manager installs only a candidate, deletes only an
\* installed object: a user_set_* or appl_set_* for anything else fails
Feasible(p, status) == IF status = "install" THEN p \in Candidate ELSE p \in Installed

\* to_install (), to_modify ()
ToInstall(p) == sel[p].status = "install"
ToModify(p) == sel[p].status # "none"

\* getPackageSelectable: no lookup for the empty name, else by name
GetPackageSelectable(name) ==
    IF name = "" \/ ~\E p \in Pkgs : NameOf[p] = name THEN NoPkg
    ELSE CHOOSE p \in Pkgs : NameOf[p] = name

\* WhoProvidesString: the first selectable whose installed, else whose
\* candidate object provides the tag
WhoProvidesString(tag) ==
    LET i == SelectInSeq(Order, LAMBDA p :
                 (p \in Installed /\ tag \in InstProv[p])
                 \/ (p \in Candidate /\ tag \in CandProv[p]))
    IN  IF i = 0 THEN NoPkg ELSE Order[i]

\* by name, then by provided tag
Resolve(name) ==
    IF GetPackageSelectable(name) # NoPkg THEN GetPackageSelectable(name)
    ELSE WhoProvidesString(name)

\* the string tags of a list; the others are reported and skipped
Strings(tags) == SelectSeq(tags, LAMBDA t : t # NotString)

Return(fn, val) == ret' = [fn |-> fn, val |-> val]

\* the installed and the candidate object of a selectable
InstObj(p) == [pkg |-> p, obj |-> "installed"]
CandObj(p) == [pkg |-> p, obj |-> "candidate"]

\* theObject (): the candidate if there is one, else the installed object
TheObject(p) ==
    IF p \in Candidate THEN CandObj(p) ELSE IF p \in Installed THEN InstObj(p) ELSE Void

\* pgk2list of obj[p] for each selectable p of ps, in order
ObjectsOf(ps, obj) == [i \in DOMAIN ps |-> obj[ps[i]]]

\* getTheObject (selectable): none without a selectable or an object
GetTheObject(p) == IF p = NoPkg THEN Void ELSE TheObject(p)

-----------------------------------------------------------------------------
\* the constructor: the member _solve_errors is not initialized
Init ==
    /\ sel = [p \in Pkgs |-> Nothing]
    /\ saved = NoSave
    /\ solveErrors = Uninit
    /\ ret = [fn |-> "none", val |-> FALSE]

(***************************************************************************)
(* DoProvide (tags): DoProvideString for each string tag, which selects    *)
(* the package found by name or by tag with appl_set_install and returns   *)
(* false when none is found.  appl_set_install may refuse; both results    *)
(* are dropped, and the map returned is the empty one it started with.     *)
(***************************************************************************)
ApplSet(found, status) ==
    \E done \in SUBSET {p \in found : Feasible(p, status)} :
        sel' = [p \in Pkgs |-> IF p \in done THEN [status |-> status, by |-> "appl"]
                               ELSE sel[p]]

DoProvide(tags) ==
    LET ts == Strings(tags)
    IN  /\ ApplSet({Resolve(ts[i]) : i \in DOMAIN ts} \ {NoPkg}, "install")
        /\ Return("DoProvide", {})
        /\ UNCHANGED <<saved, solveErrors>>

\* DoRemove (tags): DoRemoveString for each string tag: by name only,
\* appl_set_delete; the map returned is again the empty one
DoRemove(tags) ==
    LET ts == Strings(tags)
    IN  /\ ApplSet({GetPackageSelectable(ts[i]) : i \in DOMAIN ts} \ {NoPkg}, "delete")
        /\ Return("DoRemove", {})
        /\ UNCHANGED <<saved, solveErrors>>

\* IsSelected (tag): false for "", else the selectable by name or by tag
\* is to be installed
IsSelected(tag) ==
    /\ Return("IsSelected", tag # "" /\ Resolve(tag) # NoPkg /\ ToInstall(Resolve(tag)))
    /\ UNCHANGED <<sel, saved, solveErrors>>

\* IsAvailable (tag): the selectable by name or by tag has a candidate
IsAvailable(tag) ==
    /\ Return("IsAvailable", tag # "" /\ Resolve(tag) \in Candidate)
    /\ UNCHANGED <<sel, saved, solveErrors>>

(***************************************************************************)
(* PkgInstall / PkgDelete (name): false for an unknown name, else what     *)
(* user_set_install / user_set_delete return, true when it took effect.    *)
(***************************************************************************)
UserSet(fn, name, status) ==
    LET p == GetPackageSelectable(name)
    IN  /\ IF p = NoPkg THEN Return(fn, FALSE) /\ UNCHANGED sel
           ELSE \/ /\ Feasible(p, status)
                   /\ sel' = [sel EXCEPT ![p] = [status |-> status, by |-> "user"]]
                   /\ Return(fn, TRUE)
                \/ /\ Return(fn, FALSE)
                   /\ UNCHANGED sel
        /\ UNCHANGED <<saved, solveErrors>>

PkgInstall(name) == UserSet("PkgInstall", name, "install")
PkgDelete(name) == UserSet("PkgDelete", name, "delete")

\* PkgNeutral (name): setNothingSelected on the selectable
PkgNeutral(name) ==
    LET p == GetPackageSelectable(name)
    IN  /\ IF p = NoPkg THEN Return("PkgNeutral", FALSE) /\ UNCHANGED sel
           ELSE /\ sel' = [sel EXCEPT ![p] = Nothing]
                /\ Return("PkgNeutral", TRUE)
        /\ UNCHANGED <<saved, solveErrors>>

\* PkgReset (): nothing selected in the selection and package managers
PkgReset ==
    /\ sel' = [p \in Pkgs |-> Nothing]
    /\ Return("PkgReset", TRUE)
    /\ UNCHANGED <<saved, solveErrors>>

\* SaveState (): packageSelectionSaveState
SaveState ==
    /\ saved' = sel
    /\ Return("SaveState", TRUE)
    /\ UNCHANGED <<sel, solveErrors>>

(***************************************************************************)
(* RestoreState (check_only): with true only compares the saved with the   *)
(* current selection; else restores the saved one, false when there is    *)
(* none.                                                                   *)
(***************************************************************************)
RestoreState(checkOnly) ==
    /\ IF checkOnly
         THEN /\ Return("RestoreState", saved # NoSave /\ saved # sel)
              /\ UNCHANGED sel
         ELSE IF saved = NoSave THEN Return("RestoreState", FALSE) /\ UNCHANGED sel
         ELSE /\ sel' = saved
              /\ Return("RestoreState", TRUE)
    /\ UNCHANGED <<saved, solveErrors>>

\* ClearSaveState (): packageSelectionClearSaveState
ClearSaveState ==
    /\ saved' = NoSave
    /\ Return("ClearSaveState", TRUE)
    /\ UNCHANGED <<sel, solveErrors>>

(***************************************************************************)
(* PkgSolve (filter): solveInstall; a solve that succeeds may select       *)
(* candidates for installation by_auto, one that fails sets                *)
(* _solve_errors = bad.size () (and writes the bad list to a log file).    *)
(***************************************************************************)
PkgSolve ==
    /\ \/ /\ \E auto \in SUBSET {p \in Candidate : ~ToModify(p)} :
                sel' = [p \in Pkgs |-> IF p \in auto THEN [status |-> "install", by |-> "auto"]
                                       ELSE sel[p]]
          /\ Return("PkgSolve", TRUE)
          /\ UNCHANGED solveErrors
       \/ \E n \in 1 .. MaxBad :
            /\ solveErrors' = n
            /\ Return("PkgSolve", FALSE)
            /\ UNCHANGED sel
    /\ UNCHANGED saved

\* PkgSolveErrors (): YCPInteger (_solve_errors), whatever it holds
PkgSolveErrors ==
    /\ \E v \in IF solveErrors = Uninit THEN Garbage ELSE {solveErrors} :
         Return("PkgSolveErrors", v)
    /\ UNCHANGED <<sel, saved, solveErrors>>

\* IsProvided (tag): an installed package of that name, or an installed
\* package providing the tag or the file (files are among the tags here)
IsProvided(tag) ==
    /\ Return("IsProvided", tag # "" /\ \E p \in Installed : NameOf[p] = tag \/ tag \in InstProv[p])
    /\ UNCHANGED <<sel, saved, solveErrors>>

(***************************************************************************)
(* PkgSummary, PkgVersion, PkgSize, PkgGroup, PkgProperties, PkgLocation   *)
(* (name): void without an object, else a field of getTheObject (); the    *)
(* field is abstracted to the object it is read from, so the six are one   *)
(* action.                                                                 *)
(***************************************************************************)
PkgGetter(name) ==
    /\ Return("PkgGetter", GetTheObject(GetPackageSelectable(name)))
    /\ UNCHANGED <<sel, saved, solveErrors>>

\* IsManualSelection (): anythingByUser of the package manager (the
\* selection manager has no selection here)
IsManualSelection ==
    /\ Return("IsManualSelection", \E p \in Pkgs : ToModify(p) /\ sel[p].by = "user")
    /\ UNCHANGED <<sel, saved, solveErrors>>

\* PkgAnyToDelete (), PkgAnyToInstall ()
PkgAnyToDelete ==
    /\ Return("PkgAnyToDelete", \E p \in Pkgs : sel[p].status = "delete")
    /\ UNCHANGED <<sel, saved, solveErrors>>

PkgAnyToInstall ==
    /\ Return("PkgAnyToInstall", \E p \in Pkgs : ToInstall(p))
    /\ UNCHANGED <<sel, saved, solveErrors>>

(***************************************************************************)
(* FilterPackages (byAuto, byApp, byUser, names_only): theObject () of     *)
(* every selectable to modify whose cause is one asked for, in the order   *)
(* of the PMSelectableVec.  pgk2list's formatting (the name, or name       *)
(* version release arch) is left out: an entry is the object.              *)
(***************************************************************************)
FilterPackages(byAuto, byApp, byUser) ==
    /\ Return("FilterPackages",
              ObjectsOf(SelectSeq(Order, LAMBDA p :
                            /\ ToModify(p)
                            /\ \/ sel[p].by = "auto" /\ byAuto
                               \/ sel[p].by = "appl" /\ byApp
                               \/ sel[p].by = "user" /\ byUser),
                        [p \in Pkgs |-> TheObject(p)]))
    /\ UNCHANGED <<sel, saved, solveErrors>>

(***************************************************************************)
(* GetPackages (which, names_only): `installed: each installed object;     *)
(* `selected: the candidate of each selectable to install; `available:     *)
(* every available object; any other symbol is an error.                   *)
(***************************************************************************)
PackagesOf(which) ==
    CASE which = "installed" ->
           ObjectsOf(SelectSeq(Order, LAMBDA p : p \in Installed), [p \in Pkgs |-> InstObj(p)])
      [] which = "selected" ->
           ObjectsOf(SelectSeq(Order, LAMBDA p : ToInstall(p) /\ p \in Candidate),
                     [p \in Pkgs |-> CandObj(p)])
      [] which = "available" ->
           FlattenSeq([i \in 1 .. Len(Order) |->
               [k \in 1 .. Len(AvObjs[Order[i]]) |-> [pkg |-> Order[i], obj |-> AvObjs[Order[i]][k]]]])
      [] OTHER -> "error"

GetPackages(which) ==
    /\ Return("GetPackages", PackagesOf(which))
    /\ UNCHANGED <<sel, saved, solveErrors>>

\* PkgMediaNames (): the product name of each source in installation
\* order; a name is abstracted to its source
PkgMediaNames ==
    /\ Return("PkgMediaNames", InstOrder)
    /\ UNCHANGED <<sel, saved, solveErrors>>

(***************************************************************************)
(* PkgMediaSizes ().  mediasizes maps each source's default_rank to the    *)
(* source and media_count zero sizes; a later source of the same rank      *)
(* replaces an earlier one.  Then every selectable to install with a       *)
(* candidate of a known rank adds its size at media slot medianr - 1,      *)
(* resizing the vector first when medianr is beyond it.  Finally, for     *)
(* each source in installation order, the entries of that source are      *)
(* listed in rank order.                                                   *)
(***************************************************************************)
MediaSizesInit ==
    [r \in {SrcRank[s] : s \in Range(InstOrder)} |->
        LET s == InstOrder[SelectLastInSeq(InstOrder, LAMBDA x : SrcRank[x] = r)]
        IN  [src |-> s, sizes |-> [m \in 1 .. MediaCount[s] |-> 0]]]

AddPackage(ms, p) ==
    IF ~ToInstall(p) \/ p \notin Candidate \/ CandRank[p] \notin DOMAIN ms THEN ms
    ELSE LET v == ms[CandRank[p]].sizes
             w == IF MediaNr[p] > Len(v)
                    THEN v \o [m \in 1 .. MediaNr[p] - Len(v) |-> 0] ELSE v
         IN  [ms EXCEPT ![CandRank[p]].sizes = [w EXCEPT ![MediaNr[p]] = @ + Size[p]]]

\* mutant: the lists are taken in rank order, not in installation order
MediaSizesListRankOrder(ms) ==
    LET rs == SetToSortSeq(DOMAIN ms, LAMBDA a, b : a < b)
    IN  [k \in DOMAIN rs |-> ms[rs[k]].sizes]

MediaSizesList(ms) ==
    FlattenSeq([i \in 1 .. Len(InstOrder) |->
        LET rs == SetToSortSeq({r \in DOMAIN ms : ms[r].src = InstOrder[i]}, LAMBDA a, b : a < b)
        IN  [k \in DOMAIN rs |-> ms[rs[k]].sizes]])

PkgMediaSizes ==
    /\ Return("PkgMediaSizes", MediaSizesList(FoldLeft(AddPackage, MediaSizesInit, Order)))
    /\ UNCHANGED <<sel, saved, solveErrors>>

Next ==
    \/ \E name \in Names :
         \/ IsSelected(name) \/ IsAvailable(name)
         \/ PkgInstall(name) \/ PkgDelete(name) \/ PkgNeutral(name)
    \/ \E tags \in TagLists : DoProvide(tags) \/ DoRemove(tags)
    \/ PkgReset \/ SaveState \/ ClearSaveState
    \/ \E c \in BOOLEAN : RestoreState(c)
    \/ PkgSolve \/ PkgSolveErrors
    \/ \E name \in Names : IsProvided(name) \/ PkgGetter(name)
    \/ IsManualSelection \/ PkgAnyToDelete \/ PkgAnyToInstall
    \/ \E a, b, u \in BOOLEAN : FilterPackages(a, b, u)
    \/ \E which \in {"installed", "selected", "available", "other"} : GetPackages(which)
    \/ PkgMediaNames \/ PkgMediaSizes

Spec == Init /\ [][Next]_vars

-----------------------------------------------------------------------------
(***************************************************************************)
(* What PkgMediaSizes promises (its doc comment): for each source in       *)
(* installation order, per medium, the summed sizes of the packages to be  *)
(* installed from it; a source has at least its media_count media.        *)
(***************************************************************************)
ExpectedMediaSizes ==
    [i \in 1 .. Len(InstOrder) |->
        LET s == InstOrder[i]
            C == {p \in Pkgs : ToInstall(p) /\ p \in Candidate /\ CandRank[p] = SrcRank[s]}
        IN  [m \in 1 .. Max({MediaCount[s]} \cup {MediaNr[p] : p \in C}) |->
                MapThenSumSet(LAMBDA p : Size[p], {p \in C : MediaNr[p] = m})]]

\* PkgMediaSizes returns, for each source in installation order, the sizes
\* to be installed from each of its media: the rank-keyed map, the resize
\* for a medianr beyond media_count, the slot medianr - 1 and the remapping
\* from rank order back to installation order together give the sums the
\* doc comment describes.
MediaSizesAccount ==
    ret.fn = "PkgMediaSizes" => ret.val = ExpectedMediaSizes

=============================================================================
