------------------------------- MODULE DecVis -------------------------------
(***************************************************************************)
(* The slice images of decompressed data: generateReport, which runs       *)
(* ZC_Init (the PLOT section of ZC_ReadConf, ZC_conf.c), the last part of  *)
(* ZC_generateOverallReport and ZC_Finalize.  ecVisDecDataTables has for   *)
(* each variable and plotted compressor the results found on disk; from    *)
(* them the error setting is estimated with which the compressor would     *)
(* reach each wanted compression ratio.                                    *)
(*                                                                         *)
(* A run may end early.  What it leaves on disk, the links in              *)
(* dataProperties and checkingStatus in zc.config, meets the next run.     *)
(* The commands that compress and plot are external and succeed.           *)
(***************************************************************************)
EXTENDS Integers, Sequences, FiniteSets, FiniteSetsExt, Functions

CONSTANTS
    Names,      \* names of compressors
    Id,         \* getCompressorID: Names -> Int, -1 for an unknown name
    Bin,        \* the bin of a name in a table of HASHTABLE_SIZE_SMALL
    Vars,
    Inputs,     \* configurations with the files they find
    MaxCases,   \* MAX_NB_CMPR_CASES
    MaxRuns     \* bound on the runs of the program

NULL == "NULL"

Modes == {"SELECT_NEAREST", "LINEAR_APPROX"}

(* A .cmp file: the case its name tells, and the ratio it holds. *)
Case == [cmp : Names, err : Nat, var : Vars, ratio : Nat \ {0}]

(* compressors, plotCompressors, plotCRs and plotDecSliceMode; properties  *)
(* are the variables with a file in dataProperties before the first run,   *)
(* others those with one in the directory of a compressor, and files has   *)
(* the results in each compressor's directory.                             *)
InputOK(in) ==
    /\ in.compressors \in Seq(Names) /\ in.compressors # <<>>
    /\ in.plotted \in Seq(Names) /\ in.plotted # <<>>
    /\ in.CRs \in Seq(Nat) /\ in.CRs # <<>> /\ in.mode \in Modes
    /\ in.properties \subseteq Vars /\ in.others \subseteq Vars
    /\ in.files \in [1 .. Len(in.compressors) -> SUBSET Case]
    /\ \A n \in 1 .. Len(in.compressors) : IsFiniteSet(in.files[n])

ASSUME NameAssumption == Id \in [Names -> Int] /\ Bin \in [Names -> Nat] /\ NULL \notin Names
ASSUME InputAssumption == \A in \in Inputs : InputOK(in)
ASSUME BoundAssumption == MaxCases \in Nat \ {0} /\ MaxRuns \in Nat \ {0}

VARIABLES
    in,                 \* chosen once
    dataProperties,     \* on disk: variables with a file or a link
    checkingStatus,     \* on disk, in zc.config
    run,
    pc, pending, i,     \* place in the program, what a loop has still to do
    var,                \* the variable of the outer loop
    ecPropertyTable, ecCompareDataTable,
    ecVisDecDataTables, \* variable -> name -> index in elements
    elements,           \* the CompressorCRVisElement blocks
    fault               \* why the process ended before its time

vars == <<in, dataProperties, checkingStatus, run, pc, pending, i, var, ecPropertyTable,
          ecCompareDataTable, ecVisDecDataTables, elements, fault>>

disk == <<dataProperties, checkingStatus, run>>
tables == <<ecPropertyTable, ecCompareDataTable, ecVisDecDataTables, elements>>

----------------------------------------------------------------------------
(* Error settings, in hundredths, and what is not a number of them.        *)
Unset == -1
NAN == -2
INF == -3
Garbage == -4   \* computed from an array element that was not set

(* n / d as "%.2G" prints it: two digits, ties to even.                    *)
Printed(n, d) ==
    LET digit == IF n >= 100 * d THEN 1000 ELSE IF n >= 10 * d THEN 100
                 ELSE IF n >= d THEN 10 ELSE 1
        half == 2 * d * digit
        k == (200 * n + d * digit) \div half
        tie == (200 * n + d * digit) % half = 0
    IN  digit * (IF tie /\ k % 2 = 1 THEN k - 1 ELSE k)

(* Mutant of Target: a case that just reaches the target is passed over.   *)
Target_After(s, t) == Min({n \in 1 .. Len(s) : s[n].ratio > t} \cup
                          (IF \A n \in 1 .. Len(s) : s[n].ratio <= t THEN {1} ELSE {}))

(* The first case, of a list sorted by ratio, that reaches the target;     *)
(* the first of all where none does.                                       *)
Target(s, t) == Min({n \in 1 .. Len(s) : s[n].ratio >= t} \cup
                    (IF \A n \in 1 .. Len(s) : s[n].ratio < t THEN {1} ELSE {}))

(* On the line through cases a and b.                                      *)
Interpolated(a, b, t) ==
    Printed(a.err * (b.ratio - a.ratio) + (t - a.ratio) * (b.err - a.err), b.ratio - a.ratio)

(* Before the first case and beyond the last: on the line through the      *)
(* first two, but not below 0.  For equal ratios a is 1, and the formula   *)
(* divides by a - 1.                                                       *)
Extrapolated(s, t) ==
    IF Len(s) = 1 THEN Garbage
    ELSE LET l == s[1]
             u == s[2]
         IN  IF u.ratio = l.ratio
             THEN IF t = l.ratio \/ u.err = l.err THEN NAN
                  ELSE IF u.err > l.err THEN INF ELSE Printed(l.err, 1)
             ELSE IF l.err * (u.ratio - l.ratio) + (t - l.ratio) * (u.err - l.err) < 0
                  THEN Printed(l.err, 1)
                  ELSE Interpolated(l, u, t)

computeErrorSetting(mode, s, t) ==
    LET upper == Target(s, t)
    IN  IF mode = "SELECT_NEAREST" THEN Printed(s[upper].err, 1)
        ELSE IF upper > 1 THEN Interpolated(s[upper - 1], s[upper], t)
        ELSE Extrapolated(s, t)

(* ZC_quick_sort_vis_CR: any order of cases with one ratio.                *)
Sorted(cases) ==
    {s \in [1 .. Cardinality(cases) -> cases] :
        /\ Range(s) = cases
        /\ \A n \in 2 .. Len(s) : s[n - 1].ratio <= s[n].ratio}

----------------------------------------------------------------------------
Init ==
    /\ in \in Inputs
    /\ dataProperties = in.properties /\ checkingStatus = "COMPARE_COMPRESSOR" /\ run = 1
    /\ pc = "start" /\ pending = {} /\ i = 1 /\ var \in in.properties \cup in.others
    /\ ecPropertyTable = {} /\ ecCompareDataTable = [k \in {} |-> 0]
    /\ ecVisDecDataTables = [v \in {} |-> 0] /\ elements = <<>>
    /\ fault = "none"

Stop(why) == fault' = why /\ pc' = "stopped"

(* Under another status the PLOT and REPORT sections are not read, and     *)
(* without a template directory ZC_generateOverallReport exits.            *)
Start ==
    /\ pc = "start"
    /\ IF checkingStatus = "COMPARE_COMPRESSOR"
       THEN /\ pc' = "properties" /\ pending' = dataProperties
            /\ UNCHANGED fault
       ELSE /\ Stop("no_template")
            /\ UNCHANGED pending
    /\ UNCHANGED <<in, disk, i, var, tables>>

(* The listed compressor with the ID of a plotted one.                     *)
NameOf(name) ==
    LET same == {w \in 1 .. Len(in.compressors) : Id[in.compressors[w]] = Id[name]}
    IN  IF same = {} THEN NULL ELSE in.compressors[Min(same)]

PlotNames == [k \in 1 .. Len(in.plotted) |-> NameOf(in.plotted[k])]

First(name) == Min({k \in 1 .. Len(in.plotted) : PlotNames[k] = name})
Last(name) == Max({k \in 1 .. Len(in.plotted) : PlotNames[k] = name})

(* loadProperty from dataProperties, and one element for each plotted      *)
(* compressor.  ht_set hashes its key, and frees an element it replaces.   *)
LoadProperty ==
    /\ pc = "properties"
    /\ \E v \in pending :
        /\ pending' = pending \ {v}
        /\ ecPropertyTable' = ecPropertyTable \cup {v}
        /\ IF NULL \in Range(PlotNames)
           THEN Stop("null_name") /\ UNCHANGED <<ecVisDecDataTables, elements>>
           ELSE /\ elements' = elements \o [k \in 1 .. Len(in.plotted) |->
                       [var |-> v, name |-> PlotNames[k], cases |-> {},
                        settings |-> [t \in Range(in.CRs) |-> Unset],
                        state |-> IF k = Last(PlotNames[k]) THEN "live" ELSE "replaced"]]
                /\ ecVisDecDataTables' = [w \in DOMAIN ecVisDecDataTables \cup {v} |->
                       IF w = v THEN [n \in Range(PlotNames) |-> Len(elements) + Last(n)]
                       ELSE ecVisDecDataTables[w]]
                /\ UNCHANGED <<pc, fault>>
    /\ UNCHANGED <<in, disk, i, var, ecCompareDataTable>>

(* Mutant of Links: the property is loaded, and no link made.              *)
Links_None == {}

(* loadProperty links what it finds elsewhere into dataProperties. *)
Links == in.others

LoadOthers ==
    /\ pc = "properties" /\ pending = {}
    /\ ecPropertyTable' = ecPropertyTable \cup in.others
    /\ dataProperties' = dataProperties \cup Links
    /\ IF ecPropertyTable' = {}
       THEN Stop("no_properties") /\ UNCHANGED <<pending, i>>
       ELSE pc' = "results" /\ i' = 1 /\ pending' = in.files[1] /\ UNCHANGED fault
    /\ UNCHANGED <<in, checkingStatus, run, var, ecCompareDataTable, ecVisDecDataTables,
                   elements>>

isInPlotDecCompressors(name) == \E k \in 1 .. Len(in.plotted) : Id[in.plotted[k]] = Id[name]

Key(f) == <<f.cmp, f.err, f.var>>

(* What goes wrong when a plotted result is added to its element. *)
Misplaced(f) ==
    IF ~ isInPlotDecCompressors(f.cmp) THEN "none"
    ELSE IF f.var \notin DOMAIN ecVisDecDataTables THEN "no_variable"
    ELSE IF f.cmp \notin DOMAIN ecVisDecDataTables[f.var] THEN "no_element"
    ELSE IF Cardinality(elements[ecVisDecDataTables[f.var][f.cmp]].cases) = MaxCases
    THEN "overflow" ELSE "none"

LoadResult ==
    /\ pc = "results"
    /\ \E f \in pending :
        /\ pending' = pending \ {f}
        /\ IF Key(f) \in DOMAIN ecCompareDataTable
           THEN UNCHANGED <<ecCompareDataTable, elements, pc, fault>>
           ELSE /\ ecCompareDataTable' =
                       [k \in DOMAIN ecCompareDataTable \cup {Key(f)} |->
                           IF k = Key(f) THEN f ELSE ecCompareDataTable[k]]
                /\ IF Misplaced(f) # "none"
                   THEN Stop(Misplaced(f)) /\ UNCHANGED elements
                   ELSE /\ elements' =
                               IF isInPlotDecCompressors(f.cmp)
                               THEN [elements EXCEPT
                                       ![ecVisDecDataTables[f.var][f.cmp]].cases = @ \cup {f}]
                               ELSE elements
                        /\ UNCHANGED <<pc, fault>>
    /\ UNCHANGED <<in, disk, i, var, ecPropertyTable, ecVisDecDataTables>>

NextDirectory ==
    /\ pc = "results" /\ pending = {}
    /\ IF i < Len(in.compressors)
       THEN i' = i + 1 /\ pending' = in.files[i + 1] /\ UNCHANGED pc
       ELSE pc' = "loaded" /\ UNCHANGED <<i, pending>>
    /\ UNCHANGED <<in, disk, var, tables, fault>>

(* ZC_generateOverallReport writes PROBE_COMPRESSOR for the commands that  *)
(* ZC_generateDecVisData will run, ...                                     *)
StartReport ==
    /\ pc = "loaded"
    /\ checkingStatus' = "PROBE_COMPRESSOR"
    /\ pc' = "settings" /\ pending' = DOMAIN ecVisDecDataTables /\ i' = 1
    /\ UNCHANGED <<in, dataProperties, run, var, tables, fault>>

(* Mutant of Plots: the last plotted compressor is passed over.            *)
Plots_Short == IF Len(in.plotted) = 1 THEN 1 ELSE Len(in.plotted) - 1

(* nbPlotCompressors *)
Plots == Len(in.plotted)

(* One turn of the inner loop of ZC_generateDecVisData, which takes the    *)
(* name from the list of all compressors: ZC_itentifyErrorSettingBasedOnCR *)
(* and what follows it.  An empty list is sorted up to index SIZE_MAX.     *)
IdentifyErrorSetting ==
    /\ pc = "settings"
    /\ \E v \in IF i = 1 THEN pending ELSE {var} :
        /\ var' = v
        /\ IF i > Len(in.compressors)
           THEN Stop("null_name") /\ UNCHANGED <<elements, pending, i>>
           ELSE IF in.compressors[i] \notin DOMAIN ecVisDecDataTables[v]
           THEN Stop("no_element") /\ UNCHANGED <<elements, pending, i>>
           ELSE LET e == ecVisDecDataTables[v][in.compressors[i]]
                IN  IF elements[e].cases = {}
                    THEN Stop("no_cases") /\ UNCHANGED <<elements, pending, i>>
                    ELSE /\ \E s \in Sorted(elements[e].cases) :
                              elements' = [elements EXCEPT ![e].settings =
                                  [t \in Range(in.CRs) |-> computeErrorSetting(in.mode, s, t)]]
                         /\ i' = IF i = Plots THEN 1 ELSE i + 1
                         /\ pending' = IF i = Plots THEN pending \ {v} ELSE pending
                         /\ UNCHANGED <<pc, fault>>
    /\ UNCHANGED <<in, disk, ecPropertyTable, ecCompareDataTable, ecVisDecDataTables>>

(* Mutant of Restored: the file keeps the status of the commands.          *)
Restored_Not(status) == status

Restored(status) == "COMPARE_COMPRESSOR"

(* ... and COMPARE_COMPRESSOR when they are done.                          *)
EndSettings ==
    /\ pc = "settings" /\ pending = {}
    /\ checkingStatus' = Restored(checkingStatus)
    /\ pc' = "slices"
    /\ UNCHANGED <<in, dataProperties, run, pending, i, var, tables, fault>>

(* The elements a table leads to. *)
InTables == UNION {Range(ecVisDecDataTables[v]) : v \in DOMAIN ecVisDecDataTables}

(* ZC_generateDecSliceImageReport loads the result of every element and    *)
(* ratio, under the name that was made from the setting.                   *)
SliceReport ==
    /\ pc = "slices"
    /\ IF \E e \in InTables : Unset \in Range(elements[e].settings)
       THEN Stop("no_setting")
       ELSE pc' = "reported" /\ UNCHANGED fault
    /\ UNCHANGED <<in, disk, pending, i, var, tables>>

(* Mutant of Freed: an element without results is passed over. *)
Freed_Filled == {e \in InTables : elements[e].cases # {}}

(* The elements ZC_Finalize frees: the first one in each chain.  A name    *)
(* that is new to a chain is appended.                                     *)
Freed ==
    {e \in InTables :
        \A d \in InTables :
            /\ elements[d].var = elements[e].var
            /\ Bin[elements[d].name] = Bin[elements[e].name]
            => First(elements[e].name) <= First(elements[d].name)}

(* Their results leave ecCompareDataTable, and are freed with the rest.    *)
(* A program may also finish without a report.                             *)
Finalize ==
    /\ pc \in {"loaded", "reported"}
    /\ elements' = [e \in 1 .. Len(elements) |->
           IF e \in Freed THEN [elements[e] EXCEPT !.state = "freed", !.cases = {}]
           ELSE elements[e]]
    /\ ecPropertyTable' = {} /\ ecCompareDataTable' = [k \in {} |-> 0]
    /\ ecVisDecDataTables' = [v \in {} |-> 0]
    /\ pc' = "done"
    /\ UNCHANGED <<in, disk, pending, i, var, fault>>

(* The next run finds the files as they were left. *)
Restart ==
    /\ pc \in {"done", "stopped"} /\ run < MaxRuns
    /\ run' = run + 1
    /\ pc' = "start" /\ fault' = "none" /\ pending' = {} /\ i' = 1
    /\ ecPropertyTable' = {} /\ ecCompareDataTable' = [k \in {} |-> 0]
    /\ ecVisDecDataTables' = [v \in {} |-> 0] /\ elements' = <<>>
    /\ UNCHANGED <<in, dataProperties, checkingStatus, var>>

Next ==
    \/ Start \/ LoadProperty \/ LoadOthers \/ LoadResult \/ NextDirectory
    \/ StartReport \/ IdentifyErrorSetting \/ EndSettings \/ SliceReport
    \/ Finalize \/ Restart

Spec == Init /\ [][Next]_vars

----------------------------------------------------------------------------
TypeOK ==
    /\ dataProperties \subseteq Vars /\ run \in 1 .. MaxRuns
    /\ checkingStatus \in {"COMPARE_COMPRESSOR", "PROBE_COMPRESSOR"}
    /\ pc \in {"start", "properties", "results", "loaded", "settings", "slices",
               "reported", "done", "stopped"}
    /\ i \in 1 .. Max({Len(in.compressors), Len(in.plotted)})
    /\ ecPropertyTable \subseteq Vars /\ DOMAIN ecVisDecDataTables \subseteq Vars
    /\ \A e \in 1 .. Len(elements) :
        /\ elements[e].name \in Names /\ elements[e].cases \subseteq Case
        /\ elements[e].settings \in [Range(in.CRs) -> {Unset, NAN, INF, Garbage} \cup Nat]
        /\ elements[e].state \in {"live", "replaced", "freed"}
    /\ InTables \subseteq 1 .. Len(elements)

(* A configuration whose plotted compressors are listed under different    *)
(* names, each with 1 to MaxCases results of each variable.                *)
Plottable ==
    LET all == UNION Range(in.files)
    IN  /\ \A m, n \in 1 .. Len(in.compressors) :
               Id[in.compressors[m]] = Id[in.compressors[n]] => m = n
        /\ \A n \in Range(in.plotted) : n \in Range(in.compressors)
        /\ \A f \in all : isInPlotDecCompressors(f.cmp) =>
               f.cmp \in Range(in.plotted) /\ f.var \in in.properties
        /\ \A v \in in.properties \cup in.others : \A n \in Range(in.plotted) :
               Cardinality({Key(f) : f \in {g \in all : g.cmp = n /\ g.var = v}})
                   \in 1 .. MaxCases

(* plotCompressors is the beginning of compressors, in any order. *)
Prefix == /\ Len(in.plotted) <= Len(in.compressors)
          /\ Range(in.plotted) = {in.compressors[n] : n \in 1 .. Len(in.plotted)}

(* A plottable configuration whose plotted compressors are the first of    *)
(* the list runs to its end, every time: no table is looked up in vain, no *)
(* list overrun, and no earlier run has left the wrong status.             *)
Safe == TypeOK /\ (Plottable /\ Prefix => fault = "none")

(* zc.config:145 has the compressors to be plotted specified; their place  *)
(* in the list of all compressors should not matter.                       *)
PlotsSpecified == Plottable => fault = "none"

(* A result whose variable has its property only with the compressors      *)
(* stops the first run, which leaves the link that the second needs.       *)
HealedByRestart ==
    (\A f \in UNION Range(in.files) : f.var \in in.properties \cup in.others)
        /\ fault = "no_variable" => run = 1

(* The report comes to a name without setting only if a compressor was     *)
(* listed twice: for other lists ZC_generateDecVisData has stopped before  *)
(* or treated all elements, although it walks another list than the one    *)
(* the elements were made from.                                            *)
ReportComplete ==
    fault = "no_setting" =>
        \E m, n \in 1 .. Len(in.compressors) : m # n /\ in.compressors[m] = in.compressors[n]

(* Between two measured ratios the setting lies between theirs, and at a   *)
(* measured ratio it is the one measured there.  It is a number unless the *)
(* two smallest ratios are equal or there is but one.                      *)
SettingsBracketed ==
    \A e \in InTables : \A t \in Range(in.CRs) :
        LET cases == elements[e].cases
            set == elements[e].settings[t]
            ratios == {f.ratio : f \in cases}
            errs(r) == {Printed(f.err, 1) : f \in {g \in cases : g.ratio = r}}
            below == {r \in ratios : r < t}
            above == {r \in ratios : r >= t}
        IN  /\ set \in {NAN, INF} =>
                    Cardinality({f \in cases : f.ratio = Min(ratios)}) > 1
            /\ set = Garbage => Cardinality(cases) = 1
            /\ set >= 0 /\ below # {} /\ above # {} =>
                    LET ends == errs(Max(below)) \cup errs(Min(above))
                    IN  set \in Min(ends) .. Max(ends)
            /\ set >= 0 /\ t \in ratios => set \in Min(errs(t)) .. Max(errs(t))

(* ZC_Finalize frees every element but those whose compressor shares its   *)
(* bin, or its name, with another plotted one.                             *)
ElementsFreed ==
    pc = "done" =>
        \A e \in 1 .. Len(elements) :
            \/ elements[e].state = "freed"
            \/ \E m, n \in 1 .. Len(in.plotted) :
                /\ m # n /\ PlotNames[m] = elements[e].name
                /\ Bin[PlotNames[m]] = Bin[PlotNames[n]]
=============================================================================
