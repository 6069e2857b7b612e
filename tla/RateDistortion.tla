--------------------------- MODULE RateDistortion ---------------------------
(***************************************************************************)
(* The rate-distortion reports of zc/src/zc.c, as generateGNUPlot makes    *)
(* them: ZC_plotRateDistortion writes for each variable one line per       *)
(* stored result, compressor by compressor, in a table whose columns are   *)
(* the compressors; ZC_plotOverallRateDistortion_all_compressors then      *)
(* averages the results of each compressor and error bound over the        *)
(* variables.  The first selects results by the prefix of their key, the   *)
(* second by the compressor's name.                                        *)
(*                                                                         *)
(* The twelve extractRate* functions are one algorithm on twelve metrics;  *)
(* kind says which of its three variants runs.  Their loops are steps, the *)
(* sort is one step and does what QuickSort shows, and the arrays they     *)
(* allocate have their size.                                               *)
(***************************************************************************)
EXTENDS Integers, Sequences, FiniteSets

CONSTANTS
    Names,      \* names of compressors
    Prefixed,   \* pairs <<a, b>>: name a starts with name b
    Bounds,     \* error bounds
    Vars,       \* the variables of ecPropertyTable
    NAN,        \* the metric value that is not a number
    Configs,    \* lists the configuration may give to compressors
    Tables      \* contents of ecCompareDataTable: functions on sets of keys

(* The key "name(bound):var".  A result has its metric, and exact when     *)
(* maxAbsErr is 0.                                                         *)
ResultKey == [name : Names, bound : Bounds, var : Vars]
Result == [metric : Int \cup {NAN}, exact : BOOLEAN]

ASSUME PrefixAssumption ==
    Prefixed \subseteq Names \X Names /\ \A n \in Names : <<n, n>> \in Prefixed
ASSUME ConfigAssumption ==
    \A s \in Configs : s \in Seq(Names) /\ s # <<>>
                       /\ \A m, n \in 1 .. Len(s) : s[m] = s[n] => m = n
ASSUME TableAssumption ==
    \A t \in Tables : /\ DOMAIN t \subseteq ResultKey /\ IsFiniteSet(DOMAIN t)
                      /\ t \in [DOMAIN t -> Result]
ASSUME NanAssumption == NAN \notin Int

VARIABLES
    compressors,\* the configured list
    results,    \* ecCompareDataTable
    kind,       \* "psnr" like metrics, "valErrCorr", or "maxRelErr"
    pending,    \* variables still to be plotted
    var,        \* the variable being plotted
    selected,   \* cmpResList: its keys, totalCount of them
    i, j,       \* loop indices over compressors, and over keys or curve
    rdList,     \* the curve of compressor i
    lines,      \* dataLines without its header, which holds totalCount more
    reports,    \* variable -> lines written to its file
    overall,    \* compressor -> the sets of results averaged to one point
    pc,
    fault       \* "null_read", "no_end" or "overflow"

vars == <<compressors, results, kind, pending, var, selected, i, j, rdList, lines,
          reports, overall, pc, fault>>

Line == [key : ResultKey, column : Nat, shown : BOOLEAN]

(* getCompResKeyList: the keys of v, in whatever order the bins have them. *)
KeysOf(v) == {k \in DOMAIN results : k.var = v}
Orders(S) ==
    {s \in [1 .. Cardinality(S) -> S] : \A m, n \in DOMAIN s : s[m] = s[n] => m = n}

(* checkStartsWith(key, compressor) *)
StartsWith(k, c) == <<k.name, c>> \in Prefixed

Metric(k) == results[k].metric
Undefined(s) == \E n \in 1 .. Len(s) : Metric(s[n]) = NAN

(* The curve in the order ZC_quick_sort leaves it. *)
Sorted(s) ==
    {r \in {[n \in 1 .. Len(s) |-> s[f[n]]] : f \in Orders(1 .. Len(s))} :
        \A m, n \in 1 .. Len(s) : m < n => Metric(r[m]) <= Metric(r[n])}

(* Whether a line has the metric or a dash in its compressor's column.     *)
Shown(k) ==
    ~ results[k].exact /\ (kind = "valErrCorr" \/ (Metric(k) # NAN /\ Metric(k) >= 0))

----------------------------------------------------------------------------
Init ==
    /\ compressors \in Configs
    /\ results \in Tables
    /\ kind \in {"psnr", "valErrCorr", "maxRelErr"}
    /\ pending = Vars
    /\ var \in Vars
    /\ selected = <<>> /\ i = 1 /\ j = 1 /\ rdList = <<>> /\ lines = <<>>
    /\ reports = [v \in Vars |-> <<>>]
    /\ overall = [n \in Names |-> {}]
    /\ pc = "variable" /\ fault = "none"

(* The loop over ecPropertyTable, up to the loop over the compressors.  No *)
(* lines are made for a variable without results, nor of a maxRelErr       *)
(* metric when the first of its results is exact.                          *)
SelectVariable ==
    /\ pc = "variable" /\ fault = "none"
    /\ \E v \in pending : \E s \in Orders(KeysOf(v)) :
        /\ pending' = pending \ {v} /\ var' = v /\ selected' = s
        /\ pc' = IF s = <<>> \/ (kind = "maxRelErr" /\ results[s[1]].exact)
                 THEN "variable" ELSE "scan"
    /\ i' = 1 /\ j' = 1 /\ rdList' = <<>> /\ lines' = <<>>
    /\ UNCHANGED <<compressors, results, kind, reports, overall, fault>>

(* Mutant of Scan: the last key is not looked at. *)
Scan_Short ==
    /\ pc = "scan" /\ fault = "none"
    /\ IF j < Len(selected)
       THEN /\ rdList' = IF StartsWith(selected[j], compressors[i])
                         THEN Append(rdList, selected[j]) ELSE rdList
            /\ j' = j + 1 /\ UNCHANGED pc
       ELSE pc' = "sort" /\ UNCHANGED <<rdList, j>>
    /\ UNCHANGED <<compressors, results, kind, pending, var, selected, i, lines,
                   reports, overall, fault>>

(* One key is compared with the name of compressor i. *)
Scan ==
    /\ pc = "scan" /\ fault = "none"
    /\ IF j <= Len(selected)
       THEN /\ rdList' = IF StartsWith(selected[j], compressors[i])
                         THEN Append(rdList, selected[j]) ELSE rdList
            /\ j' = j + 1 /\ UNCHANGED pc
       ELSE pc' = "sort" /\ UNCHANGED <<rdList, j>>
    /\ UNCHANGED <<compressors, results, kind, pending, var, selected, i, lines,
                   reports, overall, fault>>

(* ZC_quick_sort(rdList, 0, p-1).  With p = 0 the end is the largest       *)
(* size_t and the first read follows a null pointer; a metric that is not  *)
(* a number stops both scans of ZC_divide, which swaps the same two        *)
(* records for ever.                                                       *)
Sort ==
    /\ pc = "sort" /\ fault = "none"
    /\ \/ rdList = <<>> /\ fault' = "null_read" /\ UNCHANGED <<rdList, pc, j>>
       \/ /\ Len(rdList) > 1 /\ Undefined(rdList)
          /\ fault' = "no_end" /\ UNCHANGED <<rdList, pc, j>>
       \/ /\ Len(rdList) = 1 \/ (rdList # <<>> /\ ~ Undefined(rdList))
          /\ rdList' \in IF Len(rdList) = 1 THEN {rdList} ELSE Sorted(rdList)
          /\ pc' = "emit" /\ j' = 1 /\ UNCHANGED fault
    /\ UNCHANGED <<compressors, results, kind, pending, var, selected, i, lines,
                   reports, overall>>

(* Mutant of Emit: the header's line is not counted by the allocation.     *)
Emit_NoHeader ==
    /\ pc = "emit" /\ fault = "none"
    /\ IF j <= Len(rdList)
       THEN IF Len(lines) + 1 = Len(selected)
            THEN fault' = "overflow" /\ UNCHANGED <<lines, j, i, rdList, pc>>
            ELSE /\ lines' = Append(lines, [key |-> rdList[j], column |-> i,
                                            shown |-> Shown(rdList[j])])
                 /\ j' = j + 1 /\ UNCHANGED <<i, rdList, pc, fault>>
       ELSE /\ j' = 1 /\ rdList' = <<>> /\ UNCHANGED <<lines, fault>>
            /\ IF i < Len(compressors)
               THEN i' = i + 1 /\ pc' = "scan"
               ELSE pc' = "write" /\ UNCHANGED i
    /\ UNCHANGED <<compressors, results, kind, pending, var, selected, reports, overall>>

(* dataLines[q++] of the curve's next record; after the last one the next  *)
(* compressor's turn.                                                      *)
Emit ==
    /\ pc = "emit" /\ fault = "none"
    /\ IF j <= Len(rdList)
       THEN IF Len(lines) = Len(selected)
            THEN fault' = "overflow" /\ UNCHANGED <<lines, j, i, rdList, pc>>
            ELSE /\ lines' = Append(lines, [key |-> rdList[j], column |-> i,
                                            shown |-> Shown(rdList[j])])
                 /\ j' = j + 1 /\ UNCHANGED <<i, rdList, pc, fault>>
       ELSE /\ j' = 1 /\ rdList' = <<>> /\ UNCHANGED <<lines, fault>>
            /\ IF i < Len(compressors)
               THEN i' = i + 1 /\ pc' = "scan"
               ELSE pc' = "write" /\ UNCHANGED i
    /\ UNCHANGED <<compressors, results, kind, pending, var, selected, reports, overall>>

(* ZC_writeStrings, and the lines are freed. *)
Write ==
    /\ pc = "write" /\ fault = "none"
    /\ reports' = [reports EXCEPT ![var] = lines]
    /\ lines' = <<>> /\ pc' = "variable"
    /\ UNCHANGED <<compressors, results, kind, pending, var, selected, i, j, rdList,
                   overall, fault>>

StartOverall ==
    /\ pc = "variable" /\ pending = {} /\ fault = "none"
    /\ pc' = "overall" /\ i' = 1
    /\ UNCHANGED <<compressors, results, kind, pending, var, selected, j, rdList, lines,
                   reports, overall, fault>>

(* Mutant of Points: results without error are averaged too. *)
Points_All(c) ==
    {{k \in DOMAIN results : k.name = c /\ k.bound = b} : b \in Bounds} \ {{}}

(* createCmprsorErrBoundVarMap files each result under its compressor,     *)
(* error bound and variable; a point averages the results of one error     *)
(* bound that have an error.                                               *)
Points(c) ==
    {{k \in DOMAIN results : k.name = c /\ k.bound = b /\ ~ results[k].exact}
        : b \in Bounds} \ {{}}

Overall ==
    /\ pc = "overall" /\ fault = "none"
    /\ overall' = [overall EXCEPT ![compressors[i]] = Points(compressors[i])]
    /\ IF i < Len(compressors) THEN i' = i + 1 /\ UNCHANGED pc
       ELSE pc' = "done" /\ UNCHANGED i
    /\ UNCHANGED <<compressors, results, kind, pending, var, selected, j, rdList, lines,
                   reports, fault>>

(* The process has ended, hangs or was killed. *)
Stopped == (pc = "done" \/ fault # "none") /\ UNCHANGED vars

Next ==
    \/ SelectVariable \/ Scan \/ Sort \/ Emit \/ Write
    \/ StartOverall \/ Overall \/ Stopped

Spec == Init /\ [][Next]_vars

----------------------------------------------------------------------------
TypeOK ==
    /\ compressors \in Configs
    /\ results \in Tables
    /\ kind \in {"psnr", "valErrCorr", "maxRelErr"}
    /\ pending \subseteq Vars /\ var \in Vars
    /\ selected \in Seq(DOMAIN results)
    /\ i \in 1 .. Len(compressors)
    /\ j \in 1 .. Len(selected) + 1
    /\ rdList \in Seq(DOMAIN results) /\ Len(rdList) <= Len(selected)
    /\ lines \in Seq(Line)
    /\ reports \in [Vars -> Seq(Line)]
    /\ overall \in [Names -> SUBSET SUBSET (DOMAIN results)]
    /\ pc \in {"variable", "scan", "sort", "emit", "write", "overall", "done"}
    /\ fault \in {"none", "null_read", "no_end", "overflow"}

Listed == {compressors[n] : n \in 1 .. Len(compressors)}

(* No result's key starts with the names of two listed compressors.        *)
NoClash ==
    \A k \in DOMAIN results : \A c, d \in Listed :
        StartsWith(k, c) /\ StartsWith(k, d) => c = d

(* Tables on which the report can be made: no clash, every metric is a     *)
(* number where a curve has more than one point, and every listed          *)
(* compressor has a result for each variable that has any.                 *)
Benign ==
    /\ NoClash
    /\ \A v \in Vars : KeysOf(v) # {} => \A c \in Listed :
        LET curve == {k \in KeysOf(v) : StartsWith(k, c)}
        IN  curve # {} /\ (Cardinality(curve) = 1 \/ \A k \in curve : Metric(k) # NAN)

(* On benign tables the report reads no null pointer, ends, and writes no  *)
(* line past the totalCount + 1 that extractRate* allocates for all the    *)
(* curves together, although q runs over the curves of all compressors.    *)
Safe == TypeOK /\ (Benign => fault = "none")

(* Every result of a listed compressor is in its variable's table exactly  *)
(* once and in that compressor's column, and each curve is in the order of *)
(* its metric.  A result of a compressor that is not listed is there too   *)
(* when its name starts with a listed one, in the column of that: the      *)
(* report takes it for a result of the other compressor.                   *)
CurvesExact ==
    NoClash =>
        \A v \in Vars : reports[v] # <<>> =>
            LET r == reports[v]
            IN  /\ {r[n].key : n \in 1 .. Len(r)} =
                       {k \in KeysOf(v) : k.name \in Listed
                                          \/ \E c \in Listed : StartsWith(k, c)}
                /\ \A n \in 1 .. Len(r) :
                       IF r[n].key.name \in Listed
                       THEN compressors[r[n].column] = r[n].key.name
                       ELSE StartsWith(r[n].key, compressors[r[n].column])
                /\ \A m, n \in 1 .. Len(r) : m < n =>
                    /\ r[m].key # r[n].key
                    /\ r[m].column <= r[n].column
                    /\ r[m].column = r[n].column =>
                           Metric(r[m].key) <= Metric(r[n].key)

(* The two reports take the same results into account: a result counts in  *)
(* its compressor's overall curve iff the correlation table shows it, and  *)
(* the other tables show no result that does not count.                    *)
ReportsAgree ==
    pc = "done" /\ NoClash =>
        LET counted == UNION UNION {overall[c] : c \in Listed}
            shown == {r.key : r \in UNION {{reports[v][n] : n \in {m \in
                        1 .. Len(reports[v]) : reports[v][m].shown}} : v \in Vars}}
        IN  /\ shown \subseteq
                   counted \cup {k \in DOMAIN results : k.name \notin Listed}
            /\ kind = "valErrCorr" => counted \subseteq shown
=============================================================================
