------------------------------ MODULE Session ------------------------------
(***************************************************************************)
(* The life of data properties and compression results in one process that *)
(* uses the offline interface of zc/src/zc.c: ZC_Init, then any number of  *)
(* startCmpr / endCmpr / startDec / endDec rounds, ZC_compareData,         *)
(* ZC_genProperties, ZC_registerVar and loadMultiVars, the free functions  *)
(* in any order, and ZC_Finalize, after which ZC_Init may come again.      *)
(*                                                                         *)
(* A round of the application is a job; several are open at a time when it *)
(* compresses several variables.  A job keeps the pointers the library     *)
(* returned to it.  ecPropertyTable and ecCompareDataTable are maps here;  *)
(* HashTable shows that the chained tables implement them.                 *)
(***************************************************************************)
EXTENDS Integers

CONSTANTS
    Jobs,       \* rounds the application may have open at once
    Names,      \* variable names as the application passes them
    Stem,       \* rmFileExtension on names
    Cases,      \* compression cases, "compressor(bound)"
    SameCase,   \* the case that reads like a variable name, or NULL
    FlagSets,   \* the arrays a configuration may ask an analysis for
    Props,      \* addresses of ZC_DataProperty blocks
    Cmps        \* addresses of ZC_CompareData blocks

NULL == 0

ASSUME StemAssumption ==
    Names # {} /\ Stem \in [Names -> Names] /\ \A n \in Names : Stem[Stem[n]] = Stem[n]
ASSUME AddressAssumption ==
    Props \subseteq Nat /\ Cmps \subseteq Nat /\ Props \cap Cmps = {}
    /\ NULL \notin Props \cup Cmps \cup Cases

(* The arrays of a property, by their flags; autocorr stands for autocorr, *)
(* autocorr3D and fftCoeff.  ZC_moveDataProperty copies only these, and    *)
(* freeDataProperty_internal forgets the last two.                         *)
Parts == {"autocorr", "lap", "gradLen", "sliceImage"}
Moved == {"autocorr"}
Unfreed == {"gradLen", "sliceImage"}
ASSUME FlagAssumption ==
    FlagSets \subseteq SUBSET Parts /\ SameCase \in [Names -> Cases \cup {NULL}]

VARIABLES
    heap,       \* the two tables and the blocks the library allocated
    jobs,       \* the application's open rounds
    up,         \* initStatus
    cfgFile,    \* zc_cfgFile: NULL, "block", or "freed"
    asked,      \* the flags ZC_LoadConf read
    misuse      \* what the application did that the tables do not support

vars == <<heap, jobs, up, cfgFile, asked, misuse>>

Heap == [
    prop : [Props -> Names],            \* varName of each property
    parts : [Props -> SUBSET Parts],    \* the arrays it holds
    cmp : [Cmps -> [solution : Cases \cup {NULL},
                    property : Props \cup {NULL},
                    metrics : BOOLEAN]],\* arrays of absErrPDF, autocorr, fft
    live : SUBSET (Props \cup Cmps),    \* blocks allocated and not freed
    propTable : [Names -> Props \cup {NULL}],
    cmpTable : [Cases -> Cmps \cup {NULL}],
    lost : SUBSET (Parts \cup {"varName", "metrics"}), \* no pointer leads there
    fault : {"none", "bad_read", "bad_free"}]

Job == [phase : {"idle", "started", "analyzed", "compressed", "decoded", "loaded"},
        p : Props \cup {NULL}, c : Cmps \cup {NULL}, sol : Cases \cup {NULL}]

Idle == [phase |-> "idle", p |-> NULL, c |-> NULL, sol |-> NULL]

----------------------------------------------------------------------------
AnyName == CHOOSE n \in Names : Stem[n] = n
Blank == [solution |-> NULL, property |-> NULL, metrics |-> FALSE]

(* What a pointer access and the free of a block do to the heap.  A result *)
(* is freed with its arrays, of a property only the struct is.             *)
Use(h, b) == IF b \in h.live THEN h ELSE [h EXCEPT !.fault = "bad_read"]
Release(h, b) ==
    CASE b \in h.live \cap Props ->
            [h EXCEPT !.live = @ \ {b}, !.prop[b] = AnyName, !.parts[b] = {}]
      [] b \in h.live \cap Cmps -> [h EXCEPT !.live = @ \ {b}, !.cmp[b] = Blank]
      [] OTHER -> [h EXCEPT !.fault = "bad_free"]

(* The name and the arrays go with the struct, gradLen and the slice       *)
(* images do not.                                                          *)
freeDataProperty_internal(h, p) ==
    [Release(h, p) EXCEPT !.lost = @ \cup (h.parts[p] \cap Unfreed)]

Held == {jobs[j].p : j \in Jobs} \cup {jobs[j].c : j \in Jobs}
Pointed ==
    {heap.propTable[n] : n \in Names} \cup {heap.cmpTable[s] : s \in Cases}
    \cup {heap.cmp[c].property : c \in heap.live \cap Cmps}

(* A block malloc returns.  An address something still points to is not    *)
(* given out again, so that a dangling pointer stays visible.              *)
FreshIn(S) == S \ (heap.live \cup Held \cup Pointed)
First(S) == CHOOSE x \in S : \A y \in S : x <= y
NewProp == First(FreshIn(Props))
NewCmp == First(FreshIn(Cmps))

Unbound(h, n) == h.propTable[n] = NULL

(* ht_set(ecPropertyTable, n, p): the struct of a replaced property is     *)
(* freed, the name and the arrays it owns are not.                         *)
PutProp(h, n, p) ==
    IF Unbound(h, n) THEN [h EXCEPT !.propTable[n] = p]
    ELSE [Release(h, h.propTable[n]) EXCEPT
            !.propTable[n] = p,
            !.lost = @ \cup {"varName"} \cup h.parts[h.propTable[n]]]

AllocProp(h, n, p, parts) ==
    [h EXCEPT !.prop[p] = Stem[n], !.parts[p] = parts, !.live = @ \cup {p}]
AllocCmp(h, c, s, p) ==
    [h EXCEPT !.live = @ \cup {c},
              !.cmp[c] = [solution |-> s, property |-> p, metrics |-> FALSE]]

(* Mutant of freeDataProperty: the entry stays in the table. *)
FreeDataProperty_KeepEntry(h, p) ==
    LET h1 == Use(h, p)
        found == h1.propTable[h1.prop[p]]
    IN  freeDataProperty_internal(h1, IF found = NULL THEN p ELSE found)

(* freeDataProperty: frees what the table holds under the property's own   *)
(* name, and the argument only when the table holds nothing.               *)
FreeDataProperty(h, p) ==
    LET h1 == Use(h, p)
        found == h1.propTable[h1.prop[p]]
    IN  IF found = NULL THEN freeDataProperty_internal(h1, p)
        ELSE freeDataProperty_internal([h1 EXCEPT !.propTable[h1.prop[p]] = NULL], found)

(* freeCompareResult: a result without a solution is left alone. *)
FreeCompareResult(h, c) ==
    LET h1 == Use(h, c)
        s == h1.cmp[c].solution
    IN  CASE s = NULL -> h1
          [] s # NULL /\ h1.cmpTable[s] = NULL -> Release(h1, c)
          [] OTHER -> Release([h1 EXCEPT !.cmpTable[s] = NULL], h1.cmpTable[s])

(* Mutant of startCmpr: a stored property of the same name is not freed    *)
(* first, ht_set replaces it.                                              *)
startCmpr_NoFree(h, n, p) == PutProp(AllocProp(h, n, p, {}), Stem[n], p)

(* ZC_startCmpr: the lookup uses the name as given, the insertion its stem.*)
startCmpr(h, n, p) ==
    LET h1 == IF Unbound(h, n) THEN h ELSE FreeDataProperty(h, h.propTable[n])
    IN  PutProp(AllocProp(h1, n, p, {}), Stem[n], p)

(* ZC_genProperties: stores a new property under the name as given, or     *)
(* moves its content to the stored one and frees it (ZC_moveDataProperty). *)
genProperties(h, n, p, parts) ==
    IF Unbound(h, n) THEN PutProp(AllocProp(h, n, p, parts), n, p)
    ELSE LET h1 == Use(h, h.propTable[n])
         IN  [h1 EXCEPT !.parts[h.propTable[n]] = @ \cup (parts \cap Moved),
                        !.lost = @ \cup (parts \cap Unfreed)]
generated(h, n, p) == IF Unbound(h, n) THEN p ELSE h.propTable[n]

(* ZC_registerVar and ZC_constructOneVariable pass the property that       *)
(* ZC_genProperties has just stored to ht_set once more.  The result       *)
(* record is not stored; ZC_registerVar takes one that is stored under a   *)
(* case that reads like the name.                                          *)
storeVar(h, n, p, parts) ==
    IF Unbound(h, n) THEN PutProp(genProperties(h, n, p, parts), n, p) ELSE h
constructOneVariable(h, n, p, c, parts) ==
    LET h1 == storeVar(h, n, p, parts) IN AllocCmp(h1, c, NULL, h1.propTable[n])
FoundResult(h, n) == IF SameCase[n] = NULL THEN NULL ELSE h.cmpTable[SameCase[n]]
registerVar(h, n, p, c, parts) ==
    IF FoundResult(h, n) = NULL THEN constructOneVariable(h, n, p, c, parts)
    ELSE storeVar(h, n, p, parts)
registered(h, n, c) == IF FoundResult(h, n) = NULL THEN c ELSE FoundResult(h, n)

(* Computing the metrics of a decompressed variable overwrites the arrays  *)
(* a previous comparison left in the record.                               *)
compareInto(h, c) ==
    LET h1 == Use(Use(h, c), h.cmp[c].property)
    IN  [h1 EXCEPT !.cmp[c].metrics = TRUE,
                   !.lost = IF h1.cmp[c].metrics THEN @ \cup {"metrics"} ELSE @]

(* Mutant of endCmpr: a stored record keeps its property. *)
endCmpr_KeepProperty(h, p, s, c) ==
    LET stored == h.cmpTable[s]
        h1 == IF stored = NULL
              THEN [AllocCmp(h, c, s, p) EXCEPT !.cmpTable[s] = c]
              ELSE Use(h, stored)
    IN  Use(h1, p)

(* ZC_endCmpr_offline: the record stored for the case is used again, or a  *)
(* new one is stored; either way it now describes the job's property.      *)
endCmpr(h, p, s, c) ==
    LET stored == h.cmpTable[s]
        h1 == IF stored = NULL
              THEN [AllocCmp(h, c, s, p) EXCEPT !.cmpTable[s] = c]
              ELSE Use(h, stored)
    IN  [Use(h1, p) EXCEPT !.cmp[h1.cmpTable[s]].property = p,
                           !.cmp[h1.cmpTable[s]].solution = s]

----------------------------------------------------------------------------
(* The application.  After a fault the behaviour of the program is         *)
(* undefined, and after a misuse the tables no longer answer for their     *)
(* content: neither is followed further.                                   *)
Sound == heap.fault = "none" /\ misuse \subseteq {"orphaned"}
Running == up /\ Sound

(* Uses of the library under which its tables cannot work: a name with an  *)
(* extension; two open jobs on one variable or one case; ht_set of the     *)
(* pointer already stored.                                                 *)
Dotted(n) == IF Stem[n] # n THEN {"dotted"} ELSE {}
SharesName(j, n) ==
    IF \E k \in Jobs \ {j} : jobs[k].p # NULL /\ heap.prop[jobs[k].p] = Stem[n]
    THEN {"overlap"} ELSE {}
SharesCase(j, s) ==
    IF \E k \in Jobs \ {j} : jobs[k].c # NULL /\ jobs[k].sol = s
    THEN {"overlap"} ELSE {}
(* A stored result is about to lose its property. *)
Orphans(p) ==
    IF \E s \in Cases : /\ heap.cmpTable[s] # NULL
                        /\ heap.cmp[heap.cmpTable[s]].property = p
    THEN {"orphaned"} ELSE {}

(* The job calls f on its way to the given phase. *)
Step(j, h, job, flags) ==
    /\ heap' = h
    /\ jobs' = [jobs EXCEPT ![j] = job]
    /\ misuse' = misuse \cup flags
    /\ UNCHANGED <<up, cfgFile, asked>>

StartCmpr(j, n) ==
    /\ Running /\ jobs[j].phase = "idle" /\ FreshIn(Props) # {}
    /\ Step(j, startCmpr(heap, n, NewProp),
            [Idle EXCEPT !.phase = "started", !.p = NewProp],
            Dotted(n) \cup SharesName(j, n) \cup Orphans(heap.propTable[n])
              \cup Orphans(heap.propTable[Stem[n]]))

GenProperties(j, n) ==
    /\ Running /\ jobs[j].phase = "idle" /\ FreshIn(Props) # {}
    /\ Step(j, genProperties(heap, n, NewProp, asked),
            [Idle EXCEPT !.phase = "analyzed", !.p = generated(heap, n, NewProp)],
            Dotted(n) \cup SharesName(j, n))

EndCmpr(j, s) ==
    /\ Running /\ jobs[j].phase \in {"started", "analyzed"} /\ jobs[j].p # NULL
    /\ FreshIn(Cmps) # {}
    /\ LET h == endCmpr(heap, jobs[j].p, s, NewCmp)
       IN  Step(j, h, [jobs[j] EXCEPT !.phase = "compressed", !.sol = s,
                                      !.c = h.cmpTable[s]],
                SharesCase(j, s))

EndDec(j) ==
    /\ Running /\ jobs[j].phase = "compressed"
    /\ Step(j, compareInto(heap, jobs[j].c), [jobs[j] EXCEPT !.phase = "decoded"], {})

(* ZC_compareData: a result that is not stored, for a property that is. *)
CompareData(j, n) ==
    /\ Running /\ jobs[j].phase = "idle"
    /\ FreshIn(Props) # {} /\ FreshIn(Cmps) # {}
    /\ LET h == AllocCmp(startCmpr(heap, n, NewProp), NewCmp, NULL, NewProp)
       IN  Step(j, compareInto(h, NewCmp),
                [phase |-> "decoded", p |-> NewProp, c |-> NewCmp, sol |-> NULL],
                Dotted(n) \cup SharesName(j, n) \cup Orphans(heap.propTable[n])
                  \cup Orphans(heap.propTable[Stem[n]]))

Loaded(n, h, c) ==
    [phase |-> "loaded", p |-> h.propTable[n], c |-> c, sol |-> h.cmp[c].solution]
StoredTwice(n) == IF Unbound(heap, n) THEN {"stored_twice"} ELSE {}

RegisterVar(j, n) ==
    /\ Running /\ jobs[j].phase = "idle"
    /\ FreshIn(Props) # {} /\ FreshIn(Cmps) # {}
    /\ LET h == registerVar(heap, n, NewProp, NewCmp, asked)
       IN  Step(j, h, Loaded(n, h, registered(heap, n, NewCmp)),
                Dotted(n) \cup SharesName(j, n) \cup StoredTwice(n)
                  \cup IF FoundResult(heap, n) = NULL THEN {} ELSE SharesCase(j, SameCase[n]))

(* loadMultiVars on a list that names n once, or twice.  A name already    *)
(* stored ends it with ZC_NSCS: the results it made so far are dropped.    *)
LoadMultiVars(j, n) ==
    /\ Running /\ jobs[j].phase = "idle" /\ Unbound(heap, n)
    /\ FreshIn(Props) # {} /\ FreshIn(Cmps) # {}
    /\ LET h == constructOneVariable(heap, n, NewProp, NewCmp, asked)
       IN  \E job \in {Loaded(n, h, NewCmp), Idle} :
             Step(j, h, job, Dotted(n) \cup SharesName(j, n) \cup StoredTwice(n))

FreeProperty(j) ==
    /\ Running /\ jobs[j].phase \in {"analyzed", "decoded", "loaded"}
    /\ jobs[j].p # NULL
    /\ Step(j, FreeDataProperty(heap, jobs[j].p), [jobs[j] EXCEPT !.p = NULL],
            Orphans(jobs[j].p))

FreeResult(j) ==
    /\ Running /\ jobs[j].phase \in {"decoded", "loaded"} /\ jobs[j].c # NULL
    /\ Step(j, FreeCompareResult(heap, jobs[j].c),
            [jobs[j] EXCEPT !.c = NULL, !.sol = NULL], {})

(* The application forgets the job's pointers and reuses its variables.    *)
Leave(j) ==
    /\ Running /\ jobs[j].phase \in {"analyzed", "decoded", "loaded"}
    /\ Step(j, heap, Idle, {})

(* ZC_compareData_overall reads every stored result and its property; with *)
(* none stored it ends the process.                                        *)
Stored == {heap.cmpTable[s] : s \in Cases} \ {NULL}
CompareDataOverall ==
    /\ Running /\ Stored # {}
    /\ heap' = IF \A c \in Stored : c \in heap.live /\ heap.cmp[c].property \in heap.live
               THEN heap ELSE [heap EXCEPT !.fault = "bad_read"]
    /\ UNCHANGED <<jobs, up, cfgFile, asked, misuse>>

(* ZC_Finalize frees the configuration path and what the tables hold.      *)
Finalize ==
    /\ Running
    /\ LET owned == ({heap.propTable[n] : n \in Names}
                     \cup {heap.cmpTable[s] : s \in Cases}) \ {NULL}
       IN  heap' = [heap EXCEPT
               !.fault = IF owned \subseteq heap.live /\ cfgFile # "freed"
                         THEN "none" ELSE "bad_free",
               !.live = @ \ owned,
               !.prop = [p \in Props |-> IF p \in owned THEN AnyName ELSE @[p]],
               !.parts = [p \in Props |-> IF p \in owned THEN {} ELSE @[p]],
               !.lost = @ \cup (Unfreed \cap UNION {heap.parts[p] : p \in owned \cap Props}),
               !.cmp = [c \in Cmps |-> IF c \in owned THEN Blank ELSE @[c]],
               !.propTable = [n \in Names |-> NULL],
               !.cmpTable = [s \in Cases |-> NULL]]
    /\ jobs' = [j \in Jobs |-> Idle]
    /\ up' = FALSE
    /\ cfgFile' = IF cfgFile = "NULL" THEN "NULL" ELSE "freed"
    /\ UNCHANGED <<asked, misuse>>

(* ZC_Init keeps the path of its configuration file and reads the flags;   *)
(* ZC_Init_NULL leaves both, also the pointer that ZC_Finalize freed.      *)
ZC_Init ==
    /\ ~ up /\ Sound
    /\ up' = TRUE /\ cfgFile' = "block" /\ asked' \in FlagSets
    /\ UNCHANGED <<heap, jobs, misuse>>
ZC_Init_NULL ==
    /\ ~ up /\ Sound
    /\ up' = TRUE
    /\ misuse' = IF cfgFile = "freed" THEN misuse \cup {"Init_NULL_after_Init"} ELSE misuse
    /\ UNCHANGED <<heap, jobs, cfgFile, asked>>

Init ==
    /\ heap = [prop |-> [p \in Props |-> AnyName],
               parts |-> [p \in Props |-> {}],
               cmp |-> [c \in Cmps |-> Blank],
               live |-> {},
               propTable |-> [n \in Names |-> NULL],
               cmpTable |-> [s \in Cases |-> NULL],
               lost |-> {}, fault |-> "none"]
    /\ jobs = [j \in Jobs |-> Idle]
    /\ up = FALSE /\ cfgFile = "NULL" /\ asked = {"autocorr"} /\ misuse = {}

Next ==
    \/ ZC_Init \/ ZC_Init_NULL \/ Finalize \/ CompareDataOverall
    \/ \E j \in Jobs :
        \/ \E n \in Names : \/ StartCmpr(j, n) \/ GenProperties(j, n)
                            \/ CompareData(j, n) \/ RegisterVar(j, n)
                            \/ LoadMultiVars(j, n)
        \/ \E s \in Cases : EndCmpr(j, s)
        \/ EndDec(j) \/ FreeProperty(j) \/ FreeResult(j) \/ Leave(j)

Spec == Init /\ [][Next]_vars

----------------------------------------------------------------------------
TypeOK ==
    /\ heap \in Heap
    /\ jobs \in [Jobs -> Job]
    /\ up \in BOOLEAN
    /\ cfgFile \in {"NULL", "block", "freed"}
    /\ asked \in FlagSets \cup {{"autocorr"}}
    /\ misuse \subseteq {"dotted", "overlap", "orphaned", "stored_twice",
                         "Init_NULL_after_Init"}

(* No order of rounds, frees, comparisons and sessions makes the library   *)
(* touch or free a block twice, unless the application did one of the      *)
(* things the tables do not support; that it freed the property of a       *)
(* stored result only matters to ZC_compareData_overall.                   *)
Safe ==
    /\ TypeOK
    /\ heap.fault # "none" =>
         \/ misuse \ {"orphaned"} # {}
         \/ "orphaned" \in misuse /\ up /\ heap.fault = "bad_read"

(* After ZC_Finalize, in any session, no block the tables held is left:    *)
(* what remains are results ZC_compareData returned, which                 *)
(* freeCompareResult leaves alone.  Of the parts of a block it loses, in   *)
(* all sessions together, only the arrays a record had when it was         *)
(* compared again, and gradLen and the slice images where a configuration  *)
(* asked for them: names and the other arrays were all freed.              *)
NoLeak ==
    ~ up /\ misuse \subseteq {"orphaned"} =>
        /\ \A b \in heap.live : b \in Cmps /\ heap.cmp[b].solution = NULL
        /\ heap.lost \subseteq {"metrics"} \cup (Unfreed \cap UNION FlagSets)

(* The results of two open rounds are not mixed up: while a round holds    *)
(* its property and its result, the result is the one stored for its case, *)
(* describes its property, and is found again under its own name when it   *)
(* is freed.                                                               *)
Association ==
    misuse \subseteq {"orphaned"} =>
        \A j \in Jobs :
            jobs[j].phase \in {"compressed", "decoded"} /\ jobs[j].p # NULL
                /\ jobs[j].c # NULL /\ jobs[j].sol # NULL =>
            LET r == heap.cmp[jobs[j].c]
            IN  /\ heap.cmpTable[jobs[j].sol] = jobs[j].c
                /\ r.property = jobs[j].p /\ r.solution = jobs[j].sol
                /\ heap.propTable[heap.prop[jobs[j].p]] = jobs[j].p

(* examples/analyzeDataProperty_multivars.c:35 reads the property of each  *)
(* variable loadMultiVars returned.                                        *)
LoadedUsable ==
    \A j \in Jobs : jobs[j].phase = "loaded" /\ jobs[j].p # NULL =>
        jobs[j].p \in heap.live
=============================================================================
