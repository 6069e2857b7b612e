----------------------------- MODULE MPIOnline -----------------------------
(***************************************************************************)
(* The online interface of Z-checker: an MPI program whose ranks all make  *)
(* the same sequence of library calls, each on its own part of a variable. *)
(* A call is a fixed list of stages, most of them a collective operation   *)
(* (zc/src/zc.c 2723-2858, ZC_genBasicProperties_*_online,                 *)
(* ZC_genProperties_*_online, ZC_compareData_*_online).  Flags and data    *)
(* decide which stages a rank passes over, and each rank decides for       *)
(* itself: what is checked is that they agree, that the statistics are     *)
(* those of the whole variable, and that no rank waits for ever.           *)
(*                                                                         *)
(* Numbers are integers and exact.  Of the reductions on the root whose    *)
(* result no later step reads (entropy, correlations, ssim), only the      *)
(* communication is modelled.                                              *)
(***************************************************************************)
EXTENDS Integers, Sequences, FiniteSets, FiniteSetsExt, Functions

CONSTANTS
    N,              \* nbProc
    Vars, Solutions,
    Programs,       \* the calls the application may make, in order
    Parts,          \* Vars -> Ranks -> sequence of elements: possible data
    FlagSets,       \* sets of flags the configuration may set
    PDF_INTERVALS,
    AUTOCORR_SIZE,  \* lags of an autocorrelation
    Fits,           \* Vars -> Ranks -> whether the windows of the ssim do
    Unit            \* relative errors are counted in 1/Unit

Ranks == 0 .. N - 1

(* "round": ZC_startCmpr, ZC_endCmpr, ZC_startDec and ZC_endDec in a row;  *)
(* "compare": ZC_compareData; "properties": ZC_genProperties; "length":    *)
(* ZC_computeDataLength_online.                                            *)
Call == [kind : {"round", "compare", "properties", "length"},
         var : Vars, solution : Solutions]

ASSUME SizeAssumption == N \in Nat \ {0} /\ PDF_INTERVALS \in Nat \ {0} /\ Unit \in Nat \ {0}
ASSUME KernelAssumption == AUTOCORR_SIZE \in Nat /\ Fits \in [Vars -> [Ranks -> BOOLEAN]]
ASSUME ProgramAssumption == \A p \in Programs : p \in Seq(Call)
ASSUME DataAssumption ==
    \A d \in Parts : \A v \in Vars : \A r \in Ranks :
        /\ d[v][r] \in Seq([ori : Int, dec : Int]) /\ d[v][r] # <<>>
        /\ \A n \in 1 .. Len(d[v][r]) :
            LET o == d[v][r][n].ori IN o # 0 => \E u \in -Unit .. Unit : u * o = Unit

VARIABLES
    program, data, flags,   \* chosen once, the same on every rank
    call,       \* index in program of the call a rank is in
    at,         \* its stage: index in Stages
    sent,       \* sequence of collectives a rank has entered
    waits,      \* it has not left the last of them
    globalDataLength,
    property,   \* basic statistics of the variable, on each rank
    result,     \* statistics of the comparison, on each rank
    stored,     \* ecCompareDataTable: solution -> record or NULL
    returned,   \* the records ZC_endCmpr returned, for each call
    fault

vars == <<program, data, flags, call, at, sent, waits, globalDataLength, property,
          result, stored, returned, fault>>

----------------------------------------------------------------------------
Stages == <<
    "begin",
    "len", "min", "max", "sum", "square",           \* ZC_genBasicProperties_online
    "entropy", "dataVar", "dataCov",                \* ZC_genProperties_online
    "cmprStart", "cmprEnd", "size", "record",       \* start and end of compression
    "decStart", "decEnd",                           \* and of decompression
    "cmpLen", "errSum", "errMax", "errMin", "errCount",     \* ZC_compareData_online
    "absErrPDF", "pwrErrPDF", "errVar", "errCov", "pearson", "valErrCorr", "ssim",
    "write" >>

At == [s \in Range(Stages) |-> CHOOSE n \in 1 .. Len(Stages) : Stages[n] = s]

Local == {"begin", "record", "write"}
Barriers == {"cmprStart", "cmprEnd", "decStart", "decEnd"}
Reduces == {"entropy", "dataVar", "dataCov", "absErrPDF", "pwrErrPDF", "errVar",
            "errCov", "pearson", "valErrCorr", "ssim"}

Comparison == {"cmpLen", "errSum", "errMax", "errMin", "errCount"}
                \cup (Reduces \ {"entropy", "dataVar", "dataCov"})

(* The stages of a call, by its kind. *)
InCall(kind, s) ==
    \/ s \in {"begin", "len"}
    \/ kind # "length" /\ s \in {"min", "max", "sum", "square"}
    \/ kind = "properties" /\ s \in {"entropy", "dataVar", "dataCov"}
    \/ kind \in {"round", "compare"} /\ s \in Comparison \cup {"cmprStart"}
    \/ kind = "round" /\ s \in {"cmprEnd", "size", "record", "decStart", "decEnd", "write"}

(* Of these, the ones under a flag. *)
FlagOf == [cmprStart |-> "compressTime", cmprEnd |-> "compressTime",
           decStart |-> "decompressTime", decEnd |-> "decompressTime",
           size |-> "compressSize", entropy |-> "entropy",
           dataVar |-> "autocorr", dataCov |-> "autocorr",
           absErrPDF |-> "absErrPDF", pwrErrPDF |-> "pwrErrPDF",
           errVar |-> "errAutoCorr", errCov |-> "errAutoCorr",
           pearson |-> "pearsonCorr", valErrCorr |-> "valErrCorr",
           ssim |-> "SSIMIMAGE2D"]

(* The stages planned for each kind of call and setting of the flags. *)
Plan == [kind \in {"round", "compare", "properties", "length"} |-> [on \in FlagSets |->
    {n \in 1 .. Len(Stages) :
        /\ InCall(kind, Stages[n])
        /\ Stages[n] \in DOMAIN FlagOf => FlagOf[Stages[n]] \in on}]]

Current(r) == program[call[r]]
Stage(r) == Stages[at[r]]

(* Mutant of Skipped: the range of the rank's own errors is tested.        *)
Skipped_OwnRange(r) ==
    LET s == Stage(r)
        mine == data[Current(r).var][r]
    IN  \/ s = "len" /\ Current(r).kind # "length" /\ globalDataLength[r] > 0
        \/ s = "cmpLen" /\ globalDataLength[r] > 0
        \/ s = "absErrPDF" /\ \A n \in 1 .. Len(mine) :
                mine[n].dec - mine[n].ori = mine[1].dec - mine[1].ori
        \/ s = "pwrErrPDF" /\ result[r].maxRel = result[r].minRel

(* Mutant of Skipped: only the root, which writes it, makes the            *)
(* distribution.                                                           *)
Skipped_RootOnly(r) ==
    LET s == Stage(r)
    IN  \/ s = "len" /\ Current(r).kind # "length" /\ globalDataLength[r] > 0
        \/ s = "cmpLen" /\ globalDataLength[r] > 0
        \/ s = "absErrPDF" /\ (r # 0 \/ result[r].maxDiff = result[r].minDiff)
        \/ s = "pwrErrPDF" /\ result[r].maxRel = result[r].minRel

(* Where a rank passes over a planned stage: a length that is known is not *)
(* asked for again, and a constant error has no distribution.              *)
Skipped(r) ==
    LET s == Stage(r)
    IN  \/ s = "len" /\ Current(r).kind # "length" /\ globalDataLength[r] > 0
        \/ s = "cmpLen" /\ globalDataLength[r] > 0
        \/ s = "absErrPDF" /\ result[r].maxDiff = result[r].minDiff
        \/ s = "pwrErrPDF" /\ result[r].maxRel = result[r].minRel

(* Where a rank reads outside its part before it enters the collective:    *)
(* the loop of a lag goes to numOfElem - delta, which wraps when the part  *)
(* has fewer elements, and windows may exceed the image (see ImageSSIM).   *)
Overruns(r) ==
    LET v == Current(r).var
    IN  \/ Stage(r) \in {"dataVar", "errVar"} /\ Len(data[v][r]) < AUTOCORR_SIZE
        \/ Stage(r) = "ssim" /\ ~ Fits[v][r]

----------------------------------------------------------------------------
(* What the ranks compute on their parts.                                  *)
Idx(part) == 1 .. Len(part)
Total(f) == FoldFunction(+, 0, f)
Ori(part) == [n \in Idx(part) |-> part[n].ori]
Diff(part) == [n \in Idx(part) |-> part[n].dec - part[n].ori]

(* diff / ori in units: exact, because what is not 0 divides Unit. *)
Rel(part) ==
    [n \in {m \in Idx(part) : part[m].ori # 0} |->
        (part[n].dec - part[n].ori) * (CHOOSE u \in -Unit .. Unit : u * part[n].ori = Unit)]

(* minDiff_rel starts at 1E100 and maxDiff_rel at -1E100. *)
BIG == 1000000

(* Mutant of Square: the range is the rank's own. *)
Square_OwnRange(part, min, max) ==
    LET mid == Min(Range(Ori(part))) + Max(Range(Ori(part)))
    IN  Total([n \in Idx(part) |-> (2 * part[n].ori - mid) * (2 * part[n].ori - mid)])

(* Squared distances from the middle of the range, in quarters. *)
Square(part, min, max) ==
    Total([n \in Idx(part) |-> (2 * part[n].ori - (min + max)) * (2 * part[n].ori - (min + max))])

SquaredError(part) == Total([n \in Idx(part) |-> Diff(part)[n] * Diff(part)[n]])

(* Mutant of Bin: the greatest difference has a bin of its own.            *)
Bin_NoLast(d, min, max) == ((d - min) * PDF_INTERVALS) \div (max - min)

(* The bin of a difference: the last one for the greatest. *)
Bin(d, min, max) ==
    LET b == ((d - min) * PDF_INTERVALS) \div (max - min)
    IN  IF b = PDF_INTERVALS THEN PDF_INTERVALS - 1 ELSE b

Histogram(part, min, max) ==
    [b \in 0 .. PDF_INTERVALS - 1 |->
        Cardinality({n \in Idx(part) : Bin(Diff(part)[n], min, max) = b})]

(* The send buffer of rank r at stage s. *)
Contribution(r, s) ==
    LET mine == data[Current(r).var][r]
    IN  CASE s \in {"len", "cmpLen"} -> Len(mine)
          [] s = "min" -> Min(Range(Ori(mine)))
          [] s = "max" -> Max(Range(Ori(mine)))
          [] s = "sum" -> Total(Ori(mine))
          [] s = "square" -> Square(mine, property[r].min, property[r].max)
          [] s = "errSum" -> SquaredError(mine)
          [] s = "errMax" -> [diff |-> Max(Range(Diff(mine))),
                              rel |-> Max(Range(Rel(mine)) \cup {-BIG})]
          [] s = "errMin" -> [diff |-> Min(Range(Diff(mine))),
                              rel |-> Min(Range(Rel(mine)) \cup {BIG})]
          [] s = "absErrPDF" -> Histogram(mine, result[r].minDiff, result[r].maxDiff)
          [] OTHER -> 0

(* What it makes of the receive buffer v, for the property and the result. *)
Basic(p, s, v) ==
    CASE s = "len" -> [p EXCEPT !.numOfElem = Total(v)]
      [] s = "min" -> [p EXCEPT !.min = Min(Range(v))]
      [] s = "max" -> [p EXCEPT !.max = Max(Range(v))]
      [] s \in {"sum", "square"} -> [p EXCEPT ![s] = Total(v)]
      [] OTHER -> p

Compared(r, s, v) ==
    LET c == result[r]
        of(field) == [q \in Ranks |-> v[q][field]]
    IN  CASE s = "errSum" -> [c EXCEPT !.errSum = Total(v)]
          [] s = "errMax" -> [c EXCEPT !.maxDiff = Max(Range(of("diff"))),
                                       !.maxRel = Max(Range(of("rel")))]
          [] s = "errMin" -> [c EXCEPT !.minDiff = Min(Range(of("diff"))),
                                       !.minRel = Min(Range(of("rel")))]
          [] s = "absErrPDF" /\ r = 0 ->
                [c EXCEPT !.pdf = [b \in 0 .. PDF_INTERVALS - 1 |-> Total(of(b))]]
          [] OTHER -> c

----------------------------------------------------------------------------
NoProperty == [numOfElem |-> 0, min |-> 0, max |-> 0, sum |-> 0, square |-> 0]
NoResult == [errSum |-> 0, minDiff |-> 0, maxDiff |-> 0, minRel |-> 0, maxRel |-> 0,
             pdf |-> <<>>]

Init ==
    /\ program \in Programs /\ data \in Parts /\ flags \in FlagSets
    /\ call = [r \in Ranks |-> 1] /\ at = [r \in Ranks |-> 1]
    /\ sent = [r \in Ranks |-> <<>>] /\ waits = [r \in Ranks |-> FALSE]
    /\ globalDataLength = [r \in Ranks |-> 0]
    /\ property = [r \in Ranks |-> NoProperty]
    /\ result = [r \in Ranks |-> NoResult]
    /\ stored = [r \in Ranks |-> [s \in {} |-> 0]]
    /\ returned = [r \in Ranks |-> [n \in 1 .. Len(program) |-> 0]]
    /\ fault = "none"

chosen == <<program, data, flags>>
net == <<sent, waits>>

Running(r) == call[r] <= Len(program) /\ fault = "none"

(* The stages still planned in the call. *)
Rest(r) == {n \in Plan[Current(r).kind][flags] : n > at[r]}

(* To the next stage, or the next call. *)
Advance(r) ==
    IF Rest(r) # {}
    THEN at' = [at EXCEPT ![r] = Min(Rest(r))] /\ UNCHANGED call
    ELSE at' = [at EXCEPT ![r] = 1] /\ call' = [call EXCEPT ![r] = @ + 1]

(* A new property; ZC_compareData has a new result too. *)
Begin(r) ==
    /\ Running(r) /\ Stage(r) = "begin"
    /\ property' = IF Current(r).kind = "length" THEN property
                   ELSE [property EXCEPT ![r] = NoProperty]
    /\ result' = IF Current(r).kind = "compare" THEN [result EXCEPT ![r] = NoResult] ELSE result
    /\ Advance(r)
    /\ UNCHANGED <<chosen, net, globalDataLength, stored, returned, fault>>

(* No collective at this stage.  Of a known length the property has a copy. *)
Pass(r) ==
    /\ Running(r) /\ ~ waits[r] /\ Skipped(r)
    /\ property' = IF Stage(r) = "len"
                   THEN [property EXCEPT ![r].numOfElem = globalDataLength[r]] ELSE property
    /\ Advance(r)
    /\ UNCHANGED <<chosen, net, globalDataLength, result, stored, returned, fault>>

Enter(r) ==
    /\ Running(r) /\ ~ waits[r] /\ ~ Skipped(r) /\ Stage(r) \notin Local
    /\ ~ Overruns(r)
    /\ sent' = [sent EXCEPT ![r] = Append(@, [call |-> call[r], stage |-> Stage(r),
                                              value |-> Contribution(r, Stage(r))])]
    /\ waits' = [waits EXCEPT ![r] = TRUE]
    /\ UNCHANGED <<chosen, call, at, globalDataLength, property, result, stored,
                   returned, fault>>

(* One rank that is killed takes the others with it. *)
Overrun(r) ==
    /\ Running(r) /\ ~ waits[r] /\ Overruns(r)
    /\ fault' = "overrun"
    /\ UNCHANGED <<chosen, net, call, at, globalDataLength, property, result, stored,
                   returned>>

(* MPI: the n-th collective of a rank meets the n-th of the others, which  *)
(* must be the same operation.  A rank that only sends to the root may go  *)
(* on at once.                                                             *)
Complete(r) ==
    LET n == Len(sent[r])
    IN  \/ Stage(r) \in Reduces /\ r # 0
        \/ \A q \in Ranks : Len(sent[q]) >= n /\ sent[q][n].stage = Stage(r)

Leave(r) ==
    /\ Running(r) /\ waits[r] /\ Complete(r)
    /\ LET s == Stage(r)
           v == [q \in Ranks |-> sent[q][Len(sent[r])].value]
       IN  /\ globalDataLength' = IF s \in {"len", "cmpLen"}
                                  THEN [globalDataLength EXCEPT ![r] = Total(v)]
                                  ELSE globalDataLength
           /\ property' = IF Current(r).kind = "length" THEN property
                          ELSE [property EXCEPT ![r] = Basic(@, s, v)]
           /\ result' = [result EXCEPT ![r] = Compared(r, s, v)]
    /\ waits' = [waits EXCEPT ![r] = FALSE]
    /\ Advance(r)
    /\ UNCHANGED <<chosen, sent, stored, returned, fault>>

(* The end of ZC_endCmpr_online.  A record is named by the call that       *)
(* allocated it, NULL is 0; what the table gets is zcc, which is NULL.     *)
EndCmpr(r) ==
    /\ Running(r) /\ Stage(r) = "record"
    /\ LET sol == Current(r).solution
           zcc == IF sol \in DOMAIN stored[r] THEN stored[r][sol] ELSE 0
       IN  IF zcc = 0
           THEN /\ stored' = [stored EXCEPT ![r] =
                        [k \in DOMAIN stored[r] \cup {sol} |->
                            IF k = sol THEN zcc ELSE stored[r][k]]]
                /\ returned' = [returned EXCEPT ![r][call[r]] = call[r]]
                /\ result' = [result EXCEPT ![r] = NoResult]
           ELSE /\ returned' = [returned EXCEPT ![r][call[r]] = zcc]
                /\ UNCHANGED <<stored, result>>
    /\ Advance(r)
    /\ UNCHANGED <<chosen, net, globalDataLength, property, fault>>

(* The end of ZC_endDec_online: the root writes the result.  Of relative    *)
(* errors, it reads the distribution, which ZC_compareData_*_online freed, *)
(* or for a constant error copies a line to a pointer that is not set.     *)
EndDec(r) ==
    /\ Running(r) /\ Stage(r) = "write"
    /\ fault' = IF r # 0 \/ "pwrErrPDF" \notin flags THEN fault
                ELSE IF result[r].maxRel # result[r].minRel THEN "freed_read" ELSE "wild_write"
    /\ Advance(r)
    /\ UNCHANGED <<chosen, net, globalDataLength, property, result, stored, returned>>

Step(r) ==
    \/ Begin(r) \/ Pass(r) \/ Enter(r) \/ Overrun(r) \/ Leave(r)
    \/ EndCmpr(r) \/ EndDec(r)

Next == \E r \in Ranks : Step(r)

(* Each rank is a process, which the operating system and MPI let proceed. *)
Spec == Init /\ [][Next]_vars /\ \A r \in Ranks : WF_vars(Step(r))

----------------------------------------------------------------------------
TypeOK ==
    /\ program \in Programs /\ data \in Parts /\ flags \in FlagSets
    /\ call \in [Ranks -> 1 .. Len(program) + 1]
    /\ at \in [Ranks -> 1 .. Len(Stages)]
    /\ waits \in [Ranks -> BOOLEAN]
    /\ DOMAIN globalDataLength = Ranks
    /\ DOMAIN property = Ranks /\ DOMAIN result = Ranks
    /\ \A r \in Ranks :
        /\ DOMAIN sent[r] = 1 .. Len(sent[r])
        /\ DOMAIN stored[r] \subseteq Solutions
        /\ returned[r] \in [1 .. Len(program) -> 0 .. Len(program)]
    /\ fault \in {"none", "freed_read", "wild_write", "overrun"}

(* Although each rank decides from its own flags, length and error range   *)
(* which collectives it takes part in, the n-th collective of every rank   *)
(* is the same stage of the same call.                                     *)
Matched ==
    /\ TypeOK
    /\ \A q, r \in Ranks : \A n \in 1 .. Len(sent[q]) :
         n <= Len(sent[r]) => /\ sent[q][n].call = sent[r][n].call
                              /\ sent[q][n].stage = sent[r][n].stage

(* No rank waits for a collective that another has passed over or that it  *)
(* never comes to: until all are at the end, or the process was killed,    *)
(* some rank can go on.                                                    *)
SomeGoesOn ==
    fault = "none" =>
        \/ \A r \in Ranks : call[r] > Len(program)
        \/ \E r \in Ranks : Running(r) /\ (waits[r] => Complete(r))

(* The elements of a variable on all ranks. *)
Items(v) == UNION {{<<r, n>> : n \in Idx(data[v][r])} : r \in Ranks}
OriAt(v) == [i \in Items(v) |-> data[v][i[1]][i[2]].ori]
DiffAt(v) == [i \in Items(v) |-> data[v][i[1]][i[2]].dec - data[v][i[1]][i[2]].ori]

(* The variable whose length the ranks know in the n-th call: of the last  *)
(* ZC_computeDataLength_online, else of the first call.                    *)
Measured(n) == program[Max({1} \cup {m \in 1 .. n : program[m].kind = "length"})].var

Past(r, s) == call[r] <= Len(program) /\ at[r] > At[s]

(* What every rank holds after ZC_genBasicProperties_*_online is computed  *)
(* from the whole variable, as one process with all the data would: the    *)
(* least, the greatest, the sum and the squared distances from the middle. *)
(* numOfElem is right if the variable measured last was as long.           *)
StatisticsExact ==
    \A r \in Ranks : Past(r, "square") /\ Current(r).kind # "length" =>
        LET v == Current(r).var
            ori == OriAt(v)
            size == Cardinality(Items(v))
            lo == Min(Range(ori))
            hi == Max(Range(ori))
            dist == [i \in DOMAIN ori |-> 2 * ori[i] - (lo + hi)]
        IN  /\ property[r].min = lo /\ property[r].max = hi
            /\ property[r].sum = Total(ori)
            /\ property[r].square = Total([i \in DOMAIN ori |-> dist[i] * dist[i]])
            /\ Cardinality(Items(Measured(call[r]))) = size => property[r].numOfElem = size

(* After ZC_compareData_*_online every rank holds the error of the whole   *)
(* variable, and the distribution on the root counts every element of      *)
(* every rank once, in the bin of its difference.                          *)
ErrorsExact ==
    \A r \in Ranks : Past(r, "absErrPDF") /\ Current(r).kind \in {"round", "compare"} =>
        LET diff == DiffAt(Current(r).var)
            items == DOMAIN diff
            lo == Min(Range(diff))
            hi == Max(Range(diff))
            reaches(b, i) == b * (hi - lo) <= (diff[i] - lo) * PDF_INTERVALS
        IN  /\ result[r].minDiff = lo /\ result[r].maxDiff = hi
            /\ result[r].errSum = Total([i \in items |-> diff[i] * diff[i]])
            /\ r = 0 /\ "absErrPDF" \in flags /\ lo # hi =>
                \A b \in 0 .. PDF_INTERVALS - 1 :
                    result[r].pdf[b] =
                        Cardinality({i \in items :
                            /\ reaches(b, i)
                            /\ b < PDF_INTERVALS - 1 => ~ reaches(b + 1, i)})

(* The parts are as long as the lags a call goes through, and its images   *)
(* as large as the windows.                                                *)
LargeEnough ==
    \A n \in 1 .. Len(program) : \A r \in Ranks :
        LET c == program[n]
            planned == {Stages[k] : k \in Plan[c.kind][flags]}
        IN  /\ {"dataVar", "errVar"} \cap planned # {} =>
                   Len(data[c.var][r]) >= AUTOCORR_SIZE
            /\ "ssim" \in planned => Fits[c.var][r]

(* All ranks come to the end of the program if every part has at least     *)
(* AUTOCORR_SIZE elements and large enough images, for the calls that      *)
(* need them; if not, some rank reads outside its part, whatever the       *)
(* others do.  The distribution of relative errors, which EndDec cannot    *)
(* write, is excepted.                                                     *)
Completes ==
    "pwrErrPDF" \notin flags =>
        IF LargeEnough THEN <>(\A r \in Ranks : call[r] > Len(program))
        ELSE <>(fault = "overrun")
=============================================================================
