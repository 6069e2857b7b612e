-------------------------- MODULE MPIOnline_proofs --------------------------
(***************************************************************************)
(* For any number of ranks, any programs and any data: the collectives of  *)
(* the ranks match, no rank waits for one that has gone past it, and the   *)
(* statistics that a rank holds are those of the whole variable.           *)
(*                                                                         *)
(* No two ranks need be in the same place, so the argument is about what a *)
(* rank has behind it: each collective stage there was entered, or was     *)
(* passed over for a reason that the collectives before it already show.   *)
(* Ranks with the same collectives behind them have the same reasons.      *)
(*                                                                         *)
(* Of the values, it is about what a rank sends: that is computed from its *)
(* own part, and from results that are those of the whole already.  Each   *)
(* reduction of such values is the statistic of the whole, because a sum   *)
(* over parts that do not overlap is the sum over their union.             *)
(***************************************************************************)
EXTENDS MPIOnline, SequenceTheorems, FiniteSetTheorems, WellFoundedInduction, TLAPS

----------------------------------------------------------------------------
(* Places in the program, and the collectives a rank has entered.          *)
Index == 1 .. Len(Stages)
Place(c, i) == 28 * c + i
Planned(c, i) == c \in 1 .. Len(program) /\ i \in Plan[program[c].kind][flags]
Collective(c, i) == Planned(c, i) /\ Stages[i] \notin Local
Here(r) == Place(call[r], at[r])

Entered(r) == 1 .. Len(sent[r])
Left(r) == {n \in Entered(r) : waits[r] => n < Len(sent[r])}
Spot(r, n) == Place(sent[r][n].call, At[sent[r][n].stage])
Before(r, p) == {n \in Entered(r) : Spot(r, n) < p}
Is(r, n, c, s) == sent[r][n].call = c /\ sent[r][n].stage = s
IsLen(r, n) == sent[r][n].stage \in {"len", "cmpLen"}

(* What the n-th collective told all ranks. *)
Answer(n) == [q \in Ranks |-> sent[q][n].value]
Field(n, f) == [q \in Ranks |-> Answer(n)[q][f]]

(* What a rank knows of its collectives with an index in S: that the last  *)
(* length was not 0, and that the errors in call c are all the same.       *)
Known(r, S) ==
    \E m \in S : /\ IsLen(r, m) /\ Total(Answer(m)) > 0
                 /\ \A k \in S : IsLen(r, k) => k <= m
Constant(r, S, c, f) ==
    \E m, n \in S : /\ Is(r, m, c, "errMax") /\ Is(r, n, c, "errMin")
                    /\ Max(Range(Field(m, f))) = Min(Range(Field(n, f)))

(* Skipped(r) at a place, as far as these collectives decide it. *)
SkipIn(r, S, c, i) ==
    \/ Stages[i] = "len" /\ program[c].kind # "length" /\ Known(r, S)
    \/ Stages[i] = "cmpLen" /\ Known(r, S)
    \/ Stages[i] = "absErrPDF" /\ Constant(r, S, c, "diff")
    \/ Stages[i] = "pwrErrPDF" /\ Constant(r, S, c, "rel")

----------------------------------------------------------------------------
(* The inductive invariant.                                                *)
Shape ==
    /\ TypeOK /\ DOMAIN sent = Ranks
    /\ \A r \in Ranks :
        /\ \E S : sent[r] \in Seq(S)
        /\ DOMAIN result[r] = DOMAIN NoResult
        /\ \A k \in DOMAIN stored[r] : stored[r][k] = 0

OnPlan == \A r \in Ranks : call[r] <= Len(program) => Planned(call[r], at[r])

(* A rank enters collectives in the order of the program, and waits in the *)
(* last one. *)
Order ==
    \A r \in Ranks :
        /\ waits[r] => call[r] <= Len(program) /\ Len(sent[r]) > 0
        /\ \A n \in Entered(r) :
            /\ sent[r][n].stage \in Range(Stages)
            /\ Collective(sent[r][n].call, At[sent[r][n].stage])
            /\ IF n \in Left(r) THEN Spot(r, n) < Here(r) ELSE Is(r, n, call[r], Stage(r))
            /\ \A m \in Entered(r) : m < n => Spot(r, m) < Spot(r, n)

(* A collective stage behind a rank was entered or passed over, ...        *)
Tally ==
    \A r \in Ranks : \A c \in 1 .. Len(program) : \A i \in Index :
        Collective(c, i) /\ Place(c, i) < Here(r) =>
            \/ \E n \in Entered(r) : Spot(r, n) = Place(c, i)
            \/ SkipIn(r, Before(r, Place(c, i)), c, i)

(* ... and not both. *)
Unskipped ==
    \A r \in Ranks : \A n \in Entered(r) :
        ~ SkipIn(r, 1 .. n - 1, sent[r][n].call, At[sent[r][n].stage])

(* What a rank has left, all ranks have entered. *)
AllIn ==
    \A r \in Ranks : \A n \in Left(r) :
        sent[r][n].stage \notin Reduces => \A q \in Ranks : Len(sent[q]) >= n

(* The variables of Skipped hold what the collectives told. *)
LengthTold == \A r \in Ranks : globalDataLength[r] > 0 <=> Known(r, Left(r))

ErrorsTold ==
    \A r \in Ranks : call[r] <= Len(program) /\ Current(r).kind \in {"round", "compare"} =>
        /\ at[r] > At["errMax"] =>
            \E m \in Left(r) : /\ Is(r, m, call[r], "errMax")
                               /\ result[r].maxDiff = Max(Range(Field(m, "diff")))
                               /\ result[r].maxRel = Max(Range(Field(m, "rel")))
        /\ at[r] > At["errMin"] =>
            \E m \in Left(r) : /\ Is(r, m, call[r], "errMin")
                               /\ result[r].minDiff = Min(Range(Field(m, "diff")))
                               /\ result[r].minRel = Min(Range(Field(m, "rel")))

IInv == /\ Shape /\ OnPlan /\ Order /\ Tally /\ Unskipped /\ AllIn
        /\ LengthTold /\ ErrorsTold /\ Matched

----------------------------------------------------------------------------
(* Least elements.                                                         *)
LEMMA LeastNatural ==
    ASSUME NEW T \in SUBSET Nat, T # {}
    PROVE  \E x \in T : \A y \in T : x <= y
<1> DEFINE R == OpToRel(<, Nat)
<1>1. IsWellFoundedOn(R, Nat)
  BY NatLessThanWellFounded
<1>2. \A x, y \in Nat : y < x => <<y, x>> \in R
  BY DEF OpToRel
<1> HIDE DEF R
<1>3. \E x \in T : \A y \in T : ~ (<<y, x>> \in R)
  BY <1>1, WFMin
<1>4. \A x, y \in T : ~ (<<y, x>> \in R) => x <= y
  BY <1>2
<1> QED
  BY <1>3, <1>4, Zenon

LEMMA MinOfNaturals ==
    ASSUME NEW T \in SUBSET Nat, T # {}
    PROVE  Min(T) \in T /\ \A y \in T : Min(T) <= y
BY LeastNatural DEF Min

----------------------------------------------------------------------------
(* The stages.                                                             *)
LEMMA StageNames ==
    /\ Len(Stages) = 28 /\ DOMAIN Stages = Index
    /\ \A i, j \in Index : Stages[i] = Stages[j] => i = j
<1>1. Len(Stages) = 28 /\ DOMAIN Stages = 1 .. 28
  BY DEF Stages
<1>2. \A i, j \in 1 .. 28 : Stages[i] = Stages[j] => i = j
  BY DEF Stages
<1> QED
  BY <1>1, <1>2 DEF Index

LEMMA StageAt ==
    /\ Index \subseteq Nat
    /\ \A i \in Index : Stages[i] \in Range(Stages) /\ At[Stages[i]] = i
    /\ \A s \in Range(Stages) : At[s] \in Index /\ Stages[At[s]] = s
<1> USE DEF Range
<1>1. \A s \in Range(Stages) : \E i \in Index : Stages[i] = s
  BY StageNames
<1>2. \A s \in Range(Stages) : At[s] = CHOOSE n \in Index : Stages[n] = s
  BY DEF At, Index
<1>3. \A s \in Range(Stages) : At[s] \in Index /\ Stages[At[s]] = s
  BY <1>1, <1>2
<1>4. \A i \in Index : Stages[i] \in Range(Stages)
  BY StageNames
<1>5. Index \subseteq Nat
  BY StageNames DEF Index
<1> QED
  BY <1>3, <1>4, <1>5, StageNames

LEMMA StageOrder ==
    /\ {"begin", "len", "record", "cmpLen", "errMax", "errMin", "absErrPDF", "pwrErrPDF",
        "write"} \subseteq Range(Stages)
    /\ Stages[1] = "begin" /\ 1 \in Index /\ \A i \in Index : 1 <= i
    /\ At["errMax"] < At["errMin"] /\ At["errMin"] < At["absErrPDF"]
    /\ At["errMin"] < At["pwrErrPDF"] /\ At["record"] < At["errMax"]
<1>1. /\ Stages[1] = "begin" /\ Stages[2] = "len" /\ Stages[13] = "record"
      /\ Stages[16] = "cmpLen" /\ Stages[18] = "errMax" /\ Stages[19] = "errMin"
      /\ Stages[21] = "absErrPDF" /\ Stages[22] = "pwrErrPDF" /\ Stages[28] = "write"
  BY DEF Stages
<1>2. \A i \in {1, 2, 13, 16, 18, 19, 21, 22, 28} : i \in Index
  BY StageNames DEF Index
<1>3. \A i \in Index : 1 <= i
  BY StageNames DEF Index
<1> QED
  BY <1>1, <1>2, <1>3, StageAt

(* Every call begins with "begin", a comparison has both errMax and errMin *)
(* and only a comparison has a distribution of errors. *)
LEMMA PlanFacts ==
    ASSUME NEW kind \in {"round", "compare", "properties", "length"}, flags \in FlagSets
    PROVE  /\ Plan[kind][flags] \subseteq Index
           /\ 1 \in Plan[kind][flags]
           /\ kind \in {"round", "compare"} =>
                At["errMax"] \in Plan[kind][flags] /\ At["errMin"] \in Plan[kind][flags]
           /\ \A i \in Plan[kind][flags] :
                Stages[i] \in {"absErrPDF", "pwrErrPDF"} => kind \in {"round", "compare"}
<1>1. Plan[kind][flags] =
        {n \in Index : /\ InCall(kind, Stages[n])
                       /\ Stages[n] \in DOMAIN FlagOf => FlagOf[Stages[n]] \in flags}
  BY DEF Plan, Index
<1>2. /\ "begin" \notin DOMAIN FlagOf /\ "errMax" \notin DOMAIN FlagOf
      /\ "errMin" \notin DOMAIN FlagOf
  BY DEF FlagOf
<1>3. InCall(kind, "begin")
  BY DEF InCall
<1>4. kind \in {"round", "compare"} => InCall(kind, "errMax") /\ InCall(kind, "errMin")
  BY DEF InCall, Comparison
<1>5. InCall(kind, "absErrPDF") \/ InCall(kind, "pwrErrPDF") => kind \in {"round", "compare"}
  BY DEF InCall
<1>6. At["errMax"] \in Index /\ At["errMin"] \in Index
      /\ Stages[At["errMax"]] = "errMax" /\ Stages[At["errMin"]] = "errMin"
  BY StageAt, StageOrder
<1> QED
  BY <1>1, <1>2, <1>3, <1>4, <1>5, <1>6, StageOrder

LEMMA ProgramFacts ==
    ASSUME program \in Programs
    PROVE  /\ Len(program) \in Nat
           /\ \A c \in 1 .. Len(program) :
                program[c].kind \in {"round", "compare", "properties", "length"}
<1>1. program \in Seq(Call)
  BY ProgramAssumption
<1>2. Len(program) \in Nat /\ \A c \in 1 .. Len(program) : program[c] \in Call
  BY <1>1, LenProperties, ElementOfSeq
<1> QED
  BY <1>2 DEF Call

(* A place stands for one stage of one call. *)
LEMMA PlaceIsOne ==
    ASSUME NEW c \in Nat, NEW d \in Nat, NEW i \in Index, NEW j \in Index
    PROVE  /\ Place(c, i) \in Nat
           /\ Place(c, i) = Place(d, j) => c = d /\ i = j
           /\ Place(c, i) < Place(d, j) <=> c < d \/ (c = d /\ i < j)
           /\ Place(c, i) <= Place(d, j) <=> c < d \/ (c = d /\ i <= j)
<1>1. i \in Nat /\ 1 <= i /\ i <= 28 /\ j \in Nat /\ 1 <= j /\ j <= 28
  BY StageNames DEF Index
<1> QED
  BY <1>1 DEF Place

(* Between a stage and the next on the plan, or the next call, there is    *)
(* no planned stage. *)
LEMMA NoneBetween ==
    ASSUME NEW P \in SUBSET Index, NEW c \in Nat, NEW i \in Index,
           NEW d \in Nat, NEW j \in Index, d = c => j \in P,
           NEW e \in Nat, NEW k \in Index,
           \/ e = c /\ k > i /\ \A n \in P : n > i => k <= n
           \/ e = c + 1 /\ k = 1 /\ \A n \in P : ~ (n > i)
    PROVE  /\ Place(c, i) < Place(e, k)
           /\ Place(d, j) < Place(e, k) => Place(d, j) <= Place(c, i)
<1>1. /\ i \in Nat /\ j \in Nat /\ k \in Nat /\ 1 <= i /\ 1 <= j
      /\ i <= 28 /\ j <= 28 /\ k <= 28
  BY StageAt, StageOrder, StageNames DEF Index
<1>2. CASE e = c /\ k > i /\ \A n \in P : n > i => k <= n
  <2>1. d = c /\ j > i => k <= j
    BY <1>2
  <2> QED
    BY <1>1, <1>2, <2>1 DEF Place
<1>3. CASE e = c + 1 /\ k = 1 /\ \A n \in P : ~ (n > i)
  <2>1. d = c => ~ (j > i)
    BY <1>3
  <2> QED
    BY <1>1, <1>3, <2>1 DEF Place
<1> QED
  BY <1>2, <1>3

(* Going to the next stage leaves no planned stage out. *)
LEMMA AdvanceFacts ==
    ASSUME TypeOK, OnPlan, NEW r \in Ranks, call[r] <= Len(program), Advance(r)
    PROVE  /\ call' \in [Ranks -> 1 .. Len(program) + 1] /\ at' \in [Ranks -> Index]
           /\ \A q \in Ranks : q # r => call'[q] = call[q] /\ at'[q] = at[q]
           /\ call'[r] <= Len(program) => Planned(call'[r], at'[r])
           /\ call'[r] = call[r] \/ at'[r] = 1
           /\ Here(r) < Place(call'[r], at'[r])
           /\ \A c \in 1 .. Len(program) : \A i \in Index :
                Planned(c, i) /\ Place(c, i) < Place(call'[r], at'[r]) => Place(c, i) <= Here(r)
<1>1. /\ Len(program) \in Nat /\ call \in [Ranks -> 1 .. Len(program) + 1]
      /\ at \in [Ranks -> Index] /\ flags \in FlagSets
      /\ \A c \in 1 .. Len(program) :
            program[c].kind \in {"round", "compare", "properties", "length"}
  BY ProgramFacts DEF TypeOK, Index
<1>2. /\ call[r] \in 1 .. Len(program) /\ at[r] \in Index /\ Planned(call[r], at[r])
      /\ Index \subseteq Nat
  BY <1>1, StageAt DEF OnPlan
<1> DEFINE P == Plan[program[call[r]].kind][flags]
           c0 == call[r]
           i0 == at[r]
<1>3. P \in SUBSET Index /\ Rest(r) = {n \in P : n > i0}
  BY <1>1, <1>2, PlanFacts DEF Rest, Current
<1>4. \A i : Planned(c0, i) <=> i \in P
  BY <1>2 DEF Planned
<1>5. Here(r) = Place(c0, i0)
  BY DEF Here
<1>6. c0 \in Nat /\ i0 \in Index
  BY <1>1, <1>2
<1>7. CASE Rest(r) # {}
  <2> DEFINE j == Min(Rest(r))
  <2>1. Rest(r) \in SUBSET Nat
    BY <1>2, <1>3
  <2>2. j \in Rest(r) /\ \A n \in Rest(r) : j <= n
    BY <2>1, <1>7, MinOfNaturals
  <2>3. at' = [at EXCEPT ![r] = j] /\ call' = call
    BY <1>7 DEF Advance
  <2> HIDE DEF j, P, c0, i0
  <2>4. j \in Index /\ j > i0 /\ j \in P /\ \A n \in P : n > i0 => j <= n
    BY <2>2, <1>3
  <2>5. at'[r] = j /\ call'[r] = c0 /\ at' \in [Ranks -> Index]
    BY <2>3, <2>4, <1>1 DEF c0
  <2>6. \A c \in Nat : \A i \in Index : (c = c0 => i \in P) =>
            Place(c0, i0) < Place(c0, j)
            /\ (Place(c, i) < Place(c0, j) => Place(c, i) <= Place(c0, i0))
    BY <1>3, <1>6, <2>4, NoneBetween
  <2>7. \A c \in 1 .. Len(program) : \A i \in Index :
            Planned(c, i) => c \in Nat /\ (c = c0 => i \in P)
    BY <1>1, <1>4
  <2>8. Here(r) < Place(c0, j)
    BY <2>4, <2>6, <1>5, <1>6
  <2> QED
    BY <2>3, <2>4, <2>5, <2>6, <2>7, <2>8, <1>1, <1>4, <1>5
<1>8. CASE Rest(r) = {}
  <2>1. at' = [at EXCEPT ![r] = 1] /\ call' = [call EXCEPT ![r] = @ + 1]
    BY <1>8 DEF Advance
  <2>2. /\ at'[r] = 1 /\ call'[r] = c0 + 1
        /\ at' \in [Ranks -> Index] /\ call' \in [Ranks -> 1 .. Len(program) + 1]
    BY <2>1, <1>1, <1>2, StageOrder
  <2>3. c0 + 1 <= Len(program) => Planned(c0 + 1, 1)
    <3>1. c0 + 1 <= Len(program) => c0 + 1 \in 1 .. Len(program)
      BY <1>1, <1>2
    <3> QED
      BY <3>1, <1>1, PlanFacts DEF Planned
  <2> HIDE DEF P, c0, i0
  <2>4. \A c \in Nat : \A i \in Index : (c = c0 => i \in P) =>
            Place(c0, i0) < Place(c0 + 1, 1)
            /\ (Place(c, i) < Place(c0 + 1, 1) => Place(c, i) <= Place(c0, i0))
    <3>1. c0 + 1 \in Nat /\ 1 \in Index /\ \A n \in P : ~ (n > i0)
      BY <1>3, <1>6, <1>8, StageOrder
    <3> QED
      BY <3>1, <1>3, <1>6, NoneBetween
  <2>5. \A c \in 1 .. Len(program) : \A i \in Index :
            Planned(c, i) => c \in Nat /\ (c = c0 => i \in P)
    BY <1>1, <1>4
  <2>6. Here(r) < Place(c0 + 1, 1)
    <3>1. c0 + 1 # c0 /\ c0 + 1 \in Nat /\ 1 \in Index
      BY <1>6, StageOrder
    <3> QED
      BY <3>1, <2>4, <1>5
  <2> QED
    BY <2>1, <2>2, <2>3, <2>4, <2>5, <2>6, <1>1, <1>5
<1> QED
  BY <1>7, <1>8

(* What the collectives tell does not change but by new ones. *)
LEMMA SameSent ==
    ASSUME sent' = sent, program' = program, flags' = flags
    PROVE  /\ \A q, n : Spot(q, n)' = Spot(q, n)
           /\ \A q : Entered(q)' = Entered(q)
           /\ \A q, p : Before(q, p)' = Before(q, p)
           /\ \A n : Answer(n)' = Answer(n)
           /\ \A n, f : Field(n, f)' = Field(n, f)
           /\ \A q, S : Known(q, S)' = Known(q, S)
           /\ \A q, S, c, i : SkipIn(q, S, c, i)' = SkipIn(q, S, c, i)
           /\ \A c, i : Planned(c, i)' = Planned(c, i) /\ Collective(c, i)' = Collective(c, i)
<1>1. \A q, n : Spot(q, n)' = Spot(q, n)
  BY DEF Spot
<1>2. \A q : Entered(q)' = Entered(q)
  BY DEF Entered
<1>3. \A q, p : Before(q, p)' = Before(q, p)
  BY <1>1, <1>2 DEF Before
<1>4. \A n : Answer(n)' = Answer(n)
  BY DEF Answer
<1>5. \A n, f : Field(n, f)' = Field(n, f)
  BY <1>4 DEF Field
<1>6. \A q, S : Known(q, S)' = Known(q, S)
  BY <1>4 DEF Known, IsLen
<1>7. \A q, S, c, f : Constant(q, S, c, f)' = Constant(q, S, c, f)
  BY <1>5 DEF Constant, Is
<1>8. \A q, S, c, i : SkipIn(q, S, c, i)' = SkipIn(q, S, c, i)
  BY <1>6, <1>7 DEF SkipIn
<1>9. \A c, i : Planned(c, i)' = Planned(c, i) /\ Collective(c, i)' = Collective(c, i)
  BY DEF Planned, Collective
<1> QED
  BY <1>1, <1>2, <1>3, <1>4, <1>5, <1>6, <1>8, <1>9

----------------------------------------------------------------------------
(* Collectives and places, in a state of the invariant.                    *)
LEMMA RankFacts ==
    ASSUME IInv, NEW r \in Ranks
    PROVE  /\ Len(program) \in Nat /\ Len(sent[r]) \in Nat /\ Entered(r) \subseteq Nat
           /\ call[r] \in Nat /\ at[r] \in Index /\ waits[r] \in BOOLEAN
           /\ Here(r) = Place(call[r], at[r]) /\ Here(r) \in Nat
<1>1. PICK S : sent[r] \in Seq(S)
  BY DEF IInv, Shape
<1>2. Len(sent[r]) \in Nat
  BY <1>1, LenProperties
<1>3. Len(program) \in Nat
  BY ProgramFacts DEF IInv, Shape, TypeOK
<1>4. call[r] \in Nat /\ at[r] \in Index /\ waits[r] \in BOOLEAN
  BY <1>3 DEF IInv, Shape, TypeOK, Index
<1>5. Here(r) = Place(call[r], at[r]) /\ Here(r) \in Nat
  BY <1>4, PlaceIsOne DEF Here
<1> QED
  BY <1>2, <1>3, <1>4, <1>5 DEF Entered

LEMMA EntryFacts ==
    ASSUME IInv, NEW r \in Ranks, NEW n \in Entered(r)
    PROVE  /\ sent[r][n].stage \in Range(Stages)
           /\ At[sent[r][n].stage] \in Index /\ Stages[At[sent[r][n].stage]] = sent[r][n].stage
           /\ sent[r][n].call \in 1 .. Len(program) /\ sent[r][n].call \in Nat
           /\ Collective(sent[r][n].call, At[sent[r][n].stage])
           /\ Spot(r, n) \in Nat
           /\ n \in Left(r) => Spot(r, n) < Here(r)
           /\ n \notin Left(r) => Spot(r, n) = Here(r) /\ Is(r, n, call[r], Stage(r))
           /\ \A m \in Entered(r) : m < n => Spot(r, m) < Spot(r, n)
<1>1. /\ sent[r][n].stage \in Range(Stages)
      /\ Collective(sent[r][n].call, At[sent[r][n].stage])
      /\ IF n \in Left(r) THEN Spot(r, n) < Here(r) ELSE Is(r, n, call[r], Stage(r))
      /\ \A m \in Entered(r) : m < n => Spot(r, m) < Spot(r, n)
  BY DEF IInv, Order
<1>2. sent[r][n].call \in 1 .. Len(program)
  BY <1>1 DEF Collective, Planned
<1>3. sent[r][n].call \in Nat
  BY <1>2, RankFacts
<1>4. /\ At[sent[r][n].stage] \in Index
      /\ Stages[At[sent[r][n].stage]] = sent[r][n].stage
  BY <1>1, StageAt
<1>5. Spot(r, n) \in Nat
  BY <1>3, <1>4, PlaceIsOne DEF Spot
<1>6. n \notin Left(r) => Spot(r, n) = Here(r)
  BY <1>1, RankFacts, StageAt DEF Is, Stage, Spot, Here
<1> QED
  BY <1>1, <1>2, <1>3, <1>4, <1>5, <1>6

LEMMA EntryOrder ==
    ASSUME IInv, NEW r \in Ranks, NEW m \in Entered(r), NEW n \in Entered(r)
    PROVE  /\ Spot(r, m) < Spot(r, n) <=> m < n
           /\ Spot(r, m) = Spot(r, n) <=> m = n
<1>1. m \in Nat /\ n \in Nat /\ Spot(r, m) \in Nat /\ Spot(r, n) \in Nat
  BY RankFacts, EntryFacts
<1>2. (m < n => Spot(r, m) < Spot(r, n)) /\ (n < m => Spot(r, n) < Spot(r, m))
  BY EntryFacts
<1> QED
  BY <1>1, <1>2

(* A collective is the one at a place, and there is only one of it. *)
LEMMA EntryIs ==
    ASSUME IInv, NEW r \in Ranks, NEW n \in Entered(r),
           NEW c \in 1 .. Len(program), NEW s \in Range(Stages)
    PROVE  Is(r, n, c, s) <=> Spot(r, n) = Place(c, At[s])
<1>1. /\ c \in Nat /\ At[s] \in Index
      /\ sent[r][n].call \in Nat /\ At[sent[r][n].stage] \in Index
  BY RankFacts, EntryFacts, StageAt
<1>2. Spot(r, n) = Place(c, At[s]) <=> sent[r][n].call = c /\ At[sent[r][n].stage] = At[s]
  BY <1>1, PlaceIsOne, SMTT(40) DEF Spot
<1>3. At[sent[r][n].stage] = At[s] <=> sent[r][n].stage = s
  BY EntryFacts, StageAt
<1> QED
  BY <1>2, <1>3 DEF Is

LEMMA BeforeEntry ==
    ASSUME IInv, NEW r \in Ranks, NEW n \in Entered(r)
    PROVE  Before(r, Spot(r, n)) = 1 .. n - 1
<1>1. \A m \in Entered(r) : Spot(r, m) < Spot(r, n) <=> m < n
  BY EntryOrder
<1>2. n \in Nat /\ Len(sent[r]) \in Nat /\ n <= Len(sent[r])
  BY RankFacts DEF Entered
<1>3. \A m : m \in 1 .. n - 1 <=> m \in Entered(r) /\ m < n
  BY <1>2 DEF Entered
<1> QED
  BY <1>1, <1>3 DEF Before

(* A rank that does not wait has left all it entered, and they are behind. *)
LEMMA AllLeft ==
    ASSUME IInv, NEW r \in Ranks, ~ waits[r]
    PROVE  Left(r) = Entered(r) /\ Before(r, Here(r)) = Entered(r)
<1>1. Left(r) = Entered(r)
  BY DEF Left
<1> QED
  BY <1>1, EntryFacts DEF Before

(* Ranks whose collectives match have the same reasons. *)
LEMMA SameReasons ==
    ASSUME IInv, NEW q \in Ranks, NEW r \in Ranks, NEW S, S \subseteq Entered(q),
           S \subseteq Entered(r), NEW c, NEW i
    PROVE  /\ SkipIn(q, S, c, i) <=> SkipIn(r, S, c, i)
           /\ \A n \in S : Spot(q, n) = Spot(r, n)
<1>1. \A n \in S : sent[q][n].call = sent[r][n].call /\ sent[q][n].stage = sent[r][n].stage
  BY RankFacts DEF IInv, Matched, Entered
<1>2. Known(q, S) <=> Known(r, S)
  BY <1>1 DEF Known, IsLen
<1>3. \A f : Constant(q, S, c, f) <=> Constant(r, S, c, f)
  BY <1>1 DEF Constant, Is
<1> QED
  BY <1>1, <1>2, <1>3 DEF SkipIn, Spot

(* A rank that does not wait passes over its stage for the reasons that    *)
(* its collectives show. *)
LEMMA SkippedIff ==
    ASSUME IInv, NEW r \in Ranks, call[r] <= Len(program), ~ waits[r]
    PROVE  Skipped(r) <=> SkipIn(r, Entered(r), call[r], at[r])
<1> DEFINE c == call[r]
           i == at[r]
<1>1. /\ c \in 1 .. Len(program) /\ i \in Index /\ Left(r) = Entered(r)
      /\ Stage(r) = Stages[i] /\ Planned(c, i) /\ Current(r) = program[c]
      /\ program[c].kind \in {"round", "compare", "properties", "length"}
  BY RankFacts, AllLeft, ProgramFacts DEF IInv, OnPlan, Planned, Stage, Current, Shape, TypeOK
<1>2. globalDataLength[r] > 0 <=> Known(r, Entered(r))
  BY <1>1 DEF IInv, LengthTold
<1>3. ASSUME Stages[i] \in {"absErrPDF", "pwrErrPDF"}
      PROVE  \E m, n \in Entered(r) :
                /\ Is(r, m, c, "errMax") /\ Is(r, n, c, "errMin")
                /\ result[r].maxDiff = Max(Range(Field(m, "diff")))
                /\ result[r].maxRel = Max(Range(Field(m, "rel")))
                /\ result[r].minDiff = Min(Range(Field(n, "diff")))
                /\ result[r].minRel = Min(Range(Field(n, "rel")))
  <2>1. program[c].kind \in {"round", "compare"}
    BY <1>1, <1>3, PlanFacts DEF Planned, IInv, Shape, TypeOK
  <2>2. i > At["errMax"] /\ i > At["errMin"]
    <3>1. i \in {At["absErrPDF"], At["pwrErrPDF"]}
      BY <1>1, <1>3, StageAt
    <3>2. /\ At["errMax"] \in Nat /\ At["errMin"] \in Nat
          /\ At["absErrPDF"] \in Nat /\ At["pwrErrPDF"] \in Nat
      BY StageAt, StageOrder
    <3> QED
      BY <3>1, <3>2, StageOrder
  <2> QED
    BY <1>1, <2>1, <2>2 DEF IInv, ErrorsTold
<1>4. ASSUME NEW m \in Entered(r), NEW n \in Entered(r), NEW s \in {"errMax", "errMin"},
             Is(r, m, c, s), Is(r, n, c, s)
      PROVE  m = n
  <2>1. s \in Range(Stages)
    BY StageOrder
  <2> QED
    BY <2>1, <1>1, <1>4, EntryIs, EntryOrder
<1>5. Stages[i] \in {"absErrPDF", "pwrErrPDF"} =>
        /\ Constant(r, Entered(r), c, "diff") <=> result[r].maxDiff = result[r].minDiff
        /\ Constant(r, Entered(r), c, "rel") <=> result[r].maxRel = result[r].minRel
  BY <1>3, <1>4 DEF Constant
<1> QED
  BY <1>1, <1>2, <1>5 DEF Skipped, SkipIn

(* What a rank has still to enter, and another has entered, is not behind. *)
LEMMA NextNotBehind ==
    ASSUME IInv, NEW q \in Ranks, NEW r \in Ranks, Len(sent[q]) < Len(sent[r])
    PROVE  Here(q) <= Spot(r, Len(sent[q]) + 1)
<1> DEFINE n == Len(sent[q]) + 1
           c == sent[r][n].call
           i == At[sent[r][n].stage]
<1>1. n \in Entered(r) /\ n \in Nat /\ Entered(q) = 1 .. n - 1 /\ Entered(q) \subseteq Entered(r)
  BY RankFacts DEF Entered
<1>2. /\ Spot(r, n) = Place(c, i) /\ Collective(c, i)
      /\ c \in 1 .. Len(program) /\ i \in Index
  BY <1>1, EntryFacts DEF Spot
<1>3. ~ SkipIn(r, 1 .. n - 1, c, i)
  BY <1>1 DEF IInv, Unskipped
<1> HIDE DEF n, c, i
<1>4. \A m \in Entered(q) : Spot(q, m) = Spot(r, m) /\ m < n
  <2>1. \A m \in Entered(q) : Spot(q, m) = Spot(r, m)
    BY <1>1, SameReasons
  <2>2. \A m \in 1 .. n - 1 : m < n
    BY <1>1
  <2> QED
    BY <1>1, <2>1, <2>2
<1>5. ~ \E m \in Entered(q) : Spot(q, m) = Spot(r, n)
  BY <1>1, <1>4, EntryOrder, RankFacts
<1>6. Before(q, Spot(r, n)) = Entered(q)
  BY <1>1, <1>4, EntryOrder DEF Before
<1>7. ~ SkipIn(q, Entered(q), c, i)
  BY <1>1, <1>3, SameReasons
<1>8. ~ (Spot(r, n) < Here(q))
  BY <1>2, <1>5, <1>6, <1>7 DEF IInv, Tally
<1>9. Spot(r, n) \in Nat /\ Here(q) \in Nat
  BY <1>1, EntryFacts, RankFacts
<1> QED
  BY <1>8, <1>9 DEF n

(* What a rank is to enter now, and another has entered, is the same. *)
LEMMA NextIsHere ==
    ASSUME IInv, NEW q \in Ranks, NEW r \in Ranks, Len(sent[q]) < Len(sent[r]),
           call[q] <= Len(program), ~ waits[q], ~ Skipped(q), Stage(q) \notin Local
    PROVE  Is(r, Len(sent[q]) + 1, call[q], Stage(q))
<1> DEFINE n == Len(sent[q]) + 1
           c == call[q]
           i == at[q]
<1>1. n \in Entered(r) /\ n \in Nat /\ Entered(q) = 1 .. n - 1 /\ Entered(q) \subseteq Entered(r)
  BY RankFacts DEF Entered
<1>2. /\ Here(q) = Place(c, i) /\ Collective(c, i) /\ c \in 1 .. Len(program) /\ i \in Index
      /\ Stage(q) = Stages[i]
  BY RankFacts DEF IInv, OnPlan, Planned, Collective, Stage
<1>3. ~ SkipIn(q, Entered(q), c, i) /\ Before(q, Here(q)) = Entered(q)
  BY SkippedIff, AllLeft
<1>4. Here(q) <= Spot(r, n)
  BY NextNotBehind
<1> HIDE DEF n, c, i
<1>5. \A m \in Entered(q) : Spot(r, m) = Spot(q, m) /\ Spot(q, m) < Here(q)
  BY <1>1, <1>3, SameReasons DEF Before
<1>6. ~ SkipIn(r, Entered(q), c, i)
  BY <1>1, <1>3, SameReasons
<1>7. Spot(r, n) \in Nat /\ Here(q) \in Nat /\ Here(r) \in Nat
  BY <1>1, EntryFacts, RankFacts
<1>8. ASSUME Here(q) < Spot(r, n)
      PROVE  FALSE
  <2>1. \A m \in Entered(r) : Spot(r, m) < Spot(r, n) => m \in Entered(q)
    <3>1. \A m \in Entered(r) : m \in Nat /\ 1 <= m
      BY RankFacts DEF Entered
    <3>2. \A m \in Entered(r) : m < n => m \in Entered(q)
      BY <1>1, <3>1
    <3> QED
      BY <1>1, <3>2, EntryOrder
  <2>2. \A m \in Entered(r) : Spot(r, m) <= Here(q) => m \in Entered(q)
    BY <1>7, <1>8, <2>1, EntryFacts
  <2>3. Before(r, Here(q)) = Entered(q)
    <3>1. \A m \in Entered(r) : Spot(r, m) < Here(q) => Spot(r, m) <= Here(q)
      BY <1>7, EntryFacts
    <3>2. \A m : m \in Entered(r) /\ Spot(r, m) < Here(q) <=> m \in Entered(q)
      BY <1>1, <1>5, <2>2, <3>1
    <3> QED
      BY <3>2 DEF Before
  <2>4. ~ \E m \in Entered(r) : Spot(r, m) = Here(q)
    BY <1>5, <1>7, <2>2
  <2>5. Here(q) < Here(r)
    BY <1>1, <1>7, <1>8, EntryFacts
  <2> QED
    BY <1>2, <1>6, <2>3, <2>4, <2>5 DEF IInv, Tally
<1>9. Spot(r, n) = Place(c, At[Stage(q)])
  BY <1>2, <1>4, <1>7, <1>8, StageAt
<1> QED
  BY <1>1, <1>2, <1>9, EntryIs, StageAt DEF n, c

----------------------------------------------------------------------------
(* The steps.                                                              *)
LEMMA InitInv == Init => IInv
<1> SUFFICES ASSUME Init PROVE IInv
  OBVIOUS
<1> USE DEF Init
<1>1. Len(program) \in Nat /\ 1 \in Index /\ 1 \in 1 .. Len(program) + 1
  BY ProgramFacts, StageOrder
<1>2. TypeOK
  BY <1>1 DEF TypeOK, NoProperty, Index
<1>3. \A r \in Ranks : Entered(r) = {} /\ Left(r) = {} /\ call[r] = 1 /\ at[r] = 1
  BY DEF Entered, Left
<1>4. Shape
  <2>1. \A r \in Ranks : sent[r] \in Seq({}) /\ result[r] = NoResult /\ DOMAIN stored[r] = {}
    OBVIOUS
  <2> QED
    BY <1>2, <2>1 DEF Shape
<1>5. OnPlan
  BY <1>1, <1>3, ProgramFacts, PlanFacts, SMTT(40) DEF OnPlan, Planned
<1>6. Order
  BY <1>3 DEF Order
<1>7. Tally
  <2>1. ASSUME NEW c \in 1 .. Len(program), NEW i \in Index
        PROVE  ~ (Place(c, i) < Place(1, 1))
    <3>1. c \in Nat /\ ~ (c < 1) /\ ~ (i < 1)
      BY <1>1, StageAt, StageOrder
    <3> QED
      BY <3>1, <1>1, PlaceIsOne
  <2> QED
    BY <1>3, <2>1 DEF Tally, Here
<1>8. Unskipped /\ AllIn
  BY <1>3 DEF Unskipped, AllIn
<1>9. LengthTold
  BY <1>3 DEF LengthTold, Known
<1>10. ErrorsTold
  <2>1. ~ (1 > At["errMax"]) /\ ~ (1 > At["errMin"])
    <3>1. At["errMax"] \in Index /\ At["errMin"] \in Index
      BY StageAt, StageOrder
    <3>2. At["errMax"] \in Nat /\ At["errMin"] \in Nat /\ 1 <= At["errMax"] /\ 1 <= At["errMin"]
      BY <3>1, StageAt, StageOrder
    <3> QED
      BY <3>2
  <2> QED
    BY <1>3, <2>1 DEF ErrorsTold
<1>11. Matched
  BY <1>2, <1>3 DEF Matched, Entered
<1> QED
  BY <1>4, <1>5, <1>6, <1>7, <1>8, <1>9, <1>10, <1>11 DEF IInv

(* A rank goes on from a stage that it has left, that is local, or that it *)
(* passes over. *)
Forward(r) ==
    /\ call[r] <= Len(program) /\ Advance(r)
    /\ program' = program /\ flags' = flags /\ sent' = sent
    /\ waits' = [waits EXCEPT ![r] = FALSE]
    /\ \/ waits[r] /\ Stage(r) \notin Local
       \/ Stage(r) \in Local
       \/ SkipIn(r, Entered(r), call[r], at[r]) /\ ~ waits[r]

LEMMA ForwardPlaces ==
    ASSUME IInv, NEW r \in Ranks, Forward(r)
    PROVE  /\ call' \in [Ranks -> 1 .. Len(program) + 1] /\ at' \in [Ranks -> Index]
           /\ waits' \in [Ranks -> BOOLEAN] /\ ~ waits'[r]
           /\ Left(r)' = Entered(r) /\ Here(r) < Here(r)'
           /\ \A q \in Ranks : q # r =>
                /\ call'[q] = call[q] /\ at'[q] = at[q] /\ waits'[q] = waits[q]
                /\ Left(q)' = Left(q) /\ Here(q)' = Here(q)
           /\ \A c \in 1 .. Len(program) : \A i \in Index :
                Planned(c, i) /\ Place(c, i) < Here(r)' => Place(c, i) <= Here(r)
           /\ call'[r] = call[r] \/ at'[r] = 1
           /\ OnPlan'
<1>1. TypeOK /\ OnPlan /\ call[r] <= Len(program) /\ Advance(r)
  BY DEF IInv, Shape, Forward
<1>2. /\ call' \in [Ranks -> 1 .. Len(program) + 1] /\ at' \in [Ranks -> Index]
      /\ \A q \in Ranks : q # r => call'[q] = call[q] /\ at'[q] = at[q]
      /\ call'[r] <= Len(program) => Planned(call'[r], at'[r])
      /\ call'[r] = call[r] \/ at'[r] = 1
      /\ Here(r) < Place(call'[r], at'[r])
      /\ \A c \in 1 .. Len(program) : \A i \in Index :
            Planned(c, i) /\ Place(c, i) < Place(call'[r], at'[r]) => Place(c, i) <= Here(r)
  BY <1>1, AdvanceFacts
<1>3. \A q \in Ranks : Here(q)' = Place(call'[q], at'[q]) /\ Here(q) = Place(call[q], at[q])
  BY DEF Here
<1>4. /\ waits' \in [Ranks -> BOOLEAN] /\ ~ waits'[r]
      /\ \A q \in Ranks : q # r => waits'[q] = waits[q]
  BY DEF IInv, Shape, TypeOK, Forward
<1>5. Left(r)' = Entered(r) /\ \A q \in Ranks : q # r => Left(q)' = Left(q)
  BY <1>4 DEF Left, Entered, Forward
<1>6. OnPlan'
  <2>1. ASSUME NEW q \in Ranks, call'[q] <= Len(program)
        PROVE  Planned(call'[q], at'[q])
    <3>1. q # r => Planned(call[q], at[q])
      BY <1>2, <2>1 DEF IInv, OnPlan
    <3> QED
      BY <1>2, <2>1, <3>1
  <2> QED
    BY <2>1 DEF OnPlan, Planned, Forward
<1> QED
  BY <1>2, <1>3, <1>4, <1>5, <1>6

LEMMA ForwardHistory ==
    ASSUME IInv, NEW r \in Ranks, Forward(r)
    PROVE  Order' /\ Tally' /\ Unskipped'
<1>0. \A c \in 1 .. Len(program) : \A i \in Index :
        Place(c, i) = Here(r) => c = call[r] /\ i = at[r]
  <2>1. /\ \A c \in 1 .. Len(program) : c \in Nat
        /\ call[r] \in Nat /\ at[r] \in Index /\ Here(r) = Place(call[r], at[r])
    BY RankFacts
  <2> QED
    BY <2>1, PlaceIsOne
<1> USE ForwardPlaces
<1>1. /\ \A q, n : Spot(q, n)' = Spot(q, n)
      /\ \A q : Entered(q)' = Entered(q)
      /\ \A q, p : Before(q, p)' = Before(q, p)
      /\ \A q, S, c, i : SkipIn(q, S, c, i)' = SkipIn(q, S, c, i)
      /\ \A c, i : Collective(c, i)' = Collective(c, i)
  BY SameSent DEF Forward
<1>2. sent' = sent /\ program' = program
  BY DEF Forward
<1>3. Order'
  <2>1. ASSUME NEW q \in Ranks
        PROVE  waits'[q] => call'[q] <= Len(program) /\ Len(sent[q]) > 0
    BY DEF IInv, Order
  <2>2. ASSUME NEW q \in Ranks, NEW n \in Entered(q)
        PROVE  /\ n \in Left(q)' => Spot(q, n) < Here(q)'
               /\ n \notin Left(q)' => Is(q, n, call[q], Stage(q))'
    <3>1. CASE q = r
      <4>1. Spot(r, n) \in Nat /\ Here(r) \in Nat /\ Spot(r, n) <= Here(r)
        BY <3>1, EntryFacts, RankFacts
      <4>2. Here(r)' \in Nat
        <5>1. call'[r] \in Nat /\ at'[r] \in Index
          BY RankFacts
        <5> QED
          BY <5>1, PlaceIsOne DEF Here
      <4> QED
        BY <3>1, <4>1, <4>2
    <3>2. CASE q # r
      BY <3>2, <1>2, EntryFacts DEF Is, Stage
    <3> QED
      BY <3>1, <3>2
  <2>3. \A q \in Ranks : \A n \in Entered(q) :
            /\ sent[q][n].stage \in Range(Stages)
            /\ Collective(sent[q][n].call, At[sent[q][n].stage])
            /\ \A m \in Entered(q) : m < n => Spot(q, m) < Spot(q, n)
    BY EntryFacts
  <2> QED
    BY <1>1, <1>2, <2>1, <2>2, <2>3 DEF Order
<1>4. Tally'
  <2>1. ASSUME NEW q \in Ranks, NEW c \in 1 .. Len(program), NEW i \in Index,
               Collective(c, i), Place(c, i) < Here(q)'
        PROVE  \/ \E n \in Entered(q) : Spot(q, n) = Place(c, i)
               \/ SkipIn(q, Before(q, Place(c, i)), c, i)
    <3>1. CASE Place(c, i) < Here(q)
      BY <2>1, <3>1 DEF IInv, Tally
    <3>2. CASE q = r /\ Place(c, i) = Here(r)
      <4>1. c = call[r] /\ i = at[r]
        BY <3>2, <1>0
      <4>2. Stage(r) \notin Local
        BY <2>1, <4>1 DEF Collective, Stage
      <4>3. CASE waits[r]
        <5>1. Len(sent[r]) \in Entered(r) /\ Len(sent[r]) \notin Left(r)
          BY <4>3, RankFacts DEF IInv, Order, Entered, Left
        <5> QED
          BY <5>1, <3>2, EntryFacts
      <4>4. CASE SkipIn(r, Entered(r), call[r], at[r]) /\ ~ waits[r]
        BY <3>2, <4>1, <4>4, AllLeft
      <4> QED
        BY <4>2, <4>3, <4>4 DEF Forward
    <3>3. Place(c, i) < Here(q) \/ (q = r /\ Place(c, i) = Here(r))
      <4>1. q # r => Place(c, i) < Here(q)
        BY <2>1
      <4>2. q = r => Place(c, i) <= Here(r)
        BY <2>1 DEF Collective
      <4>3. Place(c, i) \in Nat /\ Here(r) \in Nat
        BY RankFacts, PlaceIsOne
      <4> QED
        BY <4>1, <4>2, <4>3
    <3> QED
      BY <3>1, <3>2, <3>3
  <2> QED
    BY <1>1, <1>2, <2>1 DEF Tally
<1>5. Unskipped'
  BY <1>1, <1>2 DEF IInv, Unskipped
<1> QED
  BY <1>3, <1>4, <1>5

(* What a rank that goes on must keep of the variables that Forward leaves *)
(* open. *)
LEMMA ForwardShape ==
    ASSUME IInv, NEW r \in Ranks, Forward(r), data' = data,
           DOMAIN globalDataLength' = Ranks, DOMAIN property' = Ranks, DOMAIN result' = Ranks,
           \A q \in Ranks :
               /\ DOMAIN result'[q] = DOMAIN NoResult
               /\ DOMAIN stored'[q] \subseteq Solutions
               /\ \A k \in DOMAIN stored'[q] : stored'[q][k] = 0
               /\ returned'[q] \in [1 .. Len(program) -> 0 .. Len(program)],
           fault' \in {"none", "freed_read", "wild_write", "overrun"}
    PROVE  Shape' /\ Matched'
<1>1. /\ program \in Programs /\ data \in Parts /\ flags \in FlagSets
      /\ \A q \in Ranks : DOMAIN sent[q] = 1 .. Len(sent[q])
      /\ DOMAIN sent = Ranks /\ \A q \in Ranks : \E S : sent[q] \in Seq(S)
  BY DEF IInv, Shape, TypeOK
<1>2. /\ call' \in [Ranks -> 1 .. Len(program) + 1] /\ at' \in [Ranks -> Index]
      /\ waits' \in [Ranks -> BOOLEAN]
  BY ForwardPlaces
<1>3. program' = program /\ flags' = flags /\ sent' = sent
  BY DEF Forward
<1>4. TypeOK'
  BY <1>1, <1>2, <1>3 DEF TypeOK, Index
<1>5. Shape'
  BY <1>1, <1>3, <1>4 DEF Shape
<1>6. Matched'
  BY <1>3, <1>4 DEF IInv, Matched
<1> QED
  BY <1>5, <1>6

LEMMA ForwardErrors ==
    ASSUME IInv, NEW r \in Ranks, Forward(r),
           \A q \in Ranks : q # r => result'[q] = result[q],
           at[r] > At["errMax"] => /\ result'[r].maxDiff = result[r].maxDiff
                                   /\ result'[r].maxRel = result[r].maxRel,
           at[r] > At["errMin"] => /\ result'[r].minDiff = result[r].minDiff
                                   /\ result'[r].minRel = result[r].minRel,
           Stage(r) = "errMax" =>
               \E m \in Entered(r) : /\ Is(r, m, call[r], "errMax")
                                     /\ result'[r].maxDiff = Max(Range(Field(m, "diff")))
                                     /\ result'[r].maxRel = Max(Range(Field(m, "rel"))),
           Stage(r) = "errMin" =>
               \E m \in Entered(r) : /\ Is(r, m, call[r], "errMin")
                                     /\ result'[r].minDiff = Min(Range(Field(m, "diff")))
                                     /\ result'[r].minRel = Min(Range(Field(m, "rel")))
    PROVE  ErrorsTold'
<1>1. \A n, f : Field(n, f)' = Field(n, f)
  BY SameSent DEF Forward
<1>2. \A q, n, c, s : Is(q, n, c, s)' = Is(q, n, c, s)
  BY DEF Is, Forward
<1>3. program' = program
  BY DEF Forward
<1>4. /\ Left(r)' = Entered(r) /\ Left(r) \subseteq Entered(r)
      /\ \A q \in Ranks : q # r =>
            call'[q] = call[q] /\ at'[q] = at[q] /\ Left(q)' = Left(q)
  BY ForwardPlaces DEF Left
<1>5. ASSUME NEW s \in {"errMax", "errMin"}, call'[r] <= Len(program), at'[r] > At[s],
             program[call'[r]].kind \in {"round", "compare"}
      PROVE  call'[r] = call[r] /\ (at[r] > At[s] \/ Stage(r) = s)
  <2>1. At[s] \in Index /\ At[s] \in Nat /\ 1 <= At[s] /\ s \in Range(Stages)
    BY StageAt, StageOrder
  <2>2. call'[r] = call[r]
    BY <1>5, <2>1, ForwardPlaces
  <2>3. /\ call[r] \in 1 .. Len(program) /\ call[r] \in Nat
        /\ at[r] \in Index /\ at'[r] \in Index /\ at[r] \in Nat
    BY <1>5, <2>2, RankFacts, ForwardPlaces, StageAt DEF IInv, OnPlan, Planned, Forward
  <2>4. Planned(call[r], At[s])
    BY <1>5, <2>2, <2>3, PlanFacts DEF Planned, IInv, Shape, TypeOK
  <2>5. Place(call[r], At[s]) < Here(r)'
    BY <1>5, <2>1, <2>2, <2>3, PlaceIsOne DEF Here
  <2>6. Place(call[r], At[s]) <= Place(call[r], at[r])
    BY <2>1, <2>3, <2>4, <2>5, ForwardPlaces DEF Here
  <2>7. At[s] <= at[r]
    BY <2>1, <2>3, <2>6, PlaceIsOne, SMTT(40)
  <2>8. At[s] = at[r] => Stage(r) = s
    BY <2>1, StageAt DEF Stage
  <2> QED
    BY <2>1, <2>2, <2>3, <2>7, <2>8
<1>6. ASSUME NEW q \in Ranks, call'[q] <= Len(program),
             program[call'[q]].kind \in {"round", "compare"}
      PROVE  /\ at'[q] > At["errMax"] =>
                    \E m \in Left(q)' : /\ Is(q, m, call'[q], "errMax")
                                        /\ result'[q].maxDiff = Max(Range(Field(m, "diff")))
                                        /\ result'[q].maxRel = Max(Range(Field(m, "rel")))
             /\ at'[q] > At["errMin"] =>
                    \E m \in Left(q)' : /\ Is(q, m, call'[q], "errMin")
                                        /\ result'[q].minDiff = Min(Range(Field(m, "diff")))
                                        /\ result'[q].minRel = Min(Range(Field(m, "rel")))
  <2>1. CASE q # r
    BY <1>4, <1>6, <2>1 DEF IInv, ErrorsTold, Current
  <2>2. CASE q = r
    <3>1. call[r] <= Len(program) /\ program[call[r]].kind \in {"round", "compare"} =>
             /\ at[r] > At["errMax"] =>
                    \E m \in Left(r) : /\ Is(r, m, call[r], "errMax")
                                       /\ result[r].maxDiff = Max(Range(Field(m, "diff")))
                                       /\ result[r].maxRel = Max(Range(Field(m, "rel")))
             /\ at[r] > At["errMin"] =>
                    \E m \in Left(r) : /\ Is(r, m, call[r], "errMin")
                                       /\ result[r].minDiff = Min(Range(Field(m, "diff")))
                                       /\ result[r].minRel = Min(Range(Field(m, "rel")))
      BY DEF IInv, ErrorsTold, Current
    <3>2. ASSUME at'[r] > At["errMax"]
          PROVE  call'[r] = call[r] /\ (at[r] > At["errMax"] \/ Stage(r) = "errMax")
      BY <1>5, <1>6, <2>2, <3>2
    <3>3. ASSUME at'[r] > At["errMin"]
          PROVE  call'[r] = call[r] /\ (at[r] > At["errMin"] \/ Stage(r) = "errMin")
      BY <1>5, <1>6, <2>2, <3>3
    <3> QED
      BY <1>4, <1>6, <2>2, <3>1, <3>2, <3>3
  <2> QED
    BY <2>1, <2>2
<1> QED
  BY <1>1, <1>2, <1>3, <1>6 DEF ErrorsTold, Current

(* A rank at a local stage does not wait; one that waits is in a collective. *)
LEMMA WaitsIn ==
    ASSUME IInv, NEW r \in Ranks, waits[r]
    PROVE  /\ Len(sent[r]) \in Entered(r) /\ Len(sent[r]) \notin Left(r)
           /\ \A n \in Entered(r) : n \in Left(r) <=> n # Len(sent[r])
           /\ Is(r, Len(sent[r]), call[r], Stage(r)) /\ Stage(r) \notin Local
           /\ call[r] <= Len(program)
<1>1. Len(sent[r]) \in Nat /\ Len(sent[r]) > 0 /\ call[r] <= Len(program)
  BY RankFacts DEF IInv, Order
<1>2. /\ Len(sent[r]) \in Entered(r) /\ Len(sent[r]) \notin Left(r)
      /\ \A n \in Entered(r) : n \in Left(r) <=> n # Len(sent[r])
  BY <1>1 DEF Entered, Left
<1>3. Is(r, Len(sent[r]), call[r], Stage(r))
  BY <1>2, EntryFacts
<1>4. Stage(r) \notin Local
  BY <1>2, <1>3, EntryFacts DEF Is, Collective
<1> QED
  BY <1>1, <1>2, <1>3, <1>4

(* A rank that enters or leaves no collective knows what it knew. *)
LEMMA ForwardLocal ==
    ASSUME IInv, NEW r \in Ranks, Forward(r), ~ waits[r], globalDataLength' = globalDataLength
    PROVE  AllIn' /\ LengthTold'
<1>1. \A q \in Ranks : Left(q)' = Left(q)
  BY AllLeft, ForwardPlaces
<1>2. sent' = sent /\ \A q, S : Known(q, S)' = Known(q, S)
  BY SameSent DEF Forward
<1> QED
  BY <1>1, <1>2 DEF IInv, AllIn, LengthTold

LEMMA LocalForward ==
    ASSUME IInv, NEW r \in Ranks, call[r] <= Len(program), Advance(r),
           UNCHANGED <<program, flags, sent, waits>>,
           Stage(r) \in Local \/ (Skipped(r) /\ ~ waits[r])
    PROVE  Forward(r) /\ ~ waits[r]
<1>1. ~ waits[r]
  BY WaitsIn
<1>2. waits' = [waits EXCEPT ![r] = FALSE]
  BY <1>1 DEF IInv, Shape, TypeOK
<1>3. Skipped(r) => SkipIn(r, Entered(r), call[r], at[r])
  BY <1>1, SkippedIff
<1> QED
  BY <1>1, <1>2, <1>3 DEF Forward

LEMMA TypeFacts ==
    ASSUME IInv, NEW r \in Ranks
    PROVE  /\ DOMAIN globalDataLength = Ranks /\ DOMAIN property = Ranks /\ DOMAIN result = Ranks
           /\ DOMAIN result[r] = DOMAIN NoResult
           /\ DOMAIN stored[r] \subseteq Solutions
           /\ \A k \in DOMAIN stored[r] : stored[r][k] = 0
           /\ returned[r] \in [1 .. Len(program) -> 0 .. Len(program)]
           /\ fault \in {"none", "freed_read", "wild_write", "overrun"}
BY DEF IInv, Shape, TypeOK

LEMMA BeginInv ==
    ASSUME IInv, NEW r \in Ranks, Begin(r)
    PROVE  IInv'
<1>1. /\ call[r] <= Len(program) /\ Advance(r) /\ Stage(r) = "begin"
      /\ UNCHANGED <<program, data, flags, sent, waits, globalDataLength, stored, returned, fault>>
  BY DEF Begin, Running, chosen, net
<1>2. Forward(r) /\ ~ waits[r]
  <2>1. "begin" \in Local
    BY DEF Local
  <2> QED
    BY <1>1, <2>1, LocalForward
<1>3. property' = property \/ property' = [property EXCEPT ![r] = NoProperty]
  BY DEF Begin
<1>4. result' = result \/ result' = [result EXCEPT ![r] = NoResult]
  BY DEF Begin
<1>5. /\ DOMAIN property' = Ranks /\ DOMAIN result' = Ranks
      /\ \A q \in Ranks : DOMAIN result'[q] = DOMAIN NoResult /\ (q # r => result'[q] = result[q])
  BY <1>3, <1>4, TypeFacts
<1>6. Shape' /\ Matched'
  BY <1>1, <1>2, <1>5, TypeFacts, ForwardShape
<1>7. at[r] = 1 /\ ~ (at[r] > At["errMax"]) /\ ~ (at[r] > At["errMin"])
  <2>1. at[r] \in Index /\ 1 \in Index /\ Stages[at[r]] = Stages[1]
    BY <1>1, RankFacts, StageOrder DEF Stage
  <2>2. at[r] = 1
    BY <2>1, StageNames
  <2>3. At["errMax"] \in Index /\ At["errMin"] \in Index
    BY StageAt, StageOrder
  <2>4. At["errMax"] \in Nat /\ At["errMin"] \in Nat /\ 1 <= At["errMax"] /\ 1 <= At["errMin"]
    BY <2>3, StageAt, StageOrder
  <2> QED
    BY <2>2, <2>4
<1>8. ErrorsTold'
  BY <1>1, <1>2, <1>5, <1>7, ForwardErrors
<1> QED
  BY <1>1, <1>2, <1>6, <1>8, ForwardPlaces, ForwardHistory, ForwardLocal DEF IInv

LEMMA PassInv ==
    ASSUME IInv, NEW r \in Ranks, Pass(r)
    PROVE  IInv'
<1>1. /\ call[r] <= Len(program) /\ Advance(r) /\ Skipped(r) /\ ~ waits[r]
      /\ UNCHANGED <<program, data, flags, sent, waits, globalDataLength, result, stored,
                     returned, fault>>
  BY DEF Pass, Running, chosen, net
<1>2. Forward(r)
  BY <1>1, LocalForward
<1>3. DOMAIN property' = Ranks
  BY TypeFacts DEF Pass
<1>4. Shape' /\ Matched'
  BY <1>1, <1>2, <1>3, TypeFacts, ForwardShape
<1>5. Stage(r) # "errMax" /\ Stage(r) # "errMin"
  BY <1>1 DEF Skipped
<1>6. ErrorsTold'
  BY <1>1, <1>2, <1>5, ForwardErrors
<1> QED
  BY <1>1, <1>2, <1>4, <1>6, ForwardPlaces, ForwardHistory, ForwardLocal DEF IInv

LEMMA EndDecInv ==
    ASSUME IInv, NEW r \in Ranks, EndDec(r)
    PROVE  IInv'
<1>1. /\ call[r] <= Len(program) /\ Advance(r) /\ Stage(r) = "write"
      /\ UNCHANGED <<program, data, flags, sent, waits, globalDataLength, property, result,
                     stored, returned>>
      /\ fault' \in {fault, "freed_read", "wild_write"}
  BY DEF EndDec, Running, chosen, net
<1>2. Forward(r) /\ ~ waits[r]
  <2>1. "write" \in Local
    BY DEF Local
  <2> QED
    BY <1>1, <2>1, LocalForward
<1>3. Shape' /\ Matched'
  BY <1>1, <1>2, TypeFacts, ForwardShape
<1>4. ErrorsTold'
  BY <1>1, <1>2, ForwardErrors
<1> QED
  BY <1>1, <1>2, <1>3, <1>4, ForwardPlaces, ForwardHistory, ForwardLocal DEF IInv

LEMMA EndCmprInv ==
    ASSUME IInv, NEW r \in Ranks, EndCmpr(r)
    PROVE  IInv'
<1> DEFINE sol == Current(r).solution
           zcc == IF sol \in DOMAIN stored[r] THEN stored[r][sol] ELSE 0
<1>1. /\ call[r] <= Len(program) /\ Advance(r) /\ Stage(r) = "record"
      /\ UNCHANGED <<program, data, flags, sent, waits, globalDataLength, property, fault>>
  BY DEF EndCmpr, Running, chosen, net
<1>2. Forward(r) /\ ~ waits[r]
  <2>1. "record" \in Local
    BY DEF Local
  <2> QED
    BY <1>1, <2>1, LocalForward
<1>3. /\ zcc = 0 /\ sol \in Solutions /\ call[r] \in 0 .. Len(program)
      /\ call[r] \in 1 .. Len(program)
  <2>1. program \in Seq(Call) /\ call[r] \in 1 .. Len(program) /\ Len(program) \in Nat
    BY <1>1, ProgramAssumption, RankFacts DEF IInv, Shape, TypeOK, OnPlan, Planned
  <2>2. program[call[r]] \in Call
    BY <2>1, ElementOfSeq
  <2> QED
    BY <2>1, <2>2, TypeFacts DEF Current, Call
<1>4. /\ stored' = [stored EXCEPT ![r] =
                      [k \in DOMAIN stored[r] \cup {sol} |-> IF k = sol THEN zcc ELSE stored[r][k]]]
      /\ returned' = [returned EXCEPT ![r][call[r]] = call[r]]
      /\ result' = [result EXCEPT ![r] = NoResult]
  BY <1>3 DEF EndCmpr
<1> HIDE DEF sol, zcc
<1>5. \A q \in Ranks :
        /\ DOMAIN stored'[q] \subseteq Solutions
        /\ \A k \in DOMAIN stored'[q] : stored'[q][k] = 0
  <2> SUFFICES ASSUME NEW q \in Ranks
               PROVE  /\ DOMAIN stored'[q] \subseteq Solutions
                      /\ \A k \in DOMAIN stored'[q] : stored'[q][k] = 0
    OBVIOUS
  <2>1. DOMAIN stored[q] \subseteq Solutions /\ \A k \in DOMAIN stored[q] : stored[q][k] = 0
    BY TypeFacts
  <2> QED
    BY <1>3, <1>4, <2>1
<1>6. \A q \in Ranks : returned'[q] \in [1 .. Len(program) -> 0 .. Len(program)]
  BY <1>3, <1>4, TypeFacts
<1>7. /\ DOMAIN result' = Ranks
      /\ \A q \in Ranks : DOMAIN result'[q] = DOMAIN NoResult /\ (q # r => result'[q] = result[q])
  BY <1>4, TypeFacts
<1>8. Shape' /\ Matched'
  BY <1>1, <1>2, <1>5, <1>6, <1>7, TypeFacts, ForwardShape
<1>9. ~ (at[r] > At["errMax"]) /\ ~ (at[r] > At["errMin"])
  <2>1. at[r] = At["record"]
    BY <1>1, RankFacts, StageAt DEF Stage
  <2>2. At["record"] \in Nat /\ At["errMax"] \in Nat /\ At["errMin"] \in Nat
    BY StageAt, StageOrder
  <2> QED
    BY <2>1, <2>2, StageOrder
<1>10. ErrorsTold'
  BY <1>1, <1>2, <1>7, <1>9, ForwardErrors
<1> QED
  BY <1>1, <1>2, <1>8, <1>10, ForwardPlaces, ForwardHistory, ForwardLocal DEF IInv

LEMMA Lasting ==
    /\ Local \cap {"len", "cmpLen", "errMax", "errMin"} = {}
    /\ Reduces \cap {"len", "cmpLen", "errMax", "errMin"} = {}
BY DEF Local, Reduces

(* What a collective changes in the result. *)
LEMMA ComparedFacts ==
    ASSUME NEW r \in Ranks, NEW s, NEW v, DOMAIN result[r] = DOMAIN NoResult
    PROVE  /\ DOMAIN Compared(r, s, v) = DOMAIN NoResult
           /\ s # "errMax" => /\ Compared(r, s, v).maxDiff = result[r].maxDiff
                              /\ Compared(r, s, v).maxRel = result[r].maxRel
           /\ s # "errMin" => /\ Compared(r, s, v).minDiff = result[r].minDiff
                              /\ Compared(r, s, v).minRel = result[r].minRel
           /\ s = "errMax" =>
                /\ Compared(r, s, v).maxDiff = Max(Range([q \in Ranks |-> v[q]["diff"]]))
                /\ Compared(r, s, v).maxRel = Max(Range([q \in Ranks |-> v[q]["rel"]]))
           /\ s = "errMin" =>
                /\ Compared(r, s, v).minDiff = Min(Range([q \in Ranks |-> v[q]["diff"]]))
                /\ Compared(r, s, v).minRel = Min(Range([q \in Ranks |-> v[q]["rel"]]))
<1> DEFINE of(field) == [q \in Ranks |-> v[q][field]]
           c == result[r]
           pdf == [b \in 0 .. PDF_INTERVALS - 1 |-> Total(of(b))]
           errSum == Total(v)
           maxDiff == Max(Range(of("diff")))
           maxRel == Max(Range(of("rel")))
           minDiff == Min(Range(of("diff")))
           minRel == Min(Range(of("rel")))
<1>1. DOMAIN c = {"errSum", "minDiff", "maxDiff", "minRel", "maxRel", "pdf"}
      /\ DOMAIN NoResult = DOMAIN c
  BY DEF NoResult
<1>2. Compared(r, s, v) =
        CASE s = "errSum" -> [c EXCEPT !.errSum = errSum]
          [] s = "errMax" -> [c EXCEPT !.maxDiff = maxDiff, !.maxRel = maxRel]
          [] s = "errMin" -> [c EXCEPT !.minDiff = minDiff, !.minRel = minRel]
          [] s = "absErrPDF" /\ r = 0 -> [c EXCEPT !.pdf = pdf]
          [] OTHER -> c
  BY DEF Compared
<1> HIDE DEF pdf, errSum, maxDiff, maxRel, minDiff, minRel, c
<1>3. CASE s = "errSum"
  <2>1. Compared(r, s, v) = [c EXCEPT !.errSum = errSum]
    BY <1>2, <1>3
  <2> QED
    BY <1>1, <1>3, <2>1 DEF c
<1>4. CASE s = "errMax"
  <2>1. Compared(r, s, v) = [c EXCEPT !.maxDiff = maxDiff, !.maxRel = maxRel]
    BY <1>2, <1>4
  <2> QED
    BY <1>1, <1>4, <2>1 DEF c, maxDiff, maxRel
<1>5. CASE s = "errMin"
  <2>1. Compared(r, s, v) = [c EXCEPT !.minDiff = minDiff, !.minRel = minRel]
    BY <1>2, <1>5
  <2> QED
    BY <1>1, <1>5, <2>1 DEF c, minDiff, minRel
<1>6. CASE s = "absErrPDF" /\ r = 0
  <2>1. Compared(r, s, v) = [c EXCEPT !.pdf = pdf]
    BY <1>2, <1>6
  <2> QED
    BY <1>1, <1>6, <2>1 DEF c
<1>7. CASE s \notin {"errSum", "errMax", "errMin"} /\ ~ (s = "absErrPDF" /\ r = 0)
  <2>1. Compared(r, s, v) = c
    BY <1>2, <1>7
  <2> QED
    BY <1>1, <1>7, <2>1 DEF c
<1> QED
  BY <1>3, <1>4, <1>5, <1>6, <1>7

LEMMA LeaveInv ==
    ASSUME IInv, NEW r \in Ranks, Leave(r)
    PROVE  IInv'
<1> DEFINE n == Len(sent[r])
           s == Stage(r)
<1>1. /\ call[r] <= Len(program) /\ Advance(r) /\ waits[r] /\ Complete(r)
      /\ UNCHANGED <<program, data, flags, sent, stored, returned, fault>>
      /\ waits' = [waits EXCEPT ![r] = FALSE]
      /\ globalDataLength' = IF s \in {"len", "cmpLen"}
                             THEN [globalDataLength EXCEPT ![r] = Total(Answer(n))]
                             ELSE globalDataLength
      /\ property' = IF Current(r).kind = "length" THEN property
                     ELSE [property EXCEPT ![r] = Basic(@, s, Answer(n))]
      /\ result' = [result EXCEPT ![r] = Compared(r, s, Answer(n))]
  BY DEF Leave, Running, chosen, Answer
<1>2. /\ n \in Entered(r) /\ s \notin Local /\ Is(r, n, call[r], s) /\ n \in Nat
      /\ \A m \in Entered(r) : m \in Nat /\ m <= n /\ (m \in Left(r) <=> m # n)
  BY <1>1, WaitsIn, RankFacts DEF Entered
<1>3. Forward(r)
  BY <1>1, <1>2 DEF Forward
<1>4. /\ Left(r)' = Entered(r) /\ Left(r) \subseteq Entered(r)
      /\ \A q \in Ranks : q # r => Left(q)' = Left(q)
  BY <1>3, ForwardPlaces DEF Left
<1>5. /\ DOMAIN globalDataLength' = Ranks /\ DOMAIN property' = Ranks /\ DOMAIN result' = Ranks
      /\ result'[r] = Compared(r, s, Answer(n))
      /\ \A q \in Ranks : q # r => /\ result'[q] = result[q]
                                    /\ globalDataLength'[q] = globalDataLength[q]
  BY <1>1, TypeFacts
<1>6. /\ DOMAIN result'[r] = DOMAIN NoResult
      /\ s # "errMax" => /\ result'[r].maxDiff = result[r].maxDiff
                         /\ result'[r].maxRel = result[r].maxRel
      /\ s # "errMin" => /\ result'[r].minDiff = result[r].minDiff
                         /\ result'[r].minRel = result[r].minRel
      /\ s = "errMax" => /\ result'[r].maxDiff = Max(Range(Field(n, "diff")))
                         /\ result'[r].maxRel = Max(Range(Field(n, "rel")))
      /\ s = "errMin" => /\ result'[r].minDiff = Min(Range(Field(n, "diff")))
                         /\ result'[r].minRel = Min(Range(Field(n, "rel")))
  BY <1>5, TypeFacts, ComparedFacts DEF Field
<1> HIDE DEF n, s
<1>7. Shape' /\ Matched'
  <2>1. \A q \in Ranks : DOMAIN result'[q] = DOMAIN NoResult
    BY <1>5, <1>6, TypeFacts
  <2> QED
    BY <1>1, <1>3, <1>5, <2>1, TypeFacts, ForwardShape
<1>8. ErrorsTold'
  <2>1. s = "errMax" => ~ (at[r] > At["errMax"])
    <3>1. s = "errMax" => at[r] = At["errMax"] /\ at[r] \in Nat
      BY RankFacts, StageAt DEF Stage, s
    <3> QED
      BY <3>1
  <2>2. s = "errMin" => ~ (at[r] > At["errMin"])
    <3>1. s = "errMin" => at[r] = At["errMin"] /\ at[r] \in Nat
      BY RankFacts, StageAt DEF Stage, s
    <3> QED
      BY <3>1
  <2>3. s = Stage(r)
    BY DEF s
  <2> QED
    BY <1>2, <1>3, <1>5, <1>6, <2>1, <2>2, <2>3, ForwardErrors
<1>9. AllIn'
  <2>1. s \notin Reduces => \A q \in Ranks : Len(sent[q]) >= n
    BY <1>1 DEF Complete, n, s
  <2>2. \A m \in Entered(r) : sent[r][m].stage \notin Reduces =>
            \A q \in Ranks : Len(sent[q]) >= m
    BY <1>2, <2>1 DEF IInv, AllIn, Is
  <2> QED
    BY <1>1, <1>4, <2>2 DEF IInv, AllIn
<1>10. LengthTold'
  <2>1. \A q, S : Known(q, S)' = Known(q, S)
    BY <1>1, SameSent
  <2>2. globalDataLength'[r] > 0 <=> Known(r, Entered(r))
    <3>1. CASE s \in {"len", "cmpLen"}
      <4>1. globalDataLength'[r] = Total(Answer(n)) /\ IsLen(r, n)
        BY <1>1, <1>2, <3>1, TypeFacts DEF IsLen, Is
      <4>2. \A m \in Entered(r) :
                (\A k \in Entered(r) : IsLen(r, k) => k <= m) <=> m = n
        <5>1. \A m \in Entered(r) : n <= m => m = n
          BY <1>2
        <5> QED
          BY <1>2, <4>1, <5>1
      <4> QED
        BY <1>2, <4>1, <4>2 DEF Known
    <3>2. CASE s \notin {"len", "cmpLen"}
      <4>1. ~ IsLen(r, n) /\ globalDataLength'[r] = globalDataLength[r]
        BY <1>1, <1>2, <3>2 DEF IsLen, Is
      <4>2. \A m \in Entered(r) : IsLen(r, m) => m \in Left(r)
        BY <1>2, <4>1
      <4>3. Known(r, Entered(r)) <=> Known(r, Left(r))
        BY <1>4, <4>2 DEF Known
      <4> QED
        BY <4>1, <4>3 DEF IInv, LengthTold
    <3> QED
      BY <3>1, <3>2
  <2> QED
    BY <1>4, <1>5, <2>1, <2>2 DEF IInv, LengthTold
<1> QED
  BY <1>3, <1>7, <1>8, <1>9, <1>10, ForwardPlaces, ForwardHistory DEF IInv

(* A rank that enters a collective adds one to what it has entered, and    *)
(* changes nothing of what the ranks have behind them. *)
LEMMA EnterFacts ==
    ASSUME IInv, NEW r \in Ranks, Enter(r)
    PROVE  /\ call[r] <= Len(program) /\ ~ waits[r] /\ ~ Skipped(r) /\ Stage(r) \notin Local
           /\ UNCHANGED <<program, data, flags, call, at, globalDataLength, property, result,
                          stored, returned, fault>>
           /\ waits' \in [Ranks -> BOOLEAN] /\ waits'[r]
           /\ \A q \in Ranks :
                /\ \E S : sent'[q] \in Seq(S)
                /\ Len(sent'[q]) = IF q = r THEN Len(sent[r]) + 1 ELSE Len(sent[q])
                /\ \A n \in Entered(q) : sent'[q][n] = sent[q][n]
                /\ q # r => waits'[q] = waits[q] /\ sent'[q] = sent[q]
           /\ sent'[r][Len(sent[r]) + 1].call = call[r]
           /\ sent'[r][Len(sent[r]) + 1].stage = Stage(r)
<1> DEFINE e == [call |-> call[r], stage |-> Stage(r), value |-> Contribution(r, Stage(r))]
<1>1. /\ sent' = [sent EXCEPT ![r] = Append(@, e)] /\ waits' = [waits EXCEPT ![r] = TRUE]
      /\ call[r] <= Len(program) /\ ~ waits[r] /\ ~ Skipped(r) /\ Stage(r) \notin Local
      /\ UNCHANGED <<program, data, flags, call, at, globalDataLength, property, result,
                     stored, returned, fault>>
  BY DEF Enter, Running, chosen
<1>2. e.call = call[r] /\ e.stage = Stage(r)
  OBVIOUS
<1> HIDE DEF e
<1>3. waits' \in [Ranks -> BOOLEAN] /\ waits'[r] /\ \A q \in Ranks : q # r => waits'[q] = waits[q]
  BY <1>1 DEF IInv, Shape, TypeOK
<1>4. DOMAIN sent = Ranks
  BY DEF IInv, Shape
<1>5. sent'[r] = Append(sent[r], e) /\ \A q \in Ranks : q # r => sent'[q] = sent[q]
  BY <1>1, <1>4
<1>6. PICK S : sent[r] \in Seq(S)
  BY DEF IInv, Shape
<1>7. sent[r] \in Seq(S \cup {e}) /\ e \in S \cup {e}
  BY <1>6, SeqMonotonic
<1>8. /\ Append(sent[r], e) \in Seq(S \cup {e})
      /\ Len(Append(sent[r], e)) = Len(sent[r]) + 1
      /\ \A n \in 1 .. Len(sent[r]) : Append(sent[r], e)[n] = sent[r][n]
      /\ Append(sent[r], e)[Len(sent[r]) + 1] = e
  BY <1>7, AppendProperties
<1>9. \A q \in Ranks : \E T : sent[q] \in Seq(T)
  BY DEF IInv, Shape
<1>10. ASSUME NEW q \in Ranks
       PROVE  /\ \E T : sent'[q] \in Seq(T)
              /\ Len(sent'[q]) = IF q = r THEN Len(sent[r]) + 1 ELSE Len(sent[q])
              /\ \A n \in Entered(q) : sent'[q][n] = sent[q][n]
              /\ q # r => waits'[q] = waits[q] /\ sent'[q] = sent[q]
  <2>1. CASE q = r
    BY <1>5, <1>8, <2>1 DEF Entered
  <2>2. CASE q # r
    BY <1>3, <1>5, <1>9, <2>2
  <2> QED
    BY <2>1, <2>2
<1>11. sent'[r][Len(sent[r]) + 1].call = call[r] /\ sent'[r][Len(sent[r]) + 1].stage = Stage(r)
  BY <1>2, <1>5, <1>8
<1> QED
  BY <1>1, <1>3, <1>10, <1>11

(* What the ranks have behind them keeps its meaning. *)
LEMMA EnterKeeps ==
    ASSUME IInv, NEW r \in Ranks, Enter(r), NEW q \in Ranks
    PROVE  /\ Entered(q)' = IF q = r THEN Entered(r) \cup {Len(sent[r]) + 1} ELSE Entered(q)
           /\ Left(q)' = Left(q) /\ Here(q)' = Here(q) /\ Stage(q)' = Stage(q)
           /\ \A n \in Entered(q) : /\ Spot(q, n)' = Spot(q, n) /\ IsLen(q, n)' = IsLen(q, n)
                                    /\ sent'[q][n] = sent[q][n]
           /\ \A n : n = Len(sent[r]) + 1 => Spot(r, n)' = Here(r)
           /\ \A S \in SUBSET Left(q) : \A c, i : SkipIn(q, S, c, i)' = SkipIn(q, S, c, i)
           /\ \A S \in SUBSET Left(q) : Known(q, S)' = Known(q, S)
           /\ \A n \in Left(q) : sent[q][n].stage \in {"errMax", "errMin"} =>
                \A f : Field(n, f)' = Field(n, f)
<1>1. /\ Len(sent[r]) \in Nat /\ Len(sent[q]) \in Nat /\ ~ waits[r] /\ waits'[r]
      /\ \A p \in Ranks : /\ Len(sent[p]) \in Nat
                          /\ Len(sent'[p]) = IF p = r THEN Len(sent[r]) + 1 ELSE Len(sent[p])
                          /\ \A n \in Entered(p) : sent'[p][n] = sent[p][n]
                          /\ p # r => waits'[p] = waits[p]
      /\ call' = call /\ at' = at /\ program' = program
      /\ sent'[r][Len(sent[r]) + 1].call = call[r]
      /\ sent'[r][Len(sent[r]) + 1].stage = Stage(r)
  BY EnterFacts, RankFacts
<1>2. Entered(q)' = IF q = r THEN Entered(r) \cup {Len(sent[r]) + 1} ELSE Entered(q)
  <2>1. CASE q = r
    <3>1. \A n \in Nat : 1 .. n + 1 = (1 .. n) \cup {n + 1}
      OBVIOUS
    <3> QED
      BY <1>1, <2>1, <3>1 DEF Entered
  <2>2. CASE q # r
    BY <1>1, <2>2 DEF Entered
  <2> QED
    BY <2>1, <2>2
<1>3. Left(q)' = Left(q)
  <2>1. CASE q = r
    <3>1. Left(r) = Entered(r)
      BY <1>1 DEF Left
    <3>2. Left(r)' = {n \in 1 .. Len(sent[r]) + 1 : n < Len(sent[r]) + 1}
      BY <1>1 DEF Left, Entered
    <3> QED
      BY <1>1, <2>1, <3>1, <3>2 DEF Entered
  <2>2. CASE q # r
    BY <1>1, <1>2, <2>2 DEF Left
  <2> QED
    BY <2>1, <2>2
<1>4. Here(q)' = Here(q) /\ Stage(q)' = Stage(q)
  BY <1>1 DEF Here, Stage
<1>5. \A n \in Entered(q) : Spot(q, n)' = Spot(q, n) /\ IsLen(q, n)' = IsLen(q, n)
  BY <1>1 DEF Spot, IsLen
<1>6. \A n : n = Len(sent[r]) + 1 => Spot(r, n)' = Here(r)
  <2>1. At[Stage(r)] = at[r]
    BY RankFacts, StageAt DEF Stage
  <2> QED
    BY <1>1, <2>1 DEF Spot, Here
<1>7. ASSUME NEW n \in Left(q), sent[q][n].stage \notin Reduces
      PROVE  Answer(n)' = Answer(n) /\ \A f : Field(n, f)' = Field(n, f)
  <2>1. \A p \in Ranks : n \in Entered(p)
    <3>1. \A p \in Ranks : Len(sent[p]) >= n
      BY <1>7 DEF IInv, AllIn
    <3>2. n \in Entered(q)
      BY DEF Left
    <3> QED
      BY <1>1, <3>1, <3>2 DEF Entered
  <2>2. Answer(n)' = Answer(n)
    BY <1>1, <2>1 DEF Answer
  <2> QED
    BY <2>2 DEF Field
<1>8. Left(q) \subseteq Entered(q)
  BY DEF Left
<1>9. ASSUME NEW S \in SUBSET Left(q)
      PROVE  Known(q, S)' = Known(q, S)
  <2>1. \A m \in S : IsLen(q, m)' = IsLen(q, m) /\ (IsLen(q, m) => Answer(m)' = Answer(m))
    BY <1>5, <1>7, <1>8, Lasting DEF IsLen
  <2> QED
    BY <2>1 DEF Known
<1>10. \A n \in Left(q) : sent[q][n].stage \in {"errMax", "errMin"} =>
          \A f : Field(n, f)' = Field(n, f)
  BY <1>7, Lasting
<1>11. ASSUME NEW S \in SUBSET Left(q), NEW c, NEW f
       PROVE  Constant(q, S, c, f)' = Constant(q, S, c, f)
  <2>1. \A m \in S : \A s : Is(q, m, c, s)' = Is(q, m, c, s)
    BY <1>1, <1>8 DEF Is
  <2>2. \A m \in S : Is(q, m, c, "errMax") \/ Is(q, m, c, "errMin") => Field(m, f)' = Field(m, f)
    BY <1>10 DEF Is
  <2> QED
    BY <2>1, <2>2 DEF Constant
<1>12. ASSUME NEW S \in SUBSET Left(q), NEW c, NEW i
       PROVE  SkipIn(q, S, c, i)' = SkipIn(q, S, c, i)
  BY <1>1, <1>9, <1>11 DEF SkipIn
<1> QED
  BY <1>1, <1>2, <1>3, <1>4, <1>5, <1>6, <1>9, <1>10, <1>12

LEMMA EnterInv ==
    ASSUME IInv, NEW r \in Ranks, Enter(r)
    PROVE  IInv'
<1>1. PICK k : k = Len(sent[r]) + 1
  OBVIOUS
<1>2. /\ k \in Nat /\ k \notin Entered(r) /\ \A n \in Entered(r) : n \in Nat /\ n < k
      /\ Entered(r) = 1 .. k - 1 /\ k > 0
  BY <1>1, RankFacts DEF Entered
<1>3. /\ \A q \in Ranks : /\ Left(q)' = Left(q) /\ Here(q)' = Here(q) /\ Stage(q)' = Stage(q)
                          /\ q # r => Entered(q)' = Entered(q)
      /\ Entered(r)' = Entered(r) \cup {k} /\ Left(r) = Entered(r) /\ Spot(r, k)' = Here(r)
  BY <1>1, EnterFacts, EnterKeeps, AllLeft
<1>4. /\ call[r] <= Len(program) /\ ~ waits[r] /\ ~ Skipped(r) /\ Stage(r) \notin Local
      /\ UNCHANGED <<program, data, flags, call, at, globalDataLength, property, result,
                     stored, returned, fault>>
      /\ waits' \in [Ranks -> BOOLEAN] /\ waits'[r]
      /\ \A q \in Ranks :
           /\ \E S : sent'[q] \in Seq(S)
           /\ Len(sent'[q]) = IF q = r THEN k ELSE Len(sent[q])
           /\ \A n \in Entered(q) : sent'[q][n] = sent[q][n]
           /\ q # r => waits'[q] = waits[q] /\ sent'[q] = sent[q]
      /\ sent'[r][k].call = call[r] /\ sent'[r][k].stage = Stage(r)
  BY <1>1, EnterFacts
<1>5. /\ call[r] \in 1 .. Len(program) /\ at[r] \in Index /\ Stage(r) \in Range(Stages)
      /\ At[Stage(r)] = at[r] /\ Collective(call[r], at[r])
  BY <1>4, RankFacts, StageAt DEF IInv, OnPlan, Planned, Collective, Stage
<1>6. \A q \in Ranks : Left(q) \subseteq Entered(q) /\ Len(sent[q]) \in Nat
  BY RankFacts DEF Left
<1>7. \A c, i : Planned(c, i)' = Planned(c, i) /\ Collective(c, i)' = Collective(c, i)
  BY <1>4 DEF Planned, Collective
<1>a. program' = program /\ \A q \in Ranks : Here(q)' = Here(q)
  BY <1>3, <1>4
<1>b. \A q \in Ranks : q # r => Entered(q)' = Entered(q)
  BY <1>3
<1>c. \A q \in Ranks : \A n :
        n \in Entered(q)' <=> n \in Entered(q) \/ (q = r /\ n = k)
  BY <1>3, <1>b
<1>d. \A q \in Ranks : \A n \in Entered(q) :
        Spot(q, n)' = Spot(q, n) /\ sent'[q][n] = sent[q][n]
  BY EnterKeeps
<1>8. TypeOK'
  <2>1. \A q \in Ranks : DOMAIN sent'[q] = 1 .. Len(sent'[q])
    <3>1. \A q \in Ranks : \E S : sent'[q] \in Seq(S)
      BY <1>4
    <3> QED
      BY <3>1, LenProperties
  <2> QED
    BY <1>4, <2>1 DEF IInv, Shape, TypeOK
<1>9. Shape'
  <2>1. DOMAIN sent' = Ranks
    BY DEF Enter, IInv, Shape
  <2> QED
    BY <1>4, <1>8, <2>1 DEF IInv, Shape
<1>10. OnPlan'
  BY <1>4 DEF IInv, OnPlan, Planned
<1>11. Order'
  <2>1. ASSUME NEW q \in Ranks
        PROVE  waits'[q] => call'[q] <= Len(program) /\ Len(sent'[q]) > 0
    BY <1>2, <1>4 DEF IInv, Order
  <2>2. ASSUME NEW q \in Ranks, NEW n \in Entered(q)
        PROVE  /\ sent'[q][n].stage \in Range(Stages)
               /\ Collective(sent'[q][n].call, At[sent'[q][n].stage])
               /\ n \in Left(q) => Spot(q, n)' < Here(q)
               /\ n \notin Left(q) =>
                    sent'[q][n].call = call[q] /\ sent'[q][n].stage = Stage(q)
               /\ \A m \in Entered(q) : m < n => Spot(q, m)' < Spot(q, n)'
    BY EntryFacts, EnterKeeps DEF Is
  <2>3. /\ sent'[r][k].stage \in Range(Stages)
        /\ Collective(sent'[r][k].call, At[sent'[r][k].stage])
        /\ k \notin Left(r)
        /\ \A m \in Entered(r) : Spot(r, m)' < Spot(r, k)'
    BY <1>2, <1>3, <1>4, <1>5, EntryFacts, EnterKeeps
  <2>4. ASSUME NEW q \in Ranks, NEW n \in Entered(q)'
        PROVE  /\ sent'[q][n].stage \in Range(Stages)
               /\ Collective(sent'[q][n].call, At[sent'[q][n].stage])
               /\ IF n \in Left(q)' THEN Spot(q, n)' < Here(q)' ELSE Is(q, n, call[q], Stage(q))'
    <3>1. Left(q)' = Left(q) /\ Here(q)' = Here(q) /\ Stage(q)' = Stage(q)
      BY <1>3
    <3>2. Is(q, n, call[q], Stage(q))' <=>
            sent'[q][n].call = call[q] /\ sent'[q][n].stage = Stage(q)
      BY <1>4, <3>1 DEF Is
    <3>3. CASE n \in Entered(q)
      BY <2>2, <3>1, <3>2, <3>3
    <3>4. CASE q = r /\ n = k
      BY <1>4, <2>3, <3>1, <3>2, <3>4
    <3> QED
      BY <1>c, <2>4, <3>3, <3>4
  <2>5. ASSUME NEW q \in Ranks, NEW n \in Entered(q)', NEW m \in Entered(q)', m < n
        PROVE  Spot(q, m)' < Spot(q, n)'
    <3>1. m \in Entered(q) \/ (q = r /\ m = k)
      BY <1>c, <2>5
    <3>2. n \in Entered(q) \/ (q = r /\ n = k)
      BY <1>c, <2>5
    <3>3. ~ (q = r /\ m = k)
      BY <1>2, <2>5, <3>2
    <3>4. CASE n \in Entered(q)
      BY <2>2, <2>5, <3>1, <3>3, <3>4
    <3>5. CASE q = r /\ n = k
      BY <2>3, <3>1, <3>3, <3>5
    <3> QED
      BY <3>2, <3>4, <3>5
  <2> QED
    BY <1>a, <1>7, <2>1, <2>4, <2>5 DEF Order, Collective, Planned
<1>12. Tally'
  <2>1. ASSUME NEW q \in Ranks, NEW c \in 1 .. Len(program), NEW i \in Index,
               Collective(c, i), Place(c, i) < Here(q)
        PROVE  \/ \E n \in Entered(q)' : Spot(q, n)' = Place(c, i)
               \/ SkipIn(q, Before(q, Place(c, i)), c, i)'
    <3>1. \/ \E n \in Entered(q) : Spot(q, n) = Place(c, i)
          \/ SkipIn(q, Before(q, Place(c, i)), c, i)
      BY <2>1 DEF IInv, Tally
    <3>2. CASE \E n \in Entered(q) : Spot(q, n) = Place(c, i)
      BY <1>3, <3>2, EnterKeeps
    <3>3. CASE SkipIn(q, Before(q, Place(c, i)), c, i)
      <4>1. PICK S : S = Before(q, Place(c, i))
        OBVIOUS
      <4>2. Place(c, i) \in Nat /\ Here(q) \in Nat
        BY RankFacts, PlaceIsOne
      <4>3. S \in SUBSET Left(q)
        <5>1. \A n \in Entered(q) : Spot(q, n) < Place(c, i) => n \in Left(q)
          BY <2>1, <4>2, EntryFacts
        <5> QED
          BY <4>1, <5>1 DEF Before
      <4>4. Before(q, Place(c, i))' = S
        <5>1. \A n \in Entered(q) : Spot(q, n)' = Spot(q, n)
          BY EnterKeeps
        <5>2. ~ (Here(q) < Place(c, i))
          BY <2>1, <4>2
        <5>3. \A n : n \in Entered(q)' /\ Spot(q, n)' < Place(c, i)
                        <=> n \in Entered(q) /\ Spot(q, n) < Place(c, i)
          BY <1>3, <1>c, <5>1, <5>2
        <5> QED
          BY <4>1, <5>3 DEF Before
      <4>5. SkipIn(q, S, c, i)'
        BY <3>3, <4>1, <4>3, EnterKeeps
      <4> QED
        BY <4>4, <4>5
    <3> QED
      BY <3>1, <3>2, <3>3
  <2> QED
    BY <1>a, <1>7, <2>1 DEF Tally
<1>13. Unskipped'
  <2>1. ASSUME NEW q \in Ranks, NEW n \in Entered(q)'
        PROVE  ~ SkipIn(q, 1 .. n - 1, sent[q][n].call, At[sent[q][n].stage])'
    <3>1. PICK c, i : c = sent'[q][n].call /\ i = At[sent'[q][n].stage]
      OBVIOUS
    <3>2. ~ SkipIn(q, 1 .. n - 1, c, i) /\ 1 .. n - 1 \in SUBSET Left(q)
      <4>1. CASE n \in Entered(q)
        <5>1. c = sent[q][n].call /\ i = At[sent[q][n].stage]
          BY <1>d, <3>1, <4>1
        <5>2. \A m \in 1 .. n - 1 : m \in Nat /\ m >= 1 /\ m < n /\ n <= Len(sent[q])
          BY <1>6, <4>1 DEF Entered
        <5>3. 1 .. n - 1 \in SUBSET Left(q)
          <6> SUFFICES ASSUME NEW m \in 1 .. n - 1
                       PROVE  m \in Left(q)
            OBVIOUS
          <6>1. m \in Nat /\ m >= 1 /\ m < Len(sent[q]) /\ Len(sent[q]) \in Nat
            BY <1>6, <5>2, <4>1 DEF Entered
          <6> QED
            BY <6>1 DEF Left, Entered
        <5> QED
          BY <4>1, <5>1, <5>3 DEF IInv, Unskipped
      <4>2. CASE q = r /\ n = k
        <5>1. c = call[r] /\ i = at[r]
          BY <1>4, <1>5, <3>1, <4>2
        <5>2. ~ SkipIn(r, Entered(r), call[r], at[r])
          BY <1>4, SkippedIff
        <5> QED
          BY <1>2, <1>3, <4>2, <5>1, <5>2
      <4> QED
        BY <1>c, <2>1, <4>1, <4>2
    <3>3. PICK S : S = 1 .. n - 1
      OBVIOUS
    <3>4. ~ SkipIn(q, S, c, i)'
      <4>1. ~ SkipIn(q, S, c, i) /\ S \in SUBSET Left(q)
        BY <3>2, <3>3
      <4> QED
        BY <4>1, EnterKeeps
    <3> QED
      BY <3>1, <3>3, <3>4
  <2> QED
    BY <2>1 DEF Unskipped
<1>14. AllIn'
  <2>1. \A q \in Ranks : Len(sent'[q]) >= Len(sent[q])
    BY <1>1, <1>4, <1>6
  <2>2. ASSUME NEW q \in Ranks, NEW n \in Left(q), sent[q][n].stage \notin Reduces,
               NEW p \in Ranks
        PROVE  Len(sent'[p]) >= n
    <3>1. Len(sent[p]) >= n
      BY <2>2 DEF IInv, AllIn
    <3>2. n \in Nat /\ Len(sent[p]) \in Nat /\ Len(sent'[p]) \in Nat
      BY <1>2, <1>4, <1>6, RankFacts
    <3> QED
      BY <2>1, <3>1, <3>2
  <2>3. \A q \in Ranks : Left(q)' = Left(q) /\ \A n \in Left(q) : sent'[q][n] = sent[q][n]
    BY <1>3, <1>6, <1>d
  <2> QED
    BY <2>2, <2>3 DEF AllIn
<1>15. LengthTold'
  <2>1. \A q \in Ranks : globalDataLength' = globalDataLength /\ Left(q)' = Left(q)
    BY <1>3, <1>4
  <2>2. \A q \in Ranks : Known(q, Left(q))' = Known(q, Left(q))
    <3> SUFFICES ASSUME NEW q \in Ranks
                 PROVE  Known(q, Left(q))' = Known(q, Left(q))
      OBVIOUS
    <3>1. PICK S : S = Left(q)
      OBVIOUS
    <3>2. Known(q, S)' = Known(q, S) /\ Left(q)' = S
      BY <2>1, <3>1, EnterKeeps
    <3> QED
      BY <3>1, <3>2
  <2> QED
    BY <2>1, <2>2 DEF IInv, LengthTold
<1>16. ErrorsTold'
  <2>1. /\ call' = call /\ at' = at /\ program' = program /\ result' = result
        /\ \A q \in Ranks : Left(q)' = Left(q)
    BY <1>3, <1>4
  <2>2. \A q \in Ranks : \A n \in Left(q) : \A c : \A s \in {"errMax", "errMin"} :
            Is(q, n, c, s) => Is(q, n, c, s)' /\ \A f : Field(n, f)' = Field(n, f)
    BY <1>6, <1>d, EnterKeeps DEF Is
  <2>3. ASSUME NEW q \in Ranks, NEW n \in Left(q), NEW s \in {"errMax", "errMin"},
               Is(q, n, call[q], s)
        PROVE  Is(q, n, call[q], s)' /\ \A f : Field(n, f)' = Field(n, f)
    BY <2>1, <2>2, <2>3 DEF Is
  <2> QED
    BY <2>1, <2>3 DEF IInv, ErrorsTold, Current
<1>17. Matched'
  <2>1. ASSUME NEW p \in Ranks, NEW q \in Ranks, NEW n \in 1 .. Len(sent'[p]), n <= Len(sent'[q])
        PROVE  /\ sent'[p][n].call = sent'[q][n].call
               /\ sent'[p][n].stage = sent'[q][n].stage
    <3>1. \A t \in Ranks : n <= Len(sent'[t]) => n \in Entered(t) \/ (t = r /\ n = k)
      BY <1>2, <1>4, <1>6, <2>1 DEF Entered
    <3>2. CASE n \in Entered(p) /\ n \in Entered(q)
      BY <1>d, <1>6, <3>2, SMTT(40) DEF IInv, Matched, Entered
    <3>3. ASSUME NEW t \in Ranks, n = k, n \in Entered(t)
          PROVE  sent'[t][n].call = call[r] /\ sent'[t][n].stage = Stage(r)
      <4>1. Len(sent[r]) < Len(sent[t])
        BY <1>1, <1>6, <3>3 DEF Entered
      <4>2. Is(t, k, call[r], Stage(r))
        BY <1>1, <1>4, <4>1, NextIsHere
      <4> QED
        BY <1>d, <3>3, <4>2 DEF Is
    <3> QED
      BY <1>4, <2>1, <3>1, <3>2, <3>3
  <2> QED
    BY <1>8, <2>1 DEF Matched
<1> QED
  BY <1>9, <1>10, <1>11, <1>12, <1>13, <1>14, <1>15, <1>16, <1>17 DEF IInv

(* A step of no rank, and one that only ends in a fault. *)
Unmoved ==
    /\ UNCHANGED <<program, data, flags, call, at, sent, waits, globalDataLength, property,
                   result, stored, returned>>
    /\ fault' \in {fault, "overrun"}

LEMMA StandsStill ==
    /\ UNCHANGED vars => Unmoved
    /\ \A r \in Ranks : Overrun(r) => Unmoved
BY DEF vars, Overrun, Unmoved, chosen, net

LEMMA UnmovedInv ==
    ASSUME IInv, Unmoved
    PROVE  IInv'
<1> USE DEF Unmoved
<1>1. /\ \A q, n : Spot(q, n)' = Spot(q, n)
      /\ \A q : Entered(q)' = Entered(q)
      /\ \A q, p : Before(q, p)' = Before(q, p)
      /\ \A n, f : Field(n, f)' = Field(n, f)
      /\ \A q, S : Known(q, S)' = Known(q, S)
      /\ \A q, S, c, i : SkipIn(q, S, c, i)' = SkipIn(q, S, c, i)
      /\ \A c, i : Planned(c, i)' = Planned(c, i) /\ Collective(c, i)' = Collective(c, i)
  BY SameSent
<1>2. /\ \A q : Left(q)' = Left(q) /\ Here(q)' = Here(q)
      /\ \A q, n, c, s : Is(q, n, c, s)' = Is(q, n, c, s)
  BY DEF Left, Entered, Here, Is
<1>3. TypeOK' /\ Shape' /\ Matched'
  BY DEF IInv, Shape, TypeOK, Matched
<1>4. OnPlan'
  BY DEF IInv, OnPlan, Planned
<1>5. Order'
  BY <1>1, <1>2 DEF IInv, Order, Is, Stage
<1>6. Tally' /\ Unskipped'
  BY <1>1, <1>2 DEF IInv, Tally, Unskipped
<1>7. AllIn' /\ LengthTold'
  BY <1>1, <1>2 DEF IInv, AllIn, LengthTold
<1>8. ErrorsTold'
  BY <1>1, <1>2 DEF IInv, ErrorsTold, Current, Is
<1> QED
  BY <1>3, <1>4, <1>5, <1>6, <1>7, <1>8 DEF IInv

LEMMA StepInv == IInv /\ [Next]_vars => IInv'
<1> SUFFICES ASSUME IInv, [Next]_vars PROVE IInv'
  OBVIOUS
<1>1. CASE UNCHANGED vars
  BY <1>1, StandsStill, UnmovedInv
<1>2. ASSUME NEW r \in Ranks, Step(r)
      PROVE  IInv'
  <2>1. CASE Begin(r)
    BY <2>1, BeginInv
  <2>2. CASE Pass(r)
    BY <2>2, PassInv
  <2>3. CASE Enter(r)
    BY <2>3, EnterInv
  <2>4. CASE Leave(r)
    BY <2>4, LeaveInv
  <2>5. CASE EndCmpr(r)
    BY <2>5, EndCmprInv
  <2>6. CASE EndDec(r)
    BY <2>6, EndDecInv
  <2>7. CASE Overrun(r)
    BY <2>7, StandsStill, UnmovedInv
  <2> QED
    BY <1>2, <2>1, <2>2, <2>3, <2>4, <2>5, <2>6, <2>7 DEF Step
<1> QED
  BY <1>1, <1>2 DEF Next

THEOREM Invariance == Spec => []IInv
<1> QED
  BY InitInv, StepInv, PTL DEF Spec

(* Although each rank of an MPI program decides for itself which           *)
(* collectives of ZC_genBasicProperties_*_online and of                    *)
(* ZC_compareData_*_online it takes part in, the n-th collective of every  *)
(* rank is the same stage of the same call, for any number of ranks, any   *)
(* programs, flags and data. *)
THEOREM CollectivesMatch == Spec => []Matched
<1>1. IInv => Matched
  BY DEF IInv
<1> QED
  BY <1>1, Invariance, PTL

----------------------------------------------------------------------------
(* A rank that waits waits for one that has entered fewer collectives, and *)
(* the one with the fewest for none. *)
LEMMA InvGoesOn == IInv => SomeGoesOn
<1> SUFFICES ASSUME IInv, fault = "none",
                    NEW r0 \in Ranks, ~ (call[r0] > Len(program)),
                    \A r \in Ranks : Running(r) => waits[r] /\ ~ Complete(r)
             PROVE  FALSE
  BY DEF SomeGoesOn
<1> DEFINE T == {Len(sent[r]) : r \in {q \in Ranks : Running(q)}}
<1>1. Running(r0)
  BY RankFacts DEF Running
<1>2. T \in SUBSET Nat /\ T # {}
  BY <1>1, RankFacts
<1>3. PICK r \in Ranks : Running(r) /\ \A q \in Ranks : Running(q) => Len(sent[r]) <= Len(sent[q])
  <2>1. PICK x \in T : \A y \in T : x <= y
    BY <1>2, LeastNatural
  <2> QED
    BY <2>1
<1> HIDE DEF T
<1>4. /\ waits[r] /\ ~ Complete(r) /\ Is(r, Len(sent[r]), call[r], Stage(r))
      /\ Len(sent[r]) \in Entered(r) /\ Len(sent[r]) \notin Left(r)
  BY <1>3, WaitsIn
<1>5. PICK q \in Ranks : ~ (Len(sent[q]) >= Len(sent[r])
                            /\ sent[q][Len(sent[r])].stage = Stage(r))
  BY <1>4 DEF Complete
<1>6. Len(sent[q]) \in Nat /\ Len(sent[r]) \in Nat /\ Len(sent[r]) >= 1
  BY <1>4, RankFacts DEF Entered
<1>7. Len(sent[q]) >= Len(sent[r]) => sent[q][Len(sent[r])].stage = Stage(r)
  <2>1. Len(sent[q]) >= Len(sent[r]) =>
          sent[r][Len(sent[r])].stage = sent[q][Len(sent[r])].stage
    BY <1>6 DEF IInv, Matched
  <2> QED
    BY <1>4, <2>1 DEF Is
<1>8. Len(sent[q]) < Len(sent[r])
  BY <1>5, <1>6, <1>7
<1>9. ~ Running(q)
  BY <1>3, <1>6, <1>8
<1>10. call[q] > Len(program)
  BY <1>9, RankFacts DEF Running
<1>11. Here(q) <= Spot(r, Len(sent[q]) + 1)
  BY <1>8, NextNotBehind
<1>12. Len(sent[q]) + 1 \in Entered(r)
  BY <1>6, <1>8 DEF Entered
<1>13. Spot(r, Len(sent[q]) + 1) < Here(q)
  <2>1. PICK n \in Entered(r) : n = Len(sent[q]) + 1
    BY <1>12
  <2>2. /\ sent[r][n].call \in Nat /\ sent[r][n].call < call[q]
        /\ At[sent[r][n].stage] \in Index /\ call[q] \in Nat /\ at[q] \in Index
    BY <1>10, EntryFacts, RankFacts
  <2>3. Spot(r, n) < Here(q)
    BY <2>2, PlaceIsOne, SMTT(40) DEF Spot, Here
  <2> QED
    BY <2>1, <2>3
<1> QED
  BY <1>11, <1>12, <1>13, EntryFacts, RankFacts

(* The ranks never wait for each other in a circle, nor for a rank that is *)
(* at its end: some rank can always go on, for any number of ranks, any    *)
(* programs, flags and data.                                               *)
THEOREM NoDeadlock == Spec => []SomeGoesOn
<1> QED
  BY Invariance, InvGoesOn, PTL

----------------------------------------------------------------------------
(* Sums.  Total is a fold, that is a function recursive over the subsets   *)
(* of a domain, which takes any element first.                             *)
Picked(s) == CHOOSE x \in s : TRUE
SumsOf(f) == CHOOSE g : g = [s \in SUBSET DOMAIN f |->
                 IF s = {} THEN 0 ELSE f[Picked(s)] + g[s \ {Picked(s)}]]
Summable(f) == IsFiniteSet(DOMAIN f) /\ \A x \in DOMAIN f : f[x] \in Int

LEMMA TotalIs == ASSUME NEW f PROVE Total(f) = SumsOf(f)[DOMAIN f]
BY DEF Total, FoldFunction, FoldFunctionOnSet, MapThenFoldSet, SumsOf, Picked

LEMMA LeastSet ==
    ASSUME NEW D, IsFiniteSet(D), NEW Bad \in SUBSET (SUBSET D), Bad # {}
    PROVE  \E s \in Bad : \A t \in SUBSET s : t # s => t \notin Bad
<1> DEFINE T == {Cardinality(s) : s \in Bad}
<1>1. \A s \in SUBSET D : IsFiniteSet(s) /\ Cardinality(s) \in Nat
  BY FS_Subset, FS_CardinalityType
<1>2. T \in SUBSET Nat /\ T # {}
  BY <1>1
<1>3. PICK n \in T : \A m \in T : n <= m
  BY <1>2, LeastNatural
<1>4. PICK s \in Bad : Cardinality(s) = n
  BY <1>3
<1>5. ASSUME NEW t \in SUBSET s, t # s
      PROVE  t \notin Bad
  <2>1. Cardinality(t) <= Cardinality(s) /\ Cardinality(t) # Cardinality(s)
    BY <1>1, <1>5, FS_Subset
  <2>2. t \in Bad => Cardinality(s) <= Cardinality(t)
    BY <1>3, <1>4
  <2>3. Cardinality(t) \in Nat /\ Cardinality(s) \in Nat
    BY <1>1
  <2> QED
    BY <2>1, <2>2, <2>3
<1> QED
  BY <1>5

(* There is such a function, and its values are numbers. *)
LEMMA SumRules ==
    ASSUME NEW f, Summable(f)
    PROVE  /\ SumsOf(f) \in [SUBSET DOMAIN f -> Int]
           /\ SumsOf(f)[{}] = 0
           /\ \A s \in SUBSET DOMAIN f :
                s # {} => SumsOf(f)[s] = f[Picked(s)] + SumsOf(f)[s \ {Picked(s)}]
<1> DEFINE D == DOMAIN f
           Of(g, u) == IF u = {} THEN 0 ELSE f[Picked(u)] + g[u \ {Picked(u)}]
           Sol(g, s) == \A u \in SUBSET s : g[u] = Of(g, u)
           Good(s) == {g \in [SUBSET s -> Int] : Sol(g, s)}
<1>1. IsFiniteSet(D) /\ \A x \in D : f[x] \in Int
  BY DEF Summable
<1>2. \A u : u # {} => Picked(u) \in u
  BY DEF Picked
<1> HIDE DEF D
<1>3. ASSUME NEW s \in SUBSET D, NEW t \in SUBSET D, NEW g, NEW h,
             Sol(g, s), Sol(h, t),
             NEW v \in SUBSET s, v \in SUBSET t
      PROVE  g[v] = h[v]
  <2> DEFINE Bad == {u \in SUBSET D : u \subseteq s /\ u \subseteq t /\ g[u] # h[u]}
  <2>1. SUFFICES ASSUME Bad # {} PROVE FALSE
    BY <1>3
  <2>2. PICK u \in Bad : \A w \in SUBSET u : w # u => w \notin Bad
    <3>1. Bad \in SUBSET (SUBSET D)
      OBVIOUS
    <3> HIDE DEF Bad
    <3> QED
      BY <1>1, <2>1, <3>1, LeastSet
  <2>3. u # {}
    BY <1>3, <2>2
  <2>4. g[u \ {Picked(u)}] = h[u \ {Picked(u)}]
    BY <1>2, <2>2, <2>3
  <2> QED
    BY <1>3, <2>2, <2>3, <2>4
<1>4. Good(D) # {}
  <2> DEFINE Bad == {s \in SUBSET D : Good(s) = {}}
  <2>1. SUFFICES ASSUME Bad # {} PROVE FALSE
    OBVIOUS
  <2>2. PICK s \in Bad : \A t \in SUBSET s : t # s => t \notin Bad
    <3>1. Bad \in SUBSET (SUBSET D)
      OBVIOUS
    <3> HIDE DEF Bad
    <3> QED
      BY <1>1, <2>1, <3>1, LeastSet
  <2> DEFINE G(u) == CHOOSE g : g \in Good(u)
             p == Picked(s)
             h == [u \in SUBSET s |-> IF u = {} THEN 0 ELSE
                     IF u = s THEN f[p] + G(s \ {p})[s \ {p}] ELSE G(u)[u]]
  <2>3. s \in SUBSET D /\ Good(s) = {}
    BY <2>2
  <2>4. \A t \in SUBSET s : t # s => G(t) \in Good(t)
    BY <2>2, <2>3
  <2>5. \A t \in SUBSET s : t # s =>
          G(t) \in [SUBSET t -> Int] /\ \A u \in SUBSET t : G(t)[u] = Of(G(t), u)
    BY <2>4
  <2> HIDE DEF Bad, Good, G
  <2>6. s # {} => p \in s /\ f[p] \in Int /\ s \ {p} # s /\ s \ {p} \in SUBSET s
    BY <1>1, <1>2, <2>3
  <2>7. h \in [SUBSET s -> Int]
    <3>1. ASSUME NEW u \in SUBSET s
          PROVE  h[u] \in Int
      <4>1. CASE u = {}
        BY <4>1
      <4>2. CASE u # {} /\ u = s
        <5>1. G(s \ {p})[s \ {p}] \in Int
          BY <2>5, <2>6, <4>2
        <5> QED
          BY <5>1, <2>6, <4>2
      <4>3. CASE u # {} /\ u # s
        BY <2>5, <4>3
      <4> QED
        BY <4>1, <4>2, <4>3
    <3> QED
      BY <3>1
  <2>8. ASSUME NEW u \in SUBSET s
        PROVE  h[u] = Of(h, u)
    <3>1. CASE u = {}
      BY <3>1
    <3> DEFINE q == Picked(u)
    <3>2. CASE u # {} /\ u # s
      <4>1. q \in u /\ u \ {q} \in SUBSET u /\ u \ {q} # s /\ u \ {q} \in SUBSET s
        BY <1>2, <3>2
      <4>2. h[u] = G(u)[u] /\ G(u)[u] = f[q] + G(u)[u \ {q}]
        BY <2>5, <3>2
      <4>3. G(u)[u \ {q}] = G(u \ {q})[u \ {q}]
        <5>1. PICK w : w = u \ {q}
          OBVIOUS
        <5>2. w \in SUBSET s /\ w # s /\ w \in SUBSET u /\ u \in SUBSET s /\ s \in SUBSET D
          BY <2>3, <4>1, <5>1
        <5>3. Sol(G(u), u) /\ Sol(G(w), w)
          BY <2>5, <3>2, <5>2
        <5> HIDE DEF q, h, Sol
        <5>4. G(u)[w] = G(w)[w]
          BY <1>3, <5>2, <5>3
        <5> QED
          BY <5>1, <5>4
      <4>4. h[u \ {q}] = G(u \ {q})[u \ {q}]
        <5>1. PICK w : w = u \ {q}
          OBVIOUS
        <5>2. w \in SUBSET s /\ w # s
          BY <4>1, <5>1
        <5>3. w = {} => G(w)[w] = 0
          BY <2>5, <5>2
        <5> QED
          BY <5>1, <5>2, <5>3
      <4> HIDE DEF h, q
      <4> QED
        BY <4>2, <4>3, <4>4, <3>2 DEF q
    <3>3. CASE u # {} /\ u = s
      <4>1. h[s \ {p}] = G(s \ {p})[s \ {p}]
        <5>1. PICK w : w = s \ {p}
          OBVIOUS
        <5>2. w \in SUBSET s /\ w # s
          BY <2>6, <3>3, <5>1
        <5>3. w = {} => G(w)[w] = 0
          BY <2>5, <5>2
        <5> QED
          BY <5>1, <5>2, <5>3
      <4> QED
        BY <3>3, <4>1
    <3> QED
      BY <3>1, <3>2, <3>3
  <2> HIDE DEF h
  <2>9. h \in Good(s)
    BY <2>7, <2>8 DEF Good
  <2> QED
    BY <2>3, <2>9
<1>5. PICK g \in [SUBSET D -> Int] : \A u \in SUBSET D : g[u] = Of(g, u)
  BY <1>4
<1>6. g = [s \in SUBSET DOMAIN f |->
             IF s = {} THEN 0 ELSE f[Picked(s)] + g[s \ {Picked(s)}]]
  BY <1>5 DEF D
<1>7. SumsOf(f) = [s \in SUBSET DOMAIN f |->
             IF s = {} THEN 0 ELSE f[Picked(s)] + SumsOf(f)[s \ {Picked(s)}]]
  BY <1>6 DEF SumsOf
<1> DEFINE S == SumsOf(f)
<1>8. DOMAIN S = SUBSET D /\ \A u \in SUBSET D : S[u] = Of(S, u)
  BY <1>7 DEF D
<1> HIDE DEF S
<1>9. \A u \in SUBSET D : S[u] = g[u]
  <2>1. Sol(S, D) /\ Sol(g, D) /\ D \in SUBSET D
    BY <1>5, <1>8
  <2> HIDE DEF Sol
  <2> QED
    BY <1>3, <2>1
<1>10. \A u \in SUBSET D : S[u] \in Int
  BY <1>5, <1>9
<1>11. S = [u \in SUBSET D |-> S[u]]
  BY <1>7, <1>8 DEF S
<1>12. S \in [SUBSET D -> Int]
  BY <1>10, <1>11
<1> QED
  BY <1>8, <1>12 DEF S, D

(* The element taken first does not matter. *)
LEMMA SumTake ==
    ASSUME NEW f, Summable(f), NEW s \in SUBSET DOMAIN f, NEW x \in s
    PROVE  SumsOf(f)[s] = f[x] + SumsOf(f)[s \ {x}]
<1> DEFINE D == DOMAIN f
           S == SumsOf(f)
           Wrong(t, z) == S[t] # f[z] + S[t \ {z}]
           Bad == {t \in SUBSET D : \E z \in t : Wrong(t, z)}
<1>1. IsFiniteSet(D) /\ \A y \in D : f[y] \in Int
  BY DEF Summable
<1>2. /\ S \in [SUBSET D -> Int]
      /\ \A t \in SUBSET D : t # {} => S[t] = f[Picked(t)] + S[t \ {Picked(t)}]
  BY SumRules
<1> HIDE DEF S, D
<1>3. Bad \in SUBSET (SUBSET D)
  OBVIOUS
<1>4. SUFFICES ASSUME Bad # {} PROVE FALSE
  BY DEF S, D
<1>5. PICK t \in Bad : \A u \in SUBSET t : u # t => u \notin Bad
  <2> HIDE DEF Bad
  <2> QED
    BY <1>1, <1>3, <1>4, LeastSet
<1>6. PICK z \in t : S[t] # f[z] + S[t \ {z}]
  BY <1>5
<1>a. \A u \in SUBSET t : u # t => \A w \in u : S[u] = f[w] + S[u \ {w}]
  BY <1>5
<1> DEFINE y == Picked(t)
<1>7. y \in t /\ S[t] = f[y] + S[t \ {y}] /\ t \in SUBSET D
  BY <1>2, <1>5, <1>6 DEF Picked
<1> HIDE DEF y
<1>8. y # z
  BY <1>6, <1>7
<1> DEFINE a == t \ {z}
           b == t \ {y}
           c == (t \ {z}) \ {y}
<1>9. /\ a \in SUBSET D /\ b \in SUBSET D /\ c \in SUBSET D /\ y \in a /\ z \in b
      /\ a \in SUBSET t /\ b \in SUBSET t /\ a # t /\ b # t /\ b \ {z} = c /\ a \ {y} = c
  BY <1>6, <1>7, <1>8
<1> HIDE DEF a, b, c
<1>10. S[b] = f[z] + S[c]
  BY <1>a, <1>9
<1>11. S[a] = f[y] + S[c]
  BY <1>a, <1>9
<1>12. S[a] \in Int /\ S[b] \in Int /\ S[c] \in Int /\ f[y] \in Int /\ f[z] \in Int
  BY <1>1, <1>2, <1>6, <1>7, <1>9
<1>13. S[t] = f[y] + S[b] /\ S[t] # f[z] + S[a]
  BY <1>6, <1>7 DEF a, b
<1> QED
  BY <1>10, <1>11, <1>12, <1>13

(* A sum is of values, whatever their indices. *)
LEMMA SumRenamed ==
    ASSUME NEW f, Summable(f), NEW g, Summable(g), NEW I \in SUBSET DOMAIN g,
           NEW m \in [I -> DOMAIN f], \A x, y \in I : m[x] = m[y] => x = y,
           \A x \in I : g[x] = f[m[x]]
    PROVE  SumsOf(g)[I] = SumsOf(f)[{m[x] : x \in I}]
<1> DEFINE E == DOMAIN g
           D == DOMAIN f
           S == SumsOf(g)
           Z == SumsOf(f)
           Im(t) == {m[x] : x \in t}
           Bad == {t \in SUBSET E : t \subseteq I /\ S[t] # Z[Im(t)]}
<1>1. IsFiniteSet(E) /\ S[{}] = 0 /\ Z[{}] = 0
  BY SumRules DEF Summable
<1>2. /\ \A t \in SUBSET E : \A x \in t : S[t] = g[x] + S[t \ {x}]
      /\ \A t \in SUBSET D : \A x \in t : Z[t] = f[x] + Z[t \ {x}]
  <2>1. ASSUME NEW t \in SUBSET E, NEW x \in t
        PROVE  S[t] = g[x] + S[t \ {x}]
    BY SumTake
  <2>2. ASSUME NEW t \in SUBSET D, NEW x \in t
        PROVE  Z[t] = f[x] + Z[t \ {x}]
    BY SumTake
  <2> QED
    BY <2>1, <2>2
<1> HIDE DEF S, Z
<1>3. SUFFICES ASSUME Bad # {} PROVE FALSE
  BY DEF S, Z
<1>4. PICK t \in Bad : \A u \in SUBSET t : u # t => u \notin Bad
  <2>1. Bad \in SUBSET (SUBSET E)
    OBVIOUS
  <2> HIDE DEF Bad, E
  <2> QED
    BY <1>1, <1>3, <2>1, LeastSet
<1>5. t \in SUBSET E /\ t \subseteq I /\ S[t] # Z[Im(t)]
  BY <1>4
<1>6. t # {}
  BY <1>1, <1>5
<1>7. PICK x \in t : TRUE
  BY <1>6
<1> DEFINE u == t \ {x}
<1>8. u \in SUBSET t /\ u # t /\ u \subseteq I /\ u \in SUBSET E
  BY <1>5, <1>7
<1>9. S[u] = Z[Im(u)]
  BY <1>4, <1>8
<1>10. Im(u) = Im(t) \ {m[x]} /\ m[x] \in Im(t) /\ Im(t) \in SUBSET D
  BY <1>5, <1>7
<1>11. S[t] = g[x] + S[u] /\ Z[Im(t)] = f[m[x]] + Z[Im(u)]
  <2>1. S[t] = g[x] + S[u]
    BY <1>2, <1>5, <1>7
  <2>2. PICK w, v : w = Im(t) /\ v = Im(u)
    OBVIOUS
  <2>3. w \in SUBSET D /\ m[x] \in w /\ v = w \ {m[x]}
    BY <1>10, <2>2
  <2>4. Z[w] = f[m[x]] + Z[v]
    BY <1>2, <2>3
  <2> QED
    BY <2>1, <2>2, <2>4
<1>12. g[x] = f[m[x]]
  BY <1>5, <1>7
<1> QED
  BY <1>5, <1>9, <1>11, <1>12

LEMMA SumUnion ==
    ASSUME NEW f, Summable(f), NEW s \in SUBSET DOMAIN f, NEW t \in SUBSET DOMAIN f,
           s \cap t = {}
    PROVE  SumsOf(f)[s \cup t] = SumsOf(f)[s] + SumsOf(f)[t]
<1> DEFINE D == DOMAIN f
           S == SumsOf(f)
           Bad == {u \in SUBSET D : u \subseteq t /\ S[s \cup u] # S[s] + S[u]}
<1>1. /\ IsFiniteSet(D) /\ S[{}] = 0 /\ S \in [SUBSET D -> Int]
      /\ \A x \in D : f[x] \in Int
  BY SumRules DEF Summable
<1>2. \A u \in SUBSET D : \A x \in u : S[u] = f[x] + S[u \ {x}]
  BY SumTake
<1> HIDE DEF S, D
<1>3. SUFFICES ASSUME Bad # {} PROVE FALSE
  BY DEF S, D
<1>4. PICK u \in Bad : \A w \in SUBSET u : w # u => w \notin Bad
  <2>1. Bad \in SUBSET (SUBSET D)
    OBVIOUS
  <2> HIDE DEF Bad
  <2> QED
    BY <1>1, <1>3, <2>1, LeastSet
<1>5. u \in SUBSET D /\ u \subseteq t /\ S[s \cup u] # S[s] + S[u] /\ s \in SUBSET D
  BY <1>4 DEF D
<1>6. u # {}
  <2> SUFFICES ASSUME u = {} PROVE FALSE
    OBVIOUS
  <2>1. s \cup u = s
    OBVIOUS
  <2>2. S[s] \in Int /\ S[u] = 0
    BY <1>1, <1>5
  <2>3. S[s \cup u] = S[s]
    BY <2>1
  <2>4. S[s] + S[u] = S[s]
    BY <2>2
  <2> QED
    BY <1>5, <2>3, <2>4
<1>7. PICK x \in u : TRUE
  BY <1>6
<1> DEFINE w == u \ {x}
<1>8. w \in SUBSET u /\ w # u /\ w \in SUBSET D /\ w \subseteq t
  BY <1>5
<1>9. S[s \cup w] = S[s] + S[w]
  BY <1>4, <1>8
<1>10. /\ x \in s \cup u /\ (s \cup u) \ {x} = s \cup w /\ s \cup u \in SUBSET D
       /\ s \cup w \in SUBSET D /\ x \in D
  BY <1>5, <1>7
<1> HIDE DEF w
<1>11. S[s \cup u] = f[x] + S[s \cup w] /\ S[u] = f[x] + S[w]
  BY <1>2, <1>5, <1>7, <1>10 DEF w
<1>12. S[s] \in Int /\ S[w] \in Int /\ f[x] \in Int
  BY <1>1, <1>5, <1>8, <1>10
<1> QED
  BY <1>5, <1>9, <1>11, <1>12

(* The sum of sums of parts. *)
LEMMA SumOfParts ==
    ASSUME NEW f, Summable(f), NEW k, Summable(k), NEW P, DOMAIN P = DOMAIN k,
           \A r \in DOMAIN k : P[r] \subseteq DOMAIN f /\ k[r] = SumsOf(f)[P[r]],
           \A q, r \in DOMAIN k : q # r => P[q] \cap P[r] = {},
           NEW A, \A x : x \in A <=> \E r \in DOMAIN k : x \in P[r]
    PROVE  Total(k) = SumsOf(f)[A]
<1> DEFINE R == DOMAIN k
           D == DOMAIN f
           S == SumsOf(f)
           Z == SumsOf(k)
           All(T) == UNION {P[r] : r \in T}
           Bad == {T \in SUBSET R : Z[T] # S[All(T)]}
<1>1. /\ IsFiniteSet(R) /\ S[{}] = 0 /\ Z[{}] = 0
      /\ Total(k) = Z[R]
  BY SumRules, TotalIs DEF Summable
<1>2. ASSUME NEW T \in SUBSET R, NEW r \in T
      PROVE  Z[T] = k[r] + Z[T \ {r}]
  <2> HIDE DEF Z
  <2> QED
    BY SumTake DEF Z
<1>3. \A s, t \in SUBSET D : s \cap t = {} => S[s \cup t] = S[s] + S[t]
  BY SumUnion
<1> HIDE DEF S, Z
<1>4. SUFFICES ASSUME Bad # {} PROVE FALSE
  <2>1. All(R) = A
    OBVIOUS
  <2> QED
    BY <1>1, <2>1 DEF S
<1>5. PICK T \in Bad : \A U \in SUBSET T : U # T => U \notin Bad
  <2>1. Bad \in SUBSET (SUBSET R)
    OBVIOUS
  <2> HIDE DEF Bad, R
  <2> QED
    BY <1>1, <1>4, <2>1, LeastSet
<1>6. T \in SUBSET R /\ Z[T] # S[All(T)]
  BY <1>5
<1>7. T # {}
  <2>1. All({}) = {}
    OBVIOUS
  <2> QED
    BY <1>1, <1>6, <2>1
<1>8. PICK r \in T : TRUE
  BY <1>7
<1> DEFINE U == T \ {r}
<1>9. U \in SUBSET T /\ U # T /\ U \in SUBSET R
  BY <1>6, <1>8
<1>10. Z[U] = S[All(U)]
  BY <1>5, <1>9
<1>11. /\ All(T) = P[r] \cup All(U) /\ P[r] \cap All(U) = {}
       /\ P[r] \in SUBSET D /\ All(U) \in SUBSET D
  <2>1. \A q \in U : q # r /\ q \in R /\ r \in R /\ P[q] \cap P[r] = {}
    BY <1>6, <1>8
  <2>2. P[r] \cap All(U) = {}
    BY <2>1
  <2>3. All(T) = P[r] \cup All(U)
    BY <1>8
  <2> QED
    BY <1>6, <1>8, <1>9, <2>2, <2>3
<1>12. S[All(T)] = S[P[r]] + S[All(U)]
  <2>1. PICK a, b : a = P[r] /\ b = All(U)
    OBVIOUS
  <2>2. a \in SUBSET D /\ b \in SUBSET D /\ a \cap b = {} /\ All(T) = a \cup b
    BY <1>11, <2>1
  <2>3. S[a \cup b] = S[a] + S[b]
    BY <1>3, <2>2
  <2> QED
    BY <2>1, <2>2, <2>3
<1>13. Z[T] = k[r] + Z[U] /\ k[r] = S[P[r]]
  BY <1>2, <1>6, <1>8 DEF S
<1> QED
  BY <1>6, <1>10, <1>12, <1>13

LEMMA SumOfOnes ==
    ASSUME NEW D, IsFiniteSet(D), NEW T \in SUBSET D
    PROVE  SumsOf([i \in D |-> 1])[T] = Cardinality(T)
<1> DEFINE f == [i \in D |-> 1]
           S == SumsOf(f)
           Bad == {t \in SUBSET D : S[t] # Cardinality(t)}
<1>1. Summable(f) /\ DOMAIN f = D
  BY DEF Summable
<1>2. S[{}] = 0 /\ \A t \in SUBSET D : \A x \in t : S[t] = f[x] + S[t \ {x}]
  <2> HIDE DEF f
  <2> QED
    BY <1>1, SumRules, SumTake
<1> HIDE DEF S
<1>3. SUFFICES ASSUME Bad # {} PROVE FALSE
  BY DEF S
<1>4. PICK t \in Bad : \A w \in SUBSET t : w # t => w \notin Bad
  <2>1. Bad \in SUBSET (SUBSET D)
    OBVIOUS
  <2> HIDE DEF Bad
  <2> QED
    BY <1>3, <2>1, LeastSet
<1>5. t \in SUBSET D /\ S[t] # Cardinality(t) /\ IsFiniteSet(t)
  BY <1>4, FS_Subset
<1>6. t # {}
  BY <1>2, <1>5, FS_EmptySet
<1>7. PICK x \in t : TRUE
  BY <1>6
<1>8. S[t \ {x}] = Cardinality(t \ {x})
  BY <1>4, <1>5, <1>7
<1>9. Cardinality(t \ {x}) = Cardinality(t) - 1 /\ Cardinality(t) \in Nat
  BY <1>5, <1>7, FS_RemoveElement, FS_CardinalityType
<1>10. S[t] = 1 + S[t \ {x}]
  BY <1>2, <1>5, <1>7
<1> QED
  BY <1>5, <1>8, <1>9, <1>10

----------------------------------------------------------------------------
(* Extremes.                                                               *)
LEMMA LeastOf ==
    ASSUME NEW S \in SUBSET Int, IsFiniteSet(S), S # {}
    PROVE  Min(S) \in S /\ \A y \in S : Min(S) <= y
<1> DEFINE Bad == {s \in SUBSET S : s # {} /\ ~ \E x \in s : \A y \in s : x <= y}
<1>1. Bad = {}
  <2> SUFFICES ASSUME Bad # {} PROVE FALSE
    OBVIOUS
  <2>1. PICK s \in Bad : \A t \in SUBSET s : t # s => t \notin Bad
    <3>1. Bad \in SUBSET (SUBSET S)
      OBVIOUS
    <3> HIDE DEF Bad
    <3> QED
      BY <3>1, LeastSet
  <2>2. PICK x \in s : TRUE
    BY <2>1
  <2>3. PICK y \in s : y < x
    BY <2>1, <2>2
  <2> DEFINE t == s \ {x}
  <2>4. t \in SUBSET S /\ t # s /\ t \in SUBSET s /\ y \in t
    BY <2>1, <2>2, <2>3
  <2>5. PICK z \in t : \A w \in t : z <= w
    BY <2>1, <2>4
  <2>6. z \in Int /\ x \in Int /\ y \in Int /\ z <= y
    BY <2>1, <2>4, <2>5
  <2>7. \A w \in s : z <= w
    BY <2>3, <2>5, <2>6
  <2> QED
    BY <2>1, <2>5, <2>7
<1>2. \E x \in S : \A y \in S : x <= y
  BY <1>1
<1> QED
  BY <1>2 DEF Min

LEMMA GreatestOf ==
    ASSUME NEW S \in SUBSET Int, IsFiniteSet(S), S # {}
    PROVE  Max(S) \in S /\ \A y \in S : y <= Max(S)
<1> DEFINE Bad == {s \in SUBSET S : s # {} /\ ~ \E x \in s : \A y \in s : y <= x}
<1>1. Bad = {}
  <2> SUFFICES ASSUME Bad # {} PROVE FALSE
    OBVIOUS
  <2>1. PICK s \in Bad : \A t \in SUBSET s : t # s => t \notin Bad
    <3>1. Bad \in SUBSET (SUBSET S)
      OBVIOUS
    <3> HIDE DEF Bad
    <3> QED
      BY <3>1, LeastSet
  <2>2. PICK x \in s : TRUE
    BY <2>1
  <2>3. PICK y \in s : y > x
    BY <2>1, <2>2
  <2> DEFINE t == s \ {x}
  <2>4. t \in SUBSET S /\ t # s /\ t \in SUBSET s /\ y \in t
    BY <2>1, <2>2, <2>3
  <2>5. PICK z \in t : \A w \in t : w <= z
    BY <2>1, <2>4
  <2>6. z \in Int /\ x \in Int /\ y \in Int /\ y <= z
    BY <2>1, <2>4, <2>5
  <2>7. \A w \in s : w <= z
    BY <2>3, <2>5, <2>6
  <2> QED
    BY <2>1, <2>5, <2>7
<1>2. \E x \in S : \A y \in S : y <= x
  BY <1>1
<1> QED
  BY <1>2 DEF Max

LEMMA RangeOf ==
    ASSUME NEW f, Summable(f), DOMAIN f # {}
    PROVE  /\ Range(f) \in SUBSET Int /\ IsFiniteSet(Range(f)) /\ Range(f) # {}
           /\ \A x \in DOMAIN f : f[x] \in Range(f)
           /\ \A y \in Range(f) : \E x \in DOMAIN f : y = f[x]
<1>1. /\ Range(f) \in SUBSET Int /\ Range(f) # {}
      /\ \A x \in DOMAIN f : f[x] \in Range(f)
      /\ \A y \in Range(f) : \E x \in DOMAIN f : y = f[x]
  BY DEF Summable, Range
<1> DEFINE g == [x \in DOMAIN f |-> f[x]]
<1>2. g \in Surjection(DOMAIN f, Range(f))
  BY DEF Surjection, Range
<1>3. IsFiniteSet(Range(f))
  BY <1>2, FS_Surjection DEF Summable
<1> QED
  BY <1>1, <1>3

----------------------------------------------------------------------------
(* What the ranks find on their parts and put together is what one process *)
(* with all the elements finds.                                            *)
LEMMA PartFacts ==
    ASSUME data \in Parts, NEW v \in Vars, NEW r \in Ranks
    PROVE  /\ Len(data[v][r]) \in Nat \ {0} /\ Idx(data[v][r]) = 1 .. Len(data[v][r])
           /\ IsFiniteSet(Idx(data[v][r])) /\ Cardinality(Idx(data[v][r])) = Len(data[v][r])
           /\ 1 \in Idx(data[v][r])
           /\ \A n \in Idx(data[v][r]) : data[v][r][n].ori \in Int /\ data[v][r][n].dec \in Int
<1>1. data[v][r] \in Seq([ori : Int, dec : Int]) /\ data[v][r] # <<>>
  BY DataAssumption
<1>2. Len(data[v][r]) \in Nat \ {0} /\ DOMAIN data[v][r] = 1 .. Len(data[v][r])
  BY <1>1, EmptySeq, LenProperties
<1>3. \A n \in 1 .. Len(data[v][r]) : data[v][r][n] \in [ori : Int, dec : Int]
  BY <1>1, <1>2, ElementOfSeq
<1>4. IsFiniteSet(1 .. Len(data[v][r])) /\ Cardinality(1 .. Len(data[v][r])) = Len(data[v][r])
  BY <1>2, FS_Interval
<1> QED
  BY <1>2, <1>3, <1>4 DEF Idx

LEMMA RanksFinite == IsFiniteSet(Ranks) /\ 0 \in Ranks /\ Ranks \subseteq Nat
BY SizeAssumption, FS_Interval DEF Ranks

ItemsOf(v) == [r \in Ranks |-> {<<r, n>> : n \in Idx(data[v][r])}]

LEMMA ItemFacts ==
    ASSUME data \in Parts, NEW v \in Vars
    PROVE  /\ Items(v) = UNION {ItemsOf(v)[r] : r \in Ranks}
           /\ IsFiniteSet(Items(v)) /\ <<0, 1>> \in Items(v)
           /\ \A i \in Items(v) : /\ i[1] \in Ranks /\ i[2] \in Idx(data[v][i[1]])
                                  /\ i = <<i[1], i[2]>>
           /\ \A r \in Ranks : \A n \in Idx(data[v][r]) : <<r, n>> \in Items(v)
           /\ \A q, r \in Ranks : q # r => ItemsOf(v)[q] \cap ItemsOf(v)[r] = {}
<1>1. Items(v) = UNION {ItemsOf(v)[r] : r \in Ranks}
  BY DEF Items, ItemsOf
<1>2. \A r \in Ranks : \A n \in Idx(data[v][r]) : <<r, n>> \in Items(v)
  BY DEF Items
<1>3. \A i \in Items(v) : i[1] \in Ranks /\ i[2] \in Idx(data[v][i[1]]) /\ i = <<i[1], i[2]>>
  BY DEF Items
<1>4. <<0, 1>> \in Items(v)
  BY <1>2, PartFacts, RanksFinite
<1>5. \A r \in Ranks : IsFiniteSet(ItemsOf(v)[r])
  <2> TAKE r \in Ranks
  <2> DEFINE g == [n \in Idx(data[v][r]) |-> <<r, n>>]
  <2>1. g \in Surjection(Idx(data[v][r]), ItemsOf(v)[r])
    BY DEF Surjection, ItemsOf
  <2> QED
    BY <2>1, PartFacts, FS_Surjection
<1>6. IsFiniteSet({ItemsOf(v)[r] : r \in Ranks})
  <2> DEFINE g == [r \in Ranks |-> ItemsOf(v)[r]]
  <2>1. g \in Surjection(Ranks, {ItemsOf(v)[r] : r \in Ranks})
    BY DEF Surjection
  <2> QED
    BY <2>1, RanksFinite, FS_Surjection
<1>7. IsFiniteSet(UNION {ItemsOf(v)[r] : r \in Ranks})
  BY <1>5, <1>6, FS_UNION
<1>8. \A q, r \in Ranks : q # r => ItemsOf(v)[q] \cap ItemsOf(v)[r] = {}
  BY DEF ItemsOf
<1> QED
  BY <1>1, <1>2, <1>3, <1>4, <1>7, <1>8

(* f has for each item what g has for it on its rank. *)
Divided(v, f, g) ==
    /\ DOMAIN f = Items(v) /\ DOMAIN g = Ranks
    /\ \A r \in Ranks :
        /\ DOMAIN g[r] = Idx(data[v][r])
        /\ \A n \in Idx(data[v][r]) : g[r][n] \in Int /\ f[<<r, n>>] = g[r][n]

LEMMA DividedFacts ==
    ASSUME data \in Parts, NEW v \in Vars, NEW f, NEW g, Divided(v, f, g)
    PROVE  /\ Summable(f) /\ DOMAIN f # {}
           /\ \A r \in Ranks : Summable(g[r]) /\ DOMAIN g[r] # {}
<1>1. \A i \in Items(v) : f[i] \in Int
  BY ItemFacts DEF Divided
<1>2. Summable(f) /\ DOMAIN f # {}
  BY <1>1, ItemFacts DEF Divided, Summable
<1>3. ASSUME NEW r \in Ranks
      PROVE  Summable(g[r]) /\ DOMAIN g[r] # {}
  <2>1. DOMAIN g[r] = Idx(data[v][r]) /\ \A n \in Idx(data[v][r]) : g[r][n] \in Int
    BY DEF Divided
  <2> QED
    BY <2>1, PartFacts DEF Summable
<1> QED
  BY <1>2, <1>3

LEMMA SumTogether ==
    ASSUME data \in Parts, NEW v \in Vars, NEW f, NEW g, Divided(v, f, g),
           NEW k, DOMAIN k = Ranks, \A r \in Ranks : k[r] = Total(g[r])
    PROVE  Total(k) = Total(f)
<1> DEFINE P == ItemsOf(v)
<1>1. DOMAIN P = Ranks /\ \A r \in Ranks : P[r] = {<<r, n>> : n \in Idx(data[v][r])}
  BY DEF ItemsOf
<1>2. Summable(f) /\ \A r \in Ranks : Summable(g[r]) /\ DOMAIN g[r] = Idx(data[v][r])
  BY DividedFacts DEF Divided
<1>3. \A r \in Ranks : \A n \in Idx(data[v][r]) : <<r, n>> \in DOMAIN f
                                                 /\ f[<<r, n>>] = g[r][n]
  BY ItemFacts DEF Divided
<1> HIDE DEF P
<1>4. ASSUME NEW r \in Ranks
      PROVE  P[r] \subseteq DOMAIN f /\ k[r] = SumsOf(f)[P[r]] /\ k[r] \in Int
  <2> DEFINE I == Idx(data[v][r])
             m == [n \in I |-> <<r, n>>]
  <2>1. m \in [I -> DOMAIN f] /\ I = DOMAIN g[r] /\ P[r] = {m[n] : n \in I}
    BY <1>1, <1>2, <1>3
  <2>2. \A x, y \in I : m[x] = m[y] => x = y
    OBVIOUS
  <2>3. \A n \in I : g[r][n] = f[m[n]]
    BY <1>3
  <2> HIDE DEF I, m
  <2>4. SumsOf(g[r])[I] = SumsOf(f)[{m[n] : n \in I}]
    BY <1>2, <2>1, <2>2, <2>3, SumRenamed
  <2>5. k[r] = SumsOf(g[r])[I]
    BY <2>1, TotalIs
  <2>6. SumsOf(g[r])[I] \in Int
    BY <1>2, <2>1, SumRules
  <2> QED
    BY <2>1, <2>4, <2>5, <2>6
<1>5. Summable(k)
  BY <1>4, RanksFinite DEF Summable
<1>6. /\ \A x : x \in DOMAIN f <=> \E r \in Ranks : x \in P[r]
      /\ \A q, r \in Ranks : q # r => P[q] \cap P[r] = {}
  BY ItemFacts DEF P, Divided
<1>7. Total(k) = SumsOf(f)[DOMAIN f]
  <2>1. /\ Summable(f) /\ Summable(k) /\ DOMAIN P = DOMAIN k
        /\ \A r \in DOMAIN k : P[r] \subseteq DOMAIN f /\ k[r] = SumsOf(f)[P[r]]
        /\ \A q, r \in DOMAIN k : q # r => P[q] \cap P[r] = {}
        /\ \A x : x \in DOMAIN f <=> \E r \in DOMAIN k : x \in P[r]
    BY <1>1, <1>2, <1>4, <1>5, <1>6
  <2> QED
    BY <2>1, SumOfParts
<1> QED
  BY <1>7, TotalIs

LEMMA CountTogether ==
    ASSUME data \in Parts, NEW v \in Vars, NEW T,
           \A r \in Ranks : T[r] \subseteq Idx(data[v][r]),
           NEW k, DOMAIN k = Ranks, \A r \in Ranks : k[r] = Cardinality(T[r])
    PROVE  Total(k) = Cardinality({i \in Items(v) : i[2] \in T[i[1]]})
<1> DEFINE f == [i \in Items(v) |-> 1]
           P == [r \in Ranks |-> {<<r, n>> : n \in T[r]}]
<1>1. Summable(f) /\ DOMAIN f = Items(v) /\ DOMAIN P = Ranks
  BY ItemFacts DEF Summable
<1>2. ASSUME NEW r \in Ranks
      PROVE  P[r] \subseteq Items(v) /\ k[r] = SumsOf(f)[P[r]] /\ k[r] \in Int
  <2>1. P[r] = {<<r, n>> : n \in T[r]} /\ P[r] \subseteq Items(v)
    BY ItemFacts
  <2>2. IsFiniteSet(T[r])
    BY PartFacts, FS_Subset
  <2> DEFINE m == [n \in T[r] |-> <<r, n>>]
  <2>3. m \in Bijection(T[r], P[r])
    BY <2>1 DEF Bijection, Injection, Surjection, IsInjective
  <2>4. Cardinality(P[r]) = Cardinality(T[r])
    BY <2>2, <2>3, FS_Bijection DEF ExistsBijection
  <2>5. SumsOf(f)[P[r]] = Cardinality(P[r])
    BY <2>1, ItemFacts, SumOfOnes
  <2>6. Cardinality(T[r]) \in Nat
    BY <2>2, FS_CardinalityType
  <2> HIDE DEF f, P
  <2> QED
    BY <2>1, <2>4, <2>5, <2>6
<1>3. \A q, r \in Ranks : q # r => P[q] \cap P[r] = {}
  OBVIOUS
<1> DEFINE I == {i \in Items(v) : i[2] \in T[i[1]]}
<1>4. \A x : x \in I <=> \E r \in Ranks : x \in P[r]
  <2>1. \A r \in Ranks : \A n \in T[r] : <<r, n>> \in Items(v)
    BY ItemFacts
  <2>2. \A i \in Items(v) : i[1] \in Ranks /\ i = <<i[1], i[2]>>
    BY ItemFacts
  <2> QED
    BY <2>1, <2>2
<1>5. SumsOf(f)[I] = Cardinality(I)
  BY ItemFacts, SumOfOnes
<1>6. Summable(k)
  BY <1>2, RanksFinite DEF Summable
<1> HIDE DEF f, P, I
<1>7. Total(k) = SumsOf(f)[I]
  <2>1. /\ Summable(f) /\ Summable(k) /\ DOMAIN P = DOMAIN k
        /\ \A r \in DOMAIN k : P[r] \subseteq DOMAIN f /\ k[r] = SumsOf(f)[P[r]]
        /\ \A q, r \in DOMAIN k : q # r => P[q] \cap P[r] = {}
        /\ \A x : x \in I <=> \E r \in DOMAIN k : x \in P[r]
    BY <1>1, <1>2, <1>3, <1>4, <1>6
  <2> QED
    BY <2>1, SumOfParts
<1> QED
  BY <1>5, <1>7 DEF I

LEMMA LeastTogether ==
    ASSUME data \in Parts, NEW v \in Vars, NEW f, NEW g, Divided(v, f, g),
           NEW k, DOMAIN k = Ranks, \A r \in Ranks : k[r] = Min(Range(g[r]))
    PROVE  Min(Range(k)) = Min(Range(f))
<1>1. \A r \in Ranks : /\ k[r] \in Range(g[r]) /\ \A n \in DOMAIN g[r] : k[r] <= g[r][n]
                       /\ k[r] \in Int
  BY DividedFacts, RangeOf, LeastOf
<1>2. Summable(k) /\ DOMAIN k # {}
  BY <1>1, RanksFinite DEF Summable
<1>3. /\ Min(Range(k)) \in Range(k) /\ \A r \in Ranks : Min(Range(k)) <= k[r]
      /\ Min(Range(k)) \in Int
  BY <1>2, RangeOf, LeastOf
<1>4. /\ Min(Range(f)) \in Range(f) /\ \A i \in Items(v) : Min(Range(f)) <= f[i]
      /\ Min(Range(f)) \in Int
  BY DividedFacts, RangeOf, LeastOf DEF Divided
<1>5. PICK r \in Ranks : Min(Range(k)) = k[r]
  BY <1>2, <1>3, RangeOf
<1>6. PICK n \in Idx(data[v][r]) : k[r] = g[r][n]
  BY <1>1, DividedFacts, RangeOf DEF Divided
<1>7. Min(Range(f)) <= Min(Range(k))
  <2>1. <<r, n>> \in Items(v) /\ f[<<r, n>>] = g[r][n]
    BY <1>6, ItemFacts DEF Divided
  <2> QED
    BY <2>1, <1>4, <1>5, <1>6
<1>8. PICK i \in Items(v) : Min(Range(f)) = f[i]
  BY <1>4, DividedFacts, RangeOf DEF Divided
<1>9. i[1] \in Ranks /\ i[2] \in DOMAIN g[i[1]] /\ f[i] = g[i[1]][i[2]]
  BY ItemFacts DEF Divided
<1>10. Min(Range(k)) <= k[i[1]] /\ k[i[1]] <= f[i] /\ k[i[1]] \in Int
  BY <1>1, <1>3, <1>9
<1> QED
  BY <1>3, <1>4, <1>7, <1>8, <1>10

LEMMA GreatestTogether ==
    ASSUME data \in Parts, NEW v \in Vars, NEW f, NEW g, Divided(v, f, g),
           NEW k, DOMAIN k = Ranks, \A r \in Ranks : k[r] = Max(Range(g[r]))
    PROVE  Max(Range(k)) = Max(Range(f))
<1>1. \A r \in Ranks : /\ k[r] \in Range(g[r]) /\ \A n \in DOMAIN g[r] : g[r][n] <= k[r]
                       /\ k[r] \in Int
  BY DividedFacts, RangeOf, GreatestOf
<1>2. Summable(k) /\ DOMAIN k # {}
  BY <1>1, RanksFinite DEF Summable
<1>3. /\ Max(Range(k)) \in Range(k) /\ \A r \in Ranks : k[r] <= Max(Range(k))
      /\ Max(Range(k)) \in Int
  BY <1>2, RangeOf, GreatestOf
<1>4. /\ Max(Range(f)) \in Range(f) /\ \A i \in Items(v) : f[i] <= Max(Range(f))
      /\ Max(Range(f)) \in Int
  BY DividedFacts, RangeOf, GreatestOf DEF Divided
<1>5. PICK r \in Ranks : Max(Range(k)) = k[r]
  BY <1>2, <1>3, RangeOf
<1>6. PICK n \in Idx(data[v][r]) : k[r] = g[r][n]
  BY <1>1, DividedFacts, RangeOf DEF Divided
<1>7. Max(Range(k)) <= Max(Range(f))
  <2>1. <<r, n>> \in Items(v) /\ f[<<r, n>>] = g[r][n]
    BY <1>6, ItemFacts DEF Divided
  <2> QED
    BY <2>1, <1>4, <1>5, <1>6
<1>8. PICK i \in Items(v) : Max(Range(f)) = f[i]
  BY <1>4, DividedFacts, RangeOf DEF Divided
<1>9. i[1] \in Ranks /\ i[2] \in DOMAIN g[i[1]] /\ f[i] = g[i[1]][i[2]]
  BY ItemFacts DEF Divided
<1>10. k[i[1]] <= Max(Range(k)) /\ f[i] <= k[i[1]] /\ k[i[1]] \in Int
  BY <1>1, <1>3, <1>9
<1> QED
  BY <1>3, <1>4, <1>7, <1>8, <1>10

----------------------------------------------------------------------------
(* The statistics of a variable as one process would find them.            *)
OriMin(v) == Min(Range(OriAt(v)))
OriMax(v) == Max(Range(OriAt(v)))
DiffMin(v) == Min(Range(DiffAt(v)))
DiffMax(v) == Max(Range(DiffAt(v)))
Distance(v) == [i \in Items(v) |-> (2 * OriAt(v)[i] - (OriMin(v) + OriMax(v)))
                                    * (2 * OriAt(v)[i] - (OriMin(v) + OriMax(v)))]
SquaredDiff(v) == [i \in Items(v) |-> DiffAt(v)[i] * DiffAt(v)[i]]
InBin(v, b) == {i \in Items(v) : Bin(DiffAt(v)[i], DiffMin(v), DiffMax(v)) = b}

(* The number of calls whose length is settled for rank r. *)
Counted(r) == IF at[r] > At["len"] THEN call[r] ELSE call[r] - 1

(* What a rank sent is computed from its part, and from what all know. *)
Says(m, r) ==
    LET v == program[m.call].var
        mine == data[v][r]
    IN  /\ m.stage = "len" => m.value = Len(mine)
        /\ m.stage = "min" => m.value = Min(Range(Ori(mine)))
        /\ m.stage = "max" => m.value = Max(Range(Ori(mine)))
        /\ m.stage = "sum" => m.value = Total(Ori(mine))
        /\ m.stage = "square" => m.value = Square(mine, OriMin(v), OriMax(v))
        /\ m.stage = "errSum" => m.value = SquaredError(mine)
        /\ m.stage = "errMax" => m.value.diff = Max(Range(Diff(mine)))
        /\ m.stage = "errMin" => m.value.diff = Min(Range(Diff(mine)))
        /\ m.stage = "absErrPDF" => m.value = Histogram(mine, DiffMin(v), DiffMax(v))

Told == \A r \in Ranks : \A n \in Entered(r) : Says(sent[r][n], r)

(* No length is asked for twice, so that of the variable measured last     *)
(* stays. *)
LengthIs ==
    \A r \in Ranks :
        globalDataLength[r] = IF Counted(r) = 0 THEN 0
                              ELSE Cardinality(Items(Measured(Counted(r))))
Asked ==
    \A r \in Ranks :
        waits[r] /\ (Stage(r) = "cmpLen" \/ (Stage(r) = "len" /\ Current(r).kind # "length"))
            => globalDataLength[r] = 0

PropertyIs ==
    \A r \in Ranks :
        /\ DOMAIN property[r] = DOMAIN NoProperty
        /\ call[r] <= Len(program) /\ Current(r).kind # "length" =>
            LET v == Current(r).var
            IN  /\ at[r] > At["len"] => property[r].numOfElem = globalDataLength[r]
                /\ at[r] > At["min"] => property[r].min = OriMin(v)
                /\ at[r] > At["max"] => property[r].max = OriMax(v)
                /\ at[r] > At["sum"] => property[r].sum = Total(OriAt(v))
                /\ at[r] > At["square"] => property[r].square = Total(Distance(v))

ResultIs ==
    \A r \in Ranks :
        call[r] <= Len(program) /\ Current(r).kind \in {"round", "compare"} =>
            LET v == Current(r).var
            IN  /\ at[r] > At["errSum"] => result[r].errSum = Total(SquaredDiff(v))
                /\ at[r] > At["errMax"] => result[r].maxDiff = DiffMax(v)
                /\ at[r] > At["errMin"] => result[r].minDiff = DiffMin(v)
                /\ at[r] > At["absErrPDF"] /\ r = 0 /\ "absErrPDF" \in flags
                        /\ DiffMin(v) # DiffMax(v) =>
                    result[r].pdf = [b \in 0 .. PDF_INTERVALS - 1 |-> Cardinality(InBin(v, b))]

VInv == Told /\ LengthIs /\ Asked /\ PropertyIs /\ ResultIs

----------------------------------------------------------------------------
(* Each reduction of what the ranks say gives the statistic.               *)
LEMMA VarOf ==
    ASSUME program \in Programs, NEW c \in 1 .. Len(program)
    PROVE  program[c].var \in Vars
<1>1. program \in Seq(Call)
  BY ProgramAssumption
<1>2. program[c] \in Call
  BY <1>1, ElementOfSeq
<1> QED
  BY <1>2 DEF Call

LEMMA OriDivided ==
    ASSUME data \in Parts, NEW v \in Vars
    PROVE  Divided(v, OriAt(v), [r \in Ranks |-> Ori(data[v][r])])
<1> DEFINE g == [r \in Ranks |-> Ori(data[v][r])]
<1>1. DOMAIN OriAt(v) = Items(v) /\ DOMAIN g = Ranks
  BY DEF OriAt
<1>2. ASSUME NEW r \in Ranks
      PROVE  /\ DOMAIN g[r] = Idx(data[v][r])
             /\ \A n \in Idx(data[v][r]) : g[r][n] \in Int /\ OriAt(v)[<<r, n>>] = g[r][n]
  BY PartFacts, ItemFacts DEF Ori, OriAt
<1> QED
  BY <1>1, <1>2 DEF Divided

LEMMA DiffDivided ==
    ASSUME data \in Parts, NEW v \in Vars
    PROVE  Divided(v, DiffAt(v), [r \in Ranks |-> Diff(data[v][r])])
<1> DEFINE g == [r \in Ranks |-> Diff(data[v][r])]
<1>1. DOMAIN DiffAt(v) = Items(v) /\ DOMAIN g = Ranks
  BY DEF DiffAt
<1>2. ASSUME NEW r \in Ranks
      PROVE  /\ DOMAIN g[r] = Idx(data[v][r])
             /\ \A n \in Idx(data[v][r]) : g[r][n] \in Int /\ DiffAt(v)[<<r, n>>] = g[r][n]
  BY PartFacts, ItemFacts DEF Diff, DiffAt
<1> QED
  BY <1>1, <1>2 DEF Divided

LEMMA ExtremesInt ==
    ASSUME data \in Parts, NEW v \in Vars
    PROVE  /\ OriMin(v) \in Int /\ OriMax(v) \in Int
           /\ DiffMin(v) \in Int /\ DiffMax(v) \in Int
           /\ \A i \in Items(v) : /\ OriAt(v)[i] \in Int /\ DiffAt(v)[i] \in Int
                                  /\ DiffMin(v) <= DiffAt(v)[i] /\ DiffAt(v)[i] <= DiffMax(v)
<1> DEFINE f == OriAt(v)
           d == DiffAt(v)
<1>1. Summable(f) /\ DOMAIN f # {} /\ Summable(d) /\ DOMAIN d # {}
  BY OriDivided, DiffDivided, DividedFacts
<1>2. DOMAIN f = Items(v) /\ DOMAIN d = Items(v)
  BY DEF OriAt, DiffAt
<1> HIDE DEF f, d
<1>3. /\ Min(Range(f)) \in Int /\ Max(Range(f)) \in Int
  BY <1>1, RangeOf, LeastOf, GreatestOf
<1>4. /\ Min(Range(d)) \in Int /\ Max(Range(d)) \in Int
      /\ \A i \in DOMAIN d : Min(Range(d)) <= d[i] /\ d[i] <= Max(Range(d))
  BY <1>1, RangeOf, LeastOf, GreatestOf
<1> QED
  BY <1>1, <1>2, <1>3, <1>4 DEF f, d, OriMin, OriMax, DiffMin, DiffMax, Summable

LEMMA LengthTogether ==
    ASSUME data \in Parts, NEW v \in Vars, NEW k, DOMAIN k = Ranks,
           \A r \in Ranks : k[r] = Len(data[v][r])
    PROVE  Total(k) = Cardinality(Items(v)) /\ Cardinality(Items(v)) \in Nat \ {0}
<1> DEFINE T == [r \in Ranks |-> Idx(data[v][r])]
<1>1. \A r \in Ranks : T[r] \subseteq Idx(data[v][r]) /\ k[r] = Cardinality(T[r])
  BY PartFacts
<1>2. {i \in Items(v) : i[2] \in T[i[1]]} = Items(v)
  BY ItemFacts
<1> HIDE DEF T
<1>3. Total(k) = Cardinality({i \in Items(v) : i[2] \in T[i[1]]})
  BY <1>1, CountTogether
<1>4. Cardinality(Items(v)) \in Nat /\ Cardinality(Items(v)) # 0
  BY ItemFacts, FS_CardinalityType, FS_EmptySet
<1> QED
  BY <1>2, <1>3, <1>4

LEMMA OriTogether ==
    ASSUME data \in Parts, NEW v \in Vars, NEW k, DOMAIN k = Ranks
    PROVE  /\ (\A r \in Ranks : k[r] = Min(Range(Ori(data[v][r])))) => Min(Range(k)) = OriMin(v)
           /\ (\A r \in Ranks : k[r] = Max(Range(Ori(data[v][r])))) => Max(Range(k)) = OriMax(v)
           /\ (\A r \in Ranks : k[r] = Total(Ori(data[v][r]))) => Total(k) = Total(OriAt(v))
<1> DEFINE f == OriAt(v)
           g == [r \in Ranks |-> Ori(data[v][r])]
<1>1. Divided(v, f, g) /\ \A r \in Ranks : g[r] = Ori(data[v][r])
  BY OriDivided
<1> HIDE DEF f, g
<1>2. (\A r \in Ranks : k[r] = Min(Range(g[r]))) => Min(Range(k)) = Min(Range(f))
  BY <1>1, LeastTogether
<1>3. (\A r \in Ranks : k[r] = Max(Range(g[r]))) => Max(Range(k)) = Max(Range(f))
  BY <1>1, GreatestTogether
<1>4. (\A r \in Ranks : k[r] = Total(g[r])) => Total(k) = Total(f)
  BY <1>1, SumTogether
<1> QED
  BY <1>1, <1>2, <1>3, <1>4 DEF f, OriMin, OriMax

LEMMA DiffTogether ==
    ASSUME data \in Parts, NEW v \in Vars, NEW k, DOMAIN k = Ranks
    PROVE  /\ (\A r \in Ranks : k[r] = Min(Range(Diff(data[v][r])))) => Min(Range(k)) = DiffMin(v)
           /\ (\A r \in Ranks : k[r] = Max(Range(Diff(data[v][r])))) => Max(Range(k)) = DiffMax(v)
<1> DEFINE f == DiffAt(v)
           g == [r \in Ranks |-> Diff(data[v][r])]
<1>1. Divided(v, f, g) /\ \A r \in Ranks : g[r] = Diff(data[v][r])
  BY DiffDivided
<1> HIDE DEF f, g
<1>2. (\A r \in Ranks : k[r] = Min(Range(g[r]))) => Min(Range(k)) = Min(Range(f))
  BY <1>1, LeastTogether
<1>3. (\A r \in Ranks : k[r] = Max(Range(g[r]))) => Max(Range(k)) = Max(Range(f))
  BY <1>1, GreatestTogether
<1> QED
  BY <1>1, <1>2, <1>3 DEF f, DiffMin, DiffMax

LEMMA SquareTogether ==
    ASSUME data \in Parts, NEW v \in Vars, NEW k, DOMAIN k = Ranks,
           \A r \in Ranks : k[r] = Square(data[v][r], OriMin(v), OriMax(v))
    PROVE  Total(k) = Total(Distance(v))
<1> DEFINE a == OriMin(v) + OriMax(v)
           x(r, n) == (2 * data[v][r][n].ori - a) * (2 * data[v][r][n].ori - a)
           g == [r \in Ranks |-> [n \in Idx(data[v][r]) |-> x(r, n)]]
           f == Distance(v)
<1>1. a \in Int
  BY ExtremesInt
<1>2. DOMAIN f = Items(v) /\ DOMAIN g = Ranks
  BY DEF Distance
<1>3. \A r \in Ranks : k[r] = Total(g[r])
  BY DEF Square
<1>4. ASSUME NEW r \in Ranks
      PROVE  /\ DOMAIN g[r] = Idx(data[v][r])
             /\ \A n \in Idx(data[v][r]) : g[r][n] \in Int /\ f[<<r, n>>] = g[r][n]
  <2>1. DOMAIN g[r] = Idx(data[v][r]) /\ \A n \in Idx(data[v][r]) : g[r][n] = x(r, n)
    OBVIOUS
  <2>2. ASSUME NEW n \in Idx(data[v][r])
        PROVE  x(r, n) \in Int /\ f[<<r, n>>] = x(r, n)
    <3>1. /\ <<r, n>> \in Items(v) /\ OriAt(v)[<<r, n>>] = data[v][r][n].ori
          /\ data[v][r][n].ori \in Int
      BY PartFacts, ItemFacts DEF OriAt
    <3> DEFINE y == 2 * data[v][r][n].ori - a
    <3>2. y \in Int /\ x(r, n) = y * y
      BY <3>1, <1>1
    <3>3. f[<<r, n>>] = x(r, n)
      BY <3>1 DEF Distance
    <3> HIDE DEF y, f, x
    <3> QED
      BY <3>2, <3>3
  <2> HIDE DEF x, g, f
  <2> QED
    BY <2>1, <2>2
<1> HIDE DEF f, g
<1>5. Divided(v, f, g)
  BY <1>2, <1>4 DEF Divided
<1> QED
  BY <1>3, <1>5, SumTogether DEF f

LEMMA ErrorTogether ==
    ASSUME data \in Parts, NEW v \in Vars, NEW k, DOMAIN k = Ranks,
           \A r \in Ranks : k[r] = SquaredError(data[v][r])
    PROVE  Total(k) = Total(SquaredDiff(v))
<1> DEFINE x(r, n) == Diff(data[v][r])[n] * Diff(data[v][r])[n]
           g == [r \in Ranks |-> [n \in Idx(data[v][r]) |-> x(r, n)]]
           f == SquaredDiff(v)
<1>2. DOMAIN f = Items(v) /\ DOMAIN g = Ranks
  BY DEF SquaredDiff
<1>3. \A r \in Ranks : k[r] = Total(g[r])
  BY DEF SquaredError
<1>4. ASSUME NEW r \in Ranks
      PROVE  /\ DOMAIN g[r] = Idx(data[v][r])
             /\ \A n \in Idx(data[v][r]) : g[r][n] \in Int /\ f[<<r, n>>] = g[r][n]
  <2>1. DOMAIN g[r] = Idx(data[v][r]) /\ \A n \in Idx(data[v][r]) : g[r][n] = x(r, n)
    OBVIOUS
  <2>2. ASSUME NEW n \in Idx(data[v][r])
        PROVE  x(r, n) \in Int /\ f[<<r, n>>] = x(r, n)
    <3> DEFINE y == Diff(data[v][r])[n]
    <3>1. <<r, n>> \in Items(v) /\ DiffAt(v)[<<r, n>>] = y /\ y \in Int
      BY PartFacts, ItemFacts DEF DiffAt, Diff
    <3>2. f[<<r, n>>] = y * y
      BY <3>1 DEF SquaredDiff
    <3>3. x(r, n) = y * y
      OBVIOUS
    <3> HIDE DEF y, f, x
    <3> QED
      BY <3>1, <3>2, <3>3
  <2> HIDE DEF x, g, f
  <2> QED
    BY <2>1, <2>2
<1> HIDE DEF f, g
<1>5. Divided(v, f, g)
  BY <1>2, <1>4 DEF Divided
<1> QED
  BY <1>3, <1>5, SumTogether DEF f

LEMMA BinTogether ==
    ASSUME data \in Parts, NEW v \in Vars, NEW b \in 0 .. PDF_INTERVALS - 1,
           NEW k, DOMAIN k = Ranks,
           \A r \in Ranks : k[r] = Histogram(data[v][r], DiffMin(v), DiffMax(v))[b]
    PROVE  Total(k) = Cardinality(InBin(v, b))
<1> DEFINE B(d) == Bin(d, DiffMin(v), DiffMax(v))
           T == [r \in Ranks |-> {n \in Idx(data[v][r]) : B(Diff(data[v][r])[n]) = b}]
<1>1. \A r \in Ranks : T[r] \subseteq Idx(data[v][r]) /\ k[r] = Cardinality(T[r])
  BY DEF Histogram
<1>2. {i \in Items(v) : i[2] \in T[i[1]]} = InBin(v, b)
  <2>1. ASSUME NEW i \in Items(v)
        PROVE  i[2] \in T[i[1]] <=> B(DiffAt(v)[i]) = b
    <3>1. i[1] \in Ranks /\ i[2] \in Idx(data[v][i[1]]) /\ DiffAt(v)[i] = Diff(data[v][i[1]])[i[2]]
      BY ItemFacts DEF DiffAt, Diff
    <3> HIDE DEF B
    <3> QED
      BY <3>1
  <2> QED
    BY <2>1 DEF InBin
<1> HIDE DEF T
<1>3. Total(k) = Cardinality({i \in Items(v) : i[2] \in T[i[1]]})
  BY <1>1, CountTogether
<1> QED
  BY <1>2, <1>3

----------------------------------------------------------------------------
(* The steps.                                                              *)
LEMMA SameData ==
    ASSUME data' = data, program' = program
    PROVE  /\ \A v : Items(v)' = Items(v) /\ OriAt(v)' = OriAt(v) /\ DiffAt(v)' = DiffAt(v)
           /\ \A v : OriMin(v)' = OriMin(v) /\ OriMax(v)' = OriMax(v)
           /\ \A v : DiffMin(v)' = DiffMin(v) /\ DiffMax(v)' = DiffMax(v)
           /\ \A v : Distance(v)' = Distance(v) /\ SquaredDiff(v)' = SquaredDiff(v)
           /\ \A v, b : InBin(v, b)' = InBin(v, b)
           /\ \A n : Measured(n)' = Measured(n)
           /\ \A m, q : Says(m, q)' = Says(m, q)
<1>1. \A v : Items(v)' = Items(v)
  BY DEF Items
<1>2. \A v : OriAt(v)' = OriAt(v) /\ DiffAt(v)' = DiffAt(v)
  BY <1>1 DEF OriAt, DiffAt
<1>3. \A v : OriMin(v)' = OriMin(v) /\ OriMax(v)' = OriMax(v)
  BY <1>2 DEF OriMin, OriMax
<1>4. \A v : DiffMin(v)' = DiffMin(v) /\ DiffMax(v)' = DiffMax(v)
  BY <1>2 DEF DiffMin, DiffMax
<1>5. \A v : Distance(v)' = Distance(v) /\ SquaredDiff(v)' = SquaredDiff(v)
  BY <1>1, <1>2, <1>3 DEF Distance, SquaredDiff
<1>6. \A v, b : InBin(v, b)' = InBin(v, b)
  BY <1>1, <1>2, <1>4 DEF InBin
<1>7. \A n : Measured(n)' = Measured(n)
  BY DEF Measured
<1>8. \A m, q : Says(m, q)' = Says(m, q)
  BY <1>3, <1>4 DEF Says
<1> QED
  BY <1>1, <1>2, <1>3, <1>4, <1>5, <1>6, <1>7, <1>8

LEMMA Numbers ==
    /\ At["begin"] = 1 /\ At["len"] = 2 /\ At["min"] = 3 /\ At["max"] = 4 /\ At["sum"] = 5
    /\ At["square"] = 6 /\ At["record"] = 13 /\ At["cmpLen"] = 16 /\ At["errSum"] = 17
    /\ At["errMax"] = 18 /\ At["errMin"] = 19 /\ At["absErrPDF"] = 21
    /\ {"begin", "len", "min", "max", "sum", "square", "record", "cmpLen", "errSum", "errMax",
        "errMin", "absErrPDF"} \subseteq Range(Stages)
<1>1. /\ Stages[1] = "begin" /\ Stages[2] = "len" /\ Stages[3] = "min" /\ Stages[4] = "max"
      /\ Stages[5] = "sum" /\ Stages[6] = "square" /\ Stages[13] = "record"
      /\ Stages[16] = "cmpLen" /\ Stages[17] = "errSum" /\ Stages[18] = "errMax"
      /\ Stages[19] = "errMin" /\ Stages[21] = "absErrPDF"
  BY DEF Stages
<1>2. \A i \in {1, 2, 3, 4, 5, 6, 13, 16, 17, 18, 19, 21} : i \in Index
  BY StageNames DEF Index
<1> QED
  BY <1>1, <1>2, StageAt

(* Which stages are on the plan of which kind of call. *)
LEMMA PlanHas ==
    ASSUME NEW kind \in {"round", "compare", "properties", "length"}, flags \in FlagSets
    PROVE  /\ At["len"] \in Plan[kind][flags]
           /\ kind # "length" =>
                \A s \in {"min", "max", "sum", "square"} : At[s] \in Plan[kind][flags]
           /\ kind \in {"round", "compare"} =>
                \A s \in {"errSum", "errMax", "errMin"} : At[s] \in Plan[kind][flags]
           /\ kind \in {"round", "compare"} /\ "absErrPDF" \in flags =>
                At["absErrPDF"] \in Plan[kind][flags]
           /\ \A i \in Plan[kind][flags] :
                /\ Stages[i] \in {"min", "max", "sum", "square"} => kind # "length"
                /\ Stages[i] \in {"cmpLen", "errSum", "errMax", "errMin", "absErrPDF"} =>
                     kind \in {"round", "compare"}
<1>1. Plan[kind][flags] =
        {n \in Index : /\ InCall(kind, Stages[n])
                       /\ Stages[n] \in DOMAIN FlagOf => FlagOf[Stages[n]] \in flags}
  BY DEF Plan, Index
<1>2. /\ \A s \in {"len", "min", "max", "sum", "square", "errSum", "errMax", "errMin"} :
            s \notin DOMAIN FlagOf
      /\ FlagOf["absErrPDF"] = "absErrPDF"
  BY DEF FlagOf
<1>3. /\ InCall(kind, "len")
      /\ \A s \in {"min", "max", "sum", "square"} : kind # "length" <=> InCall(kind, s)
      /\ \A s \in {"cmpLen", "errSum", "errMax", "errMin", "absErrPDF"} :
            kind \in {"round", "compare"} <=> InCall(kind, s)
  BY DEF InCall, Comparison, Reduces
<1>4. \A s \in {"len", "min", "max", "sum", "square", "cmpLen", "errSum", "errMax", "errMin",
                "absErrPDF"} : At[s] \in Index /\ Stages[At[s]] = s
  BY Numbers, StageAt
<1> QED
  BY <1>1, <1>2, <1>3, <1>4

LEMMA HereFacts ==
    ASSUME IInv, NEW r \in Ranks, call[r] <= Len(program)
    PROVE  /\ call[r] \in 1 .. Len(program) /\ at[r] \in Index /\ at[r] \in Nat /\ 1 <= at[r]
           /\ Current(r).var \in Vars /\ program[call[r]] = Current(r)
           /\ Current(r).kind \in {"round", "compare", "properties", "length"}
           /\ at[r] \in Plan[Current(r).kind][flags] /\ at[r] = At[Stage(r)]
           /\ Stage(r) \in Range(Stages)
           /\ data \in Parts /\ flags \in FlagSets /\ program \in Programs
<1>1. call[r] \in 1 .. Len(program) /\ at[r] \in Plan[Current(r).kind][flags]
  BY DEF IInv, OnPlan, Planned, Current
<1>2. at[r] \in Index /\ at[r] \in Nat /\ 1 <= at[r]
  BY RankFacts, StageAt, StageOrder
<1>3. data \in Parts /\ flags \in FlagSets /\ program \in Programs
  BY DEF IInv, Shape, TypeOK
<1> QED
  BY <1>1, <1>2, <1>3, StageAt, VarOf, ProgramFacts DEF Current, Stage

(* A stage on the plan that is behind a rank was behind it before, or was  *)
(* the one it was at. *)
LEMMA PastStage ==
    ASSUME IInv, NEW r \in Ranks, Forward(r), call'[r] <= Len(program),
           NEW s \in Range(Stages), Planned(call'[r], At[s]), at'[r] > At[s]
    PROVE  /\ call'[r] = call[r] /\ Current(r)' = Current(r)
           /\ at[r] > At[s] \/ (Stage(r) = s /\ at[r] = At[s])
<1>1. At[s] \in Index /\ At[s] \in Nat /\ 1 <= At[s]
  BY StageAt, StageOrder
<1>2. call'[r] = call[r]
  BY <1>1, ForwardPlaces
<1>3. /\ call[r] \in 1 .. Len(program) /\ call[r] \in Nat
      /\ at[r] \in Index /\ at'[r] \in Index /\ at[r] \in Nat
  BY RankFacts, ForwardPlaces, StageAt DEF IInv, OnPlan, Planned, Forward
<1>5. Place(call[r], At[s]) < Here(r)'
  BY <1>1, <1>2, <1>3, PlaceIsOne DEF Here
<1>6. Place(call[r], At[s]) <= Place(call[r], at[r])
  BY <1>1, <1>2, <1>3, <1>5, ForwardPlaces DEF Here
<1>7. At[s] <= at[r]
  BY <1>1, <1>3, <1>6, PlaceIsOne, SMTT(40)
<1>8. At[s] = at[r] => Stage(r) = s
  BY <1>1, StageAt DEF Stage
<1> QED
  BY <1>1, <1>2, <1>3, <1>7, <1>8 DEF Current, Forward

(* The length of a variable is settled at the stage "len", which is on     *)
(* every plan. *)
LEMMA CountedStep ==
    ASSUME IInv, NEW r \in Ranks, Forward(r)
    PROVE  /\ Counted(r)' = IF Stage(r) = "len" THEN Counted(r) + 1 ELSE Counted(r)
           /\ \A q \in Ranks : q # r => Counted(q)' = Counted(q)
           /\ Counted(r) \in 0 .. Len(program)
           /\ Stage(r) = "len" => Counted(r) = call[r] - 1
           /\ at[r] > At["len"] => Counted(r) = call[r]
<1>1. /\ call[r] \in 1 .. Len(program) /\ at[r] \in Index /\ at[r] \in Nat
      /\ at[r] \in Plan[Current(r).kind][flags] /\ at[r] = At[Stage(r)]
      /\ Stage(r) \in Range(Stages)
      /\ flags \in FlagSets /\ Current(r).kind \in {"round", "compare", "properties", "length"}
      /\ at \in [Ranks -> Index] /\ call \in [Ranks -> 1 .. Len(program) + 1]
      /\ Len(program) \in Nat
  BY HereFacts, RankFacts DEF Forward, IInv, Shape, TypeOK, Index
<1>2. \A q \in Ranks : q # r => call'[q] = call[q] /\ at'[q] = at[q]
  BY ForwardPlaces
<1>3. At["len"] = 2 /\ (Stage(r) = "len" <=> at[r] = 2) /\ 2 \in Index
      /\ 2 \in Plan[Current(r).kind][flags]
  <2>1. At["len"] = 2 /\ 2 \in Index /\ Stages[2] = "len"
    BY Numbers, StageAt
  <2>2. At["len"] \in Plan[Current(r).kind][flags]
    BY <1>1, PlanHas
  <2>3. Stage(r) = "len" <=> at[r] = 2
    BY <1>1, <2>1 DEF Stage
  <2> QED
    BY <2>1, <2>2, <2>3
<1>4. at'[r] \in Index /\ at'[r] \in Nat
  BY ForwardPlaces, StageAt
<1>5. \/ call'[r] = call[r] /\ at'[r] > at[r] /\ (at[r] < 2 => at'[r] <= 2)
      \/ call'[r] = call[r] + 1 /\ at'[r] = 1 /\ at[r] >= 2
  <2> DEFINE R == Rest(r)
  <2>1. R \in SUBSET Nat /\ R = {n \in Plan[Current(r).kind][flags] : n > at[r]}
    BY <1>1, PlanFacts, StageAt DEF Rest
  <2>2. at[r] < 2 => 2 \in R
    BY <1>1, <1>3, <2>1
  <2>3. \/ R # {} /\ at' = [at EXCEPT ![r] = Min(R)] /\ call' = call
        \/ R = {} /\ at' = [at EXCEPT ![r] = 1] /\ call' = [call EXCEPT ![r] = @ + 1]
    BY DEF Forward, Advance
  <2> HIDE DEF R
  <2>4. CASE R # {} /\ at' = [at EXCEPT ![r] = Min(R)] /\ call' = call
    <3>1. Min(R) \in R /\ \A n \in R : Min(R) <= n
      BY <2>1, <2>4, MinOfNaturals
    <3>2. at'[r] = Min(R) /\ call'[r] = call[r]
      BY <1>1, <2>4
    <3> QED
      BY <2>1, <2>2, <3>1, <3>2
  <2>5. CASE R = {} /\ at' = [at EXCEPT ![r] = 1] /\ call' = [call EXCEPT ![r] = @ + 1]
    BY <1>1, <2>2, <2>5
  <2> QED
    BY <2>3, <2>4, <2>5
<1>6. \A q : /\ Counted(q) = IF at[q] > At["len"] THEN call[q] ELSE call[q] - 1
             /\ Counted(q)' = IF at'[q] > At["len"] THEN call'[q] ELSE call'[q] - 1
  BY DEF Counted
<1>7. Counted(r)' = IF Stage(r) = "len" THEN Counted(r) + 1 ELSE Counted(r)
  BY <1>1, <1>3, <1>4, <1>5, <1>6
<1> QED
  BY <1>1, <1>2, <1>3, <1>6, <1>7

(* The variable measured last. *)
LEMMA MeasuredFacts ==
    ASSUME program \in Programs, NEW n \in 1 .. Len(program)
    PROVE  /\ program[n].kind = "length" \/ n = 1 => Measured(n) = program[n].var
           /\ program[n].kind # "length" /\ n > 1 => Measured(n) = Measured(n - 1)
           /\ Measured(n) \in Vars
<1> DEFINE S(k) == {1} \cup {m \in 1 .. k : program[m].kind = "length"}
<1>1. Len(program) \in Nat /\ n \in Nat /\ 1 <= n /\ n <= Len(program)
  BY ProgramFacts
<1>2. S(n) \in SUBSET Int /\ IsFiniteSet(S(n)) /\ S(n) # {}
  <2>1. S(n) \in SUBSET (1 .. n)
    BY <1>1
  <2>2. IsFiniteSet(1 .. n)
    BY <1>1, FS_Interval
  <2> QED
    BY <2>1, <2>2, FS_Subset
<1>3. Max(S(n)) \in S(n) /\ \A y \in S(n) : y <= Max(S(n))
  <2> HIDE DEF S
  <2> QED
    BY <1>2, GreatestOf
<1>4. Measured(n) = program[Max(S(n))].var
  BY DEF Measured
<1>5. \A k : Measured(k) = program[Max(S(k))].var
  BY DEF Measured
<1>6. Max(S(n)) \in 1 .. Len(program)
  BY <1>1, <1>3
<1>7. program[n].kind = "length" \/ n = 1 => Max(S(n)) = n
  <2> SUFFICES ASSUME program[n].kind = "length" \/ n = 1
               PROVE  Max(S(n)) = n
    OBVIOUS
  <2>1. n \in S(n) /\ \A y \in S(n) : y \in Nat /\ y <= n
    BY <1>1
  <2> HIDE DEF S
  <2>2. Max(S(n)) \in Nat /\ Max(S(n)) <= n /\ n <= Max(S(n))
    BY <1>3, <2>1
  <2> QED
    BY <1>1, <2>2
<1>8. program[n].kind # "length" /\ n > 1 => S(n) = S(n - 1)
  BY <1>1
<1> HIDE DEF S
<1> QED
  BY <1>4, <1>5, <1>6, <1>7, <1>8, VarOf

LEMMA ToldStays ==
    ASSUME Told, sent' = sent, data' = data, program' = program
    PROVE  Told'
<1>1. /\ \A q : Entered(q)' = Entered(q)
      /\ \A m, q : Says(m, q)' = Says(m, q)
  BY SameData DEF Entered
<1> QED
  BY <1>1 DEF Told

LEMMA AskedStep ==
    ASSUME IInv, Asked, NEW r \in Ranks, Forward(r),
           \A q \in Ranks : q # r => globalDataLength'[q] = globalDataLength[q]
    PROVE  Asked'
<1>1. /\ ~ waits'[r]
      /\ \A q \in Ranks : q # r => call'[q] = call[q] /\ at'[q] = at[q] /\ waits'[q] = waits[q]
  BY ForwardPlaces
<1>2. \A q \in Ranks : q # r => Stage(q)' = Stage(q) /\ Current(q)' = Current(q)
  BY <1>1 DEF Stage, Current, Forward
<1> QED
  BY <1>1, <1>2 DEF Asked

LEMMA LengthStep ==
    ASSUME IInv, LengthIs, NEW r \in Ranks, Forward(r), data' = data,
           \A q \in Ranks : q # r => globalDataLength'[q] = globalDataLength[q],
           Stage(r) # "len" => globalDataLength'[r] = globalDataLength[r],
           Stage(r) = "len" =>
                globalDataLength'[r] = Cardinality(Items(Measured(call[r])))
    PROVE  LengthIs'
<1>1. /\ Counted(r)' = IF Stage(r) = "len" THEN Counted(r) + 1 ELSE Counted(r)
      /\ \A q \in Ranks : q # r => Counted(q)' = Counted(q)
      /\ Stage(r) = "len" => Counted(r) = call[r] - 1
  BY CountedStep
<1>a. call[r] \in Nat /\ call[r] >= 1
  BY HereFacts, RankFacts DEF Forward
<1>2. /\ \A n : Measured(n)' = Measured(n)
      /\ \A v : Items(v)' = Items(v)
  BY SameData DEF Forward
<1>3. ASSUME NEW q \in Ranks
      PROVE  globalDataLength'[q] =
                IF Counted(q)' = 0 THEN 0 ELSE Cardinality(Items(Measured(Counted(q)')))
  <2>1. globalDataLength[q] =
            IF Counted(q) = 0 THEN 0 ELSE Cardinality(Items(Measured(Counted(q))))
    BY DEF LengthIs
  <2>2. CASE q # r \/ Stage(r) # "len"
    BY <1>1, <2>1, <2>2
  <2>3. CASE q = r /\ Stage(r) = "len"
    <3>1. Counted(r)' = call[r]
      BY <1>1, <1>a, <2>3
    <3>2. Counted(r)' # 0
      BY <1>a, <3>1
    <3> QED
      BY <2>3, <3>1, <3>2
  <2> QED
    BY <2>2, <2>3
<1>4. ASSUME NEW q \in Ranks
      PROVE  Measured(Counted(q))' = Measured(Counted(q)')
             /\ Items(Measured(Counted(q)))' = Items(Measured(Counted(q)'))
  <2>1. PICK n : n = Counted(q)'
    OBVIOUS
  <2>2. PICK v : v = Measured(n)
    OBVIOUS
  <2>3. Measured(n)' = v /\ Items(v)' = Items(v)
    BY <1>2, <2>2
  <2> QED
    BY <2>1, <2>2, <2>3
<1> QED
  BY <1>3, <1>4 DEF LengthIs

LEMMA PropertyStep ==
    ASSUME IInv, PropertyIs, NEW r \in Ranks, Forward(r), data' = data,
           \A q \in Ranks : q # r => /\ globalDataLength'[q] = globalDataLength[q]
                                     /\ property'[q] = property[q],
           DOMAIN property'[r] = DOMAIN NoProperty,
           NEW v, v = Current(r).var,
           at[r] > 1 /\ Current(r).kind # "length" =>
            /\ IF Stage(r) = "len" THEN property'[r].numOfElem = globalDataLength'[r]
               ELSE /\ property'[r].numOfElem = property[r].numOfElem
                    /\ globalDataLength'[r] = globalDataLength[r]
            /\ property'[r].min = IF Stage(r) = "min" THEN OriMin(v) ELSE property[r].min
            /\ property'[r].max = IF Stage(r) = "max" THEN OriMax(v) ELSE property[r].max
            /\ property'[r].sum = IF Stage(r) = "sum" THEN Total(OriAt(v)) ELSE property[r].sum
            /\ property'[r].square =
                 IF Stage(r) = "square" THEN Total(Distance(v)) ELSE property[r].square
    PROVE  PropertyIs'
<1>1. \A q \in Ranks : q # r => call'[q] = call[q] /\ at'[q] = at[q] /\ Current(q)' = Current(q)
  BY ForwardPlaces DEF Current, Forward
<1>2. /\ program' = program /\ flags' = flags
      /\ \A u : OriMin(u)' = OriMin(u) /\ OriMax(u)' = OriMax(u) /\ OriAt(u)' = OriAt(u)
      /\ \A u : Distance(u)' = Distance(u)
  BY SameData DEF Forward
<1>3. ASSUME NEW q \in Ranks
      PROVE  DOMAIN property'[q] = DOMAIN NoProperty
  BY DEF PropertyIs
<1>4. ASSUME NEW q \in Ranks, NEW u, u = Current(q).var', call'[q] <= Len(program),
             Current(q).kind' # "length"
      PROVE  /\ at'[q] > At["len"] => property'[q].numOfElem = globalDataLength'[q]
             /\ at'[q] > At["min"] => property'[q].min = OriMin(u)
             /\ at'[q] > At["max"] => property'[q].max = OriMax(u)
             /\ at'[q] > At["sum"] => property'[q].sum = Total(OriAt(u))
             /\ at'[q] > At["square"] => property'[q].square = Total(Distance(u))
  <2>1. CASE q # r
    <3>1. /\ u = Current(q).var /\ call[q] <= Len(program) /\ Current(q).kind # "length"
          /\ at'[q] = at[q] /\ property'[q] = property[q]
          /\ globalDataLength'[q] = globalDataLength[q]
      BY <1>1, <1>4, <2>1
    <3> QED
      BY <3>1 DEF PropertyIs
  <2>2. CASE q = r
    <3>1. ASSUME NEW s \in {"len", "min", "max", "sum", "square"}, at'[r] > At[s]
          PROVE  /\ at[r] > 1 /\ u = v /\ Current(r).kind # "length"
                 /\ at[r] > At[s] \/ (Stage(r) = s /\ at[r] = At[s])
      <4>1. /\ call'[r] \in 1 .. Len(program) /\ program[call'[r]] = Current(r)'
            /\ Current(r)'.kind \in {"round", "compare", "properties", "length"}
            /\ flags \in FlagSets
        <5>1. call' \in [Ranks -> 1 .. Len(program) + 1] /\ Len(program) \in Nat
          BY ForwardPlaces, RankFacts
        <5>2. call'[r] \in 1 .. Len(program)
          BY <1>4, <2>2, <5>1
        <5> QED
          BY <1>2, <5>2, ProgramFacts DEF Current, IInv, Shape, TypeOK
      <4>2. s \in Range(Stages) /\ Planned(call'[r], At[s]) /\ At[s] >= 2 /\ At[s] \in Nat
        BY <1>4, <2>2, <4>1, PlanHas, Numbers DEF Planned
      <4>3. /\ call'[r] = call[r] /\ Current(r)' = Current(r)
            /\ at[r] > At[s] \/ (Stage(r) = s /\ at[r] = At[s])
        BY <1>4, <2>2, <3>1, <4>2, PastStage
      <4>4. at[r] > 1
        BY <4>2, <4>3, HereFacts DEF Forward
      <4> QED
        BY <1>4, <2>2, <4>3, <4>4
    <3>2. ASSUME NEW s \in {"len", "min", "max", "sum", "square"}, at[r] > At[s]
          PROVE  Stage(r) # s
      <4>1. at[r] = At[Stage(r)] /\ at[r] \in Nat
        BY HereFacts DEF Forward
      <4> QED
        BY <3>2, <4>1
    <3>3. call[r] <= Len(program)
      BY DEF Forward
    <3>4. Current(r).kind # "length" =>
             /\ at[r] > At["len"] => property[r].numOfElem = globalDataLength[r]
             /\ at[r] > At["min"] => property[r].min = OriMin(v)
             /\ at[r] > At["max"] => property[r].max = OriMax(v)
             /\ at[r] > At["sum"] => property[r].sum = Total(OriAt(v))
             /\ at[r] > At["square"] => property[r].square = Total(Distance(v))
      BY <3>3 DEF PropertyIs
    <3>5. at'[r] > At["len"] => property'[r].numOfElem = globalDataLength'[r]
      BY <3>1, <3>2, <3>4
    <3>6. at'[r] > At["min"] => property'[r].min = OriMin(u)
      BY <3>1, <3>2, <3>4
    <3>7. at'[r] > At["max"] => property'[r].max = OriMax(u)
      BY <3>1, <3>2, <3>4
    <3>8. at'[r] > At["sum"] => property'[r].sum = Total(OriAt(u))
      BY <3>1, <3>2, <3>4
    <3>9. at'[r] > At["square"] => property'[r].square = Total(Distance(u))
      BY <3>1, <3>2, <3>4
    <3> QED
      BY <2>2, <3>5, <3>6, <3>7, <3>8, <3>9
  <2> QED
    BY <2>1, <2>2
<1>5. ASSUME NEW q \in Ranks, (call[q] <= Len(program) /\ Current(q).kind # "length")'
      PROVE  (LET u == Current(q).var
              IN  /\ at[q] > At["len"] => property[q].numOfElem = globalDataLength[q]
                  /\ at[q] > At["min"] => property[q].min = OriMin(u)
                  /\ at[q] > At["max"] => property[q].max = OriMax(u)
                  /\ at[q] > At["sum"] => property[q].sum = Total(OriAt(u))
                  /\ at[q] > At["square"] => property[q].square = Total(Distance(u)))'
  <2>1. PICK u : u = Current(q).var'
    OBVIOUS
  <2>2. /\ OriMin(u)' = OriMin(u) /\ OriMax(u)' = OriMax(u) /\ OriAt(u)' = OriAt(u)
        /\ Distance(u)' = Distance(u)
    BY <1>2
  <2>3. call'[q] <= Len(program)
    BY <1>2, <1>5
  <2>4. /\ at'[q] > At["len"] => property'[q].numOfElem = globalDataLength'[q]
        /\ at'[q] > At["min"] => property'[q].min = OriMin(u)
        /\ at'[q] > At["max"] => property'[q].max = OriMax(u)
        /\ at'[q] > At["sum"] => property'[q].sum = Total(OriAt(u))
        /\ at'[q] > At["square"] => property'[q].square = Total(Distance(u))
    BY <1>4, <1>5, <2>1, <2>3
  <2> QED
    BY <2>1, <2>2, <2>4
<1> QED
  BY <1>3, <1>5 DEF PropertyIs

LEMMA ResultStep ==
    ASSUME IInv, ResultIs, NEW r \in Ranks, Forward(r), data' = data,
           \A q \in Ranks : q # r => result'[q] = result[q],
           NEW v, v = Current(r).var,
           at[r] >= At["errSum"] /\ Current(r).kind \in {"round", "compare"} =>
            /\ result'[r].errSum =
                 IF Stage(r) = "errSum" THEN Total(SquaredDiff(v)) ELSE result[r].errSum
            /\ result'[r].maxDiff = IF Stage(r) = "errMax" THEN DiffMax(v) ELSE result[r].maxDiff
            /\ result'[r].minDiff = IF Stage(r) = "errMin" THEN DiffMin(v) ELSE result[r].minDiff
            /\ Stage(r) # "absErrPDF" => result'[r].pdf = result[r].pdf
            /\ Stage(r) = "absErrPDF" /\ r = 0 /\ DiffMin(v) # DiffMax(v) =>
                 result'[r].pdf = [b \in 0 .. PDF_INTERVALS - 1 |-> Cardinality(InBin(v, b))]
    PROVE  ResultIs'
<1>1. \A q \in Ranks : q # r => call'[q] = call[q] /\ at'[q] = at[q] /\ Current(q)' = Current(q)
  BY ForwardPlaces DEF Current, Forward
<1>2. /\ program' = program /\ flags' = flags
      /\ \A u : DiffMin(u)' = DiffMin(u) /\ DiffMax(u)' = DiffMax(u)
      /\ \A u : SquaredDiff(u)' = SquaredDiff(u)
      /\ \A u, b : InBin(u, b)' = InBin(u, b)
  BY SameData DEF Forward
<1> DEFINE Bins(u) == [b \in 0 .. PDF_INTERVALS - 1 |-> Cardinality(InBin(u, b))]
<1>3. \A u : Bins(u)' = Bins(u)
  BY <1>2
<1>4. ASSUME NEW q \in Ranks, NEW u, u = Current(q).var', call'[q] <= Len(program),
             Current(q).kind' \in {"round", "compare"}
      PROVE  /\ at'[q] > At["errSum"] => result'[q].errSum = Total(SquaredDiff(u))
             /\ at'[q] > At["errMax"] => result'[q].maxDiff = DiffMax(u)
             /\ at'[q] > At["errMin"] => result'[q].minDiff = DiffMin(u)
             /\ at'[q] > At["absErrPDF"] /\ q = 0 /\ "absErrPDF" \in flags
                    /\ DiffMin(u) # DiffMax(u) => result'[q].pdf = Bins(u)
  <2> HIDE DEF Bins
  <2>1. CASE q # r
    <3>1. /\ u = Current(q).var /\ call[q] <= Len(program)
          /\ Current(q).kind \in {"round", "compare"}
          /\ at'[q] = at[q] /\ result'[q] = result[q]
      BY <1>1, <1>4, <2>1
    <3> QED
      BY <3>1 DEF ResultIs, Bins
  <2>2. CASE q = r
    <3>1. ASSUME NEW s \in {"errSum", "errMax", "errMin", "absErrPDF"}, at'[r] > At[s],
                 s = "absErrPDF" => "absErrPDF" \in flags
          PROVE  /\ at[r] >= At["errSum"] /\ u = v /\ Current(r).kind \in {"round", "compare"}
                 /\ at[r] > At[s] \/ (Stage(r) = s /\ at[r] = At[s])
      <4>1. /\ call'[r] \in 1 .. Len(program) /\ program[call'[r]] = Current(r)'
            /\ Current(r)'.kind \in {"round", "compare"} /\ flags \in FlagSets
        <5>1. call' \in [Ranks -> 1 .. Len(program) + 1] /\ Len(program) \in Nat
          BY ForwardPlaces, RankFacts
        <5>2. call'[r] \in 1 .. Len(program)
          BY <1>4, <2>2, <5>1
        <5> QED
          BY <1>2, <1>4, <2>2, <5>2 DEF Current, IInv, Shape, TypeOK
      <4>2. s \in Range(Stages) /\ At[s] >= At["errSum"] /\ At[s] \in Nat
        BY Numbers
      <4>3. Planned(call'[r], At[s])
        BY <3>1, <4>1, PlanHas DEF Planned
      <4>4. /\ call'[r] = call[r] /\ Current(r)' = Current(r)
            /\ at[r] > At[s] \/ (Stage(r) = s /\ at[r] = At[s])
        BY <1>4, <2>2, <3>1, <4>2, <4>3, PastStage
      <4>5. at[r] \in Nat /\ At["errSum"] = 17
        BY HereFacts, Numbers DEF Forward
      <4>6. at[r] >= At["errSum"]
        BY <4>2, <4>4, <4>5
      <4> QED
        BY <1>4, <2>2, <4>1, <4>4, <4>6
    <3>2. ASSUME NEW s \in {"errSum", "errMax", "errMin", "absErrPDF"}, at[r] > At[s]
          PROVE  Stage(r) # s
      <4>1. at[r] = At[Stage(r)] /\ at[r] \in Nat
        BY HereFacts DEF Forward
      <4> QED
        BY <3>2, <4>1
    <3>3. Current(r).kind \in {"round", "compare"} =>
             /\ at[r] > At["errSum"] => result[r].errSum = Total(SquaredDiff(v))
             /\ at[r] > At["errMax"] => result[r].maxDiff = DiffMax(v)
             /\ at[r] > At["errMin"] => result[r].minDiff = DiffMin(v)
             /\ at[r] > At["absErrPDF"] /\ r = 0 /\ "absErrPDF" \in flags
                    /\ DiffMin(v) # DiffMax(v) => result[r].pdf = Bins(v)
      BY DEF ResultIs, Forward, Bins
    <3>4. at'[r] > At["errSum"] => result'[r].errSum = Total(SquaredDiff(u))
      BY <3>1, <3>2, <3>3
    <3>5. at'[r] > At["errMax"] => result'[r].maxDiff = DiffMax(u)
      BY <3>1, <3>2, <3>3
    <3>6. at'[r] > At["errMin"] => result'[r].minDiff = DiffMin(u)
      BY <3>1, <3>2, <3>3
    <3>7. at'[r] > At["absErrPDF"] /\ r = 0 /\ "absErrPDF" \in flags
                    /\ DiffMin(u) # DiffMax(u) => result'[r].pdf = Bins(u)
      BY <3>1, <3>2, <3>3 DEF Bins
    <3> QED
      BY <2>2, <3>4, <3>5, <3>6, <3>7
  <2> QED
    BY <2>1, <2>2
<1>5. ASSUME NEW q \in Ranks, (call[q] <= Len(program) /\ Current(q).kind \in {"round", "compare"})'
      PROVE  (LET u == Current(q).var
              IN  /\ at[q] > At["errSum"] => result[q].errSum = Total(SquaredDiff(u))
                  /\ at[q] > At["errMax"] => result[q].maxDiff = DiffMax(u)
                  /\ at[q] > At["errMin"] => result[q].minDiff = DiffMin(u)
                  /\ at[q] > At["absErrPDF"] /\ q = 0 /\ "absErrPDF" \in flags
                        /\ DiffMin(u) # DiffMax(u) => result[q].pdf = Bins(u))'
  <2>1. PICK u : u = Current(q).var'
    OBVIOUS
  <2>2. /\ DiffMin(u)' = DiffMin(u) /\ DiffMax(u)' = DiffMax(u)
        /\ SquaredDiff(u)' = SquaredDiff(u) /\ Bins(u)' = Bins(u)
    BY <1>2, <1>3
  <2>3. call'[q] <= Len(program)
    BY <1>2, <1>5
  <2>4. /\ at'[q] > At["errSum"] => result'[q].errSum = Total(SquaredDiff(u))
        /\ at'[q] > At["errMax"] => result'[q].maxDiff = DiffMax(u)
        /\ at'[q] > At["errMin"] => result'[q].minDiff = DiffMin(u)
        /\ at'[q] > At["absErrPDF"] /\ q = 0 /\ "absErrPDF" \in flags
               /\ DiffMin(u) # DiffMax(u) => result'[q].pdf = Bins(u)
    BY <1>4, <1>5, <2>1, <2>3
  <2> HIDE DEF Bins
  <2> QED
    BY <1>2, <2>1, <2>2, <2>4
<1> QED
  BY <1>5 DEF ResultIs

(* What a collective changes in the property. *)
LEMMA BasicFacts ==
    ASSUME NEW p, DOMAIN p = DOMAIN NoProperty, NEW s, NEW v, NEW y, y = Basic(p, s, v)
    PROVE  /\ DOMAIN y = DOMAIN NoProperty
           /\ y.numOfElem = IF s = "len" THEN Total(v) ELSE p.numOfElem
           /\ y.min = IF s = "min" THEN Min(Range(v)) ELSE p.min
           /\ y.max = IF s = "max" THEN Max(Range(v)) ELSE p.max
           /\ y.sum = IF s = "sum" THEN Total(v) ELSE p.sum
           /\ y.square = IF s = "square" THEN Total(v) ELSE p.square
<1> DEFINE t == Total(v)
           a == Min(Range(v))
           b == Max(Range(v))
<1>1. /\ DOMAIN p = {"numOfElem", "min", "max", "sum", "square"}
      /\ DOMAIN NoProperty = DOMAIN p
  BY DEF NoProperty
<1>2. y = CASE s = "len" -> [p EXCEPT !.numOfElem = t]
            [] s = "min" -> [p EXCEPT !.min = a]
            [] s = "max" -> [p EXCEPT !.max = b]
            [] s \in {"sum", "square"} -> [p EXCEPT ![s] = t]
            [] OTHER -> p
  BY DEF Basic
<1> HIDE DEF t, a, b
<1>3. CASE s = "len"
  BY <1>1, <1>2, <1>3 DEF t
<1>4. CASE s = "min"
  BY <1>1, <1>2, <1>4 DEF a
<1>5. CASE s = "max"
  BY <1>1, <1>2, <1>5 DEF b
<1>6. CASE s \in {"sum", "square"}
  <2>1. y = [p EXCEPT ![s] = t]
    BY <1>2, <1>6
  <2> QED
    BY <1>1, <1>6, <2>1 DEF t
<1>7. CASE s \notin {"len", "min", "max", "sum", "square"}
  BY <1>1, <1>2, <1>7
<1> QED
  BY <1>3, <1>4, <1>5, <1>6, <1>7

(* ... and in the result. *)
LEMMA ComparedValues ==
    ASSUME NEW r \in Ranks, DOMAIN result[r] = DOMAIN NoResult, NEW s, NEW v,
           NEW y, y = Compared(r, s, v)
    PROVE  /\ y.errSum = IF s = "errSum" THEN Total(v) ELSE result[r].errSum
           /\ y.maxDiff = IF s = "errMax" THEN Max(Range([q \in Ranks |-> v[q]["diff"]]))
                          ELSE result[r].maxDiff
           /\ y.minDiff = IF s = "errMin" THEN Min(Range([q \in Ranks |-> v[q]["diff"]]))
                          ELSE result[r].minDiff
           /\ y.pdf = IF s = "absErrPDF" /\ r = 0
                      THEN [b \in 0 .. PDF_INTERVALS - 1 |-> Total([q \in Ranks |-> v[q][b]])]
                      ELSE result[r].pdf
<1> DEFINE of(field) == [q \in Ranks |-> v[q][field]]
           c == result[r]
           pdf == [b \in 0 .. PDF_INTERVALS - 1 |-> Total(of(b))]
           errSum == Total(v)
           maxDiff == Max(Range(of("diff")))
           maxRel == Max(Range(of("rel")))
           minDiff == Min(Range(of("diff")))
           minRel == Min(Range(of("rel")))
<1>1. DOMAIN c = {"errSum", "minDiff", "maxDiff", "minRel", "maxRel", "pdf"}
  BY DEF NoResult
<1>2. y = CASE s = "errSum" -> [c EXCEPT !.errSum = errSum]
            [] s = "errMax" -> [c EXCEPT !.maxDiff = maxDiff, !.maxRel = maxRel]
            [] s = "errMin" -> [c EXCEPT !.minDiff = minDiff, !.minRel = minRel]
            [] s = "absErrPDF" /\ r = 0 -> [c EXCEPT !.pdf = pdf]
            [] OTHER -> c
  BY DEF Compared
<1> HIDE DEF pdf, errSum, maxDiff, maxRel, minDiff, minRel, c
<1>3. /\ y.errSum = IF s = "errSum" THEN errSum ELSE c.errSum
      /\ y.maxDiff = IF s = "errMax" THEN maxDiff ELSE c.maxDiff
      /\ y.minDiff = IF s = "errMin" THEN minDiff ELSE c.minDiff
      /\ y.pdf = IF s = "absErrPDF" /\ r = 0 THEN pdf ELSE c.pdf
  <2>1. CASE s = "errSum"
    BY <1>1, <1>2, <2>1
  <2>2. CASE s = "errMax"
    BY <1>1, <1>2, <2>2
  <2>3. CASE s = "errMin"
    BY <1>1, <1>2, <2>3
  <2>4. CASE s = "absErrPDF" /\ r = 0
    BY <1>1, <1>2, <2>4
  <2>5. CASE s \notin {"errSum", "errMax", "errMin"} /\ ~ (s = "absErrPDF" /\ r = 0)
    BY <1>1, <1>2, <2>5
  <2> QED
    BY <2>1, <2>2, <2>3, <2>4, <2>5
<1> QED
  BY <1>3 DEF pdf, errSum, maxDiff, minDiff, c

(* What the ranks say in a collective, put together. *)
LEMMA AnswerIs ==
    ASSUME IInv, Told, NEW r \in Ranks, waits[r], Complete(r),
           Stage(r) \notin Reduces \/ r = 0,
           NEW k, k = Answer(Len(sent[r])), NEW v, v = Current(r).var, NEW s, s = Stage(r)
    PROVE  /\ s = "len" => Total(k) = Cardinality(Items(v))
           /\ s = "min" => Min(Range(k)) = OriMin(v)
           /\ s = "max" => Max(Range(k)) = OriMax(v)
           /\ s = "sum" => Total(k) = Total(OriAt(v))
           /\ s = "square" => Total(k) = Total(Distance(v))
           /\ s = "errSum" => Total(k) = Total(SquaredDiff(v))
           /\ s = "errMax" => Max(Range([q \in Ranks |-> k[q]["diff"]])) = DiffMax(v)
           /\ s = "errMin" => Min(Range([q \in Ranks |-> k[q]["diff"]])) = DiffMin(v)
           /\ s = "absErrPDF" => \A b \in 0 .. PDF_INTERVALS - 1 :
                Total([q \in Ranks |-> k[q][b]]) = Cardinality(InBin(v, b))
<1> DEFINE n == Len(sent[r])
<1>1. n \in Entered(r) /\ Is(r, n, call[r], s) /\ call[r] <= Len(program)
  BY WaitsIn
<1>2. data \in Parts /\ v \in Vars /\ program[call[r]].var = v
  BY <1>1, HereFacts DEF Current
<1>3. \A q \in Ranks : n \in Entered(q) /\ sent[q][n].stage = s
  <2>1. n \in Nat /\ n >= 1 /\ \A q \in Ranks : Len(sent[q]) \in Nat
    BY <1>1, RankFacts DEF Entered
  <2>2. \A q \in Ranks : Len(sent[q]) >= n /\ sent[q][n].stage = s
    BY DEF Complete
  <2> QED
    BY <2>1, <2>2 DEF Entered
<1>4. \A q \in Ranks : sent[q][n].call = call[r]
  BY <1>1, <1>3 DEF IInv, Matched, Entered, Is
<1> HIDE DEF n
<1>5. DOMAIN k = Ranks /\ \A q \in Ranks : k[q] = sent[q][n].value
  BY DEF Answer, n
<1>6. ASSUME NEW q \in Ranks
      PROVE  /\ s = "len" => k[q] = Len(data[v][q])
             /\ s = "min" => k[q] = Min(Range(Ori(data[v][q])))
             /\ s = "max" => k[q] = Max(Range(Ori(data[v][q])))
             /\ s = "sum" => k[q] = Total(Ori(data[v][q]))
             /\ s = "square" => k[q] = Square(data[v][q], OriMin(v), OriMax(v))
             /\ s = "errSum" => k[q] = SquaredError(data[v][q])
             /\ s = "errMax" => k[q].diff = Max(Range(Diff(data[v][q])))
             /\ s = "errMin" => k[q].diff = Min(Range(Diff(data[v][q])))
             /\ s = "absErrPDF" => k[q] = Histogram(data[v][q], DiffMin(v), DiffMax(v))
  <2>1. Says(sent[q][n], q)
    BY <1>3 DEF Told
  <2> QED
    BY <2>1, <1>2, <1>3, <1>4, <1>5 DEF Says
<1> DEFINE d == [q \in Ranks |-> k[q]["diff"]]
<1>7. DOMAIN d = Ranks /\ \A q \in Ranks : d[q] = k[q].diff
  OBVIOUS
<1> HIDE DEF d
<1>8. s = "len" => Total(k) = Cardinality(Items(v))
  BY <1>2, <1>5, <1>6, LengthTogether
<1>9. /\ s = "min" => Min(Range(k)) = OriMin(v)
      /\ s = "max" => Max(Range(k)) = OriMax(v)
      /\ s = "sum" => Total(k) = Total(OriAt(v))
  BY <1>2, <1>5, <1>6, OriTogether
<1>10. s = "square" => Total(k) = Total(Distance(v))
  BY <1>2, <1>5, <1>6, SquareTogether
<1>11. s = "errSum" => Total(k) = Total(SquaredDiff(v))
  BY <1>2, <1>5, <1>6, ErrorTogether
<1>12. /\ s = "errMax" => Max(Range(d)) = DiffMax(v)
       /\ s = "errMin" => Min(Range(d)) = DiffMin(v)
  BY <1>2, <1>6, <1>7, DiffTogether
<1>13. ASSUME s = "absErrPDF", NEW b \in 0 .. PDF_INTERVALS - 1
       PROVE  Total([q \in Ranks |-> k[q][b]]) = Cardinality(InBin(v, b))
  <2> DEFINE t == [q \in Ranks |-> k[q][b]]
  <2>1. DOMAIN t = Ranks
        /\ \A q \in Ranks : t[q] = Histogram(data[v][q], DiffMin(v), DiffMax(v))[b]
    BY <1>6, <1>13
  <2> HIDE DEF t
  <2>2. Total(t) = Cardinality(InBin(v, b))
    BY <1>2, <2>1, BinTogether
  <2> QED
    BY <2>2 DEF t
<1> QED
  BY <1>8, <1>9, <1>10, <1>11, <1>12, <1>13 DEF d

LEMMA SettledLength ==
    ASSUME IInv, LengthIs, NEW r \in Ranks, call[r] <= Len(program)
    PROVE  /\ globalDataLength[r] \in Nat
           /\ at[r] > At["len"] => /\ globalDataLength[r] = Cardinality(Items(Measured(call[r])))
                                   /\ globalDataLength[r] # 0
           /\ Stage(r) = "len" /\ globalDataLength[r] = 0 => call[r] = 1
           /\ Stage(r) = "len" /\ globalDataLength[r] # 0 => call[r] > 1
                /\ globalDataLength[r] = Cardinality(Items(Measured(call[r] - 1)))
<1>1. /\ program \in Programs /\ data \in Parts /\ Len(program) \in Nat
      /\ call[r] \in 1 .. Len(program) /\ at[r] \in Nat /\ at[r] = At[Stage(r)]
  BY HereFacts, RankFacts
<1>2. \A n \in 1 .. Len(program) : Cardinality(Items(Measured(n))) \in Nat \ {0}
  <2> TAKE n \in 1 .. Len(program)
  <2> DEFINE v == Measured(n)
             k == [q \in Ranks |-> Len(data[v][q])]
  <2>1. v \in Vars
    BY <1>1, MeasuredFacts
  <2>2. DOMAIN k = Ranks /\ \A q \in Ranks : k[q] = Len(data[v][q])
    OBVIOUS
  <2> HIDE DEF v, k
  <2>3. Cardinality(Items(v)) \in Nat \ {0}
    BY <1>1, <2>1, <2>2, LengthTogether
  <2> QED
    BY <2>3 DEF v
<1>3. globalDataLength[r] =
         IF Counted(r) = 0 THEN 0 ELSE Cardinality(Items(Measured(Counted(r))))
  BY DEF LengthIs
<1>4. /\ at[r] > At["len"] => Counted(r) = call[r]
      /\ Stage(r) = "len" => Counted(r) = call[r] - 1
      /\ Counted(r) \in 0 .. Len(program)
  BY <1>1, Numbers DEF Counted
<1>5. \A n \in 0 .. Len(program) : n # 0 => n \in 1 .. Len(program)
  BY <1>1
<1> QED
  BY <1>1, <1>2, <1>3, <1>4, <1>5

LEMMA BeginValues ==
    ASSUME IInv, VInv, NEW r \in Ranks, Begin(r)
    PROVE  VInv'
<1>1. /\ call[r] <= Len(program) /\ Advance(r) /\ Stage(r) = "begin"
      /\ UNCHANGED <<program, data, flags, sent, waits, globalDataLength, stored, returned, fault>>
  BY DEF Begin, Running, chosen, net
<1>2. Forward(r)
  <2>1. "begin" \in Local
    BY DEF Local
  <2> QED
    BY <1>1, <2>1, LocalForward
<1>3. property' = property \/ property' = [property EXCEPT ![r] = NoProperty]
  BY DEF Begin
<1>4. result' = result \/ result' = [result EXCEPT ![r] = NoResult]
  BY DEF Begin
<1>5. at[r] = 1 /\ At["errSum"] = 17
  BY <1>1, HereFacts, Numbers
<1>6. /\ \A q \in Ranks : q # r => property'[q] = property[q] /\ result'[q] = result[q]
      /\ DOMAIN property'[r] = DOMAIN NoProperty
  BY <1>3, <1>4, TypeFacts DEF VInv, PropertyIs
<1>7. PICK v : v = Current(r).var
  OBVIOUS
<1>8. Told' /\ Asked' /\ LengthIs'
  BY <1>1, <1>2, ToldStays, AskedStep, LengthStep DEF VInv
<1>9. PropertyIs'
  BY <1>1, <1>2, <1>5, <1>6, <1>7, PropertyStep DEF VInv
<1>10. ResultIs'
  <2>1. ~ (at[r] >= At["errSum"])
    BY <1>5
  <2> QED
    BY <1>1, <1>2, <1>6, <1>7, <2>1, ResultStep DEF VInv
<1> QED
  BY <1>8, <1>9, <1>10 DEF VInv

LEMMA EndDecValues ==
    ASSUME IInv, VInv, NEW r \in Ranks, EndDec(r)
    PROVE  VInv'
<1>1. /\ call[r] <= Len(program) /\ Advance(r) /\ Stage(r) = "write"
      /\ UNCHANGED <<program, data, flags, sent, waits, globalDataLength, property, result,
                     stored, returned>>
  BY DEF EndDec, Running, chosen, net
<1>2. Forward(r)
  <2>1. "write" \in Local
    BY DEF Local
  <2> QED
    BY <1>1, <2>1, LocalForward
<1>3. PICK v : v = Current(r).var
  OBVIOUS
<1>4. Told' /\ Asked' /\ LengthIs'
  BY <1>1, <1>2, ToldStays, AskedStep, LengthStep DEF VInv
<1>5. PropertyIs'
  BY <1>1, <1>2, <1>3, PropertyStep DEF VInv, PropertyIs
<1>6. ResultIs'
  BY <1>1, <1>2, <1>3, ResultStep DEF VInv
<1> QED
  BY <1>4, <1>5, <1>6 DEF VInv

LEMMA EndCmprValues ==
    ASSUME IInv, VInv, NEW r \in Ranks, EndCmpr(r)
    PROVE  VInv'
<1>1. /\ call[r] <= Len(program) /\ Advance(r) /\ Stage(r) = "record"
      /\ UNCHANGED <<program, data, flags, sent, waits, globalDataLength, property, fault>>
      /\ result' = result \/ result' = [result EXCEPT ![r] = NoResult]
  BY DEF EndCmpr, Running, chosen, net
<1>2. Forward(r)
  <2>1. "record" \in Local
    BY DEF Local
  <2> QED
    BY <1>1, <2>1, LocalForward
<1>3. PICK v : v = Current(r).var
  OBVIOUS
<1>4. Told' /\ Asked' /\ LengthIs'
  BY <1>1, <1>2, ToldStays, AskedStep, LengthStep DEF VInv
<1>5. PropertyIs'
  BY <1>1, <1>2, <1>3, PropertyStep DEF VInv, PropertyIs
<1>6. /\ \A q \in Ranks : q # r => result'[q] = result[q]
      /\ at[r] = 13 /\ At["errSum"] = 17
  BY <1>1, TypeFacts, HereFacts, Numbers
<1>7. ResultIs'
  <2>1. ~ (at[r] >= At["errSum"])
    BY <1>6
  <2> QED
    BY <1>1, <1>2, <1>3, <1>6, <2>1, ResultStep DEF VInv
<1> QED
  BY <1>4, <1>5, <1>7 DEF VInv

LEMMA PassValues ==
    ASSUME IInv, VInv, NEW r \in Ranks, Pass(r)
    PROVE  VInv'
<1>1. /\ call[r] <= Len(program) /\ Advance(r) /\ ~ waits[r] /\ Skipped(r)
      /\ UNCHANGED <<program, data, flags, sent, waits, globalDataLength, result,
                     stored, returned, fault>>
      /\ property' = IF Stage(r) = "len"
                     THEN [property EXCEPT ![r].numOfElem = globalDataLength[r]] ELSE property
  BY DEF Pass, Running, chosen, net
<1>2. Forward(r)
  BY <1>1, LocalForward
<1>3. PICK v : v = Current(r).var
  OBVIOUS
<1>4. /\ Stage(r) = "len" => globalDataLength[r] > 0 /\ Current(r).kind # "length"
      /\ Stage(r) = "absErrPDF" => result[r].maxDiff = result[r].minDiff
      /\ Stage(r) \in {"len", "cmpLen", "absErrPDF", "pwrErrPDF"}
  BY <1>1 DEF Skipped
<1>5. Stage(r) = "len" => globalDataLength[r] = Cardinality(Items(Measured(call[r])))
  <2> SUFFICES ASSUME Stage(r) = "len"
               PROVE  globalDataLength[r] = Cardinality(Items(Measured(call[r])))
    OBVIOUS
  <2>1. /\ call[r] > 1 /\ call[r] \in 1 .. Len(program) /\ program \in Programs
        /\ globalDataLength[r] = Cardinality(Items(Measured(call[r] - 1)))
        /\ program[call[r]].kind # "length"
    BY <1>1, <1>4, SettledLength, HereFacts DEF VInv, Current
  <2>2. Measured(call[r]) = Measured(call[r] - 1)
    BY <2>1, MeasuredFacts
  <2> QED
    BY <2>1, <2>2
<1>6. Told' /\ Asked' /\ LengthIs'
  BY <1>1, <1>2, <1>5, ToldStays, AskedStep, LengthStep DEF VInv
<1>7. PropertyIs'
  <2>1. DOMAIN property = Ranks /\ DOMAIN property[r] = DOMAIN NoProperty
    BY TypeFacts DEF VInv, PropertyIs
  <2>2. "numOfElem" \in DOMAIN property[r]
    BY <2>1 DEF NoProperty
  <2>3. CASE Stage(r) = "len"
    <3> DEFINE p == [property[r] EXCEPT !.numOfElem = globalDataLength[r]]
    <3>1. property' = [property EXCEPT ![r] = p]
      BY <1>1, <2>3
    <3>2. /\ DOMAIN p = DOMAIN NoProperty /\ p.numOfElem = globalDataLength[r]
          /\ p.min = property[r].min /\ p.max = property[r].max /\ p.sum = property[r].sum
          /\ p.square = property[r].square
      BY <2>1, <2>2
    <3> HIDE DEF p
    <3>3. property'[r] = p /\ \A q \in Ranks : q # r => property'[q] = property[q]
      BY <2>1, <3>1
    <3> QED
      BY <1>1, <1>2, <1>3, <2>3, <3>2, <3>3, PropertyStep DEF VInv
  <2>4. CASE Stage(r) # "len"
    <3>1. property' = property
      BY <1>1, <2>4
    <3> QED
      BY <1>1, <1>2, <1>3, <1>4, <2>1, <2>4, <3>1, PropertyStep DEF VInv
  <2> QED
    BY <2>3, <2>4
<1>8. ResultIs'
  <2>1. Stage(r) = "absErrPDF" /\ Current(r).kind \in {"round", "compare"} =>
            DiffMin(v) = DiffMax(v)
    <3>1. Stage(r) = "absErrPDF" => at[r] > At["errMax"] /\ at[r] > At["errMin"]
      BY <1>1, HereFacts, Numbers
    <3> QED
      BY <1>1, <1>3, <1>4, <3>1 DEF VInv, ResultIs
  <2> QED
    BY <1>1, <1>2, <1>3, <1>4, <2>1, ResultStep DEF VInv
<1> QED
  BY <1>6, <1>7, <1>8 DEF VInv

LEMMA LeaveValues ==
    ASSUME IInv, VInv, NEW r \in Ranks, Leave(r)
    PROVE  VInv'
<1>1. PICK s : s = Stage(r)
  OBVIOUS
<1>2. PICK k : k = Answer(Len(sent[r]))
  OBVIOUS
<1>3. PICK v : v = Current(r).var
  OBVIOUS
<1>4. /\ call[r] <= Len(program) /\ Advance(r) /\ waits[r] /\ Complete(r)
      /\ UNCHANGED <<program, data, flags, sent, stored, returned, fault>>
      /\ waits' = [waits EXCEPT ![r] = FALSE]
      /\ globalDataLength' = IF s \in {"len", "cmpLen"}
                             THEN [globalDataLength EXCEPT ![r] = Total(k)]
                             ELSE globalDataLength
      /\ property' = IF Current(r).kind = "length" THEN property
                     ELSE [property EXCEPT ![r] = Basic(@, s, k)]
      /\ result' = [result EXCEPT ![r] = Compared(r, s, k)]
  BY <1>1, <1>2 DEF Leave, Running, chosen, Answer
<1>5. Forward(r)
  BY <1>4, WaitsIn DEF Forward
<1>6. /\ DOMAIN property = Ranks /\ DOMAIN result = Ranks /\ DOMAIN globalDataLength = Ranks
      /\ DOMAIN result[r] = DOMAIN NoResult
      /\ \A q \in Ranks : DOMAIN property[q] = DOMAIN NoProperty
  BY TypeFacts DEF VInv, PropertyIs
<1>7. /\ \A q \in Ranks : q # r => /\ result'[q] = result[q] /\ property'[q] = property[q]
                                   /\ globalDataLength'[q] = globalDataLength[q]
      /\ result'[r] = Compared(r, s, k)
      /\ Current(r).kind # "length" => property'[r] = Basic(property[r], s, k)
      /\ Current(r).kind = "length" => property'[r] = property[r]
      /\ s \in {"len", "cmpLen"} => globalDataLength'[r] = Total(k)
      /\ s \notin {"len", "cmpLen"} => globalDataLength'[r] = globalDataLength[r]
  BY <1>4, <1>6
<1>8. /\ program \in Programs /\ call[r] \in 1 .. Len(program) /\ program[call[r]] = Current(r)
      /\ at[r] \in Nat /\ at[r] = At[s] /\ flags \in FlagSets
      /\ Current(r).kind \in {"round", "compare", "properties", "length"}
      /\ at[r] \in Plan[Current(r).kind][flags] /\ Stages[at[r]] = s
  BY <1>1, <1>4, HereFacts DEF Stage
<1>9. s # "cmpLen"
  <2> SUFFICES ASSUME s = "cmpLen" PROVE FALSE
    OBVIOUS
  <2>1. at[r] > At["len"]
    BY <1>8, Numbers
  <2> QED
    BY <1>1, <1>4, <2>1, SettledLength DEF VInv, Asked
<1>10. s = "len" => Measured(call[r]) = v
  <2> SUFFICES ASSUME s = "len" PROVE Measured(call[r]) = v
    OBVIOUS
  <2>1. CASE Current(r).kind = "length"
    BY <1>3, <1>8, <2>1, MeasuredFacts
  <2>2. CASE Current(r).kind # "length"
    <3>1. globalDataLength[r] = 0
      BY <1>1, <1>4, <2>2 DEF VInv, Asked
    <3>2. call[r] = 1
      BY <1>1, <1>4, <3>1, SettledLength DEF VInv
    <3> QED
      BY <1>3, <1>8, <3>2, MeasuredFacts
  <2> QED
    BY <2>1, <2>2
<1>11. Stage(r) \notin Reduces \/ r = 0 =>
           /\ s = "len" => Total(k) = Cardinality(Items(v))
           /\ s = "min" => Min(Range(k)) = OriMin(v)
           /\ s = "max" => Max(Range(k)) = OriMax(v)
           /\ s = "sum" => Total(k) = Total(OriAt(v))
           /\ s = "square" => Total(k) = Total(Distance(v))
           /\ s = "errSum" => Total(k) = Total(SquaredDiff(v))
           /\ s = "errMax" => Max(Range([q \in Ranks |-> k[q]["diff"]])) = DiffMax(v)
           /\ s = "errMin" => Min(Range([q \in Ranks |-> k[q]["diff"]])) = DiffMin(v)
           /\ s = "absErrPDF" => \A b \in 0 .. PDF_INTERVALS - 1 :
                Total([q \in Ranks |-> k[q][b]]) = Cardinality(InBin(v, b))
  BY <1>1, <1>2, <1>3, <1>4, AnswerIs DEF VInv
<1>12. s \in {"len", "min", "max", "sum", "square", "errSum", "errMax", "errMin"} =>
           Stage(r) \notin Reduces
  BY <1>1 DEF Reduces
<1>13. Told' /\ Asked' /\ LengthIs'
  <2>1. /\ Stage(r) # "len" => globalDataLength'[r] = globalDataLength[r]
        /\ Stage(r) = "len" => globalDataLength'[r] = Cardinality(Items(Measured(call[r])))
    BY <1>1, <1>7, <1>9, <1>10, <1>11, <1>12
  <2> QED
    BY <1>4, <1>5, <1>7, <2>1, ToldStays, AskedStep, LengthStep DEF VInv
<1>14. PropertyIs'
  <2>1. DOMAIN property'[r] = DOMAIN NoProperty
    BY <1>6, <1>7, BasicFacts
  <2>2. Current(r).kind # "length" =>
            /\ IF Stage(r) = "len" THEN property'[r].numOfElem = globalDataLength'[r]
               ELSE /\ property'[r].numOfElem = property[r].numOfElem
                    /\ globalDataLength'[r] = globalDataLength[r]
            /\ property'[r].min = IF Stage(r) = "min" THEN OriMin(v) ELSE property[r].min
            /\ property'[r].max = IF Stage(r) = "max" THEN OriMax(v) ELSE property[r].max
            /\ property'[r].sum = IF Stage(r) = "sum" THEN Total(OriAt(v)) ELSE property[r].sum
            /\ property'[r].square =
                 IF Stage(r) = "square" THEN Total(Distance(v)) ELSE property[r].square
    <3> SUFFICES ASSUME Current(r).kind # "length"
                 PROVE  /\ IF s = "len" THEN property'[r].numOfElem = globalDataLength'[r]
                           ELSE /\ property'[r].numOfElem = property[r].numOfElem
                                /\ globalDataLength'[r] = globalDataLength[r]
                        /\ property'[r].min = IF s = "min" THEN OriMin(v) ELSE property[r].min
                        /\ property'[r].max = IF s = "max" THEN OriMax(v) ELSE property[r].max
                        /\ property'[r].sum =
                             IF s = "sum" THEN Total(OriAt(v)) ELSE property[r].sum
                        /\ property'[r].square =
                             IF s = "square" THEN Total(Distance(v)) ELSE property[r].square
      BY <1>1
    <3>1. PICK y : y = property'[r]
      OBVIOUS
    <3>2. y = Basic(property[r], s, k)
      BY <1>7, <3>1
    <3>3. /\ y.numOfElem = IF s = "len" THEN Total(k) ELSE property[r].numOfElem
          /\ y.min = IF s = "min" THEN Min(Range(k)) ELSE property[r].min
          /\ y.max = IF s = "max" THEN Max(Range(k)) ELSE property[r].max
          /\ y.sum = IF s = "sum" THEN Total(k) ELSE property[r].sum
          /\ y.square = IF s = "square" THEN Total(k) ELSE property[r].square
      BY <1>6, <3>2, BasicFacts
    <3> QED
      BY <1>1, <1>7, <1>9, <1>11, <1>12, <3>1, <3>3
  <2> QED
    BY <1>3, <1>4, <1>5, <1>7, <2>1, <2>2, PropertyStep DEF VInv
<1>15. ResultIs'
  <2>1. PICK y : y = result'[r]
    OBVIOUS
  <2>2. y = Compared(r, s, k)
    BY <1>7, <2>1
  <2>3. /\ y.errSum = IF s = "errSum" THEN Total(k) ELSE result[r].errSum
        /\ y.maxDiff = IF s = "errMax" THEN Max(Range([q \in Ranks |-> k[q]["diff"]]))
                       ELSE result[r].maxDiff
        /\ y.minDiff = IF s = "errMin" THEN Min(Range([q \in Ranks |-> k[q]["diff"]]))
                       ELSE result[r].minDiff
        /\ y.pdf = IF s = "absErrPDF" /\ r = 0
                   THEN [b \in 0 .. PDF_INTERVALS - 1 |-> Total([q \in Ranks |-> k[q][b]])]
                   ELSE result[r].pdf
    BY <1>6, <2>2, ComparedValues
  <2>4. /\ y.errSum = IF s = "errSum" THEN Total(SquaredDiff(v)) ELSE result[r].errSum
        /\ y.maxDiff = IF s = "errMax" THEN DiffMax(v) ELSE result[r].maxDiff
        /\ y.minDiff = IF s = "errMin" THEN DiffMin(v) ELSE result[r].minDiff
        /\ s # "absErrPDF" => y.pdf = result[r].pdf
    BY <1>11, <1>12, <2>3
  <2>5. s = "absErrPDF" /\ r = 0 =>
            y.pdf = [b \in 0 .. PDF_INTERVALS - 1 |-> Cardinality(InBin(v, b))]
    <3> SUFFICES ASSUME s = "absErrPDF", r = 0
                 PROVE  y.pdf = [b \in 0 .. PDF_INTERVALS - 1 |-> Cardinality(InBin(v, b))]
      OBVIOUS
    <3>1. \A b \in 0 .. PDF_INTERVALS - 1 :
              Total([q \in Ranks |-> k[q][b]]) = Cardinality(InBin(v, b))
      BY <1>11
    <3>2. y.pdf = [b \in 0 .. PDF_INTERVALS - 1 |-> Total([q \in Ranks |-> k[q][b]])]
      BY <2>3
    <3> QED
      BY <3>1, <3>2
  <2> QED
    BY <1>1, <1>3, <1>4, <1>5, <1>7, <2>1, <2>4, <2>5, ResultStep DEF VInv
<1> QED
  BY <1>13, <1>14, <1>15 DEF VInv

LEMMA EnterValues ==
    ASSUME IInv, VInv, NEW r \in Ranks, Enter(r)
    PROVE  VInv'
<1>1. PICK s : s = Stage(r)
  OBVIOUS
<1>2. PICK k : k = Len(sent[r]) + 1
  OBVIOUS
<1>3. PICK v : v = Current(r).var
  OBVIOUS
<1>4. /\ call[r] <= Len(program) /\ ~ waits[r] /\ ~ Skipped(r)
      /\ UNCHANGED <<program, data, flags, call, at, globalDataLength, property, result>>
      /\ \A q \in Ranks : q # r => waits'[q] = waits[q] /\ sent'[q] = sent[q]
      /\ sent'[r][k].call = call[r] /\ sent'[r][k].stage = s
  BY <1>1, <1>2, EnterFacts
<1>5. /\ \A q \in Ranks : q # r => Entered(q)' = Entered(q)
      /\ Entered(r)' = Entered(r) \cup {k}
      /\ \A q \in Ranks : \A n \in Entered(q) : sent'[q][n] = sent[q][n]
  BY <1>2, EnterKeeps
<1>6. /\ at[r] \in Nat /\ at[r] = At[s] /\ flags \in FlagSets /\ at[r] \in Index
      /\ Current(r).kind \in {"round", "compare", "properties", "length"}
      /\ at[r] \in Plan[Current(r).kind][flags] /\ Stages[at[r]] = s
      /\ program[call[r]] = Current(r)
  BY <1>1, <1>4, HereFacts DEF Stage
<1>7. sent'[r][k].value = Contribution(r, s)
  <2> DEFINE e == [call |-> call[r], stage |-> Stage(r), value |-> Contribution(r, Stage(r))]
  <2>1. sent' = [sent EXCEPT ![r] = Append(@, e)] /\ DOMAIN sent = Ranks
    BY DEF Enter, IInv, Shape
  <2>2. e.value = Contribution(r, s)
    BY <1>1
  <2> HIDE DEF e
  <2>3. \E S : sent[r] \in Seq(S)
    BY DEF IInv, Shape
  <2>4. sent'[r] = Append(sent[r], e)
    BY <2>1
  <2>5. PICK S : sent[r] \in Seq(S)
    BY <2>3
  <2>6. sent[r] \in Seq(S \cup {e}) /\ e \in S \cup {e}
    BY <2>5, SeqMonotonic
  <2>7. Append(sent[r], e)[Len(sent[r]) + 1] = e
    BY <2>6, AppendProperties
  <2> QED
    BY <1>2, <2>2, <2>4, <2>7
<1>8. /\ s = "square" => property[r].min = OriMin(v) /\ property[r].max = OriMax(v)
      /\ s = "absErrPDF" => result[r].minDiff = DiffMin(v) /\ result[r].maxDiff = DiffMax(v)
  <2>1. s = "square" => Current(r).kind # "length" /\ at[r] > At["min"] /\ at[r] > At["max"]
    BY <1>6, PlanHas, Numbers
  <2>2. s = "absErrPDF" => Current(r).kind \in {"round", "compare"}
                            /\ at[r] > At["errMax"] /\ at[r] > At["errMin"]
    BY <1>6, PlanHas, Numbers
  <2> QED
    BY <1>3, <1>4, <2>1, <2>2 DEF VInv, PropertyIs, ResultIs
<1>9. PICK mine : mine = data[v][r]
  OBVIOUS
<1>10. PICK c : c = Contribution(r, s)
  OBVIOUS
<1>11. /\ s = "len" => c = Len(mine)
       /\ s = "min" => c = Min(Range(Ori(mine)))
       /\ s = "max" => c = Max(Range(Ori(mine)))
       /\ s = "sum" => c = Total(Ori(mine))
       /\ s = "square" => c = Square(mine, property[r].min, property[r].max)
       /\ s = "errSum" => c = SquaredError(mine)
       /\ s = "errMax" => c.diff = Max(Range(Diff(mine)))
       /\ s = "errMin" => c.diff = Min(Range(Diff(mine)))
       /\ s = "absErrPDF" => c = Histogram(mine, result[r].minDiff, result[r].maxDiff)
  BY <1>3, <1>9, <1>10 DEF Contribution
<1>12. \A m, q : Says(m, q)' = Says(m, q)
  BY <1>4, SameData
<1>13. Told'
  <2>1. PICK m : m = sent'[r][k]
    OBVIOUS
  <2>2. m.call = call[r] /\ m.stage = s /\ m.value = c /\ program[m.call].var = v
    BY <1>3, <1>4, <1>6, <1>7, <1>10, <2>1
  <2>3. Says(m, r)
    BY <1>8, <1>9, <1>11, <2>2 DEF Says
  <2>4. ASSUME NEW q \in Ranks, NEW n \in Entered(q)'
        PROVE  Says(sent'[q][n], q)
    <3>1. CASE q = r /\ n = k
      BY <2>1, <2>3, <3>1
    <3>2. CASE ~ (q = r /\ n = k)
      <4>1. n \in Entered(q)
        BY <1>5, <3>2
      <4> QED
        BY <1>5, <4>1 DEF VInv, Told
    <3> QED
      BY <3>1, <3>2
  <2>5. ASSUME NEW q \in Ranks, NEW n \in Entered(q)'
        PROVE  Says(sent[q][n], q)'
    <3>1. PICK e : e = sent'[q][n]
      OBVIOUS
    <3> QED
      BY <1>12, <2>4, <3>1
  <2> QED
    BY <2>5 DEF Told
<1>14. /\ \A q : Stage(q)' = Stage(q) /\ Current(q)' = Current(q) /\ Counted(q)' = Counted(q)
       /\ \A q : Counted(q) = Counted(q)'
  BY <1>4 DEF Stage, Current, Counted
<1>15. Asked'
  <2>1. Stage(r) = "cmpLen" \/ (Stage(r) = "len" /\ Current(r).kind # "length") =>
            globalDataLength[r] = 0
    <3>1. globalDataLength[r] \in Nat
      BY <1>4, SettledLength DEF VInv
    <3>2. Stage(r) = "cmpLen" \/ (Stage(r) = "len" /\ Current(r).kind # "length") =>
              ~ (globalDataLength[r] > 0)
      BY <1>4 DEF Skipped
    <3> QED
      BY <3>1, <3>2
  <2> QED
    BY <1>4, <1>14, <2>1 DEF VInv, Asked
<1>16. LengthIs'
  <2>1. ASSUME NEW n
        PROVE  Cardinality(Items(Measured(n)))' = Cardinality(Items(Measured(n)))
    <3>1. PICK u : u = Measured(n)
      OBVIOUS
    <3> QED
      BY <1>4, <3>1, SameData
  <2>2. ASSUME NEW q \in Ranks
        PROVE  (globalDataLength[q] = IF Counted(q) = 0 THEN 0
                                      ELSE Cardinality(Items(Measured(Counted(q)))))'
    <3>1. PICK n : n = Counted(q)
      OBVIOUS
    <3>2. n = Counted(q)'
      BY <1>14, <3>1
    <3> QED
      BY <1>4, <2>1, <3>1, <3>2 DEF VInv, LengthIs
  <2> QED
    BY <2>2 DEF LengthIs
<1>17. PropertyIs'
  <2>1. ASSUME NEW u
        PROVE  /\ OriMin(u)' = OriMin(u) /\ OriMax(u)' = OriMax(u) /\ OriAt(u)' = OriAt(u)
               /\ Distance(u)' = Distance(u)
    BY <1>4, SameData
  <2> QED
    BY <1>4, <1>14, <2>1 DEF VInv, PropertyIs
<1>18. ResultIs'
  <2>1. ASSUME NEW u
        PROVE  /\ DiffMin(u)' = DiffMin(u) /\ DiffMax(u)' = DiffMax(u)
               /\ SquaredDiff(u)' = SquaredDiff(u)
               /\ \A b : InBin(u, b)' = InBin(u, b)
    BY <1>4, SameData
  <2> QED
    BY <1>4, <1>14, <2>1 DEF VInv, ResultIs
<1> QED
  BY <1>13, <1>15, <1>16, <1>17, <1>18 DEF VInv

LEMMA UnmovedValues ==
    ASSUME VInv, Unmoved
    PROVE  VInv'
<1> USE DEF Unmoved
<1>1. \A q : /\ Stage(q)' = Stage(q) /\ Current(q)' = Current(q) /\ Counted(q) = Counted(q)'
             /\ Entered(q)' = Entered(q)
  BY DEF Stage, Current, Counted, Entered
<1>2. ASSUME NEW u
      PROVE  /\ OriMin(u)' = OriMin(u) /\ OriMax(u)' = OriMax(u) /\ OriAt(u)' = OriAt(u)
             /\ Distance(u)' = Distance(u) /\ SquaredDiff(u)' = SquaredDiff(u)
             /\ DiffMin(u)' = DiffMin(u) /\ DiffMax(u)' = DiffMax(u)
             /\ \A b : InBin(u, b)' = InBin(u, b)
  BY SameData
<1>3. Told'
  BY ToldStays DEF VInv
<1>4. LengthIs'
  <2>1. ASSUME NEW n
        PROVE  Cardinality(Items(Measured(n)))' = Cardinality(Items(Measured(n)))
    <3>1. PICK u : u = Measured(n)
      OBVIOUS
    <3> QED
      BY <3>1, SameData
  <2>2. ASSUME NEW q \in Ranks
        PROVE  (globalDataLength[q] = IF Counted(q) = 0 THEN 0
                                      ELSE Cardinality(Items(Measured(Counted(q)))))'
    <3>1. PICK n : n = Counted(q)
      OBVIOUS
    <3>2. n = Counted(q)'
      BY <1>1, <3>1
    <3> QED
      BY <2>1, <3>1, <3>2 DEF VInv, LengthIs
  <2> QED
    BY <2>2 DEF LengthIs
<1>5. Asked'
  BY <1>1 DEF VInv, Asked
<1>6. PropertyIs'
  BY <1>1, <1>2 DEF VInv, PropertyIs
<1>7. ResultIs'
  BY <1>1, <1>2 DEF VInv, ResultIs
<1> QED
  BY <1>3, <1>4, <1>5, <1>6, <1>7 DEF VInv

LEMMA InitValues == Init => VInv
<1> SUFFICES ASSUME Init PROVE VInv
  OBVIOUS
<1>1. \A r \in Ranks : /\ call[r] = 1 /\ at[r] = 1 /\ sent[r] = <<>> /\ ~ waits[r]
                       /\ globalDataLength[r] = 0 /\ property[r] = NoProperty
  BY DEF Init
<1>2. \A s \in {"len", "min", "max", "sum", "square", "errSum", "errMax", "errMin", "absErrPDF"} :
          ~ (1 > At[s])
  BY Numbers
<1>3. Told
  <2>1. \A r \in Ranks : Entered(r) = {}
    BY <1>1 DEF Entered
  <2> QED
    BY <2>1 DEF Told
<1>4. LengthIs
  BY <1>1, <1>2 DEF LengthIs, Counted
<1>5. Asked
  BY <1>1 DEF Asked
<1>6. PropertyIs
  BY <1>1, <1>2 DEF PropertyIs
<1>7. ResultIs
  BY <1>1, <1>2 DEF ResultIs
<1> QED
  BY <1>3, <1>4, <1>5, <1>6, <1>7 DEF VInv

LEMMA StepValues == IInv /\ VInv /\ [Next]_vars => VInv'
<1> SUFFICES ASSUME IInv, VInv, [Next]_vars PROVE VInv'
  OBVIOUS
<1>1. CASE UNCHANGED vars
  BY <1>1, StandsStill, UnmovedValues
<1>2. ASSUME NEW r \in Ranks, Step(r)
      PROVE  VInv'
  <2>1. CASE Begin(r)
    BY <2>1, BeginValues
  <2>2. CASE Pass(r)
    BY <2>2, PassValues
  <2>3. CASE Enter(r)
    BY <2>3, EnterValues
  <2>4. CASE Leave(r)
    BY <2>4, LeaveValues
  <2>5. CASE EndCmpr(r)
    BY <2>5, EndCmprValues
  <2>6. CASE EndDec(r)
    BY <2>6, EndDecValues
  <2>7. CASE Overrun(r)
    BY <2>7, StandsStill, UnmovedValues
  <2> QED
    BY <1>2, <2>1, <2>2, <2>3, <2>4, <2>5, <2>6, <2>7 DEF Step
<1> QED
  BY <1>1, <1>2 DEF Next

(* What a rank sent, holds of the variable and holds of the errors is, at  *)
(* every stage of every call, what the data and the calls before make it.  *)
THEOREM ValuesInvariance == Spec => []VInv
<1> QED
  BY InitValues, StepValues, Invariance, PTL DEF Spec

----------------------------------------------------------------------------
(* A difference falls in bin b if it reaches the lower end of b, and not   *)
(* that of the bin after it, of which the last has none. *)
LEMMA BinMeans ==
    ASSUME NEW lo \in Int, NEW hi \in Int, NEW d \in Int, lo < hi, lo <= d, d <= hi,
           NEW b \in 0 .. PDF_INTERVALS - 1
    PROVE  Bin(d, lo, hi) = b <=>
               /\ b * (hi - lo) <= (d - lo) * PDF_INTERVALS
               /\ b < PDF_INTERVALS - 1 => ~ ((b + 1) * (hi - lo) <= (d - lo) * PDF_INTERVALS)
<1>1. PDF_INTERVALS \in Nat /\ PDF_INTERVALS > 0 /\ b \in Nat
  BY SizeAssumption
<1>2. PICK w \in Nat : w = hi - lo /\ w > 0
  OBVIOUS
<1>3. PICK e \in Nat : e = d - lo /\ e <= w
  BY <1>2
<1>4. PICK p \in Nat : p = e * PDF_INTERVALS /\ p <= w * PDF_INTERVALS
  BY <1>1, <1>2, <1>3
<1>5. PICK n \in Nat : n = p \div w /\ n * w <= p /\ p < (n + 1) * w
  BY <1>2, <1>4
<1>6. n <= PDF_INTERVALS
  <2>1. n * w <= PDF_INTERVALS * w
    BY <1>1, <1>2, <1>4, <1>5
  <2> QED
    BY <1>1, <1>2, <1>5, <2>1
<1>7. \A m \in Nat : m * w <= p <=> m <= n
  <2> SUFFICES ASSUME NEW m \in Nat PROVE m * w <= p <=> m <= n
    OBVIOUS
  <2>1. m <= n => m * w <= n * w
    BY <1>2, <1>5
  <2>2. m >= n + 1 => m * w >= (n + 1) * w
    BY <1>2, <1>5
  <2>3. PICK x \in Nat : x = m * w
    BY <1>2
  <2>4. PICK y \in Nat : y = n * w
    BY <1>2
  <2>5. PICK z \in Nat : z = (n + 1) * w
    BY <1>2
  <2> QED
    BY <1>4, <1>5, <2>1, <2>2, <2>3, <2>4, <2>5
<1>8. Bin(d, lo, hi) = IF n = PDF_INTERVALS THEN PDF_INTERVALS - 1 ELSE n
  BY <1>2, <1>3, <1>4, <1>5 DEF Bin
<1>9. /\ b * w <= p <=> b <= n
      /\ (b + 1) * w <= p <=> b + 1 <= n
  BY <1>1, <1>7
<1>10. Bin(d, lo, hi) = b <=> b <= n /\ (b < PDF_INTERVALS - 1 => ~ (b + 1 <= n))
  BY <1>1, <1>5, <1>6, <1>8
<1> QED
  BY <1>2, <1>3, <1>4, <1>9, <1>10

LEMMA StatisticsHold ==
    ASSUME IInv, VInv
    PROVE  StatisticsExact
<1> SUFFICES ASSUME NEW r \in Ranks, Past(r, "square"), Current(r).kind # "length",
                    NEW v, v = Current(r).var
             PROVE  /\ property[r].min = OriMin(v) /\ property[r].max = OriMax(v)
                    /\ property[r].sum = Total(OriAt(v))
                    /\ property[r].square = Total(Distance(v))
                    /\ Cardinality(Items(Measured(call[r]))) = Cardinality(Items(v)) =>
                         property[r].numOfElem = Cardinality(Items(v))
  <2>1. ASSUME NEW v
        PROVE  LET ori == OriAt(v)
                   lo == Min(Range(ori))
                   hi == Max(Range(ori))
                   dist == [i \in DOMAIN ori |-> 2 * ori[i] - (lo + hi)]
               IN  /\ lo = OriMin(v) /\ hi = OriMax(v)
                   /\ [i \in DOMAIN ori |-> dist[i] * dist[i]] = Distance(v)
    <3>1. DOMAIN OriAt(v) = Items(v)
      BY DEF OriAt
    <3> QED
      BY <3>1 DEF OriMin, OriMax, Distance
  <2> QED
    BY <2>1 DEF StatisticsExact
<1>1. /\ call[r] <= Len(program)
      /\ at[r] > At["square"] /\ at[r] > At["sum"] /\ at[r] > At["max"] /\ at[r] > At["min"]
      /\ at[r] > At["len"]
  <2>1. call[r] <= Len(program) /\ at[r] > At["square"] /\ at[r] \in Nat
    BY RankFacts, StageAt DEF Past
  <2> QED
    BY <2>1, Numbers
<1>2. /\ property[r].min = OriMin(v) /\ property[r].max = OriMax(v)
      /\ property[r].sum = Total(OriAt(v)) /\ property[r].square = Total(Distance(v))
      /\ property[r].numOfElem = globalDataLength[r]
  BY <1>1 DEF VInv, PropertyIs
<1>3. globalDataLength[r] = Cardinality(Items(Measured(call[r])))
  BY <1>1, SettledLength DEF VInv
<1> QED
  BY <1>2, <1>3

(* What every rank holds after ZC_genBasicProperties_*_online is computed  *)
(* from the whole variable, as one process with all the data would: the    *)
(* least, the greatest, the sum and the squared distances from the middle  *)
(* of the range, and the number of elements if the variable measured last  *)
(* was as long; for any number of ranks, any division of the variable      *)
(* among them, any programs and flags. *)
THEOREM StatisticsCorrect == Spec => []StatisticsExact
<1> QED
  BY StatisticsHold, Invariance, ValuesInvariance, PTL

LEMMA ErrorsHold ==
    ASSUME IInv, VInv
    PROVE  ErrorsExact
<1>1. ASSUME NEW r \in Ranks, Past(r, "absErrPDF"), Current(r).kind \in {"round", "compare"},
             NEW v, v = Current(r).var
      PROVE  /\ result[r].minDiff = DiffMin(v) /\ result[r].maxDiff = DiffMax(v)
             /\ result[r].errSum = Total(SquaredDiff(v))
             /\ r = 0 /\ "absErrPDF" \in flags /\ DiffMin(v) # DiffMax(v) =>
                  \A b \in 0 .. PDF_INTERVALS - 1 :
                      result[r].pdf[b] = Cardinality(InBin(v, b))
  <2>1. /\ call[r] <= Len(program) /\ at[r] > At["absErrPDF"]
        /\ at[r] > At["errMin"] /\ at[r] > At["errMax"] /\ at[r] > At["errSum"]
    <3>1. call[r] <= Len(program) /\ at[r] > At["absErrPDF"] /\ at[r] \in Nat
      BY <1>1, RankFacts, StageAt DEF Past
    <3> QED
      BY <3>1, Numbers
  <2> QED
    BY <1>1, <2>1 DEF VInv, ResultIs
<1>2. ASSUME NEW v \in Vars, DiffMin(v) # DiffMax(v), NEW b \in 0 .. PDF_INTERVALS - 1
      PROVE  InBin(v, b) =
                {i \in Items(v) :
                    /\ b * (DiffMax(v) - DiffMin(v)) <= (DiffAt(v)[i] - DiffMin(v)) * PDF_INTERVALS
                    /\ b < PDF_INTERVALS - 1 =>
                        ~ ((b + 1) * (DiffMax(v) - DiffMin(v))
                            <= (DiffAt(v)[i] - DiffMin(v)) * PDF_INTERVALS)}
  <2>1. data \in Parts
    BY DEF IInv, Shape, TypeOK
  <2>2. PICK lo \in Int : lo = DiffMin(v)
    BY <2>1, ExtremesInt
  <2>3. PICK hi \in Int : hi = DiffMax(v)
    BY <2>1, ExtremesInt
  <2>4. ASSUME NEW i \in Items(v)
        PROVE  Bin(DiffAt(v)[i], lo, hi) = b <=>
                 /\ b * (hi - lo) <= (DiffAt(v)[i] - lo) * PDF_INTERVALS
                 /\ b < PDF_INTERVALS - 1 =>
                      ~ ((b + 1) * (hi - lo) <= (DiffAt(v)[i] - lo) * PDF_INTERVALS)
    <3>1. PICK d \in Int : d = DiffAt(v)[i] /\ lo <= d /\ d <= hi
      BY <2>1, <2>2, <2>3, ExtremesInt
    <3>2. lo < hi
      BY <1>2, <2>2, <2>3, <3>1
    <3> QED
      BY <3>1, <3>2, BinMeans
  <2> QED
    BY <2>2, <2>3, <2>4 DEF InBin
<1>3. ASSUME NEW v
      PROVE  /\ DOMAIN DiffAt(v) = Items(v)
             /\ Min(Range(DiffAt(v))) = DiffMin(v) /\ Max(Range(DiffAt(v))) = DiffMax(v)
             /\ [i \in DOMAIN DiffAt(v) |-> DiffAt(v)[i] * DiffAt(v)[i]] = SquaredDiff(v)
  <2>1. DOMAIN DiffAt(v) = Items(v)
    BY DEF DiffAt
  <2> QED
    BY <2>1 DEF DiffMin, DiffMax, SquaredDiff
<1>4. ASSUME NEW r \in Ranks, Past(r, "absErrPDF"), Current(r).kind \in {"round", "compare"}
      PROVE  LET diff == DiffAt(Current(r).var)
                 items == DOMAIN diff
                 lo == Min(Range(diff))
                 hi == Max(Range(diff))
                 reaches(b, i) == b * (hi - lo) <= (diff[i] - lo) * PDF_INTERVALS
             IN  /\ result[r].minDiff = lo /\ result[r].maxDiff = hi
                 /\ result[r].errSum = Total([i \in items |-> diff[i] * diff[i]])
                 /\ r = 0 /\ "absErrPDF" \in flags /\ lo # hi =>
                     \A b \in 0 .. PDF_INTERVALS - 1 :
                         result[r].pdf[b] =
                             Cardinality({i \in items :
                                 /\ reaches(b, i)
                                 /\ b < PDF_INTERVALS - 1 => ~ reaches(b + 1, i)})
  <2>1. PICK v : v = Current(r).var
    OBVIOUS
  <2>2. v \in Vars
    BY <1>4, <2>1, HereFacts DEF Past
  <2>3. PICK diff : diff = DiffAt(v)
    OBVIOUS
  <2>4. PICK lo : lo = DiffMin(v)
    OBVIOUS
  <2>5. PICK hi : hi = DiffMax(v)
    OBVIOUS
  <2> DEFINE reaches(b, i) == b * (hi - lo) <= (diff[i] - lo) * PDF_INTERVALS
             fall(b) == {i \in DOMAIN diff : /\ reaches(b, i)
                                             /\ b < PDF_INTERVALS - 1 => ~ reaches(b + 1, i)}
  <2>6. lo # hi => \A b \in 0 .. PDF_INTERVALS - 1 : InBin(v, b) = fall(b)
    BY <1>2, <1>3, <2>2, <2>3, <2>4, <2>5
  <2>7. /\ lo = Min(Range(diff)) /\ hi = Max(Range(diff)) /\ diff = DiffAt(Current(r).var)
        /\ [i \in DOMAIN diff |-> diff[i] * diff[i]] = SquaredDiff(v)
    BY <1>3, <2>1, <2>3, <2>4, <2>5
  <2>8. /\ result[r].minDiff = lo /\ result[r].maxDiff = hi
        /\ result[r].errSum = Total(SquaredDiff(v))
        /\ r = 0 /\ "absErrPDF" \in flags /\ lo # hi =>
             \A b \in 0 .. PDF_INTERVALS - 1 : result[r].pdf[b] = Cardinality(fall(b))
    <3> HIDE DEF fall
    <3> QED
      BY <1>1, <1>4, <2>1, <2>4, <2>5, <2>6
  <2>9. /\ result[r].minDiff = Min(Range(diff)) /\ result[r].maxDiff = Max(Range(diff))
        /\ result[r].errSum = Total([i \in DOMAIN diff |-> diff[i] * diff[i]])
    BY <2>7, <2>8
  <2>10. r = 0 /\ "absErrPDF" \in flags /\ lo # hi =>
             \A b \in 0 .. PDF_INTERVALS - 1 : result[r].pdf[b] = Cardinality(fall(b))
    BY <2>8
  <2> QED
    BY <2>7, <2>9, <2>10
<1> QED
  BY <1>4 DEF ErrorsExact

(* After ZC_compareData_*_online every rank holds the least and greatest   *)
(* difference and the squared error of the whole variable, and the         *)
(* distribution on the root counts every element of every rank once, in    *)
(* the bin of its difference: for any number of ranks, any division of the *)
(* variable among them, any programs and flags. *)
THEOREM ErrorsCorrect == Spec => []ErrorsExact
<1> QED
  BY ErrorsHold, Invariance, ValuesInvariance, PTL
=============================================================================
