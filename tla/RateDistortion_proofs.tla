------------------------ MODULE RateDistortion_proofs ------------------------
(***************************************************************************)
(* What the rate-distortion report does to any table of results: for any   *)
(* number of compressors, error bounds, variables and results, each curve  *)
(* gets exactly its results and the lines of all curves together fit the   *)
(* array that was allocated for them.                                      *)
(***************************************************************************)
EXTENDS RateDistortion, FiniteSetTheorems, TLAPS

----------------------------------------------------------------------------
(* The inductive invariant.                                                *)
Elems(s) == {s[n] : n \in 1 .. Len(s)}
Distinct(s) == \A m, n \in 1 .. Len(s) : s[m] = s[n] => m = n
Ascending(s) == \A m, n \in 1 .. Len(s) : m < n => Metric(s[m]) <= Metric(s[n])

Curve(v, c) == {k \in KeysOf(v) : StartsWith(k, c)}
Reportable(v) == {k \in KeysOf(v) : \E c \in Listed : StartsWith(k, c)}
Busy == pc \in {"scan", "sort", "emit", "write"}

(* The keys of the variable being plotted, each once. *)
SelectedOK ==
    Busy => selected # <<>> /\ Distinct(selected) /\ Elems(selected) = KeysOf(var)

(* The curve being collected, complete, and in order. *)
CurveOK ==
    /\ pc \in {"scan", "sort", "emit"} => Distinct(rdList)
    /\ pc = "scan" =>
        /\ Len(rdList) <= j - 1
        /\ Elems(rdList) = {k \in {selected[n] : n \in 1 .. j - 1} :
                               StartsWith(k, compressors[i])}
    /\ pc \in {"sort", "emit"} => Elems(rdList) = Curve(var, compressors[i])
    /\ pc = "emit" => rdList # <<>> /\ Ascending(rdList) /\ j <= Len(rdList) + 1

(* Lines r for exactly the results in ks, curve after curve. *)
Entry(r, n) ==
    /\ r[n].column \in 1 .. Len(compressors)
    /\ StartsWith(r[n].key, compressors[r[n].column])
    /\ r[n].shown = Shown(r[n].key)
InOrder(r, m, n) ==
    /\ r[m].key # r[n].key /\ r[m].column <= r[n].column
    /\ r[m].column = r[n].column => Metric(r[m].key) <= Metric(r[n].key)
LinesFor(r, ks) ==
    /\ {r[n].key : n \in 1 .. Len(r)} = ks
    /\ \A n \in 1 .. Len(r) : Entry(r, n)
    /\ \A m, n \in 1 .. Len(r) : m < n => InOrder(r, m, n)

(* The results of curves 1 .. i-1. *)
Before == {k \in KeysOf(var) : \E m \in 1 .. i - 1 : StartsWith(k, compressors[m])}
LinesOK ==
    /\ pc \in {"scan", "sort"} =>
        LinesFor(lines, Before) /\ \A n \in 1 .. Len(lines) : lines[n].column < i
    /\ pc = "emit" =>
        /\ LinesFor(lines, Before \cup {rdList[m] : m \in 1 .. j - 1})
        /\ \A n \in 1 .. Len(lines) :
               \/ lines[n].column < i
               \/ lines[n].column = i /\ lines[n].key \in {rdList[m] : m \in 1 .. j - 1}
    /\ pc = "write" => LinesFor(lines, Reportable(var))

(* A variable that was plotted has its table, unless none is made of it. *)
ReportsOK ==
    /\ \A v \in Vars : reports[v] = <<>> \/ LinesFor(reports[v], Reportable(v))
    /\ \A v \in Vars \ pending :
           \/ Busy /\ v = var
           \/ KeysOf(v) = {} \/ kind = "maxRelErr"
           \/ LinesFor(reports[v], Reportable(v))

OverallOK ==
    /\ \A n \in Names : overall[n] \subseteq Points(n)
    /\ pc = "overall" => \A m \in 1 .. i - 1 : overall[compressors[m]] = Points(compressors[m])
    /\ pc = "done" => \A c \in Listed : overall[c] = Points(c)
    /\ pc \in {"overall", "done"} => pending = {}

IInv ==
    /\ TypeOK /\ SelectedOK /\ CurveOK /\ OverallOK
    /\ NoClash => LinesOK /\ ReportsOK
    /\ Benign => fault = "none"

----------------------------------------------------------------------------
(* Lists that name the members of a set once each.                         *)
LEMMA UpTo ==
    ASSUME NEW n \in Nat
    PROVE  IsFiniteSet(1 .. n) /\ Cardinality(1 .. n) = n
BY FS_Interval

LEMMA Enumeration ==
    ASSUME NEW S, IsFiniteSet(S), NEW s \in Orders(S)
    PROVE  s \in Seq(S) /\ Distinct(s) /\ Elems(s) = S /\ Len(s) = Cardinality(S)
<1> DEFINE n == Cardinality(S)
<1>1. n \in Nat
  BY FS_CardinalityType
<1>2. s \in [1 .. n -> S] /\ \A a, b \in 1 .. n : s[a] = s[b] => a = b
  BY DEF Orders
<1>3. s \in Seq(S) /\ Len(s) = n
  BY <1>1, <1>2
<1>4. Cardinality(1 .. n) = n
  BY <1>1, UpTo
<1>5. s \in Injection(1 .. n, S)
  BY <1>2 DEF Injection, IsInjective
<1>6. s \in Surjection(1 .. n, S)
  BY <1>4, <1>5, FS_Injection
<1>7. Elems(s) = S
  BY <1>2, <1>3, <1>6 DEF Surjection, Elems
<1> QED
  BY <1>2, <1>3, <1>7 DEF Distinct

LEMMA Count ==
    ASSUME NEW D, NEW s \in Seq(D), Distinct(s), NEW T, IsFiniteSet(T),
           \A n \in 1 .. Len(s) : s[n] \in T
    PROVE  Len(s) <= Cardinality(T)
<1>1. Len(s) \in Nat /\ s \in [1 .. Len(s) -> T]
  BY DEF Distinct
<1>2. s \in Injection(1 .. Len(s), T)
  BY <1>1 DEF Injection, IsInjective, Distinct
<1>3. Cardinality(1 .. Len(s)) = Len(s)
  BY <1>1, UpTo
<1> QED
  BY <1>2, <1>3, FS_Injection

LEMMA AppendDistinct ==
    ASSUME NEW D, NEW s \in Seq(D), NEW x \in D
    PROVE  /\ Append(s, x) \in Seq(D) /\ Len(Append(s, x)) = Len(s) + 1
           /\ Elems(Append(s, x)) = Elems(s) \cup {x}
           /\ Distinct(s) /\ x \notin Elems(s) => Distinct(Append(s, x))
<1> DEFINE t == Append(s, x)
<1>1. /\ t \in Seq(D) /\ Len(t) = Len(s) + 1 /\ Len(s) \in Nat
      /\ \A n \in 1 .. Len(s) : t[n] = s[n]
      /\ t[Len(s) + 1] = x
  OBVIOUS
<1> HIDE DEF t
<1>2. Elems(t) = Elems(s) \cup {x}
  <2>1. 1 .. Len(t) = 1 .. Len(s) \cup {Len(s) + 1}
    BY <1>1
  <2> QED
    BY <1>1, <2>1 DEF Elems
<1>3. Distinct(s) /\ x \notin Elems(s) => Distinct(t)
  <2>1. SUFFICES ASSUME Distinct(s), x \notin Elems(s), NEW m \in 1 .. Len(t),
                        NEW n \in 1 .. Len(t), t[m] = t[n]
                 PROVE  m = n
    BY DEF Distinct
  <2>2. \A a \in 1 .. Len(s) : t[a] # x
    BY <1>1, <2>1 DEF Elems
  <2>3. CASE m \in 1 .. Len(s) /\ n \in 1 .. Len(s)
    BY <1>1, <2>1, <2>3 DEF Distinct
  <2>4. CASE m \notin 1 .. Len(s) \/ n \notin 1 .. Len(s)
    <3>1. m = Len(s) + 1 \/ m \in 1 .. Len(s)
      BY <1>1
    <3>2. n = Len(s) + 1 \/ n \in 1 .. Len(s)
      BY <1>1
    <3> QED
      BY <1>1, <2>1, <2>2, <2>4, <3>1, <3>2
  <2> QED
    BY <2>3, <2>4
<1> QED
  BY <1>1, <1>2, <1>3 DEF t

(* ZC_quick_sort returns the curve it was given, in order. *)
LEMMA SortedCurve ==
    ASSUME NEW D, NEW s \in Seq(D), Distinct(s), NEW r \in Sorted(s)
    PROVE  /\ r \in Seq(D) /\ Len(r) = Len(s)
           /\ Distinct(r) /\ Elems(r) = Elems(s) /\ Ascending(r)
<1> DEFINE n == Len(s)
<1>1. PICK f \in Orders(1 .. n) : r = [a \in 1 .. n |-> s[f[a]]]
  BY DEF Sorted
<1>2. \A a, b \in 1 .. n : a < b => Metric(r[a]) <= Metric(r[b])
  BY DEF Sorted
<1>3. n \in Nat /\ IsFiniteSet(1 .. n) /\ Cardinality(1 .. n) = n
  BY UpTo
<1>4. f \in Seq(1 .. n) /\ Distinct(f) /\ Elems(f) = 1 .. n /\ Len(f) = n
  BY <1>3, Enumeration
<1>5. \A a \in 1 .. n : f[a] \in 1 .. n /\ r[a] = s[f[a]]
  BY <1>1, <1>4
<1>6. \A a \in 1 .. n : s[a] \in D
  OBVIOUS
<1>7. r \in Seq(D) /\ Len(r) = n
  <2>1. r \in [1 .. n -> D]
    BY <1>1, <1>5, <1>6
  <2> QED
    BY <1>3, <2>1
<1>8. Distinct(r)
  <2> SUFFICES ASSUME NEW a \in 1 .. n, NEW b \in 1 .. n, r[a] = r[b]
               PROVE  a = b
    BY <1>7 DEF Distinct
  <2>1. s[f[a]] = s[f[b]] /\ f[a] \in 1 .. n /\ f[b] \in 1 .. n
    BY <1>5
  <2>2. f[a] = f[b]
    BY <2>1 DEF Distinct
  <2> QED
    BY <1>4, <2>2 DEF Distinct
<1>9. Elems(r) = Elems(s)
  <2>1. \A a \in 1 .. n : \E b \in 1 .. n : f[b] = a
    BY <1>4 DEF Elems
  <2>2. \A x : x \in Elems(r) => x \in Elems(s)
    BY <1>5, <1>7 DEF Elems
  <2>3. ASSUME NEW a \in 1 .. n
        PROVE  s[a] \in Elems(r)
    BY <1>5, <1>7, <2>1, SMTT(40) DEF Elems
  <2> QED
    BY <2>2, <2>3 DEF Elems
<1> QED
  BY <1>2, <1>7, <1>8, <1>9 DEF Ascending

----------------------------------------------------------------------------
LEMMA Constants ==
    ASSUME TypeOK
    PROVE  /\ compressors \in Seq(Names) /\ Len(compressors) \in Nat \ {0}
           /\ \A m, n \in 1 .. Len(compressors) : compressors[m] = compressors[n] => m = n
           /\ DOMAIN results \subseteq ResultKey /\ IsFiniteSet(DOMAIN results)
           /\ results \in [DOMAIN results -> Result]
           /\ \A v : KeysOf(v) \in SUBSET DOMAIN results /\ IsFiniteSet(KeysOf(v))
           /\ i \in Nat /\ i >= 1 /\ i <= Len(compressors) /\ compressors[i] \in Listed
<1>1. compressors \in Seq(Names) /\ compressors # <<>>
      /\ \A m, n \in 1 .. Len(compressors) : compressors[m] = compressors[n] => m = n
  BY ConfigAssumption DEF TypeOK
<1>2. Len(compressors) \in Nat \ {0}
  BY <1>1
<1>3. DOMAIN results \subseteq ResultKey /\ IsFiniteSet(DOMAIN results)
      /\ results \in [DOMAIN results -> Result]
  BY TableAssumption DEF TypeOK
<1>4. ASSUME NEW v
      PROVE  KeysOf(v) \in SUBSET DOMAIN results /\ IsFiniteSet(KeysOf(v))
  <2>1. KeysOf(v) \in SUBSET DOMAIN results
    BY DEF KeysOf
  <2> QED
    BY <1>3, <2>1, FS_Subset
<1>5. i \in Nat /\ i >= 1 /\ i <= Len(compressors) /\ compressors[i] \in Listed
  BY <1>2 DEF TypeOK, Listed
<1> QED
  BY <1>1, <1>2, <1>3, <1>4, <1>5

(* The reports do not change the tables they read. *)
LEMMA Same ==
    ASSUME UNCHANGED <<compressors, results, kind>>
    PROVE  /\ \A v : KeysOf(v)' = KeysOf(v)
           /\ \A v, c : Curve(v, c)' = Curve(v, c)
           /\ \A v : Reportable(v)' = Reportable(v)
           /\ Listed' = Listed
           /\ NoClash' <=> NoClash
           /\ Benign' <=> Benign
           /\ \A s : Ascending(s)' <=> Ascending(s)
           /\ \A r, ks : LinesFor(r, ks)' <=> LinesFor(r, ks)
           /\ \A n : Points(n)' = Points(n)
<1>1. \A v : KeysOf(v)' = KeysOf(v)
  BY DEF KeysOf
<1>2. Listed' = Listed
  BY DEF Listed
<1>3. \A v, c : Curve(v, c)' = Curve(v, c)
  BY <1>1 DEF Curve
<1>4. \A v : Reportable(v)' = Reportable(v)
  BY <1>1, <1>2 DEF Reportable
<1>5. NoClash' <=> NoClash
  BY <1>2 DEF NoClash
<1>6. \A k : Metric(k)' = Metric(k)
  BY DEF Metric
<1>7. Benign' <=> Benign
  BY <1>1, <1>2, <1>5, <1>6 DEF Benign
<1>8. \A s : Ascending(s)' <=> Ascending(s)
  BY <1>6 DEF Ascending
<1>9. \A k : Shown(k)' <=> Shown(k)
  BY <1>6 DEF Shown
<1>10. \A r, ks : LinesFor(r, ks)' <=> LinesFor(r, ks)
  <2>1. \A r, n : Entry(r, n)' <=> Entry(r, n)
    BY DEF Entry, Shown, Metric
  <2>2. \A r, m, n : InOrder(r, m, n)' <=> InOrder(r, m, n)
    BY DEF InOrder, Metric
  <2> QED
    BY <2>1, <2>2 DEF LinesFor
<1>11. \A n : Points(n)' = Points(n)
  BY DEF Points
<1> QED
  BY <1>1, <1>2, <1>3, <1>4, <1>5, <1>7, <1>8, <1>10, <1>11

----------------------------------------------------------------------------
(* The steps.                                                              *)
LEMMA InitInv == Init => IInv
<1> SUFFICES ASSUME Init PROVE IInv
  OBVIOUS
<1>1. TypeOK
  <2>1. compressors \in Configs /\ compressors \in Seq(Names) /\ compressors # <<>>
    BY ConfigAssumption DEF Init
  <2>2. Len(compressors) \in Nat \ {0}
    BY <2>1
  <2> QED
    BY <2>1, <2>2 DEF Init, TypeOK
<1>2. SelectedOK /\ CurveOK /\ LinesOK
  BY DEF Init, SelectedOK, CurveOK, LinesOK, Busy
<1>3. OverallOK /\ ReportsOK /\ fault = "none"
  BY DEF Init, OverallOK, ReportsOK
<1> QED
  BY <1>1, <1>2, <1>3 DEF IInv

LEMMA NoLines ==
    ASSUME NEW D
    PROVE  /\ <<>> \in Seq(D) /\ Len(<<>>) = 0 /\ Distinct(<<>>) /\ Elems(<<>>) = {}
           /\ LinesFor(<<>>, {})
BY DEF Distinct, Elems, LinesFor

LEMMA SelectVariableInv ==
    ASSUME IInv, SelectVariable
    PROVE  IInv'
<1>0. PICK v \in pending : \E s \in Orders(KeysOf(v)) :
        /\ pending' = pending \ {v} /\ var' = v /\ selected' = s
        /\ pc' = IF s = <<>> \/ (kind = "maxRelErr" /\ results[s[1]].exact)
                 THEN "variable" ELSE "scan"
  BY DEF SelectVariable
<1>1. PICK s \in Orders(KeysOf(v)) :
        /\ pending' = pending \ {v} /\ var' = v /\ selected' = s
        /\ pc' = IF s = <<>> \/ (kind = "maxRelErr" /\ results[s[1]].exact)
                 THEN "variable" ELSE "scan"
  BY <1>0
<1>2. /\ UNCHANGED <<compressors, results, kind, reports, overall, fault>>
      /\ pc = "variable" /\ i' = 1 /\ j' = 1 /\ rdList' = <<>> /\ lines' = <<>>
  BY DEF SelectVariable
<1>3. TypeOK /\ v \in Vars
  BY <1>1 DEF IInv, TypeOK
<1>4. /\ s \in Seq(KeysOf(v)) /\ Distinct(s) /\ Elems(s) = KeysOf(v)
      /\ s \in Seq(DOMAIN results) /\ Len(s) \in Nat
  <2>1. KeysOf(v) \subseteq DOMAIN results /\ IsFiniteSet(KeysOf(v))
    BY <1>3, Constants
  <2>2. s \in Seq(KeysOf(v)) /\ Distinct(s) /\ Elems(s) = KeysOf(v)
    BY <1>1, <2>1, Enumeration
  <2> QED
    BY <2>1, <2>2
<1>5. TypeOK'
  <2>1. rdList' \in Seq(DOMAIN results) /\ Len(rdList') = 0 /\ lines' \in Seq(Line)
    BY <1>2, NoLines
  <2>2. 1 \in 1 .. Len(compressors)
    BY <1>3, Constants
  <2> QED
    BY <1>1, <1>2, <1>3, <1>4, <2>1, <2>2 DEF TypeOK
<1>6. SelectedOK'
  BY <1>1, <1>2, <1>4, Same DEF SelectedOK, Busy
<1>7. CurveOK'
  BY <1>1, <1>2, NoLines DEF CurveOK
<1>8. OverallOK'
  BY <1>1, <1>2, Same DEF IInv, OverallOK
<1>9. LinesOK'
  <2>1. Before' = {}
    BY <1>2 DEF Before
  <2> QED
    BY <1>1, <1>2, <2>1, Same, NoLines DEF LinesOK
<1>10. ASSUME NoClash'
       PROVE  ReportsOK'
  <2>1. ReportsOK
    BY <1>2, <1>10, Same DEF IInv
  <2>3. \A w \in Vars : reports[w] = <<>> \/ LinesFor(reports[w], Reportable(w))'
    BY <1>2, <2>1, Same DEF ReportsOK
  <2>4. ASSUME NEW w \in Vars \ pending'
        PROVE  \/ Busy' /\ w = var'
               \/ KeysOf(w)' = {} \/ kind' = "maxRelErr"
               \/ LinesFor(reports[w], Reportable(w))'
    <3>1. CASE w = v
      <4>1. s = <<>> => KeysOf(v) = {}
        BY <1>4, NoLines
      <4>2. Busy' \/ KeysOf(v) = {} \/ kind = "maxRelErr"
        BY <1>1, <4>1 DEF Busy
      <4> QED
        BY <1>1, <1>2, <3>1, <4>2, Same
    <3>2. CASE w # v
      <4>1. w \in Vars \ pending
        BY <1>1, <2>4, <3>2
      <4>2. \/ KeysOf(w) = {} \/ kind = "maxRelErr"
            \/ LinesFor(reports[w], Reportable(w))
        BY <1>2, <2>1, <4>1 DEF ReportsOK, Busy
      <4> QED
        BY <1>2, <4>2, Same
    <3> QED
      BY <3>1, <3>2
  <2> QED
    BY <1>2, <2>3, <2>4 DEF ReportsOK
<1>11. Benign' => fault' = "none"
  BY <1>2, Same DEF IInv
<1> QED
  BY <1>5, <1>6, <1>7, <1>8, <1>9, <1>10, <1>11 DEF IInv

(* A step on one curve leaves the reports and the other variables alone.   *)
LEMMA BusyKeeps ==
    ASSUME IInv, Busy, Busy',
           UNCHANGED <<compressors, results, kind, pending, var, selected, reports, overall>>
    PROVE  SelectedOK' /\ (NoClash' => ReportsOK') /\ OverallOK'
<1>1. SelectedOK'
  BY Same DEF IInv, SelectedOK
<1>2. ASSUME NoClash'
      PROVE  ReportsOK'
  <2>1. ReportsOK
    BY <1>2, Same DEF IInv
  <2> QED
    BY <2>1, Same DEF ReportsOK
<1>3. OverallOK'
  <2>1. pc' \notin {"overall", "done"}
    BY DEF Busy
  <2> QED
    BY <2>1, Same DEF IInv, OverallOK
<1> QED
  BY <1>1, <1>2, <1>3

LEMMA ScanInv ==
    ASSUME IInv, Scan
    PROVE  IInv'
<1> DEFINE x == selected[j]
<1>1. /\ pc = "scan" /\ fault = "none"
      /\ UNCHANGED <<compressors, results, kind, pending, var, selected, i, lines,
                     reports, overall, fault>>
      /\ \/ /\ j <= Len(selected) /\ j' = j + 1 /\ pc' = pc
            /\ rdList' = IF StartsWith(x, compressors[i]) THEN Append(rdList, x) ELSE rdList
         \/ ~ (j <= Len(selected)) /\ pc' = "sort" /\ rdList' = rdList /\ j' = j
  BY DEF Scan
<1>2. /\ TypeOK /\ selected \in Seq(DOMAIN results) /\ rdList \in Seq(DOMAIN results)
      /\ Len(selected) \in Nat /\ Len(rdList) \in Nat /\ j \in 1 .. Len(selected) + 1
  BY DEF IInv, TypeOK
<1>3. /\ Distinct(selected) /\ Elems(selected) = KeysOf(var)
      /\ Distinct(rdList) /\ Len(rdList) <= j - 1
      /\ Elems(rdList) = {k \in {selected[n] : n \in 1 .. j - 1} :
                              StartsWith(k, compressors[i])}
  BY <1>1 DEF IInv, SelectedOK, Busy, CurveOK
<1>4. CurveOK' /\ TypeOK'
  <2>1. CASE j <= Len(selected) /\ pc' = pc
    <3>1. j \in 1 .. Len(selected) /\ x \in DOMAIN results /\ j' = j + 1
      BY <1>1, <1>2, <2>1
    <3>2. 1 .. j' - 1 = (1 .. j - 1) \cup {j}
      BY <1>2, <3>1
    <3>3. {selected[n] : n \in 1 .. j' - 1} = {selected[n] : n \in 1 .. j - 1} \cup {x}
      BY <3>2
    <3>4. x \notin {selected[n] : n \in 1 .. j - 1}
      BY <1>2, <1>3, <3>1 DEF Distinct
    <3> HIDE DEF x
    <3>5. CASE StartsWith(x, compressors[i])
      <4>1. rdList' = Append(rdList, x)
        BY <1>1, <2>1, <3>5
      <4>2. /\ rdList' \in Seq(DOMAIN results) /\ Len(rdList') = Len(rdList) + 1
            /\ Elems(rdList') = Elems(rdList) \cup {x} /\ Distinct(rdList')
        BY <1>2, <1>3, <3>1, <3>4, <4>1, AppendDistinct
      <4>3. Elems(rdList') = {k \in {selected[n] : n \in 1 .. j' - 1} :
                                  StartsWith(k, compressors[i])}
        BY <1>3, <3>3, <3>5, <4>2
      <4>4. Len(rdList') <= j' - 1 /\ j' \in 1 .. Len(selected) + 1
            /\ Len(rdList') <= Len(selected)
        BY <1>2, <1>3, <3>1, <4>2
      <4>5. CurveOK'
        BY <1>1, <2>1, <4>2, <4>3, <4>4 DEF CurveOK
      <4> QED
        BY <1>1, <1>2, <2>1, <4>2, <4>4, <4>5 DEF TypeOK
    <3>6. CASE ~ StartsWith(x, compressors[i])
      <4>1. rdList' = rdList
        BY <1>1, <2>1, <3>6
      <4>2. Elems(rdList') = {k \in {selected[n] : n \in 1 .. j' - 1} :
                                  StartsWith(k, compressors[i])}
        BY <1>3, <3>3, <3>6, <4>1
      <4>3. Len(rdList') <= j' - 1 /\ j' \in 1 .. Len(selected) + 1
            /\ Len(rdList') <= Len(selected)
        BY <1>2, <1>3, <3>1, <4>1
      <4>4. CurveOK'
        BY <1>1, <1>3, <2>1, <4>1, <4>2, <4>3 DEF CurveOK
      <4> QED
        BY <1>1, <1>2, <2>1, <4>1, <4>3, <4>4 DEF TypeOK
    <3> QED
      BY <3>5, <3>6
  <2>2. CASE ~ (j <= Len(selected)) /\ pc' = "sort"
    <3>1. j = Len(selected) + 1 /\ rdList' = rdList /\ j' = j
      BY <1>1, <1>2, <2>2
    <3>2. {selected[n] : n \in 1 .. j - 1} = KeysOf(var)
      <4>1. j - 1 = Len(selected)
        BY <1>2, <3>1
      <4> QED
        BY <1>3, <4>1 DEF Elems
    <3>3. Elems(rdList) = Curve(var, compressors[i])
      BY <1>3, <3>2 DEF Curve
    <3>4. CurveOK'
      BY <1>1, <1>3, <2>2, <3>1, <3>3, Same DEF CurveOK
    <3> QED
      BY <1>1, <1>2, <2>2, <3>1, <3>4 DEF TypeOK
  <2> QED
    BY <1>1, <2>1, <2>2
<1>5. Busy /\ Busy'
  BY <1>1 DEF Busy
<1>6. SelectedOK' /\ (NoClash' => ReportsOK') /\ OverallOK'
  BY <1>1, <1>5, BusyKeeps
<1>7. NoClash' => LinesOK'
  <2>1. Before' = Before
    BY <1>1, Same DEF Before
  <2> QED
    BY <1>1, <2>1, Same DEF IInv, LinesOK
<1>8. Benign' => fault' = "none"
  BY <1>1
<1> QED
  BY <1>4, <1>6, <1>7, <1>8 DEF IInv

LEMMA SortInv ==
    ASSUME IInv, Sort
    PROVE  IInv'
<1> DEFINE c == compressors[i]
<1>1. /\ pc = "sort" /\ fault = "none"
      /\ UNCHANGED <<compressors, results, kind, pending, var, selected, i, lines,
                     reports, overall>>
  BY DEF Sort
<1>2. /\ TypeOK /\ rdList \in Seq(DOMAIN results) /\ Len(rdList) \in Nat
      /\ selected \in Seq(DOMAIN results) /\ Len(selected) \in Nat
      /\ selected # <<>> /\ Elems(selected) = KeysOf(var) /\ var \in Vars
      /\ Distinct(rdList) /\ Elems(rdList) = Curve(var, c)
  BY <1>1 DEF IInv, TypeOK, SelectedOK, Busy, CurveOK
<1>3. KeysOf(var) # {} /\ c \in Listed
  <2>1. 1 \in 1 .. Len(selected)
    BY <1>2
  <2>2. selected[1] \in Elems(selected)
    BY <2>1 DEF Elems
  <2> QED
    BY <1>2, <2>2, Constants
<1>4. Busy /\ Busy'
  BY <1>1 DEF Busy, Sort
<1>5. SelectedOK' /\ (NoClash' => ReportsOK') /\ OverallOK'
  BY <1>1, <1>4, BusyKeeps
<1>6. Before' = Before
  BY <1>1, Same DEF Before
<1>7. ASSUME Benign
      PROVE  Curve(var, c) # {} /\ (Cardinality(Curve(var, c)) = 1
                                    \/ \A k \in Curve(var, c) : Metric(k) # NAN)
  BY <1>2, <1>3, <1>7 DEF Benign, Curve
<1>8. ASSUME fault' # "none", rdList' = rdList, pc' = pc, j' = j,
             fault' \in {"null_read", "no_end"}, Benign => FALSE
      PROVE  IInv'
  <2>1. TypeOK'
    BY <1>1, <1>2, <1>8 DEF TypeOK
  <2>2. CurveOK'
    BY <1>1, <1>2, <1>8, Same DEF CurveOK
  <2>3. NoClash' => LinesOK'
    BY <1>1, <1>6, <1>8, Same DEF IInv, LinesOK
  <2> QED
    BY <1>1, <1>5, <1>8, <2>1, <2>2, <2>3, Same DEF IInv
<1>9. CASE rdList = <<>> /\ fault' = "null_read" /\ UNCHANGED <<rdList, pc, j>>
  <2>1. Curve(var, c) = {}
    BY <1>2, <1>9, NoLines
  <2> QED
    BY <1>7, <1>8, <1>9, <2>1
<1>10. CASE /\ Len(rdList) > 1 /\ Undefined(rdList)
            /\ fault' = "no_end" /\ UNCHANGED <<rdList, pc, j>>
  <2>1. SUFFICES ASSUME Benign PROVE FALSE
    BY <1>8, <1>10
  <2>2. PICK n \in 1 .. Len(rdList) : Metric(rdList[n]) = NAN
    BY <1>10 DEF Undefined
  <2>3. rdList[n] \in Curve(var, c)
    BY <1>2, <2>2 DEF Elems
  <2>4. Cardinality(Curve(var, c)) = 1
    BY <1>7, <2>1, <2>2, <2>3
  <2>5. Curve(var, c) \subseteq KeysOf(var) /\ IsFiniteSet(KeysOf(var))
    BY <1>2, Constants DEF Curve
  <2>6. IsFiniteSet(Curve(var, c))
    BY <2>5, FS_Subset
  <2>7. \A m \in 1 .. Len(rdList) : rdList[m] \in Curve(var, c)
    BY <1>2 DEF Elems
  <2>8. Len(rdList) <= 1
    BY <1>2, <2>4, <2>6, <2>7, Count
  <2> QED
    BY <1>2, <1>10, <2>8
<1>11. CASE /\ Len(rdList) = 1 \/ (rdList # <<>> /\ ~ Undefined(rdList))
            /\ rdList' \in IF Len(rdList) = 1 THEN {rdList} ELSE Sorted(rdList)
            /\ pc' = "emit" /\ j' = 1 /\ UNCHANGED fault
  <2>1. /\ rdList' \in Seq(DOMAIN results) /\ Len(rdList') = Len(rdList)
        /\ Distinct(rdList') /\ Elems(rdList') = Elems(rdList) /\ Ascending(rdList')
    <3>1. CASE Len(rdList) = 1
      <4>1. rdList' = rdList
        BY <1>11, <3>1
      <4>2. Ascending(rdList)
        <5>1. \A m, n \in 1 .. 1 : ~ (m < n)
          OBVIOUS
        <5> QED
          BY <3>1, <5>1 DEF Ascending
      <4> QED
        BY <1>2, <4>1, <4>2
    <3>2. CASE Len(rdList) # 1
      BY <1>2, <1>11, <3>2, SortedCurve
    <3> QED
      BY <3>1, <3>2
  <2>2. rdList' # <<>> /\ Len(rdList') >= 1
    <3>1. rdList # <<>>
      BY <1>11, NoLines
    <3>2. Len(rdList) >= 1
      BY <1>2, <3>1
    <3> QED
      BY <2>1, <3>2
  <2>3. TypeOK'
    BY <1>1, <1>2, <1>11, <2>1 DEF TypeOK
  <2>4. CurveOK'
    <3>1. Elems(rdList') = Curve(var, c)'
      BY <1>1, <1>2, <2>1, Same
    <3>2. Ascending(rdList)'
      BY <1>1, <2>1 DEF Ascending, Metric
    <3> QED
      BY <1>1, <1>11, <2>1, <2>2, <3>1, <3>2 DEF CurveOK
  <2>5. NoClash' => LinesOK'
    <3>1. SUFFICES ASSUME NoClash' PROVE LinesOK'
      OBVIOUS
    <3>2. LinesFor(lines, Before) /\ \A n \in 1 .. Len(lines) : lines[n].column < i
      BY <1>1, <3>1, Same DEF IInv, LinesOK
    <3>3. Before \cup {rdList'[m] : m \in 1 .. j' - 1} = Before
      BY <1>11
    <3> QED
      BY <1>1, <1>6, <1>11, <3>2, <3>3, Same DEF LinesOK
  <2>6. Benign' => fault' = "none"
    BY <1>1, <1>11
  <2> QED
    BY <1>5, <2>3, <2>4, <2>5, <2>6 DEF IInv
<1> QED
  BY <1>9, <1>10, <1>11 DEF Sort

LEMMA ColumnType ==
    ASSUME NEW r \in Seq(Line), NEW n \in 1 .. Len(r)
    PROVE  r[n].column \in Nat
<1>1. r[n] \in Line
  OBVIOUS
<1> QED
  BY <1>1 DEF Line

LEMMA CountBelow ==
    ASSUME NEW D, NEW s \in Seq(D)
    PROVE  Cardinality(Elems(s)) <= Len(s)
<1>1. Len(s) \in Nat /\ IsFiniteSet(1 .. Len(s)) /\ Cardinality(1 .. Len(s)) = Len(s)
  BY UpTo
<1>2. s \in Surjection(1 .. Len(s), Elems(s))
  <2>1. s \in [1 .. Len(s) -> Elems(s)]
    <3>1. s = [n \in 1 .. Len(s) |-> s[n]] /\ \A n \in 1 .. Len(s) : s[n] \in Elems(s)
      BY DEF Elems
    <3> QED
      BY <3>1
  <2> QED
    BY <2>1 DEF Surjection, Elems
<1> QED
  BY <1>1, <1>2, FS_Surjection

(* One more line, in the last curve. *)
LEMMA LineAppended ==
    ASSUME NEW r \in Seq(Line), NEW ks, LinesFor(r, ks), NEW e \in Line,
           e.column \in 1 .. Len(compressors),
           StartsWith(e.key, compressors[e.column]), e.shown = Shown(e.key),
           e.key \notin ks,
           \A n \in 1 .. Len(r) :
               /\ r[n].column <= e.column
               /\ r[n].column = e.column => Metric(r[n].key) <= Metric(e.key)
    PROVE  LinesFor(Append(r, e), ks \cup {e.key})
<1> DEFINE t == Append(r, e)
           L == Len(r)
<1>1. /\ t \in Seq(Line) /\ Len(t) = L + 1 /\ L \in Nat
      /\ \A n \in 1 .. L : t[n] = r[n]
      /\ t[L + 1] = e
  OBVIOUS
<1>2. /\ {r[n].key : n \in 1 .. L} = ks
      /\ \A n \in 1 .. L : Entry(r, n)
      /\ \A m, n \in 1 .. L : m < n => InOrder(r, m, n)
  BY DEF LinesFor
<1>3. \A n \in 1 .. L : r[n].column <= e.column
                        /\ (r[n].column = e.column => Metric(r[n].key) <= Metric(e.key))
  OBVIOUS
<1> HIDE DEF t, L
<1>4. 1 .. Len(t) = 1 .. L \cup {L + 1}
  BY <1>1
<1>5. {t[n].key : n \in 1 .. Len(t)} = ks \cup {e.key}
  BY <1>1, <1>2, <1>4
<1>6. \A n \in 1 .. Len(t) : Entry(t, n)
  <2>1. \A n \in 1 .. L : Entry(t, n)
    BY <1>1, <1>2 DEF Entry
  <2>2. Entry(t, L + 1)
    BY <1>1 DEF Entry
  <2> QED
    BY <1>4, <2>1, <2>2
<1>7. ASSUME NEW m \in 1 .. Len(t), NEW n \in 1 .. Len(t), m < n
      PROVE  InOrder(t, m, n)
  <2>1. CASE n \in 1 .. L
    <3>1. m \in 1 .. L
      BY <1>1, <1>7, <2>1
    <3> QED
      BY <1>1, <1>2, <1>7, <2>1, <3>1 DEF InOrder
  <2>2. CASE n = L + 1
    <3>1. m \in 1 .. L
      BY <1>1, <1>7, <2>2
    <3>2. t[m] = r[m] /\ t[n] = e /\ r[m].key \in ks
      BY <1>1, <1>2, <2>2, <3>1
    <3> QED
      BY <1>3, <3>1, <3>2 DEF InOrder
  <2> QED
    BY <1>4, <2>1, <2>2
<1>8. LinesFor(t, ks \cup {e.key})
  BY <1>5, <1>6, <1>7 DEF LinesFor
<1> QED
  BY <1>8 DEF t

(* The curves together have no more lines than the variable has results:   *)
(* while a result of the current curve is still to come there is room.     *)
LEMMA RoomLeft ==
    ASSUME TypeOK, SelectedOK, Busy, NEW ks, LinesFor(lines, ks),
           NEW x \in KeysOf(var), x \notin ks, ks \subseteq KeysOf(var)
    PROVE  Len(lines) < Len(selected)
<1> DEFINE s == [n \in 1 .. Len(lines) |-> lines[n].key]
           T == KeysOf(var) \ {x}
<1>1. lines \in Seq(Line) /\ Len(lines) \in Nat /\ IsFiniteSet(KeysOf(var))
      /\ selected \in Seq(DOMAIN results) /\ Elems(selected) = KeysOf(var)
  BY Constants DEF TypeOK, SelectedOK
<1>2. /\ {lines[n].key : n \in 1 .. Len(lines)} = ks
      /\ \A m, n \in 1 .. Len(lines) : m < n => lines[m].key # lines[n].key
  BY DEF LinesFor, InOrder
<1>3. \A n \in 1 .. Len(lines) : lines[n].key \in T
  BY <1>2
<1>4. s \in Seq(T) /\ Len(s) = Len(lines)
  BY <1>1, <1>3
<1>5. Distinct(s)
  <2> SUFFICES ASSUME NEW m \in 1 .. Len(lines), NEW n \in 1 .. Len(lines),
                      lines[m].key = lines[n].key
               PROVE  m = n
    BY <1>4 DEF Distinct
  <2> QED
    BY <1>1, <1>2
<1>6. IsFiniteSet(T) /\ Cardinality(T) = Cardinality(KeysOf(var)) - 1
  BY <1>1, FS_RemoveElement
<1>7. Cardinality(KeysOf(var)) \in Nat /\ Cardinality(KeysOf(var)) <= Len(selected)
  <2>1. Cardinality(Elems(selected)) <= Len(selected)
    BY <1>1, CountBelow
  <2> QED
    BY <1>1, <2>1, FS_CardinalityType
<1>8. Len(lines) <= Cardinality(T)
  <2>1. \A n \in 1 .. Len(s) : s[n] \in T
    BY <1>4
  <2> HIDE DEF s, T
  <2> QED
    BY <1>4, <1>5, <1>6, <2>1, Count
<1> QED
  BY <1>1, <1>6, <1>7, <1>8

LEMMA EmitInv ==
    ASSUME IInv, Emit
    PROVE  IInv'
<1> DEFINE c == compressors[i]
           D == {rdList[m] : m \in 1 .. j - 1}
           x == rdList[j]
           e == [key |-> x, column |-> i, shown |-> Shown(x)]
<1>1. /\ pc = "emit" /\ fault = "none" /\ Busy
      /\ UNCHANGED <<compressors, results, kind, pending, var, selected, reports, overall>>
  BY DEF Emit, Busy
<1>2. /\ TypeOK /\ rdList \in Seq(DOMAIN results) /\ Len(rdList) \in Nat
      /\ lines \in Seq(Line) /\ Len(lines) \in Nat /\ var \in Vars
      /\ Len(selected) \in Nat /\ Len(rdList) <= Len(selected)
      /\ j \in 1 .. Len(rdList) + 1
  BY <1>1 DEF IInv, TypeOK, CurveOK
<1>3. /\ Distinct(rdList) /\ Elems(rdList) = Curve(var, c)
      /\ rdList # <<>> /\ Ascending(rdList)
  BY <1>1 DEF IInv, CurveOK
<1>4. /\ compressors \in Seq(Names) /\ i \in 1 .. Len(compressors) /\ c \in Listed
      /\ Len(compressors) \in Nat /\ i \in Nat
      /\ \A m, n \in 1 .. Len(compressors) : compressors[m] = compressors[n] => m = n
  BY <1>2, Constants
<1>5. ASSUME NoClash
      PROVE  /\ LinesFor(lines, Before \cup D)
             /\ \A n \in 1 .. Len(lines) :
                    lines[n].column < i \/ (lines[n].column = i /\ lines[n].key \in D)
  BY <1>1, <1>5 DEF IInv, LinesOK
<1>6. Before \cup D \subseteq KeysOf(var)
  <2>1. D \subseteq Elems(rdList)
    BY <1>2 DEF Elems
  <2> QED
    BY <1>3, <2>1 DEF Before, Curve
<1>7. {k \in KeysOf(var) : \E m \in 1 .. i : StartsWith(k, compressors[m])}
          = Before \cup Curve(var, c)
  <2>1. 1 .. i = (1 .. i - 1) \cup {i}
    BY <1>4
  <2> QED
    BY <2>1 DEF Before, Curve
<1>8. Benign => NoClash
  BY DEF Benign
<1>9. CASE j <= Len(rdList)
  <2>1. x \in Curve(var, c) /\ x \in KeysOf(var) /\ StartsWith(x, c) /\ x \in DOMAIN results
    <3>1. x \in Elems(rdList)
      BY <1>2, <1>9 DEF Elems
    <3> QED
      BY <1>2, <1>3, <3>1, Constants DEF Curve
  <2>2. ASSUME NoClash PROVE x \notin Before \cup D
    <3>1. x \notin D
      BY <1>2, <1>3, <1>9 DEF Distinct
    <3>2. ASSUME NEW m \in 1 .. i - 1 PROVE ~ StartsWith(x, compressors[m])
      <4>1. m \in 1 .. Len(compressors) /\ m # i
        BY <1>4
      <4>2. compressors[m] \in Listed /\ compressors[m] # c
        BY <1>4, <4>1 DEF Listed
      <4> QED
        BY <1>2, <1>4, <2>1, <2>2, <4>2, Constants DEF NoClash
    <3> QED
      BY <3>1, <3>2 DEF Before
  <2> HIDE DEF x, D
  <2>3. CASE Len(lines) = Len(selected)
    <3>1. fault' = "overflow" /\ UNCHANGED <<lines, j, i, rdList, pc>>
      BY <1>9, <2>3 DEF Emit
    <3>2. ~ Benign
      <4> SUFFICES ASSUME Benign PROVE FALSE
        OBVIOUS
      <4>1. Len(lines) < Len(selected)
        BY <1>1, <1>2, <1>5, <1>6, <1>8, <2>1, <2>2, RoomLeft DEF IInv
      <4> QED
        BY <1>2, <2>3, <4>1
    <3>3. Busy' /\ Before' = Before
      BY <1>1, <3>1, Same DEF Busy, Before
    <3>4. SelectedOK' /\ (NoClash' => ReportsOK') /\ OverallOK'
      BY <1>1, <3>3, BusyKeeps
    <3>5. TypeOK' /\ CurveOK'
      BY <1>1, <3>1, Same DEF IInv, TypeOK, CurveOK
    <3>6. NoClash' => LinesOK'
      BY <1>1, <3>1, <3>3, Same DEF IInv, LinesOK
    <3> QED
      BY <1>1, <3>2, <3>4, <3>5, <3>6, Same DEF IInv
  <2>4. CASE Len(lines) # Len(selected)
    <3>1. /\ lines' = Append(lines, e) /\ j' = j + 1
          /\ UNCHANGED <<i, rdList, pc, fault>>
      BY <1>9, <2>4 DEF Emit, x
    <3>2. Busy' /\ Before' = Before
      BY <1>1, <3>1, Same DEF Busy, Before
    <3>3. SelectedOK' /\ (NoClash' => ReportsOK') /\ OverallOK'
      BY <1>1, <3>2, BusyKeeps
    <3>4. e \in Line
      <4>1. x \in ResultKey /\ Shown(x) \in BOOLEAN
        <5>1. DOMAIN results \subseteq ResultKey /\ results \in [DOMAIN results -> Result]
          BY <1>2, Constants
        <5> QED
          BY <2>1, <5>1 DEF Shown, Result
      <4> QED
        BY <1>4, <4>1 DEF Line
    <3>5. /\ lines' \in Seq(Line) /\ Len(lines') = Len(lines) + 1
          /\ \A n \in 1 .. Len(lines) : lines'[n] = lines[n]
          /\ lines'[Len(lines) + 1] = e
      BY <1>2, <3>1, <3>4
    <3>6. j' \in 1 .. Len(rdList) + 1 /\ j' \in 1 .. Len(selected) + 1
      BY <1>2, <1>9, <3>1
    <3>7. TypeOK' /\ CurveOK'
      BY <1>1, <1>2, <1>3, <3>1, <3>5, <3>6, Same DEF TypeOK, CurveOK
    <3>8. NoClash' => LinesOK'
      <4> SUFFICES ASSUME NoClash' PROVE LinesOK'
        OBVIOUS
      <4>1. NoClash
        BY <1>1, Same
      <4>2. D \cup {x} = {rdList'[m] : m \in 1 .. j' - 1}
        <5>1. 1 .. j' - 1 = (1 .. j - 1) \cup {j}
          BY <1>2, <3>1
        <5> QED
          BY <3>1, <5>1 DEF D, x
      <4>3. \A m \in 1 .. j - 1 : Metric(rdList[m]) <= Metric(x)
        BY <1>2, <1>3, <1>9 DEF Ascending, x
      <4>4. ASSUME NEW n \in 1 .. Len(lines)
            PROVE  /\ lines[n].column <= i
                   /\ lines[n].column = i => Metric(lines[n].key) <= Metric(x)
        <5>1. lines[n].column \in Nat
          BY <1>2, ColumnType
        <5> QED
          BY <1>4, <1>5, <4>1, <4>3, <5>1 DEF D
      <4>5. LinesFor(lines', Before \cup D \cup {x})
        <5>1. /\ e.key = x /\ e.column = i /\ e.shown = Shown(x)
          OBVIOUS
        <5> HIDE DEF e
        <5> QED
          BY <1>2, <1>4, <1>5, <2>1, <2>2, <3>1, <3>4, <4>1, <4>4, <5>1, LineAppended
      <4>6. \A n \in 1 .. Len(lines') :
                lines'[n].column < i
                \/ (lines'[n].column = i /\ lines'[n].key \in D \cup {x})
        <5>1. 1 .. Len(lines') = (1 .. Len(lines)) \cup {Len(lines) + 1}
          BY <1>2, <3>5
        <5> QED
          BY <1>5, <3>5, <4>1, <5>1
      <4>7. LinesFor(lines, Before \cup {rdList[m] : m \in 1 .. j - 1})'
        <5>1. Before \cup D \cup {x} = Before' \cup {rdList'[m] : m \in 1 .. j' - 1}
          BY <3>2, <4>2
        <5> QED
          BY <1>1, <4>5, <5>1, Same
      <4> QED
        BY <1>1, <3>1, <4>2, <4>6, <4>7 DEF LinesOK
    <3> QED
      BY <1>1, <3>1, <3>3, <3>7, <3>8 DEF IInv
  <2> QED
    BY <2>3, <2>4
<1>10. CASE ~ (j <= Len(rdList))
  <2>1. /\ j' = 1 /\ rdList' = <<>> /\ UNCHANGED <<lines, fault>>
        /\ \/ i < Len(compressors) /\ i' = i + 1 /\ pc' = "scan"
           \/ ~ (i < Len(compressors)) /\ pc' = "write" /\ i' = i
    BY <1>10 DEF Emit
  <2>2. D = Curve(var, c)
    <3>1. j - 1 = Len(rdList)
      BY <1>2, <1>10
    <3> QED
      BY <1>3, <3>1 DEF Elems
  <2> HIDE DEF D
  <2>3. Busy'
    BY <2>1 DEF Busy
  <2>4. SelectedOK' /\ (NoClash' => ReportsOK') /\ OverallOK'
    BY <1>1, <2>3, BusyKeeps
  <2>5. TypeOK'
    <3>1. rdList' \in Seq(DOMAIN results) /\ Len(rdList') = 0
      BY <2>1, NoLines
    <3>2. i' \in 1 .. Len(compressors)
      BY <1>4, <2>1
    <3> QED
      BY <1>1, <1>2, <2>1, <3>1, <3>2 DEF TypeOK
  <2>6. CurveOK'
    BY <2>1, NoLines DEF CurveOK
  <2>7. NoClash' => LinesOK'
    <3> SUFFICES ASSUME NoClash' PROVE LinesOK'
      OBVIOUS
    <3>1. NoClash
      BY <1>1, Same
    <3>2. /\ LinesFor(lines, Before \cup Curve(var, c))
          /\ \A n \in 1 .. Len(lines) : lines[n].column < i \/ lines[n].column = i
      BY <1>5, <2>2, <3>1
    <3>3. CASE i < Len(compressors) /\ i' = i + 1 /\ pc' = "scan"
      <4>1. Before' = Before \cup Curve(var, c)
        <5>1. i' - 1 = i
          BY <1>4, <3>3
        <5> QED
          BY <1>1, <1>7, <5>1, Same DEF Before
      <4>2. LinesFor(lines, Before)'
        BY <1>1, <2>1, <3>2, <4>1, Same
      <4>3. \A n \in 1 .. Len(lines) : lines[n].column < i + 1
        <5>1. \A n \in 1 .. Len(lines) : lines[n].column \in Nat
          BY <1>2, ColumnType
        <5> QED
          BY <1>4, <3>2, <5>1
      <4> QED
        BY <2>1, <3>3, <4>2, <4>3 DEF LinesOK
    <3>4. CASE ~ (i < Len(compressors)) /\ pc' = "write"
      <4>1. Reportable(var) = Before \cup Curve(var, c)
        <5>1. i = Len(compressors)
          BY <1>4, <3>4
        <5> QED
          BY <1>7, <5>1 DEF Reportable, Listed
      <4>2. LinesFor(lines, Reportable(var))'
        BY <1>1, <2>1, <3>2, <4>1, Same
      <4> QED
        BY <3>4, <4>2 DEF LinesOK
    <3> QED
      BY <2>1, <3>3, <3>4
  <2>8. Benign' => fault' = "none"
    BY <1>1, <2>1
  <2> QED
    BY <2>4, <2>5, <2>6, <2>7, <2>8 DEF IInv
<1> QED
  BY <1>9, <1>10

LEMMA WriteInv ==
    ASSUME IInv, Write
    PROVE  IInv'
<1>1. /\ pc = "write" /\ Busy /\ pc' = "variable" /\ ~ Busy'
      /\ reports' = [reports EXCEPT ![var] = lines] /\ lines' = <<>>
      /\ UNCHANGED <<compressors, results, kind, pending, var, selected, i, j, rdList,
                     overall, fault>>
  BY DEF Write, Busy
<1>2. TypeOK /\ lines \in Seq(Line) /\ var \in Vars /\ reports \in [Vars -> Seq(Line)]
  BY DEF IInv, TypeOK
<1>3. TypeOK'
  BY <1>1, <1>2, NoLines DEF TypeOK
<1>4. SelectedOK' /\ CurveOK' /\ LinesOK'
  BY <1>1 DEF SelectedOK, CurveOK, LinesOK
<1>5. OverallOK'
  BY <1>1, Same DEF IInv, OverallOK
<1>6. ASSUME NoClash'
      PROVE  ReportsOK'
  <2>1. ReportsOK /\ LinesFor(lines, Reportable(var))
    BY <1>1, <1>6, Same DEF IInv, LinesOK
  <2>2. \A v \in Vars : reports'[v] = IF v = var THEN lines ELSE reports[v]
    BY <1>1, <1>2
  <2>3. ASSUME NEW v \in Vars
        PROVE  reports'[v] = <<>> \/ LinesFor(reports'[v], Reportable(v))
    BY <2>1, <2>2 DEF ReportsOK
  <2>4. ASSUME NEW v \in Vars \ pending
        PROVE  \/ KeysOf(v) = {} \/ kind = "maxRelErr"
               \/ LinesFor(reports'[v], Reportable(v))
    BY <2>1, <2>2 DEF ReportsOK
  <2>5. \A v \in Vars : LinesFor(reports'[v], Reportable(v)) => LinesFor(reports[v], Reportable(v))'
    BY <1>1, Same
  <2> QED
    BY <1>1, <2>3, <2>4, <2>5, Same DEF ReportsOK
<1>7. Benign' => fault' = "none"
  BY <1>1, Same DEF IInv
<1> QED
  BY <1>3, <1>4, <1>5, <1>6, <1>7 DEF IInv

LEMMA StartOverallInv ==
    ASSUME IInv, StartOverall
    PROVE  IInv'
<1>1. /\ pc = "variable" /\ pc' = "overall" /\ i' = 1 /\ pending = {} /\ ~ Busy /\ ~ Busy'
      /\ UNCHANGED <<compressors, results, kind, pending, var, selected, j, rdList,
                     lines, reports, overall, fault>>
  BY DEF StartOverall, Busy
<1>2. TypeOK'
  <2>1. TypeOK
    BY DEF IInv
  <2>2. 1 \in 1 .. Len(compressors)
    BY <2>1, Constants
  <2> QED
    BY <1>1, <2>1, <2>2 DEF TypeOK
<1>3. SelectedOK' /\ CurveOK' /\ LinesOK'
  BY <1>1 DEF SelectedOK, CurveOK, LinesOK
<1>4. OverallOK'
  <2>1. \A m \in 1 .. i' - 1 : FALSE
    BY <1>1
  <2> QED
    BY <1>1, <2>1, Same DEF IInv, OverallOK
<1>5. NoClash' => ReportsOK'
  BY <1>1, Same DEF IInv, ReportsOK
<1>6. Benign' => fault' = "none"
  BY <1>1, Same DEF IInv
<1> QED
  BY <1>2, <1>3, <1>4, <1>5, <1>6 DEF IInv

LEMMA PointsType ==
    ASSUME NEW c
    PROVE  Points(c) \in SUBSET SUBSET DOMAIN results
BY DEF Points

LEMMA OverallInv ==
    ASSUME IInv, Overall
    PROVE  IInv'
<1> DEFINE c == compressors[i]
<1>1. /\ pc = "overall" /\ ~ Busy /\ ~ Busy'
      /\ overall' = [overall EXCEPT ![c] = Points(c)]
      /\ UNCHANGED <<compressors, results, kind, pending, var, selected, j, rdList,
                     lines, reports, fault>>
      /\ \/ i < Len(compressors) /\ i' = i + 1 /\ pc' = pc
         \/ ~ (i < Len(compressors)) /\ pc' = "done" /\ i' = i
  BY DEF Overall, Busy
<1>2. /\ TypeOK /\ i \in Nat /\ i >= 1 /\ i <= Len(compressors) /\ Len(compressors) \in Nat
      /\ compressors \in Seq(Names) /\ c \in Names
      /\ overall \in [Names -> SUBSET SUBSET (DOMAIN results)]
  <2>1. TypeOK
    BY DEF IInv
  <2> QED
    BY <2>1, Constants DEF TypeOK
<1>3. /\ overall' \in [Names -> SUBSET SUBSET (DOMAIN results)]
      /\ \A n \in Names : overall'[n] = IF n = c THEN Points(c) ELSE overall[n]
  BY <1>1, <1>2, PointsType
<1>4. TypeOK'
  BY <1>1, <1>2, <1>3 DEF TypeOK
<1>5. SelectedOK' /\ CurveOK' /\ LinesOK'
  BY <1>1 DEF SelectedOK, CurveOK, LinesOK
<1>6. OverallOK'
  <2>1. /\ \A n \in Names : overall[n] \subseteq Points(n)
        /\ \A m \in 1 .. i - 1 : overall[compressors[m]] = Points(compressors[m])
        /\ pending = {}
    BY <1>1 DEF IInv, OverallOK
  <2>2. \A m \in 1 .. i : overall'[compressors[m]] = Points(compressors[m])
    <3>1. \A m \in 1 .. i : m \in 1 .. i - 1 \/ m = i
      BY <1>2
    <3>2. \A m \in 1 .. i : compressors[m] \in Names
      BY <1>2
    <3> QED
      BY <1>3, <2>1, <3>1, <3>2
  <2>3. \A n \in Names : overall'[n] \subseteq Points(n)
    BY <1>3, <2>1
  <2>4. CASE i < Len(compressors) /\ i' = i + 1 /\ pc' = pc
    <3>1. i' - 1 = i
      BY <1>2, <2>4
    <3> QED
      BY <1>1, <2>1, <2>2, <2>3, <2>4, <3>1, Same DEF OverallOK
  <2>5. CASE ~ (i < Len(compressors)) /\ pc' = "done"
    <3>1. \A d \in Listed : overall'[d] = Points(d)
      <4>1. i = Len(compressors)
        BY <1>2, <2>5
      <4> QED
        BY <2>2, <4>1 DEF Listed
    <3> QED
      BY <1>1, <2>1, <2>3, <2>5, <3>1, Same DEF OverallOK
  <2> QED
    BY <1>1, <2>4, <2>5
<1>7. NoClash' => ReportsOK'
  BY <1>1, Same DEF IInv, ReportsOK
<1>8. Benign' => fault' = "none"
  BY <1>1, Same DEF IInv
<1> QED
  BY <1>4, <1>5, <1>6, <1>7, <1>8 DEF IInv

LEMMA StutterInv ==
    ASSUME IInv, UNCHANGED vars
    PROVE  IInv'
<1>1. /\ UNCHANGED <<compressors, results, kind>> /\ Busy' = Busy /\ Before' = Before
      /\ UNCHANGED <<pending, var, selected, i, j, rdList, lines, reports, overall,
                     pc, fault>>
  BY DEF vars, Busy, Before, KeysOf
<1>2. TypeOK'
  BY <1>1 DEF IInv, TypeOK
<1>3. SelectedOK' /\ CurveOK'
  BY <1>1, Same DEF IInv, SelectedOK, CurveOK
<1>4. OverallOK'
  BY <1>1, Same DEF IInv, OverallOK
<1>5. NoClash' => LinesOK' /\ ReportsOK'
  BY <1>1, Same DEF IInv, LinesOK, ReportsOK
<1>6. Benign' => fault' = "none"
  BY <1>1, Same DEF IInv
<1> QED
  BY <1>2, <1>3, <1>4, <1>5, <1>6 DEF IInv

LEMMA StepInv == IInv /\ [Next]_vars => IInv'
BY SelectVariableInv, ScanInv, SortInv, EmitInv, WriteInv, StartOverallInv, OverallInv,
   StutterInv DEF Next, Stopped

THEOREM Invariance == Spec => []IInv
BY InitInv, StepInv, PTL DEF Spec

----------------------------------------------------------------------------
(* On tables the report can be made of, the extractRate* functions read no *)
(* null pointer, their sorts end, and q never passes the totalCount + 1    *)
(* lines that are allocated for the curves of all compressors together.    *)
THEOREM SafeCorrect == Spec => []Safe
<1>1. IInv => Safe
  BY DEF IInv, Safe
<1> QED
  BY <1>1, Invariance, PTL

(* ZC_plotRateDistortion puts every result of a listed compressor exactly  *)
(* once into its table, in its own column, each curve in order; what else  *)
(* stands there has a name that starts with a listed one.                  *)
THEOREM CurvesCorrect == Spec => []CurvesExact
<1>1. IInv => CurvesExact
  <2> SUFFICES ASSUME IInv, NoClash, NEW v \in Vars, reports[v] # <<>>
               PROVE  LET r == reports[v]
                      IN  /\ {r[n].key : n \in 1 .. Len(r)} =
                                 {k \in KeysOf(v) : k.name \in Listed
                                        \/ \E c \in Listed : StartsWith(k, c)}
                          /\ \A n \in 1 .. Len(r) :
                                 IF r[n].key.name \in Listed
                                 THEN compressors[r[n].column] = r[n].key.name
                                 ELSE StartsWith(r[n].key, compressors[r[n].column])
                          /\ \A m, n \in 1 .. Len(r) : m < n =>
                              /\ r[m].key # r[n].key
                              /\ r[m].column <= r[n].column
                              /\ r[m].column = r[n].column =>
                                     Metric(r[m].key) <= Metric(r[n].key)
    BY DEF CurvesExact
  <2> DEFINE r == reports[v]
  <2>1. LinesFor(r, Reportable(v)) /\ TypeOK
    BY DEF IInv, ReportsOK
  <2>2. KeysOf(v) \subseteq DOMAIN results /\ DOMAIN results \subseteq ResultKey
    BY <2>1, Constants
  <2>3. ASSUME NEW k \in KeysOf(v), k.name \in Listed
        PROVE  StartsWith(k, k.name) /\ \A c \in Listed : StartsWith(k, c) => c = k.name
    <3>1. StartsWith(k, k.name)
      BY <2>2, PrefixAssumption DEF StartsWith, ResultKey
    <3> QED
      BY <2>2, <2>3, <3>1 DEF NoClash
  <2>4. {r[n].key : n \in 1 .. Len(r)} = Reportable(v)
    BY <2>1 DEF LinesFor
  <2>5. Reportable(v) = {k \in KeysOf(v) : k.name \in Listed
                                \/ \E c \in Listed : StartsWith(k, c)}
    BY <2>3 DEF Reportable
  <2>6. ASSUME NEW n \in 1 .. Len(r)
        PROVE  IF r[n].key.name \in Listed
               THEN compressors[r[n].column] = r[n].key.name
               ELSE StartsWith(r[n].key, compressors[r[n].column])
    <3>1. /\ StartsWith(r[n].key, compressors[r[n].column])
          /\ r[n].column \in 1 .. Len(compressors)
      BY <2>1, <2>6 DEF LinesFor, Entry
    <3>2. r[n].key \in KeysOf(v)
      BY <2>4, <2>6 DEF Reportable
    <3>3. compressors[r[n].column] \in Listed
      BY <3>1 DEF Listed
    <3> QED
      BY <2>3, <3>1, <3>2, <3>3
  <2>7. \A m, n \in 1 .. Len(r) : m < n => InOrder(r, m, n)
    BY <2>1 DEF LinesFor
  <2> QED
    BY <2>4, <2>5, <2>6, <2>7 DEF InOrder
<1> QED
  BY <1>1, Invariance, PTL

(* The overall report counts a result iff the correlation table shows it,  *)
(* although one selects by the name and the other by the key's prefix.     *)
THEOREM AgreementCorrect == Spec => []ReportsAgree
<1>1. IInv => ReportsAgree
  <2> DEFINE counted == UNION UNION {overall[c] : c \in Listed}
             shown == {r.key : r \in UNION {{reports[v][n] : n \in {m \in
                         1 .. Len(reports[v]) : reports[v][m].shown}} : v \in Vars}}
  <2> SUFFICES ASSUME IInv, pc = "done", NoClash
               PROVE  /\ shown \subseteq
                             counted \cup {k \in DOMAIN results : k.name \notin Listed}
                      /\ kind = "valErrCorr" => counted \subseteq shown
    BY DEF ReportsAgree
  <2>1. /\ TypeOK /\ \A c \in Listed : overall[c] = Points(c)
        /\ pending = {} /\ ReportsOK /\ ~ Busy
    BY DEF IInv, OverallOK, Busy
  <2>2. /\ DOMAIN results \subseteq ResultKey /\ results \in [DOMAIN results -> Result]
        /\ \A v : KeysOf(v) \subseteq DOMAIN results
    BY <2>1, Constants
  <2>3. ASSUME NEW k \in DOMAIN results, k.name \in Listed
        PROVE  k \in counted <=> ~ results[k].exact
    <3> DEFINE P == {l \in DOMAIN results : l.name = k.name /\ l.bound = k.bound
                                            /\ ~ results[l].exact}
    <3>1. ASSUME ~ results[k].exact PROVE k \in counted
      <4>1. k.bound \in Bounds /\ k \in P
        BY <2>2, <3>1 DEF ResultKey
      <4>2. P \in Points(k.name)
        BY <4>1 DEF Points
      <4>3. P \in UNION {overall[c] : c \in Listed}
        BY <2>1, <2>3, <4>2
      <4> QED
        BY <4>1, <4>3
    <3>2. ASSUME k \in counted PROVE ~ results[k].exact
      <4>1. PICK c \in Listed : \E p \in overall[c] : k \in p
        BY <3>2
      <4> QED
        BY <2>1, <4>1 DEF Points
    <3> QED
      BY <3>1, <3>2
  <2>4. shown \subseteq counted \cup {k \in DOMAIN results : k.name \notin Listed}
    <3> SUFFICES ASSUME NEW v \in Vars, NEW n \in 1 .. Len(reports[v]),
                        reports[v][n].shown, reports[v][n].key \notin counted
                 PROVE  /\ reports[v][n].key \in DOMAIN results
                        /\ reports[v][n].key.name \notin Listed
      OBVIOUS
    <3> HIDE DEF counted
    <3>1. reports[v] # <<>>
      BY NoLines
    <3>2. LinesFor(reports[v], Reportable(v))
      BY <2>1, <3>1 DEF ReportsOK
    <3>3. reports[v][n].key \in Reportable(v) /\ reports[v][n].shown = Shown(reports[v][n].key)
      BY <3>2 DEF LinesFor, Entry
    <3>4. reports[v][n].key \in DOMAIN results /\ ~ results[reports[v][n].key].exact
      BY <2>2, <3>3 DEF Reportable, Shown
    <3> QED
      BY <2>3, <3>4
  <2>5. ASSUME kind = "valErrCorr" PROVE counted \subseteq shown
    <3> SUFFICES ASSUME NEW k \in counted PROVE k \in shown
      OBVIOUS
    <3>1. PICK c \in Listed : \E p \in Points(c) : k \in p
      BY <2>1
    <3>2. k \in DOMAIN results /\ k.name = c /\ ~ results[k].exact
      BY <3>1 DEF Points
    <3>3. k.var \in Vars /\ k \in KeysOf(k.var) /\ StartsWith(k, c)
      BY <2>2, <3>2, PrefixAssumption DEF ResultKey, KeysOf, StartsWith
    <3>4. k \in Reportable(k.var)
      BY <3>3 DEF Reportable
    <3>5. LinesFor(reports[k.var], Reportable(k.var))
      BY <2>1, <2>5, <3>3 DEF ReportsOK
    <3>6. PICK n \in 1 .. Len(reports[k.var]) : reports[k.var][n].key = k
      BY <3>4, <3>5 DEF LinesFor
    <3>7. reports[k.var][n].shown
      BY <2>5, <3>2, <3>5, <3>6 DEF LinesFor, Entry, Shown
    <3> QED
      BY <3>3, <3>6, <3>7
  <2> QED
    BY <2>4, <2>5
<1> QED
  BY <1>1, Invariance, PTL
=============================================================================
