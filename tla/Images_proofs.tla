----------------------------- MODULE Images_proofs ----------------------------
(***************************************************************************)
(* Proofs about images: the slice images of decompressed data, for every   *)
(* configuration, files and number of runs (DecVis), and the windows of    *)
(* the structural similarity, for images of every size (ImageSSIM).        *)
(***************************************************************************)
EXTENDS DecVis, ImageSSIM, FiniteSetTheorems, FunctionTheorems, SequenceTheorems,
        WellFoundedInduction, NaturalsInduction, TLAPS

----------------------------------------------------------------------------
(* Least and greatest elements.                                            *)
LEMMA LeastNat ==
    ASSUME NEW S \in SUBSET Nat, S # {}
    PROVE  \E x \in S : \A y \in S : x <= y
<1> DEFINE R == OpToRel(<, Nat)
<1>1. IsWellFoundedOn(R, Nat)
  BY NatLessThanWellFounded
<1>2. \A x, y \in Nat : y < x => <<y, x>> \in R
  BY DEF OpToRel
<1> HIDE DEF R
<1>3. PICK x \in S : \A y \in S : ~ (<<y, x>> \in R)
  BY <1>1, WFMin
<1>4. \A y \in S : x <= y
  <2> TAKE y \in S
  <2>1. x \in Nat /\ y \in Nat /\ ~ (y < x)
    BY <1>2, <1>3
  <2> QED
    BY <2>1
<1> QED
  BY <1>4

LEMMA MinIn ==
    ASSUME NEW S \in SUBSET Nat, S # {}
    PROVE  Min(S) \in S /\ \A y \in S : Min(S) <= y
BY LeastNat DEF Min

LEMMA MaxIn ==
    ASSUME NEW S \in SUBSET Nat, S # {}, NEW hi \in Nat, \A x \in S : x <= hi
    PROVE  Max(S) \in S /\ \A y \in S : y <= Max(S)
<1> DEFINE T == {n \in Nat : \E x \in S : n = hi - x}
<1>1. T # {} /\ T \in SUBSET Nat
  <2>1. PICK x \in S : TRUE
    OBVIOUS
  <2>2. x \in Nat /\ x <= hi
    BY <2>1
  <2>3. hi - x \in T
    BY <2>2 DEF T
  <2> QED
    BY <2>3 DEF T
<1>2. PICK n \in T : \A y \in T : n <= y
  BY <1>1, LeastNat
<1>3. PICK x \in S : n = hi - x
  BY <1>2
<1>4. \A y \in S : y <= x
  <2> TAKE y \in S
  <2>1. y \in Nat /\ y <= hi
    OBVIOUS
  <2>2. hi - y \in T
    BY <2>1 DEF T
  <2>3. n <= hi - y /\ x \in Nat
    BY <2>2, <1>2
  <2> QED
    BY <2>1, <2>3, <1>3
<1> QED
  BY <1>4 DEF Max

(* A finite list of numbers has a bound. *)
LEMMA ListBound ==
    ASSUME NEW n \in Nat, NEW f \in [1 .. n -> Nat]
    PROVE  \E hi \in Nat : \A m \in 1 .. n : f[m] <= hi
<1> DEFINE Bound(k) == \E hi \in Nat : \A m \in 1 .. k : f[m] <= hi
           Bad == {k \in 0 .. n : ~ Bound(k)}
<1>1. SUFFICES Bad = {}
  <2>1. n \in 0 .. n
    OBVIOUS
  <2> HIDE DEF Bound
  <2>2. Bad = {} => Bound(n)
    BY <2>1 DEF Bad
  <2> QED
    BY <2>2 DEF Bound
<1>2. SUFFICES ASSUME Bad # {} PROVE FALSE
  OBVIOUS
<1>3. PICK k \in Bad : \A j \in Bad : k <= j
  <2>1. Bad \in SUBSET Nat
    OBVIOUS
  <2> QED
    BY <2>1, <1>2, LeastNat
<1>4. k # 0
  BY <1>3
<1>5. Bound(k - 1)
  <2> HIDE DEF Bound
  <2>1. k - 1 \in 0 .. n /\ ~ (k <= k - 1)
    BY <1>3, <1>4
  <2> QED
    BY <2>1, <1>3
<1>6. PICK hi \in Nat : \A m \in 1 .. k - 1 : f[m] <= hi
  BY <1>5
<1>7. Bound(k)
  <2>1. CASE f[k] <= hi
    <3>1. \A m \in 1 .. k : m = k \/ m \in 1 .. k - 1
      BY <1>3, <1>4
    <3> QED
      BY <2>1, <3>1, <1>6
  <2>2. CASE ~ f[k] <= hi
    <3>1. f[k] \in Nat
      BY <1>3, <1>4
    <3>2. \A m \in 1 .. k : f[m] <= f[k]
      BY <3>1, <2>2, <1>6, <1>4
    <3> QED
      BY <3>1, <3>2
  <2> QED
    BY <2>1, <2>2
<1> QED
  BY <1>3, <1>7

----------------------------------------------------------------------------
(* "%.2G": two digits, the nearest number of hundredths of the digit.      *)
Digit(n, d) == IF n >= 100 * d THEN 1000 ELSE IF n >= 10 * d THEN 100
               ELSE IF n >= d THEN 10 ELSE 1
Nearest(x, m) ==
    LET k == x \div m IN IF x % m = 0 /\ k % 2 = 1 THEN k - 1 ELSE k
Places2(n, g) == Nearest(200 * n + g, 2 * g)

LEMMA PrintedIs ==
    ASSUME NEW n \in Nat, NEW d \in Nat \ {0}
    PROVE  Printed(n, d) = Digit(n, d) * Places2(n, d * Digit(n, d))
<1>1. 2 * d * Digit(n, d) = 2 * (d * Digit(n, d))
  BY DEF Digit
<1> QED
  BY <1>1 DEF Printed, Places2, Nearest, Digit

LEMMA Division ==
    ASSUME NEW x \in Nat, NEW m \in Nat \ {0}
    PROVE  /\ x \div m \in Nat /\ x % m \in 0 .. m - 1
           /\ x = m * (x \div m) + (x % m)
<1> DEFINE k == x \div m
           r == x % m
<1>1. k \in Nat /\ r \in 0 .. m - 1
  OBVIOUS
<1>2. x = m * k + r
  <2>1. \A l, s : l = x \div m /\ s = x % m => x = m * l + s
    BY SMTT(30)
  <2> QED
    BY <2>1, Zenon
<1> QED
  BY <1>1, <1>2, Zenon

LEMMA Cancel ==
    ASSUME NEW a \in Int, NEW b \in Int, NEW m \in Nat \ {0}, m * a < m * b
    PROVE  a < b
<1> SUFFICES ASSUME b <= a PROVE m * b <= m * a
  OBVIOUS
<1>1. m * (a - b) >= 0
  OBVIOUS
<1>2. m * (a - b) = m * a - m * b
  OBVIOUS
<1> QED
  BY <1>1, <1>2

(* Quotient and remainder are the only such numbers. *)
LEMMA OneQuotient ==
    ASSUME NEW x \in Nat, NEW m \in Nat \ {0}, NEW q \in Nat, NEW r \in 0 .. m - 1,
           x = m * q + r
    PROVE  x \div m = q /\ x % m = r
<1> DEFINE p == x \div m
           s == x % m
<1>1. p \in Nat /\ s \in 0 .. m - 1 /\ x = m * p + s
  BY Division
<1> HIDE DEF p, s
<1>2. m * p < m * (q + 1) /\ m * q < m * (p + 1)
  <2>1. m * (q + 1) = m * q + m /\ m * (p + 1) = m * p + m
    BY <1>1
  <2> QED
    BY <2>1, <1>1
<1>3. p < q + 1 /\ q < p + 1
  BY <1>1, <1>2, Cancel
<1>4. p = q
  BY <1>1, <1>3
<1> QED
  BY <1>1, <1>4 DEF p, s

LEMMA NearestType ==
    ASSUME NEW x \in Nat, NEW m \in Nat \ {0}
    PROVE  Nearest(x, m) \in Nat
<1>1. x \div m \in Nat
  BY Division
<1>2. (x \div m) % 2 = 1 => x \div m # 0
  BY <1>1
<1> QED
  BY <1>1, <1>2 DEF Nearest

LEMMA NearestMono ==
    ASSUME NEW x \in Nat, NEW y \in Nat, NEW m \in Nat \ {0}, x <= y
    PROVE  Nearest(x, m) <= Nearest(y, m)
<1> DEFINE k == x \div m
           l == y \div m
<1>1. k \in Nat /\ x % m \in 0 .. m - 1 /\ x = m * k + (x % m)
  BY Division
<1>2. l \in Nat /\ y % m \in 0 .. m - 1 /\ y = m * l + (y % m)
  BY Division
<1>x. Nearest(x, m) = (IF x % m = 0 /\ k % 2 = 1 THEN k - 1 ELSE k)
       /\ Nearest(y, m) = (IF y % m = 0 /\ l % 2 = 1 THEN l - 1 ELSE l)
  BY DEF Nearest
<1> HIDE DEF k, l
<1>3. m * k < m * (l + 1)
  <2>1. m * (l + 1) = m * l + m
    BY <1>2
  <2>2. m * k \in Int /\ m * l \in Int
    BY <1>1, <1>2
  <2>3. m * k <= x /\ y < m * l + m
    <3> DEFINE r == x % m
               s == y % m
    <3>1. r \in 0 .. m - 1 /\ x = m * k + r /\ s \in 0 .. m - 1 /\ y = m * l + s
      BY <1>1, <1>2, Zenon
    <3> HIDE DEF r, s
    <3> QED
      BY <3>1, <2>2
  <2> QED
    BY <2>1, <2>2, <2>3
<1>4. k < l + 1
  BY <1>1, <1>2, <1>3, Cancel
<1>5. CASE k = l
  <2>1. y % m = 0 => x % m = 0
    BY <1>1, <1>2, <1>5
  <2> QED
    BY <2>1, <1>x, <1>5, <1>1
<1>6. CASE k < l
  BY <1>x, <1>6, <1>1, <1>2
<1> QED
  BY <1>1, <1>2, <1>4, <1>5, <1>6

LEMMA NearestScale ==
    ASSUME NEW x \in Nat, NEW m \in Nat \ {0}, NEW c \in Nat \ {0}
    PROVE  Nearest(c * x, c * m) = Nearest(x, m)
<1> DEFINE k == x \div m
           r == x % m
<1>1. k \in Nat /\ r \in 0 .. m - 1 /\ x = m * k + r
  BY Division
<1> HIDE DEF k, r
<1>2. c * x \in Nat /\ c * m \in Nat \ {0} /\ c * r \in Nat
  BY <1>1
<1>3. c * x = (c * m) * k + c * r
  <2>1. c * x = c * (m * k) + c * r
    BY <1>1
  <2>2. c * (m * k) = (c * m) * k
    BY <1>1
  <2> QED
    BY <2>1, <2>2
<1>4. c * r <= c * m - 1
  <2>1. c * (m - r) >= 1
    <3>1. m - r >= 1
      BY <1>1
    <3> QED
      BY <3>1, <1>1
  <2>2. c * (m - r) = c * m - c * r
    BY <1>1
  <2> QED
    BY <2>1, <2>2, <1>2
<1>5. (c * x) \div (c * m) = k /\ (c * x) % (c * m) = c * r
  <2>1. c * r \in 0 .. (c * m) - 1
    BY <1>2, <1>4
  <2> DEFINE y == c * x
             n == c * m
             s == c * r
  <2>2. y \in Nat /\ n \in Nat \ {0} /\ s \in 0 .. n - 1 /\ y = n * k + s
    BY <1>2, <1>3, <2>1
  <2> HIDE DEF y, n, s
  <2>3. y \div n = k /\ y % n = s
    BY <1>1, <2>2, OneQuotient
  <2> QED
    BY <2>3 DEF y, n, s
<1>6. c * r = 0 <=> r = 0
  BY <1>1
<1> QED
  BY <1>5, <1>6 DEF Nearest, k, r

LEMMA Places2Type ==
    ASSUME NEW n \in Nat, NEW g \in Nat \ {0}
    PROVE  Places2(n, g) \in Nat
BY NearestType DEF Places2

LEMMA Places2Mono ==
    ASSUME NEW n \in Nat, NEW o \in Nat, NEW g \in Nat \ {0}, n <= o
    PROVE  Places2(n, g) <= Places2(o, g)
BY NearestMono DEF Places2

LEMMA Places2Scale ==
    ASSUME NEW n \in Nat, NEW g \in Nat \ {0}, NEW c \in Nat \ {0}
    PROVE  Places2(c * n, c * g) = Places2(n, g)
<1>1. 200 * (c * n) + c * g = c * (200 * n + g) /\ 2 * (c * g) = c * (2 * g)
  OBVIOUS
<1>2. 200 * n + g \in Nat /\ 2 * g \in Nat \ {0}
  OBVIOUS
<1> QED
  BY <1>1, <1>2, NearestScale DEF Places2

LEMMA PrintedType ==
    ASSUME NEW n \in Nat, NEW d \in Nat \ {0}
    PROVE  Printed(n, d) \in Nat
<1>1. Digit(n, d) \in Nat \ {0} /\ d * Digit(n, d) \in Nat \ {0}
  BY DEF Digit
<1> QED
  BY <1>1, PrintedIs, Places2Type

(* At the limits of a digit. *)
LEMMA DigitLimits ==
    ASSUME NEW d \in Nat \ {0}
    PROVE  /\ Places2(d, d) = 100 /\ Places2(d, d * 10) = 10
           /\ Places2(10 * d, d * 10) = 100 /\ Places2(10 * d, d * 100) = 10
           /\ Places2(100 * d, d * 100) = 100 /\ Places2(100 * d, d * 1000) = 10
<1>1. Places2(1, 1) = 100 /\ Places2(1, 10) = 10 /\ Places2(10, 10) = 100
      /\ Places2(10, 100) = 10 /\ Places2(100, 100) = 100 /\ Places2(100, 1000) = 10
  BY DEF Places2, Nearest
<1>2. \A n, g \in Nat \ {0} : Places2(d * n, d * g) = Places2(n, g)
  BY Places2Scale
<1>3. d * 1 = d /\ 10 * d = d * 10 /\ 100 * d = d * 100
  OBVIOUS
<1> QED
  BY <1>1, <1>2, <1>3

(* Numbers of one digit are printed within its range. *)
LEMMA DigitRange ==
    ASSUME NEW n \in Nat, NEW d \in Nat \ {0}
    PROVE  LET g == Digit(n, d) IN
           /\ g # 1000 => Printed(n, d) <= 100 * g
           /\ g # 1 => Printed(n, d) >= 10 * g
<1> DEFINE g == Digit(n, d)
<1>1. g \in {1, 10, 100, 1000}
  BY DEF Digit
<1>2. Printed(n, d) = g * Places2(n, d * g) /\ Places2(n, d * g) \in Nat
  <2>1. d * g \in Nat \ {0}
    BY <1>1
  <2> QED
    BY <2>1, PrintedIs, Places2Type
<1>3. CASE g = 1
  <2>1. n <= d
    BY <1>3 DEF Digit
  <2>2. Places2(n, d * 1) <= 100
    BY <2>1, DigitLimits, Places2Mono
  <2> QED
    BY <2>2, <1>2, <1>3
<1>4. CASE g = 10
  <2>1. d <= n /\ n <= 10 * d
    BY <1>4 DEF Digit
  <2>2. Places2(n, d * 10) <= 100 /\ Places2(n, d * 10) >= 10
    <3>1. d * 10 \in Nat \ {0} /\ 10 * d \in Nat
      OBVIOUS
    <3>2. Places2(n, d * 10) <= Places2(10 * d, d * 10) /\ Places2(d, d * 10) <= Places2(n, d * 10)
      BY <2>1, <3>1, Places2Mono
    <3> QED
      BY <3>2, DigitLimits
  <2> QED
    BY <2>2, <1>2, <1>4
<1>5. CASE g = 100
  <2>1. 10 * d <= n /\ n <= 100 * d
    BY <1>5 DEF Digit
  <2>2. Places2(n, d * 100) <= 100 /\ Places2(n, d * 100) >= 10
    <3>1. d * 100 \in Nat \ {0} /\ 10 * d \in Nat /\ 100 * d \in Nat
      OBVIOUS
    <3>2. /\ Places2(n, d * 100) <= Places2(100 * d, d * 100)
          /\ Places2(10 * d, d * 100) <= Places2(n, d * 100)
      BY <2>1, <3>1, Places2Mono
    <3> QED
      BY <3>2, DigitLimits
  <2> QED
    BY <2>2, <1>2, <1>5
<1>6. CASE g = 1000
  <2>1. 100 * d <= n
    BY <1>6 DEF Digit
  <2>2. Places2(n, d * 1000) >= 10
    <3>1. d * 1000 \in Nat \ {0} /\ 100 * d \in Nat
      OBVIOUS
    <3>2. Places2(100 * d, d * 1000) <= Places2(n, d * 1000)
      BY <2>1, <3>1, Places2Mono
    <3> QED
      BY <3>2, DigitLimits
  <2> QED
    BY <2>2, <1>2, <1>6
<1> QED
  BY <1>1, <1>3, <1>4, <1>5, <1>6

(* Printing keeps the order. *)
LEMMA PrintedMono ==
    ASSUME NEW n \in Nat, NEW o \in Nat, NEW d \in Nat \ {0}, n <= o
    PROVE  Printed(n, d) <= Printed(o, d)
<1> DEFINE g == Digit(n, d)
           h == Digit(o, d)
<1>1. g \in {1, 10, 100, 1000} /\ h \in {1, 10, 100, 1000}
      /\ Printed(n, d) \in Nat /\ Printed(o, d) \in Nat
  BY PrintedType DEF Digit
<1>2. g <= h
  BY DEF Digit
<1>3. CASE g = h
  <2>1. d * g \in Nat \ {0}
    BY <1>1
  <2>2. Places2(n, d * g) <= Places2(o, d * g)
    BY <2>1, Places2Mono
  <2>3. Places2(n, d * g) \in Nat /\ Places2(o, d * g) \in Nat
    BY <2>1, Places2Type
  <2>4. Printed(n, d) = g * Places2(n, d * g) /\ Printed(o, d) = g * Places2(o, d * g)
    BY <1>3, PrintedIs
  <2> QED
    BY <2>2, <2>3, <2>4, <1>1
<1>4. CASE g < h
  <2>1. Printed(n, d) <= 100 * g /\ Printed(o, d) >= 10 * h
    BY <1>1, <1>4, DigitRange
  <2> QED
    BY <2>1, <1>1, <1>4
<1> QED
  BY <1>1, <1>2, <1>3, <1>4

(* A number is printed alike however it is written as a fraction. *)
LEMMA PrintedScale ==
    ASSUME NEW e \in Nat, NEW d \in Nat \ {0}
    PROVE  Printed(e * d, d) = Printed(e, 1)
<1>1. \A c \in {1, 10, 100} : e * d >= c * d <=> e >= c
  <2> TAKE c \in {1, 10, 100}
  <2>1. CASE e >= c
    <3>1. d * (e - c) >= 0
      BY <2>1
    <3>2. d * (e - c) = e * d - c * d
      OBVIOUS
    <3> QED
      BY <3>1, <3>2, <2>1
  <2>2. CASE ~ e >= c
    <3>1. d * (c - e) >= 1
      <4>1. c - e \in Nat \ {0}
        BY <2>2
      <4> QED
        BY <4>1
    <3>2. d * (c - e) = c * d - e * d
      OBVIOUS
    <3> QED
      BY <3>1, <3>2, <2>2
  <2> QED
    BY <2>1, <2>2
<1>2. Digit(e * d, d) = Digit(e, 1)
  BY <1>1 DEF Digit
<1> DEFINE g == Digit(e, 1)
<1>3. g \in Nat \ {0}
  BY DEF Digit
<1> HIDE DEF g
<1>4. Places2(e * d, d * g) = Places2(e, 1 * g)
  <2>1. e * d = d * e /\ 1 * g = g
    BY <1>3
  <2> QED
    BY <2>1, <1>3, Places2Scale
<1>5. Printed(e * d, d) = g * Places2(e * d, d * g)
  BY <1>2, PrintedIs DEF g
<1>6. Printed(e, 1) = g * Places2(e, 1 * g)
  BY PrintedIs DEF g
<1> QED
  BY <1>4, <1>5, <1>6

----------------------------------------------------------------------------
(* The estimate from a sorted list of results.                             *)
LEMMA PrintedOne == \A e \in Nat : Printed(e, 1) \in Nat
BY PrintedType

(* The fields of a result. *)
LEMMA CaseFields ==
    ASSUME NEW f \in Case
    PROVE  f.err \in Nat /\ f.ratio \in Nat /\ f.ratio > 0 /\ f.cmp \in Names /\ f.var \in Vars
BY DEF Case

(* The fields of a result in a list. *)
LEMMA ListFields ==
    ASSUME NEW cases \in SUBSET Case, NEW s \in Seq(cases), NEW n \in 1 .. Len(s)
    PROVE  /\ s[n] \in Case /\ s[n].err \in Nat /\ s[n].ratio \in Nat
           /\ Printed(s[n].err, 1) \in Nat
<1>1. s[n] \in Case
  BY ElementOfSeq
<1> QED
  BY <1>1, CaseFields, PrintedOne

Ordered(s) == \A m, n \in 1 .. Len(s) : m <= n => s[m].ratio <= s[n].ratio

(* A sorted list holds every result once, in ascending order of ratios.    *)
LEMMA SortedIs ==
    ASSUME NEW cases \in SUBSET Case, IsFiniteSet(cases), NEW s \in Sorted(cases)
    PROVE  /\ Len(s) = Cardinality(cases) /\ Len(s) \in Nat
           /\ s \in [1 .. Len(s) -> cases] /\ s \in Seq(cases)
           /\ \A f \in cases : \E n \in 1 .. Len(s) : s[n] = f
           /\ \A m, n \in 1 .. Len(s) : s[m] = s[n] => m = n
           /\ Ordered(s)
<1> DEFINE k == Cardinality(cases)
<1>1. k \in Nat
  BY FS_CardinalityType
<1>2. s \in [1 .. k -> cases] /\ Range(s) = cases
  BY DEF Sorted
<1> HIDE DEF k
<1>3. s \in Seq(cases) /\ Len(s) = k
  BY <1>1, <1>2
<1>4. \A f \in cases : \E n \in 1 .. k : s[n] = f
  BY <1>2 DEF Range
<1>5. s \in Surjection(1 .. k, cases)
  BY <1>2, <1>4, Fun_IsSurj
<1>6. IsFiniteSet(1 .. k) /\ Cardinality(1 .. k) = k
  BY <1>1, FS_Interval
<1>7. s \in Injection(1 .. k, cases)
  BY <1>5, <1>6, FS_SurjSameCardinalityImpliesInj DEF k
<1>8. \A m, n \in 1 .. k : s[m] = s[n] => m = n
  BY <1>7 DEF Injection, IsInjective
<1>9. \A n \in 2 .. k : s[n - 1].ratio <= s[n].ratio
  BY <1>3 DEF Sorted
<1>10. \A n \in 1 .. k : s[n].ratio \in Nat
  BY <1>2, CaseFields
<1>11. Ordered(s)
  <2> DEFINE Bad == {n \in 1 .. k : \E m \in 1 .. n : ~ (s[m].ratio <= s[n].ratio)}
  <2>1. SUFFICES Bad = {}
    BY <1>3 DEF Ordered, Bad
  <2>2. SUFFICES ASSUME Bad # {} PROVE FALSE
    OBVIOUS
  <2>3. PICK n \in Bad : \A o \in Bad : n <= o
    <3>1. Bad \in SUBSET Nat
      BY <1>1
    <3> QED
      BY <3>1, <2>2, LeastNat
  <2>4. PICK m \in 1 .. n : ~ (s[m].ratio <= s[n].ratio)
    BY <2>3
  <2>5. n \in 2 .. k /\ m \in 1 .. n - 1
    BY <2>3, <2>4, <1>1, <1>10
  <2>6. n - 1 \in 1 .. k /\ n - 1 \notin Bad
    BY <2>3, <2>5, <1>1
  <2>7. s[m].ratio <= s[n - 1].ratio
    BY <2>5, <2>6
  <2>8. s[n - 1].ratio <= s[n].ratio
    BY <2>5, <1>9
  <2>9. s[m].ratio \in Nat /\ s[n - 1].ratio \in Nat /\ s[n].ratio \in Nat
    <3>1. m \in 1 .. k /\ n \in 1 .. k
      BY <2>3, <2>4, <1>1
    <3> QED
      BY <3>1, <2>6, <1>10
  <2> QED
    BY <2>4, <2>7, <2>8, <2>9
<1> QED
  BY <1>1, <1>2, <1>3, <1>4, <1>8, <1>11 DEF k

(* The target is reached at the index and not before it, or nowhere.       *)
LEMMA TargetIs ==
    ASSUME NEW cases \in SUBSET Case, NEW s \in Seq(cases), s # <<>>, NEW t \in Nat
    PROVE  LET u == Target(s, t) IN
           /\ u \in 1 .. Len(s)
           /\ \/ s[u].ratio >= t /\ \A m \in 1 .. u - 1 : s[m].ratio < t
              \/ u = 1 /\ \A m \in 1 .. Len(s) : s[m].ratio < t
<1> DEFINE reach == {n \in 1 .. Len(s) : s[n].ratio >= t}
           S == reach \cup (IF \A n \in 1 .. Len(s) : s[n].ratio < t THEN {1} ELSE {})
<1>1. Len(s) \in Nat /\ 1 \in 1 .. Len(s)
  BY EmptySeq
<1>2. \A n \in 1 .. Len(s) : s[n].ratio \in Nat
  BY CaseFields
<1>3. S \in SUBSET Nat /\ S # {}
  BY <1>1, <1>2
<1>4. Target(s, t) = Min(S)
  BY DEF Target
<1> DEFINE u == Target(s, t)
<1>5. u \in S /\ \A n \in S : u <= n
  <2> HIDE DEF S
  <2> QED
    BY <1>3, <1>4, MinIn
<1> HIDE DEF u
<1>6. CASE \A n \in 1 .. Len(s) : s[n].ratio < t
  <2>1. reach = {}
    BY <1>2, <1>6
  <2>2. u = 1
    BY <2>1, <1>5
  <2> QED
    BY <2>2, <1>1, <1>6 DEF u
<1>7. CASE ~ \A n \in 1 .. Len(s) : s[n].ratio < t
  <2>1. u \in reach
    BY <1>5, <1>7
  <2>2. \A m \in 1 .. u - 1 : s[m].ratio < t
    <3> TAKE m \in 1 .. u - 1
    <3>1. m \in 1 .. Len(s) /\ ~ (u <= m)
      BY <2>1, <1>1
    <3>2. m \notin reach
      BY <3>1, <1>5
    <3> QED
      BY <3>1, <3>2, <1>2
  <2> QED
    BY <2>1, <2>2 DEF u
<1> QED
  BY <1>6, <1>7

(* A line between two points stays between them. *)
LEMMA Line ==
    ASSUME NEW a \in Nat, NEW b \in Nat, NEW d \in Nat, NEW x \in 0 .. d
    PROVE  LET n == a * d + x * (b - a) IN
           /\ n \in Nat
           /\ a <= b => a * d <= n /\ n <= b * d
           /\ b <= a => b * d <= n /\ n <= a * d
<1> DEFINE n == a * d + x * (b - a)
<1>1. a * d \in Nat /\ b * d \in Nat
  OBVIOUS
<1>2. CASE a <= b
  <2>1. x * (b - a) >= 0 /\ (d - x) * (b - a) >= 0
    BY <1>2
  <2>2. (d - x) * (b - a) = b * d - n
    OBVIOUS
  <2> QED
    BY <2>1, <2>2, <1>1, <1>2
<1>3. CASE b <= a
  <2>1. x * (a - b) >= 0 /\ (d - x) * (a - b) >= 0
    BY <1>3
  <2>2. (d - x) * (a - b) = n - b * d /\ x * (a - b) = a * d - n
    OBVIOUS
  <2> QED
    BY <2>1, <2>2, <1>1, <1>3
<1> QED
  BY <1>2, <1>3

Within(p, a, b) == p \in a .. b \/ p \in b .. a

(* The estimate on the line through two results lies between theirs, and   *)
(* at one of them it is that one's.                                        *)
LEMMA InterpolatedBetween ==
    ASSUME NEW f \in Case, NEW g \in Case, NEW t \in Nat,
           f.ratio < g.ratio, f.ratio <= t, t <= g.ratio
    PROVE  /\ Interpolated(f, g, t) \in Nat
           /\ Within(Interpolated(f, g, t), Printed(f.err, 1), Printed(g.err, 1))
           /\ t = g.ratio => Interpolated(f, g, t) = Printed(g.err, 1)
           /\ t = f.ratio => Interpolated(f, g, t) = Printed(f.err, 1)
<1> DEFINE a == f.err
           b == g.err
           d == g.ratio - f.ratio
           x == t - f.ratio
           n == a * d + x * (b - a)
<1>1. a \in Nat /\ b \in Nat /\ d \in Nat \ {0} /\ x \in 0 .. d
      /\ (t = g.ratio => x = d) /\ (t = f.ratio => x = 0)
  BY CaseFields
<1>2. Interpolated(f, g, t) = Printed(n, d)
  BY DEF Interpolated
<1> HIDE DEF a, b, d, x
<1>3. n \in Nat /\ (a <= b => a * d <= n /\ n <= b * d) /\ (b <= a => b * d <= n /\ n <= a * d)
  BY <1>1, Line
<1>4. Printed(a * d, d) = Printed(a, 1) /\ Printed(b * d, d) = Printed(b, 1)
  BY <1>1, PrintedScale
<1>5. a * d \in Nat /\ b * d \in Nat
  BY <1>1
<1>6. /\ Printed(n, d) \in Nat /\ Printed(a * d, d) \in Nat /\ Printed(b * d, d) \in Nat
      /\ a <= b => Printed(a * d, d) <= Printed(n, d) /\ Printed(n, d) <= Printed(b * d, d)
      /\ b <= a => Printed(b * d, d) <= Printed(n, d) /\ Printed(n, d) <= Printed(a * d, d)
  <2> HIDE DEF n
  <2> QED
    BY <1>1, <1>3, <1>5, PrintedType, PrintedMono
<1>7. x = d => n = b * d
  BY <1>1
<1>8. x = 0 => n = a * d
  BY <1>1
<1> HIDE DEF n
<1>9. Within(Printed(n, d), Printed(a, 1), Printed(b, 1))
  BY <1>1, <1>4, <1>6 DEF Within
<1> QED
  BY <1>1, <1>2, <1>4, <1>6, <1>7, <1>8, <1>9 DEF a, b

(* What the estimate is, by where the target lies. *)
SettingOf(s, t, c) ==
    LET u == Target(s, t) IN
    /\ c \in {NAN, INF, Garbage} \cup Nat
    /\ c \in {NAN, INF} => Len(s) >= 2 /\ s[1].ratio = s[2].ratio
    /\ c = Garbage => Len(s) = 1
    /\ c >= 0 /\ u > 1 => Within(c, Printed(s[u - 1].err, 1), Printed(s[u].err, 1))
    /\ c >= 0 /\ s[u].ratio = t => c = Printed(s[u].err, 1)

(* Outside the measured ratios the estimate may be no number.              *)
LEMMA ExtrapolatedIs ==
    ASSUME NEW cases \in SUBSET Case, NEW s \in Seq(cases), s # <<>>, Ordered(s), NEW t \in Nat,
           Target(s, t) = 1
    PROVE  SettingOf(s, t, Extrapolated(s, t))
<1> DEFINE l == s[1]
           u == s[2]
           c == Extrapolated(s, t)
<1>1. Len(s) \in Nat /\ 1 \in 1 .. Len(s) /\ l \in Case
  BY EmptySeq, ListFields
<1>2. l.err \in Nat /\ l.ratio \in Nat /\ Printed(l.err, 1) \in Nat
  BY <1>1, ListFields
<1>3. CASE Len(s) = 1
  BY <1>3 DEF Extrapolated, SettingOf, Garbage, NAN, INF
<1>4. CASE Len(s) # 1
  <2>1. 2 \in 1 .. Len(s) /\ u \in Case
    <3>1. 2 \in 1 .. Len(s)
      <4> DEFINE k == Len(s)
      <4>1. k \in Nat /\ 1 \in 1 .. k /\ k # 1
        BY <1>1, <1>4
      <4> HIDE DEF k
      <4>2. 2 \in 1 .. k
        BY <4>1
      <4> QED
        BY <4>2 DEF k
    <3> QED
      BY <3>1, ListFields
  <2>2. u.err \in Nat /\ u.ratio \in Nat /\ l.ratio <= u.ratio
    BY <1>1, <2>1, CaseFields DEF Ordered
  <2> DEFINE n == l.err * (u.ratio - l.ratio) + (t - l.ratio) * (u.err - l.err)
  <2>3. c = IF u.ratio = l.ratio
            THEN IF t = l.ratio \/ u.err = l.err THEN NAN
                 ELSE IF u.err > l.err THEN INF ELSE Printed(l.err, 1)
            ELSE IF n < 0 THEN Printed(l.err, 1) ELSE Interpolated(l, u, t)
    BY <1>4 DEF Extrapolated
  <2>4. CASE u.ratio = l.ratio
    <3> HIDE DEF c, n, l, u
    <3> QED
      BY <2>3, <2>4, <1>1, <1>2, <1>4, <2>1, <2>2 DEF SettingOf, NAN, INF, Garbage, l, u, c
  <2>5. CASE u.ratio # l.ratio
    <3>1. l.ratio < u.ratio
      BY <2>2, <2>5, <1>2
    <3>2. t = l.ratio => c = Printed(l.err, 1)
      <4>1. t = l.ratio => Interpolated(l, u, t) = Printed(l.err, 1)
        <5>1. t = l.ratio => l.ratio <= t /\ t <= u.ratio
          BY <3>1, <1>2, <2>2
        <5> HIDE DEF l, u
        <5> QED
          BY <5>1, <3>1, <1>1, <2>1, InterpolatedBetween
      <4> QED
        BY <4>1, <2>3, <2>5
    <3>3. c \in Nat
      <4>1. CASE n < 0
        BY <4>1, <2>3, <2>5, <1>2
      <4>2. CASE ~ (n < 0)
        <5>1. n \in Nat
          <6> DEFINE p == l.err * (u.ratio - l.ratio)
                     q == (t - l.ratio) * (u.err - l.err)
          <6>1. p \in Int /\ q \in Int
            BY <1>2, <2>2, SMTT(60)
          <6>2. n = p + q
            OBVIOUS
          <6> HIDE DEF p, q
          <6> QED
            BY <6>1, <6>2, <4>2
        <5>2. u.ratio - l.ratio \in Nat \ {0}
          BY <3>1, <1>2, <2>2
        <5>3. c = Printed(n, u.ratio - l.ratio)
          BY <2>3, <2>5, <4>2 DEF Interpolated
        <5> HIDE DEF n, c
        <5> QED
          BY <5>1, <5>2, <5>3, PrintedType
      <4> QED
        BY <4>1, <4>2
    <3> HIDE DEF c, n
    <3> QED
      BY <3>2, <3>3, <1>1, <1>4 DEF SettingOf, NAN, INF, Garbage, l, c
  <2> QED
    BY <2>4, <2>5
<1> QED
  BY <1>3, <1>4

(* All of computeErrorSetting.                                             *)
LEMMA SettingIs ==
    ASSUME NEW cases \in SUBSET Case, NEW s \in Seq(cases), s # <<>>, Ordered(s), NEW t \in Nat,
           NEW mode \in Modes
    PROVE  SettingOf(s, t, computeErrorSetting(mode, s, t))
<1> DEFINE u == Target(s, t)
           c == computeErrorSetting(mode, s, t)
<1>1. Len(s) \in Nat /\ u \in 1 .. Len(s)
      /\ \/ s[u].ratio >= t /\ \A m \in 1 .. u - 1 : s[m].ratio < t
         \/ u = 1 /\ \A m \in 1 .. Len(s) : s[m].ratio < t
  BY TargetIs, SMTT(60)
<1>2. s[u] \in Case /\ s[u].err \in Nat /\ s[u].ratio \in Nat /\ Printed(s[u].err, 1) \in Nat
  BY <1>1, ListFields
<1>3. CASE mode = "SELECT_NEAREST"
  <2>1. c = Printed(s[u].err, 1)
    BY <1>3 DEF computeErrorSetting
  <2>2. u > 1 => Within(c, Printed(s[u - 1].err, 1), Printed(s[u].err, 1))
    <3> SUFFICES ASSUME u > 1
                 PROVE  Within(c, Printed(s[u - 1].err, 1), Printed(s[u].err, 1))
      OBVIOUS
    <3>1. u - 1 \in 1 .. Len(s)
      BY <1>1
    <3>2. Printed(s[u - 1].err, 1) \in Nat
      BY <3>1, ListFields
    <3> HIDE DEF c, u
    <3> QED
      BY <3>2, <2>1, <1>2 DEF Within
  <2> HIDE DEF c
  <2> QED
    BY <2>1, <2>2, <1>2 DEF SettingOf, NAN, INF, Garbage, c
<1>4. CASE mode # "SELECT_NEAREST" /\ u > 1
  <2>1. c = Interpolated(s[u - 1], s[u], t)
    BY <1>4 DEF computeErrorSetting
  <2>2. u - 1 \in 1 .. Len(s) /\ u - 1 \in 1 .. u - 1
    BY <1>1, <1>4
  <2>3. /\ s[u - 1] \in Case /\ s[u - 1].ratio \in Nat /\ s[u - 1].ratio < t /\ s[u].ratio >= t
        /\ s[u - 1].ratio < s[u].ratio /\ s[u - 1].ratio <= t /\ t <= s[u].ratio
    <3>1. s[u - 1] \in Case /\ s[u - 1].ratio \in Nat
      BY <2>2, ListFields
    <3>2. s[u - 1].ratio < t /\ s[u].ratio >= t
      BY <2>2, <1>1, <1>4
    <3> HIDE DEF u
    <3> QED
      BY <3>1, <3>2, <1>2
  <2>4. /\ c \in Nat /\ Within(c, Printed(s[u - 1].err, 1), Printed(s[u].err, 1))
        /\ t = s[u].ratio => c = Printed(s[u].err, 1)
    <3> HIDE DEF c, u
    <3> QED
      BY <2>1, <2>3, <1>2, InterpolatedBetween
  <2> HIDE DEF c
  <2> QED
    BY <2>4 DEF SettingOf, NAN, INF, Garbage, c
<1>5. CASE mode # "SELECT_NEAREST" /\ ~ (u > 1)
  <2>1. u = 1
    BY <1>1, <1>5
  <2>2. c = Extrapolated(s, t)
    BY <1>5 DEF computeErrorSetting
  <2> HIDE DEF c
  <2> QED
    BY <2>1, <2>2, ExtrapolatedIs DEF c
<1> QED
  BY <1>3, <1>4, <1>5

----------------------------------------------------------------------------
(* The inductive invariant.                                                *)
All == UNION Range(in.files)
Whole == in.properties \cup in.others
Tabled == Range(PlotNames)
Treated == DOMAIN ecVisDecDataTables
Element(v, n) == elements[ecVisDecDataTables[v][n]]

InFiles == pc \in {"results", "loaded", "settings", "slices", "reported"}
Fits == Plottable /\ Prefix

Setting == {Unset, NAN, INF, Garbage} \cup Nat
ElementType == [var : Whole, name : Names, cases : SUBSET Case,
                settings : [Range(in.CRs) -> Setting], state : {"live", "replaced", "freed"}]

(* Values, and what holds at a place in the program whatever came before.  *)
Places ==
    /\ in \in Inputs /\ var \in Whole /\ run \in 1 .. MaxRuns
    /\ checkingStatus \in {"COMPARE_COMPRESSOR", "PROBE_COMPRESSOR"}
    /\ pc \in {"start", "properties", "done", "stopped"} \/ InFiles
    /\ i \in 1 .. Len(in.compressors) \/ i \in 1 .. Len(in.plotted)
    /\ ecPropertyTable \subseteq Whole
    /\ elements \in Seq(ElementType)
    /\ Treated \subseteq Whole
    /\ ecVisDecDataTables \in [Treated -> [Tabled -> 1 .. Len(elements)]]
    /\ pc = "stopped" <=> fault # "none"

(* The links are missing only in the first run, or if a plotted compressor *)
(* is not listed: then no run comes to the point where they are needed.    *)
Linked ==
    /\ \/ dataProperties = Whole
       \/ /\ dataProperties = in.properties
          /\ \/ run = 1 /\ pc \in {"start", "properties"}
             \/ NULL \in Tabled /\ in.properties # {}
    /\ run = 1 /\ pc \in {"start", "properties"} =>
           dataProperties = in.properties /\ checkingStatus = "COMPARE_COMPRESSOR"

(* How far the loops over properties and directories have come. *)
Progress ==
    /\ pc = "start" => Treated = {} /\ elements = <<>> /\ ecPropertyTable = {}
    /\ pc = "done" => Treated = {}
    /\ pc = "properties" => /\ pending \subseteq dataProperties
                            /\ Treated = dataProperties \ pending /\ ecPropertyTable = Treated
    /\ NULL \in Tabled => Treated = {} /\ elements = <<>>
    /\ pc \in {"start", "properties"} => ecCompareDataTable = [k \in {} |-> 0]
    /\ InFiles => Treated = IF run = 1 THEN in.properties ELSE Whole
    /\ pc = "results" =>
        /\ i \in 1 .. Len(in.compressors) /\ pending \subseteq in.files[i]
        /\ \A n \in 1 .. i : \A f \in in.files[n] :
               Key(f) \in DOMAIN ecCompareDataTable \/ (n = i /\ f \in pending)
    /\ InFiles /\ pc # "results" => \A f \in All : Key(f) \in DOMAIN ecCompareDataTable

(* A table leads to the element made for its variable and name; every      *)
(* other element was replaced by one of the same name.                     *)
Reached ==
    /\ \A v \in Treated : \A n \in Tabled :
           Element(v, n).var = v /\ Element(v, n).name = n
    /\ \A e \in 1 .. Len(elements) :
           \/ /\ pc # "done" /\ elements[e].state = "live" /\ elements[e].var \in Treated
              /\ elements[e].name \in Tabled
              /\ e = ecVisDecDataTables[elements[e].var][elements[e].name]
           \/ elements[e].state = "freed"
           \/ \E m, n \in 1 .. Len(in.plotted) :
                /\ m # n /\ PlotNames[m] = elements[e].name
                /\ Bin[PlotNames[m]] = Bin[PlotNames[n]]

(* An element holds results of its own that are in ecCompareDataTable, one *)
(* of each key, and has one once a result of its was loaded.               *)
CasesOf(v, n) == {f \in All : f.cmp = n /\ f.var = v}
Filled ==
    /\ \A e \in 1 .. Len(elements) : LET cases == elements[e].cases IN
        /\ cases \subseteq CasesOf(elements[e].var, elements[e].name)
        /\ \A f, g \in cases : Key(f) = Key(g) => f = g
        /\ pc # "done" => \A f \in cases : Key(f) \in DOMAIN ecCompareDataTable
    /\ fault = "none" /\ Plottable /\ InFiles =>
        \A f \in All : isInPlotDecCompressors(f.cmp) /\ Key(f) \in DOMAIN ecCompareDataTable =>
            Element(f.var, f.cmp).cases # {}

(* A setting was estimated from the results the element has now. *)
Blank == [t \in Range(in.CRs) |-> Unset]
Estimate(cases, settings) ==
    \E s \in Sorted(cases) :
        cases # {} /\ settings = [t \in Range(in.CRs) |-> computeErrorSetting(in.mode, s, t)]
Estimated ==
    /\ pc \in {"start", "properties", "results", "loaded"} =>
           \A e \in 1 .. Len(elements) : elements[e].settings = Blank
    /\ pc # "done" => \A e \in 1 .. Len(elements) :
           elements[e].settings = Blank \/ Estimate(elements[e].cases, elements[e].settings)

(* The loop over the settings: the first compressors of the list have each *)
(* had their turn.                                                         *)
Turn(v, k) ==
    /\ k <= Len(in.compressors) /\ in.compressors[k] \in Tabled
    /\ Unset \notin Range(Element(v, in.compressors[k]).settings)
Turns ==
    /\ pc = "settings" =>
        /\ pending \subseteq Treated /\ i \in 1 .. Plots /\ (i > 1 => var \in pending)
        /\ \A v \in Treated : \A k \in 1 .. Plots :
               v \notin pending \/ (v = var /\ k < i) => Turn(v, k)
    /\ pc = "slices" => \A v \in Treated : \A k \in 1 .. Plots : Turn(v, k)

Faults ==
    /\ Fits => fault = "none" /\ (checkingStatus = "COMPARE_COMPRESSOR" \/ pc = "settings")
    /\ HealedByRestart /\ ReportComplete

IInv == /\ Places /\ Linked /\ Progress /\ Reached /\ Filled /\ Estimated /\ Turns /\ Faults
        /\ ElementsFreed

----------------------------------------------------------------------------
(* What a configuration is, and what does not change with it.              *)
LEMMA Conf ==
    ASSUME Places
    PROVE  /\ in.compressors \in Seq(Names) /\ in.compressors # <<>>
           /\ in.plotted \in Seq(Names) /\ in.plotted # <<>>
           /\ in.CRs \in Seq(Nat) /\ in.mode \in Modes
           /\ in.properties \subseteq Vars /\ in.others \subseteq Vars /\ Whole \subseteq Vars
           /\ in.files \in [1 .. Len(in.compressors) -> SUBSET Case]
           /\ \A n \in 1 .. Len(in.compressors) : IsFiniteSet(in.files[n])
           /\ Len(in.compressors) \in Nat /\ 1 \in 1 .. Len(in.compressors)
           /\ Len(in.plotted) \in Nat /\ 1 \in 1 .. Len(in.plotted)
<1>1. InputOK(in)
  BY InputAssumption DEF Places
<1>2. /\ in.compressors \in Seq(Names) /\ in.compressors # <<>>
      /\ in.plotted \in Seq(Names) /\ in.plotted # <<>>
      /\ in.CRs \in Seq(Nat) /\ in.mode \in Modes
      /\ in.properties \subseteq Vars /\ in.others \subseteq Vars
      /\ in.files \in [1 .. Len(in.compressors) -> SUBSET Case]
      /\ \A n \in 1 .. Len(in.compressors) : IsFiniteSet(in.files[n])
  BY <1>1 DEF InputOK
<1>3. Whole \subseteq Vars
  BY <1>2 DEF Whole
<1>4. /\ Len(in.compressors) \in Nat /\ 1 \in 1 .. Len(in.compressors)
      /\ Len(in.plotted) \in Nat /\ 1 \in 1 .. Len(in.plotted)
  BY <1>2, EmptySeq
<1> QED
  BY <1>2, <1>3, <1>4

LEMMA Fixed ==
    ASSUME in' = in
    PROVE  /\ All' = All /\ Whole' = Whole /\ PlotNames' = PlotNames /\ Tabled' = Tabled
           /\ (Plottable' <=> Plottable) /\ (Prefix' <=> Prefix) /\ (Fits' <=> Fits)
           /\ Blank' = Blank /\ ElementType' = ElementType
<1>1. All' = All /\ Whole' = Whole /\ Blank' = Blank
  BY DEF All, Whole, Blank
<1>2. PlotNames' = PlotNames
  BY DEF PlotNames, NameOf
<1>3. Tabled' = Tabled
  BY <1>2 DEF Tabled
<1>4. Plottable' <=> Plottable
  BY DEF Plottable, isInPlotDecCompressors
<1>5. Prefix' <=> Prefix
  BY DEF Prefix
<1>6. ElementType' = ElementType
  BY <1>1 DEF ElementType
<1> QED
  BY <1>1, <1>2, <1>3, <1>4, <1>5, <1>6 DEF Fits

(* The results found are finitely many.                                    *)
LEMMA AllFinite ==
    ASSUME Places
    PROVE  All \subseteq Case /\ IsFiniteSet(All) /\ \A n \in 1 .. Len(in.compressors) : in.files[n] \subseteq All
<1> DEFINE k == Len(in.compressors)
<1>1. k \in Nat /\ in.files \in [1 .. k -> SUBSET Case] /\ \A n \in 1 .. k : IsFiniteSet(in.files[n])
  BY Conf
<1> HIDE DEF k
<1>2. Range(in.files) = {in.files[n] : n \in 1 .. k}
  BY <1>1 DEF Range
<1>3. in.files \in Surjection(1 .. k, Range(in.files))
  <2>1. in.files \in [1 .. k -> Range(in.files)]
    BY <1>1, <1>2
  <2>2. \A S \in Range(in.files) : \E n \in 1 .. k : in.files[n] = S
    BY <1>2
  <2> QED
    BY <2>1, <2>2, Fun_IsSurj
<1>4. IsFiniteSet(Range(in.files))
  BY <1>1, <1>3, FS_Interval, FS_Surjection
<1>5. IsFiniteSet(All)
  BY <1>1, <1>2, <1>4, FS_UNION DEF All
<1> QED
  BY <1>1, <1>2, <1>5 DEF All, k

(* A plotted name is replaced by the listed one with its ID, if there is.  *)
LEMMA NameOfIs ==
    ASSUME Places, NEW n \in Names
    PROVE  \/ NameOf(n) = NULL /\ \A w \in 1 .. Len(in.compressors) : Id[in.compressors[w]] # Id[n]
           \/ \E w \in 1 .. Len(in.compressors) :
                  NameOf(n) = in.compressors[w] /\ Id[in.compressors[w]] = Id[n]
<1> DEFINE same == {w \in 1 .. Len(in.compressors) : Id[in.compressors[w]] = Id[n]}
<1>1. CASE same = {}
  BY <1>1 DEF NameOf
<1>2. CASE same # {}
  <2>1. same \in SUBSET Nat
    BY Conf
  <2>2. Min(same) \in same
    <3> HIDE DEF same
    <3> QED
      BY <2>1, <1>2, MinIn
  <2>3. NameOf(n) = in.compressors[Min(same)]
    BY <1>2 DEF NameOf
  <2> QED
    BY <2>2, <2>3
<1> QED
  BY <1>1, <1>2

(* The names in a table are those of the plotted compressors.              *)
LEMMA Tables ==
    ASSUME Places
    PROVE  /\ Tabled = {PlotNames[k] : k \in 1 .. Len(in.plotted)}
           /\ PlotNames \in [1 .. Len(in.plotted) -> Tabled]
           /\ Tabled \subseteq Names \cup {NULL}
<1>1. PlotNames = [k \in 1 .. Len(in.plotted) |-> NameOf(in.plotted[k])]
  BY DEF PlotNames
<1>2. Tabled = {PlotNames[k] : k \in 1 .. Len(in.plotted)}
  BY <1>1 DEF Tabled, Range
<1>3. \A k \in 1 .. Len(in.plotted) : PlotNames[k] \in Names \cup {NULL}
  <2> TAKE k \in 1 .. Len(in.plotted)
  <2>1. in.plotted[k] \in Names
    BY Conf, ElementOfSeq
  <2>2. \A w \in 1 .. Len(in.compressors) : in.compressors[w] \in Names
    BY Conf, ElementOfSeq
  <2> QED
    BY <2>1, <2>2, <1>1, NameOfIs
<1> QED
  BY <1>1, <1>2, <1>3

(* Where a tabled name is plotted for the first and for the last time.     *)
LEMMA FirstLast ==
    ASSUME Places, NEW n \in Tabled
    PROVE  /\ First(n) \in 1 .. Len(in.plotted) /\ PlotNames[First(n)] = n
           /\ Last(n) \in 1 .. Len(in.plotted) /\ PlotNames[Last(n)] = n
<1> DEFINE S == {k \in 1 .. Len(in.plotted) : PlotNames[k] = n}
<1>1. S # {}
  BY Tables
<1>2. S \in SUBSET Nat /\ Len(in.plotted) \in Nat /\ \A x \in S : x <= Len(in.plotted)
  BY Conf
<1>3. First(n) = Min(S) /\ Last(n) = Max(S)
  BY DEF First, Last
<1>4. Min(S) \in S /\ Max(S) \in S
  <2> HIDE DEF S
  <2> QED
    BY <1>1, <1>2, MinIn, MaxIn
<1> QED
  BY <1>3, <1>4

(* A plottable configuration's tables hold the plotted names themselves. *)
LEMMA PlottableNames ==
    ASSUME Places, Plottable
    PROVE  /\ Tabled = Range(in.plotted) /\ NULL \notin Tabled
           /\ \A n \in Range(in.plotted) : isInPlotDecCompressors(n)
           /\ \A f \in All : isInPlotDecCompressors(f.cmp) => f.cmp \in Tabled /\ f.var \in in.properties
<1>1. Range(in.plotted) = {in.plotted[k] : k \in 1 .. Len(in.plotted)}
      /\ Range(in.compressors) = {in.compressors[k] : k \in 1 .. Len(in.compressors)}
  <2>1. \A s \in Seq(Names) : Range(s) = {s[k] : k \in 1 .. Len(s)}
    <3> TAKE s \in Seq(Names)
    <3>1. DOMAIN s = 1 .. Len(s)
      OBVIOUS
    <3> QED
      BY <3>1 DEF Range
  <2>2. in.plotted \in Seq(Names) /\ in.compressors \in Seq(Names)
    BY Conf
  <2> QED
    BY <2>1, <2>2
<1>2. \A k \in 1 .. Len(in.plotted) : in.plotted[k] \in Names /\ PlotNames[k] = in.plotted[k]
  <2> TAKE k \in 1 .. Len(in.plotted)
  <2> DEFINE n == in.plotted[k]
  <2>1. n \in Names
    BY Conf, ElementOfSeq
  <2>2. PICK m \in 1 .. Len(in.compressors) : in.compressors[m] = n
    BY <1>1 DEF Plottable
  <2>3. PICK w \in 1 .. Len(in.compressors) :
            NameOf(n) = in.compressors[w] /\ Id[in.compressors[w]] = Id[n]
    BY <2>1, <2>2, NameOfIs
  <2>4. w = m
    BY <2>2, <2>3 DEF Plottable
  <2> QED
    BY <2>1, <2>2, <2>3, <2>4 DEF PlotNames
<1>3. Tabled = Range(in.plotted) /\ Range(in.plotted) \subseteq Names
  BY <1>1, <1>2, Tables
<1>4. \A n \in Range(in.plotted) : isInPlotDecCompressors(n)
  BY <1>1 DEF isInPlotDecCompressors
<1>5. \A f \in All : isInPlotDecCompressors(f.cmp) => f.cmp \in Range(in.plotted) /\ f.var \in in.properties
  BY DEF Plottable, All
<1> QED
  BY <1>3, <1>4, <1>5, NameAssumption
----------------------------------------------------------------------------
(* The invariant holds at first, and after every action.                   *)
LEMMA InitIInv == Init => IInv
<1> SUFFICES ASSUME Init PROVE IInv
  OBVIOUS
<1>1. /\ in \in Inputs /\ dataProperties = in.properties /\ checkingStatus = "COMPARE_COMPRESSOR"
      /\ run = 1 /\ pc = "start" /\ pending = {} /\ i = 1 /\ var \in Whole
      /\ ecPropertyTable = {} /\ ecCompareDataTable = [k \in {} |-> 0]
      /\ Treated = {} /\ ecVisDecDataTables = [v \in {} |-> 0] /\ elements = <<>> /\ fault = "none"
  BY DEF Init, Whole, Treated
<1>2. Places
  <2>1. InputOK(in)
    BY <1>1, InputAssumption
  <2>2. 1 \in 1 .. Len(in.compressors)
    BY <2>1, EmptySeq DEF InputOK
  <2>3. elements \in Seq(ElementType)
    BY <1>1
  <2>4. ecVisDecDataTables \in [Treated -> [Tabled -> 1 .. Len(elements)]]
    BY <1>1
  <2>5. run \in 1 .. MaxRuns
    BY <1>1, BoundAssumption
  <2> QED
    BY <1>1, <2>2, <2>3, <2>4, <2>5 DEF Places
<1>3. Linked
  BY <1>1 DEF Linked
<1>4. Len(elements) = 0
  BY <1>1
<1>5. Progress
  BY <1>1 DEF Progress, InFiles
<1>6. Reached
  BY <1>1, <1>4 DEF Reached
<1>7. Filled
  BY <1>1, <1>4 DEF Filled, InFiles
<1>8. Estimated /\ Turns /\ ElementsFreed
  BY <1>1, <1>4 DEF Estimated, Turns, ElementsFreed
<1>9. Faults
  BY <1>1 DEF Faults, HealedByRestart, ReportComplete
<1> QED
  BY <1>2, <1>3, <1>5, <1>6, <1>7, <1>8, <1>9 DEF IInv

(* The conjuncts about the elements, after an action that leaves these.    *)
LEMMA Stays ==
    ASSUME IInv, UNCHANGED <<in, ecVisDecDataTables, elements>>, pc # "done", pc' # "done",
           DOMAIN ecCompareDataTable \subseteq DOMAIN ecCompareDataTable',
           pc' \in {"start", "properties", "results", "loaded"} =>
               pc \in {"start", "properties", "results", "loaded"},
           \/ ~ (InFiles' /\ fault' = "none")
           \/ InFiles /\ fault = "none" /\ ecCompareDataTable' = ecCompareDataTable
           \/ ecCompareDataTable' = [k \in {} |-> 0]
    PROVE  Reached' /\ Filled' /\ Estimated' /\ ElementsFreed'
<1>1. /\ All' = All /\ PlotNames' = PlotNames /\ Tabled' = Tabled /\ (Plottable' <=> Plottable)
      /\ Blank' = Blank
  BY Fixed
<1>2. Reached'
  BY <1>1 DEF IInv, Reached, Treated, Element
<1>3. Filled'
  <2>1. \A e \in 1 .. Len(elements) : LET cases == elements[e].cases IN
            /\ cases \subseteq CasesOf(elements[e].var, elements[e].name)
            /\ \A f, g \in cases : Key(f) = Key(g) => f = g
            /\ \A f \in cases : Key(f) \in DOMAIN ecCompareDataTable
    BY DEF IInv, Filled
  <2>2. \A e \in 1 .. Len(elements') : LET cases == elements'[e].cases IN
            /\ cases \subseteq CasesOf(elements[e].var, elements[e].name)'
            /\ \A f, g \in cases : Key(f) = Key(g) => f = g
            /\ \A f \in cases : Key(f) \in DOMAIN ecCompareDataTable'
    BY <2>1, <1>1 DEF CasesOf
  <2>3. ASSUME fault' = "none", Plottable', InFiles'
        PROVE  \A f \in All : isInPlotDecCompressors(f.cmp) /\ Key(f) \in DOMAIN ecCompareDataTable' =>
                   Element(f.var, f.cmp).cases # {}
    <3>1. CASE InFiles /\ fault = "none" /\ ecCompareDataTable' = ecCompareDataTable
      BY <2>3, <3>1, <1>1 DEF IInv, Filled
    <3>2. CASE ecCompareDataTable' = [k \in {} |-> 0]
      BY <3>2
    <3> QED
      BY <2>3, <3>1, <3>2
  <2>4. fault' = "none" /\ Plottable' /\ InFiles' =>
            \A f \in All' : isInPlotDecCompressors(f.cmp)' /\ Key(f) \in DOMAIN ecCompareDataTable' =>
                Element(f.var, f.cmp)'.cases # {}
    BY <2>3, <1>1 DEF isInPlotDecCompressors, Element
  <2> QED
    BY <2>2, <2>4 DEF Filled, Key
<1>4. Estimated'
  <2>1. ASSUME NEW e \in 1 .. Len(elements),
               Estimate(elements[e].cases, elements[e].settings)
        PROVE  Estimate(elements[e].cases, elements[e].settings)'
    BY <2>1 DEF Estimate
  <2> QED
    BY <1>1, <2>1 DEF IInv, Estimated
<1> QED
  BY <1>2, <1>3, <1>4 DEF ElementsFreed

(* A wrong status stops the run; after a fitting run it is never wrong.    *)
LEMMA StartStep == ASSUME IInv, Start PROVE IInv'
<1>1. /\ pc = "start" /\ pc' \in {"properties", "stopped"}
      /\ UNCHANGED <<in, disk, i, var, tables>>
      /\ \/ checkingStatus = "COMPARE_COMPRESSOR" /\ pc' = "properties"
            /\ pending' = dataProperties /\ fault' = fault
         \/ checkingStatus # "COMPARE_COMPRESSOR" /\ pc' = "stopped" /\ fault' = "no_template"
  BY DEF Start, Stop
<1>2. /\ All' = All /\ Whole' = Whole /\ Tabled' = Tabled /\ (Fits' <=> Fits)
      /\ ElementType' = ElementType /\ Treated' = Treated
  BY <1>1, Fixed DEF tables, Treated
<1>3. Reached' /\ Filled' /\ Estimated' /\ ElementsFreed'
  BY <1>1, Stays DEF tables, InFiles
<1>4. Places'
  BY <1>1, <1>2 DEF IInv, Places, disk, tables, InFiles
<1>5. Linked'
  BY <1>1, <1>2 DEF IInv, Linked, disk
<1>6. Progress'
  <2>1. fault = "none" /\ Treated = {} /\ elements = <<>> /\ ecPropertyTable = {}
        /\ ecCompareDataTable = [k \in {} |-> 0]
    BY <1>1 DEF IInv, Progress, Places, InFiles
  <2> QED
    BY <1>1, <1>2, <2>1 DEF Progress, InFiles, disk, tables
<1>7. Turns'
  BY <1>1 DEF Turns
<1>8. Faults'
  BY <1>1, <1>2 DEF IInv, Faults, Places, HealedByRestart, ReportComplete, disk
<1> QED
  BY <1>3, <1>4, <1>5, <1>6, <1>7, <1>8 DEF IInv

(* Behind the last directory every result found is in ecCompareDataTable.  *)
LEMMA NextDirectoryStep == ASSUME IInv, NextDirectory PROVE IInv'
<1>1. /\ pc = "results" /\ pending = {} /\ UNCHANGED <<in, disk, var, tables, fault>>
      /\ \/ i < Len(in.compressors) /\ i' = i + 1 /\ pending' = in.files[i + 1] /\ pc' = pc
         \/ ~ (i < Len(in.compressors)) /\ pc' = "loaded" /\ i' = i /\ pending' = pending
  BY DEF NextDirectory
<1>2. /\ All' = All /\ Whole' = Whole /\ Tabled' = Tabled /\ (Fits' <=> Fits)
      /\ ElementType' = ElementType /\ Treated' = Treated
  BY <1>1, Fixed DEF tables, Treated
<1>3. Reached' /\ Filled' /\ Estimated' /\ ElementsFreed'
  BY <1>1, Stays DEF tables, InFiles
<1>4. i \in 1 .. Len(in.compressors) /\ Len(in.compressors) \in Nat
  BY <1>1, Conf DEF IInv, Progress
<1>5. i' \in 1 .. Len(in.compressors)
  BY <1>1, <1>4
<1>6. Places'
  BY <1>1, <1>2, <1>5 DEF IInv, Places, disk, tables, InFiles
<1>7. Linked'
  BY <1>1, <1>2 DEF IInv, Linked, disk
<1>8. Progress'
  <2>1. \A n \in 1 .. i : \A f \in in.files[n] : Key(f) \in DOMAIN ecCompareDataTable
    BY <1>1 DEF IInv, Progress
  <2>2. Treated' = IF run' = 1 THEN in'.properties ELSE Whole'
    BY <1>1, <1>2 DEF IInv, Progress, InFiles, disk
  <2>3. pc' = "results" =>
           \A n \in 1 .. i' : \A f \in in.files[n] :
               Key(f) \in DOMAIN ecCompareDataTable \/ (n = i' /\ f \in pending')
    BY <2>1, <1>1, <1>4
  <2>4. pc' = "loaded" => \A f \in All : Key(f) \in DOMAIN ecCompareDataTable
    <3> SUFFICES ASSUME pc' = "loaded", NEW f \in All PROVE Key(f) \in DOMAIN ecCompareDataTable
      OBVIOUS
    <3>1. i = Len(in.compressors)
      BY <1>1, <1>4
    <3>2. in.files \in [1 .. i -> SUBSET Case]
      BY <3>1, Conf DEF IInv
    <3>3. PICK n \in 1 .. i : f \in in.files[n]
      BY <3>2 DEF All, Range
    <3> QED
      BY <2>1, <3>3
  <2>5. NULL \in Tabled' => Treated' = {} /\ elements' = <<>>
    BY <1>1, <1>2 DEF IInv, Progress, tables
  <2>6. pc' = "results" =>
        /\ i' \in 1 .. Len(in'.compressors) /\ pending' \subseteq in'.files[i']
        /\ \A n \in 1 .. i' : \A f \in in'.files[n] :
               Key(f)' \in DOMAIN ecCompareDataTable' \/ (n = i' /\ f \in pending')
    BY <1>1, <1>5, <2>3 DEF tables, Key
  <2>7. pc' = "loaded" => \A f \in All' : Key(f)' \in DOMAIN ecCompareDataTable'
    BY <1>1, <1>2, <2>4 DEF tables, Key
  <2> QED
    BY <1>1, <2>2, <2>5, <2>6, <2>7 DEF Progress, InFiles
<1>9. Turns'
  BY <1>1 DEF Turns
<1>10. Faults'
  BY <1>1, <1>2 DEF IInv, Faults, Places, HealedByRestart, ReportComplete, disk
<1> QED
  BY <1>3, <1>6, <1>7, <1>8, <1>9, <1>10 DEF IInv

(* No element has had its turn yet.                                        *)
LEMMA StartReportStep == ASSUME IInv, StartReport PROVE IInv'
<1>1. /\ pc = "loaded" /\ checkingStatus' = "PROBE_COMPRESSOR" /\ pc' = "settings"
      /\ pending' = Treated /\ i' = 1
      /\ UNCHANGED <<in, dataProperties, run, var, tables, fault>>
  BY DEF StartReport, Treated
<1>2. /\ All' = All /\ Whole' = Whole /\ Tabled' = Tabled /\ (Fits' <=> Fits)
      /\ ElementType' = ElementType /\ Treated' = Treated
  BY <1>1, Fixed DEF tables, Treated
<1>3. Reached' /\ Filled' /\ Estimated' /\ ElementsFreed'
  BY <1>1, Stays DEF tables, InFiles
<1>4. 1 \in 1 .. Len(in.compressors) /\ Len(in.plotted) \in Nat /\ 1 \in 1 .. Len(in.plotted)
  BY Conf DEF IInv
<1>5. Places'
  BY <1>1, <1>2, <1>4 DEF IInv, Places, tables, InFiles
<1>6. Linked'
  BY <1>1, <1>2 DEF IInv, Linked
<1>7. Progress'
  BY <1>1, <1>2 DEF IInv, Progress, InFiles, tables, Key
<1>8. Turns'
  BY <1>1, <1>2, <1>4 DEF Turns, Plots
<1>9. Faults'
  BY <1>1, <1>2 DEF IInv, Faults, Places, HealedByRestart, ReportComplete
<1> QED
  BY <1>3, <1>5, <1>6, <1>7, <1>8, <1>9 DEF IInv

(* All elements have had their turn, and the status is as it was.          *)
LEMMA EndSettingsStep == ASSUME IInv, EndSettings PROVE IInv'
<1>1. /\ pc = "settings" /\ pending = {} /\ checkingStatus' = "COMPARE_COMPRESSOR"
      /\ pc' = "slices" /\ UNCHANGED <<in, dataProperties, run, pending, i, var, tables, fault>>
  BY DEF EndSettings, Restored
<1>2. /\ All' = All /\ Whole' = Whole /\ Tabled' = Tabled /\ (Fits' <=> Fits)
      /\ ElementType' = ElementType /\ Treated' = Treated
  BY <1>1, Fixed DEF tables, Treated
<1>3. Reached' /\ Filled' /\ Estimated' /\ ElementsFreed'
  BY <1>1, Stays DEF tables, InFiles
<1>4. Places'
  BY <1>1, <1>2 DEF IInv, Places, tables, InFiles
<1>5. Linked'
  BY <1>1, <1>2 DEF IInv, Linked
<1>6. Progress'
  BY <1>1, <1>2 DEF IInv, Progress, InFiles, tables, Key
<1>7. Turns'
  <2>1. \A v \in Treated : \A k \in 1 .. Plots : Turn(v, k)
    BY <1>1 DEF IInv, Turns
  <2>2. \A v \in Treated' : \A k \in 1 .. Plots' : Turn(v, k)'
    BY <2>1, <1>1, <1>2 DEF Turn, Element, Plots, tables
  <2> QED
    BY <1>1, <2>2 DEF Turns
<1>8. Faults'
  BY <1>1, <1>2 DEF IInv, Faults, Places, HealedByRestart, ReportComplete
<1> QED
  BY <1>3, <1>4, <1>5, <1>6, <1>7, <1>8 DEF IInv

(* If the first compressors of the list are tabled, and no name is listed  *)
(* twice, they are all that are tabled: there are as many.                 *)
LEMMA AllNamed ==
    ASSUME Places, \A k \in 1 .. Plots : k <= Len(in.compressors) /\ in.compressors[k] \in Tabled,
           \A m, n \in 1 .. Len(in.compressors) : in.compressors[m] = in.compressors[n] => m = n
    PROVE  \A n \in Tabled : \E k \in 1 .. Plots : n = in.compressors[k]
<1> DEFINE D == 1 .. Plots
           g == [k \in D |-> in.compressors[k]]
<1>1. Plots \in Nat /\ Plots = Len(in.plotted) /\ Len(in.compressors) \in Nat
  BY Conf DEF Plots
<1>2. IsFiniteSet(D)
  BY <1>1, FS_Interval
<1>3. PlotNames \in [D -> Tabled] /\ \A n \in Tabled : \E k \in D : PlotNames[k] = n
  BY <1>1, Tables
<1>4. PlotNames \in Surjection(D, Tabled)
  BY <1>3, Fun_IsSurj
<1>5. g \in [D -> Tabled] /\ \A k, l \in D : g[k] = g[l] => k = l
  BY <1>1
<1> HIDE DEF D, g
<1>6. g \in Injection(D, Tabled)
  BY <1>5, Fun_IsInj
<1>7. IsFiniteSet(Tabled) /\ Cardinality(Tabled) <= Cardinality(D)
  BY <1>2, <1>4, FS_Surjection
<1>8. Cardinality(D) <= Cardinality(Tabled)
      /\ (Cardinality(D) = Cardinality(Tabled) <=> g \in Surjection(D, Tabled))
  BY <1>6, <1>7, FS_Injection
<1>9. Cardinality(D) \in Nat /\ Cardinality(Tabled) \in Nat
  BY <1>2, <1>7, FS_CardinalityType
<1>10. g \in Surjection(D, Tabled)
  BY <1>7, <1>8, <1>9
<1>11. \A n \in Tabled : \E k \in D : g[k] = n
  BY <1>10 DEF Surjection
<1> QED
  BY <1>11 DEF D, g

(* An element without a setting has a name that is not among the first     *)
(* compressors of the list, so one of these is listed twice (AllNamed).    *)
LEMMA SliceReportStep == ASSUME IInv, SliceReport PROVE IInv'
<1>1. /\ pc = "slices" /\ UNCHANGED <<in, disk, pending, i, var, tables>>
      /\ \/ /\ \E e \in InTables : Unset \in Range(elements[e].settings)
            /\ fault' = "no_setting" /\ pc' = "stopped"
         \/ pc' = "reported" /\ fault' = fault
  BY DEF SliceReport, Stop
<1>2. /\ All' = All /\ Whole' = Whole /\ Tabled' = Tabled /\ (Fits' <=> Fits)
      /\ ElementType' = ElementType /\ Treated' = Treated
  BY <1>1, Fixed DEF tables, Treated
<1>3. Reached' /\ Filled' /\ Estimated' /\ ElementsFreed'
  BY <1>1, Stays DEF tables, InFiles
<1>4. Places'
  BY <1>1, <1>2 DEF IInv, Places, disk, tables, InFiles
<1>5. Linked'
  BY <1>1, <1>2 DEF IInv, Linked, disk
<1>6. Progress'
  BY <1>1, <1>2 DEF IInv, Progress, InFiles, disk, tables, Key
<1>7. Turns'
  BY <1>1 DEF Turns
<1>8. ASSUME fault' = "no_setting"
      PROVE  \E m, n \in 1 .. Len(in.compressors) : m # n /\ in.compressors[m] = in.compressors[n]
  <2>1. fault = "none"
    BY <1>1 DEF IInv, Places
  <2>2. PICK e \in InTables : Unset \in Range(elements[e].settings)
    BY <1>1, <1>8, <2>1
  <2>3. PICK v \in Treated, n \in Tabled : e = ecVisDecDataTables[v][n]
    BY <2>2 DEF InTables, Treated, Range, IInv, Places
  <2>4. \A k \in 1 .. Plots : Turn(v, k)
    BY <1>1, <2>3 DEF IInv, Turns
  <2>5. ASSUME \A l, m \in 1 .. Len(in.compressors) : in.compressors[l] = in.compressors[m] => l = m
        PROVE  FALSE
    <3>1. PICK k \in 1 .. Plots : n = in.compressors[k]
      BY <2>3, <2>4, <2>5, AllNamed DEF Turn, IInv
    <3>2. Turn(v, k)
      BY <2>4
    <3> QED
      BY <2>2, <2>3, <3>1, <3>2 DEF Turn, Element
  <2> QED
    BY <2>5
<1>9. Faults'
  <2>1. Fits => \A m, n \in 1 .. Len(in.compressors) : in.compressors[m] = in.compressors[n] => m = n
    BY DEF Fits, Plottable
  <2>2. Fits => fault' = "none"
    BY <1>1, <1>8, <2>1 DEF IInv, Faults
  <2> QED
    BY <1>1, <1>2, <1>8, <2>2 DEF IInv, Faults, Places, HealedByRestart, ReportComplete, disk
<1> QED
  BY <1>3, <1>4, <1>5, <1>6, <1>7, <1>9 DEF IInv

(* The links are made, if not by this run then by the one before.          *)
LEMMA LoadOthersStep == ASSUME IInv, LoadOthers PROVE IInv'
<1>1. /\ pc = "properties" /\ pending = {} /\ ecPropertyTable' = ecPropertyTable \cup in.others
      /\ dataProperties' = dataProperties \cup in.others
      /\ \/ ecPropertyTable' = {}
         \/ pc' = "results" /\ i' = 1 /\ pending' = in.files[1] /\ fault' = fault
      /\ UNCHANGED <<in, checkingStatus, run, var, ecCompareDataTable, ecVisDecDataTables, elements>>
  BY DEF LoadOthers, Links
<1>2. /\ All' = All /\ Whole' = Whole /\ Tabled' = Tabled /\ (Fits' <=> Fits)
      /\ ElementType' = ElementType /\ Treated' = Treated
  BY <1>1, Fixed DEF Treated
<1>3. /\ Treated = dataProperties /\ ecPropertyTable = Treated /\ var \in Whole
      /\ fault = "none" /\ ecCompareDataTable = [k \in {} |-> 0]
  BY <1>1 DEF IInv, Progress, Places
<1>4. /\ dataProperties \in {Whole, in.properties} /\ (run = 1 => dataProperties = in.properties)
      /\ (run # 1 => dataProperties = Whole)
  BY <1>1, <1>3 DEF IInv, Linked, Progress
<1>5. ecPropertyTable' = Whole /\ dataProperties' = Whole
  BY <1>1, <1>3, <1>4 DEF Whole
<1>6. pc' = "results" /\ i' = 1 /\ pending' = in.files[1] /\ fault' = fault
  BY <1>1, <1>3, <1>5
<1>7. Reached' /\ Filled' /\ Estimated' /\ ElementsFreed'
  BY <1>1, <1>3, <1>6, Stays
<1>8. 1 \in 1 .. Len(in.compressors)
  BY Conf DEF IInv
<1>9. Places'
  BY <1>1, <1>2, <1>5, <1>6, <1>8 DEF IInv, Places, InFiles
<1>10. Linked'
  BY <1>1, <1>2, <1>5, <1>6 DEF Linked
<1>11. Progress'
  <2>1. Treated' = IF run' = 1 THEN in'.properties ELSE Whole'
    BY <1>1, <1>2, <1>3, <1>4
  <2>2. NULL \in Tabled' => Treated' = {} /\ elements' = <<>>
    BY <1>1, <1>2 DEF IInv, Progress
  <2> QED
    BY <1>1, <1>6, <1>8, <2>1, <2>2 DEF Progress, InFiles
<1>12. Turns'
  BY <1>6 DEF Turns
<1>13. Faults'
  BY <1>1, <1>2, <1>3, <1>6 DEF IInv, Faults, HealedByRestart, ReportComplete
<1> QED
  BY <1>7, <1>9, <1>10, <1>11, <1>12, <1>13 DEF IInv

(* The next run starts from what is on disk.                               *)
LEMMA RestartStep == ASSUME IInv, Restart PROVE IInv'
<1>1. /\ pc \in {"done", "stopped"} /\ run < MaxRuns /\ run' = run + 1
      /\ pc' = "start" /\ fault' = "none" /\ pending' = {} /\ i' = 1
      /\ ecPropertyTable' = {} /\ ecCompareDataTable' = [k \in {} |-> 0]
      /\ ecVisDecDataTables' = [v \in {} |-> 0] /\ elements' = <<>>
      /\ UNCHANGED <<in, dataProperties, checkingStatus, var>>
  BY DEF Restart
<1>2. /\ All' = All /\ Whole' = Whole /\ Tabled' = Tabled /\ (Fits' <=> Fits) /\ Treated' = {}
  BY <1>1, Fixed DEF Treated
<1>3. run \in 1 .. MaxRuns /\ run' \in 1 .. MaxRuns /\ run' # 1
  BY <1>1, BoundAssumption DEF IInv, Places
<1>4. Places'
  <2>1. 1 \in 1 .. Len(in.compressors)
    BY Conf DEF IInv
  <2>2. elements' \in Seq(ElementType')
    BY <1>1
  <2>3. ecVisDecDataTables' \in [Treated' -> [Tabled' -> 1 .. Len(elements')]]
    BY <1>1, <1>2
  <2> QED
    BY <1>1, <1>2, <1>3, <2>1, <2>2, <2>3 DEF IInv, Places
<1>5. Linked'
  BY <1>1, <1>2, <1>3 DEF IInv, Linked
<1>6. Len(elements') = 0
  BY <1>1
<1>7. Progress'
  BY <1>1, <1>2 DEF Progress, InFiles
<1>8. Reached'
  BY <1>1, <1>2, <1>6 DEF Reached
<1>9. Filled'
  BY <1>1, <1>6 DEF Filled, InFiles
<1>10. Estimated' /\ Turns' /\ ElementsFreed'
  BY <1>1, <1>6 DEF Estimated, Turns, ElementsFreed
<1>11. Faults'
  BY <1>1, <1>2 DEF IInv, Faults, HealedByRestart, ReportComplete
<1> QED
  BY <1>4, <1>5, <1>7, <1>8, <1>9, <1>10, <1>11 DEF IInv

(* An element that is not the first in its chain shares the bin of the     *)
(* element that is.                                                        *)
LEMMA FinalizeStep == ASSUME IInv, Finalize PROVE IInv'
<1>1. /\ pc \in {"loaded", "reported"} /\ pc' = "done"
      /\ elements' = [e \in 1 .. Len(elements) |->
             IF e \in Freed THEN [elements[e] EXCEPT !.state = "freed", !.cases = {}]
             ELSE elements[e]]
      /\ ecPropertyTable' = {} /\ ecVisDecDataTables' = [v \in {} |-> 0]
      /\ UNCHANGED <<in, disk, pending, i, var, fault>>
  BY DEF Finalize
<1>2. /\ All' = All /\ Whole' = Whole /\ Tabled' = Tabled /\ (Fits' <=> Fits) /\ Treated' = {}
      /\ ElementType' = ElementType /\ PlotNames' = PlotNames
  BY <1>1, Fixed DEF Treated
<1>3. Places /\ elements \in Seq(ElementType) /\ Len(elements) \in Nat
  BY DEF IInv, Places
<1>4. /\ elements' \in Seq(ElementType) /\ Len(elements') = Len(elements)
      /\ \A e \in 1 .. Len(elements) :
           /\ elements'[e].name = elements[e].name /\ elements'[e].var = elements[e].var
           /\ elements'[e].state \in {elements[e].state, "freed"}
           /\ e \in Freed => elements'[e].state = "freed"
           /\ elements'[e].cases \in {elements[e].cases, {}}
  <2>1. \A e \in 1 .. Len(elements) : elements[e] \in ElementType
    BY <1>3
  <2>2. \A e \in 1 .. Len(elements) :
           /\ elements'[e] \in ElementType
           /\ elements'[e].name = elements[e].name /\ elements'[e].var = elements[e].var
           /\ elements'[e].state \in {elements[e].state, "freed"}
           /\ e \in Freed => elements'[e].state = "freed"
           /\ elements'[e].cases \in {elements[e].cases, {}}
    BY <1>1, <2>1 DEF ElementType
  <2>3. elements' \in [1 .. Len(elements) -> ElementType]
    BY <1>1, <2>2
  <2> QED
    BY <1>3, <2>2, <2>3
<1>5. Places'
  <2>1. ecVisDecDataTables' \in [Treated' -> [Tabled' -> 1 .. Len(elements')]]
    BY <1>1, <1>2
  <2> QED
    BY <1>1, <1>2, <1>4, <2>1 DEF IInv, Places, disk, InFiles
<1>6. Linked'
  BY <1>1, <1>2 DEF IInv, Linked, disk
<1>7. Progress'
  <2>1. elements = <<>> => elements' = <<>>
    <3> SUFFICES ASSUME elements = <<>> PROVE elements' = <<>>
      OBVIOUS
    <3>1. Len(elements') = 0
      BY <1>4
    <3> QED
      BY <3>1, <1>4, EmptySeq
  <2> QED
    BY <1>1, <1>2, <2>1 DEF IInv, Progress, InFiles
<1>8. \A e \in 1 .. Len(elements) :
          \/ elements'[e].state = "freed"
          \/ \E m, n \in 1 .. Len(in.plotted) :
                /\ m # n /\ PlotNames[m] = elements'[e].name
                /\ Bin[PlotNames[m]] = Bin[PlotNames[n]]
  <2> SUFFICES ASSUME NEW e \in 1 .. Len(elements)
               PROVE  \/ elements'[e].state = "freed"
                      \/ \E m, n \in 1 .. Len(in.plotted) :
                            /\ m # n /\ PlotNames[m] = elements[e].name
                            /\ Bin[PlotNames[m]] = Bin[PlotNames[n]]
    BY <1>4
  <2>1. CASE elements[e].state = "freed"
    BY <2>1, <1>4
  <2>2. CASE /\ elements[e].var \in Treated /\ elements[e].name \in Tabled
             /\ e = ecVisDecDataTables[elements[e].var][elements[e].name]
    <3>1. CASE e \in Freed
      BY <3>1, <1>4
    <3>2. CASE e \notin Freed
      <4>1. e \in InTables
        BY <2>2, <1>3 DEF InTables, Treated, Range, Places
      <4>2. PICK d \in InTables :
                /\ elements[d].var = elements[e].var
                /\ Bin[elements[d].name] = Bin[elements[e].name]
                /\ ~ (First(elements[e].name) <= First(elements[d].name))
        BY <3>2, <4>1 DEF Freed
      <4>3. PICK v \in Treated, n \in Tabled : d = ecVisDecDataTables[v][n]
        BY <1>3 DEF InTables, Treated, Range, Places
      <4>4. elements[d].name = n
        BY <4>3 DEF IInv, Reached, Element
      <4> DEFINE k == First(elements[e].name)
                 l == First(n)
      <4>5. /\ k \in 1 .. Len(in.plotted) /\ PlotNames[k] = elements[e].name
            /\ l \in 1 .. Len(in.plotted) /\ PlotNames[l] = n
        BY <1>3, <2>2, <4>3, FirstLast
      <4>6. k # l
        <5>1. ~ (k <= l)
          BY <4>2, <4>4
        <5>2. k \in Nat /\ l \in Nat
          BY <4>5
        <5> HIDE DEF k, l
        <5> QED
          BY <5>1, <5>2
      <4> HIDE DEF k, l
      <4> QED
        BY <4>2, <4>4, <4>5, <4>6
    <3> QED
      BY <3>1, <3>2
  <2> QED
    BY <2>1, <2>2 DEF IInv, Reached
<1>9. Reached' /\ ElementsFreed'
  <2>1. \A e \in 1 .. Len(elements') :
            \/ elements'[e].state = "freed"
            \/ \E m, n \in 1 .. Len(in'.plotted) :
                  /\ m # n /\ PlotNames'[m] = elements'[e].name
                  /\ Bin[PlotNames'[m]] = Bin[PlotNames'[n]]
    <3>1. in' = in /\ PlotNames' = PlotNames /\ Len(elements') = Len(elements)
      BY <1>1, <1>2, <1>4
    <3> QED
      BY <3>1, <1>8
  <2>2. ElementsFreed'
    BY <2>1 DEF ElementsFreed
  <2>3. \A v \in Treated' : \A n \in Tabled' : Element(v, n)'.var = v /\ Element(v, n)'.name = n
    BY <1>2
  <2> QED
    BY <2>1, <2>2, <2>3 DEF Reached
<1>10. Filled'
  <2>1. \A e \in 1 .. Len(elements) :
            /\ elements[e].cases \subseteq CasesOf(elements[e].var, elements[e].name)
            /\ \A f, g \in elements[e].cases : Key(f) = Key(g) => f = g
    BY DEF IInv, Filled
  <2>2. \A e \in 1 .. Len(elements) :
            /\ elements'[e].cases \subseteq CasesOf(elements[e].var, elements[e].name)
            /\ \A f, g \in elements'[e].cases : Key(f) = Key(g) => f = g
    BY <2>1, <1>4
  <2>3. \A e \in 1 .. Len(elements') :
            /\ elements'[e].cases \subseteq CasesOf(elements[e].var, elements[e].name)'
            /\ \A f, g \in elements'[e].cases : Key(f) = Key(g) => f = g
    BY <2>2, <1>2, <1>4 DEF CasesOf
  <2> QED
    BY <1>1, <2>3 DEF Filled, Key, InFiles
<1>11. Estimated' /\ Turns'
  BY <1>1 DEF Estimated, Turns
<1>12. Faults'
  BY <1>1, <1>2 DEF IInv, Faults, Places, HealedByRestart, ReportComplete, disk
<1> QED
  BY <1>5, <1>6, <1>7, <1>9, <1>10, <1>11, <1>12 DEF IInv

(* What is appended to a list follows what it held. *)
LEMMA Appended ==
    ASSUME NEW S, NEW s \in Seq(S), NEW r \in Seq(S)
    PROVE  /\ s \o r \in Seq(S) /\ Len(s \o r) = Len(s) + Len(r)
           /\ \A n \in 1 .. Len(s) : (s \o r)[n] = s[n]
           /\ \A n \in 1 .. Len(r) : (s \o r)[Len(s) + n] = r[n]
<1>1. s \o r \in Seq(S) /\ Len(s \o r) = Len(s) + Len(r) /\ Len(s) \in Nat /\ Len(r) \in Nat
  OBVIOUS
<1>2. \A n \in 1 .. Len(s) : (s \o r)[n] = s[n]
  OBVIOUS
<1>3. ASSUME NEW n \in 1 .. Len(r)
      PROVE  (s \o r)[Len(s) + n] = r[n]
  OBVIOUS
<1> QED
  BY <1>1, <1>2, <1>3

(* The new elements are those the table leads to, or replaced by one of    *)
(* the same name; a variable comes once.                                   *)
LEMMA LoadPropertyStep == ASSUME IInv, LoadProperty PROVE IInv'
<1> DEFINE P == Len(in.plotted)
           L == Len(elements)
           new(v) == [k \in 1 .. P |->
                       [var |-> v, name |-> PlotNames[k], cases |-> {},
                        settings |-> [t \in Range(in.CRs) |-> Unset],
                        state |-> IF k = Last(PlotNames[k]) THEN "live" ELSE "replaced"]]
<1>1. PICK v \in pending :
        /\ pc = "properties" /\ pending' = pending \ {v} /\ ecPropertyTable' = ecPropertyTable \cup {v}
        /\ \/ /\ NULL \in Range(PlotNames) /\ fault' = "null_name" /\ pc' = "stopped"
              /\ UNCHANGED <<ecVisDecDataTables, elements>>
           \/ /\ NULL \notin Range(PlotNames) /\ elements' = elements \o new(v)
              /\ ecVisDecDataTables' = [w \in Treated \cup {v} |->
                     IF w = v THEN [n \in Tabled |-> L + Last(n)] ELSE ecVisDecDataTables[w]]
              /\ UNCHANGED <<pc, fault>>
        /\ UNCHANGED <<in, disk, i, var, ecCompareDataTable>>
  BY DEF LoadProperty, Stop, Treated, Tabled
<1>2. /\ All' = All /\ Whole' = Whole /\ Tabled' = Tabled /\ (Fits' <=> Fits)
      /\ (Plottable' <=> Plottable) /\ ElementType' = ElementType /\ PlotNames' = PlotNames
      /\ Blank' = Blank
  BY <1>1, Fixed
<1>3. /\ Places /\ elements \in Seq(ElementType) /\ L \in Nat /\ P \in Nat /\ fault = "none"
      /\ pending \subseteq dataProperties /\ Treated = dataProperties \ pending
      /\ ecPropertyTable = Treated /\ dataProperties \subseteq Whole
      /\ ecCompareDataTable = [k \in {} |-> 0]
  BY <1>1, Conf DEF IInv, Places, Progress, Linked, Whole
<1>4. v \in Whole /\ v \notin Treated
  BY <1>3
<1>5. Linked'
  BY <1>1, <1>2, <1>3 DEF IInv, Linked, disk, Tabled
<1>6. CASE NULL \in Tabled
  <2>1. fault' = "null_name" /\ pc' = "stopped" /\ UNCHANGED <<ecVisDecDataTables, elements>>
    BY <1>1, <1>6 DEF Tabled
  <2>2. Treated' = Treated
    BY <2>1 DEF Treated
  <2>3. Reached' /\ Filled' /\ Estimated' /\ ElementsFreed'
    BY <1>1, <2>1, Stays DEF InFiles
  <2>4. Places'
    BY <1>1, <1>2, <1>3, <1>4, <2>1, <2>2 DEF Places, disk, InFiles
  <2>5. Progress'
    BY <1>1, <1>2, <2>1, <2>2 DEF IInv, Progress, InFiles
  <2>6. Turns'
    BY <2>1 DEF Turns
  <2>7. Faults'
    <3>1. ~ Fits
      BY <1>3, <1>6, PlottableNames DEF Fits
    <3> QED
      BY <3>1, <1>2, <2>1 DEF Faults, HealedByRestart, ReportComplete
  <2> QED
    BY <1>5, <2>3, <2>4, <2>5, <2>6, <2>7 DEF IInv
<1>7. CASE NULL \notin Tabled
  <2>1. /\ elements' = elements \o new(v) /\ pc' = pc /\ fault' = fault
        /\ ecVisDecDataTables' = [w \in Treated \cup {v} |->
               IF w = v THEN [n \in Tabled |-> L + Last(n)] ELSE ecVisDecDataTables[w]]
    BY <1>1, <1>7 DEF Tabled
  <2>2. Treated' = Treated \cup {v}
    BY <2>1 DEF Treated
  <2>3. PlotNames \in [1 .. P -> Tabled] /\ Tabled \subseteq Names
    BY <1>3, <1>7, Tables
  <2>4. new(v) \in Seq(ElementType) /\ Len(new(v)) = P
    <3>1. [t \in Range(in.CRs) |-> Unset] \in [Range(in.CRs) -> Setting]
      BY DEF Setting
    <3>2. \A k \in 1 .. P : new(v)[k] \in ElementType
      BY <3>1, <2>3, <1>4 DEF ElementType
    <3>3. new(v) \in [1 .. P -> ElementType]
      BY <3>2
    <3> HIDE DEF new
    <3> QED
      BY <3>3, <1>3
  <2>5. \A k \in 1 .. P :
            /\ new(v)[k].var = v /\ new(v)[k].name = PlotNames[k] /\ new(v)[k].cases = {}
            /\ new(v)[k].settings = Blank
            /\ new(v)[k].state = IF k = Last(PlotNames[k]) THEN "live" ELSE "replaced"
    BY DEF Blank
  <2> HIDE DEF new
  <2>6. /\ elements' \in Seq(ElementType) /\ Len(elements') = L + P
        /\ \A e \in 1 .. L : elements'[e] = elements[e]
        /\ \A k \in 1 .. P : elements'[L + k] = new(v)[k]
    <3> DEFINE r == new(v)
    <3>1. r \in Seq(ElementType) /\ Len(r) = P /\ elements' = elements \o r
      BY <2>1, <2>4
    <3>2. elements \in Seq(ElementType)
      BY <1>3
    <3> HIDE DEF r
    <3>3. \A T : \A a, b \in Seq(T) :
              /\ a \o b \in Seq(T) /\ Len(a \o b) = Len(a) + Len(b)
              /\ \A n \in 1 .. Len(a) : (a \o b)[n] = a[n]
              /\ \A n \in 1 .. Len(b) : (a \o b)[Len(a) + n] = b[n]
      BY Appended
    <3>4. /\ elements' \in Seq(ElementType) /\ Len(elements') = L + P
          /\ \A e \in 1 .. L : elements'[e] = elements[e]
          /\ \A k \in 1 .. P : elements'[L + k] = r[k]
      <4>1. /\ elements \o r \in Seq(ElementType) /\ Len(elements \o r) = Len(elements) + Len(r)
            /\ \A n \in 1 .. Len(elements) : (elements \o r)[n] = elements[n]
            /\ \A n \in 1 .. Len(r) : (elements \o r)[Len(elements) + n] = r[n]
        <5>1. elements \o r \in Seq(ElementType)
          BY <3>1, <3>2
        <5>2. Len(elements \o r) = Len(elements) + Len(r)
          <6>1. r \in Seq(ElementType)
            BY <3>1
          <6> QED
            BY <6>1, <3>2, <3>3, Zenon
        <5>3. \A n \in 1 .. Len(elements) : (elements \o r)[n] = elements[n]
          BY <3>1, <3>2
        <5>4. \A n \in 1 .. Len(r) : (elements \o r)[Len(elements) + n] = r[n]
          BY <3>1, <3>2
        <5> QED
          BY <5>1, <5>2, <5>3, <5>4
      <4> QED
        BY <3>1, <4>1
    <3> QED
      BY <3>4 DEF r
  <2>7. \A n \in Tabled : Last(n) \in 1 .. P /\ PlotNames[Last(n)] = n
    BY <1>3, FirstLast
  <2>8. ecVisDecDataTables \in [Treated -> [Tabled -> 1 .. L]]
    BY <1>3 DEF Places
  <2>9. ecVisDecDataTables' \in [Treated' -> [Tabled -> 1 .. L + P]]
    BY <2>1, <2>2, <2>7, <2>8, <1>3
  <2>10. \A e \in 1 .. L + P : e \in 1 .. L \/ \E k \in 1 .. P : e = L + k
    <3> TAKE e \in 1 .. L + P
    <3>1. e \in 1 .. L \/ (e - L \in 1 .. P /\ e = L + (e - L))
      BY <1>3
    <3> QED
      BY <3>1
  <2>11. Places'
    BY <1>1, <1>2, <1>3, <1>4, <2>1, <2>2, <2>6, <2>9 DEF Places, disk, InFiles
  <2>12. Progress'
    BY <1>1, <1>2, <1>3, <1>4, <1>7, <2>1, <2>2 DEF IInv, Progress, InFiles, disk
  <2>13. Reached'
    <3>1. ASSUME NEW w \in Treated', NEW n \in Tabled
          PROVE  elements'[ecVisDecDataTables'[w][n]].var = w /\ elements'[ecVisDecDataTables'[w][n]].name = n
      <4>1. CASE w = v
        <5>1. ecVisDecDataTables'[w][n] = L + Last(n)
          BY <2>1, <4>1
        <5>2. Last(n) \in 1 .. P /\ PlotNames[Last(n)] = n
          BY <2>7
        <5>3. elements'[ecVisDecDataTables'[w][n]] = new(v)[Last(n)]
          BY <5>1, <5>2, <2>6
        <5> QED
          BY <4>1, <5>2, <5>3, <2>5
      <4>2. CASE w # v
        <5>1. w \in Treated /\ ecVisDecDataTables'[w][n] = ecVisDecDataTables[w][n]
          BY <2>1, <2>2, <4>2
        <5>2. ecVisDecDataTables[w][n] \in 1 .. L
          BY <5>1, <2>8
        <5> QED
          BY <5>1, <5>2, <2>6 DEF IInv, Reached, Element
      <4> QED
        BY <4>1, <4>2
    <3> DEFINE Good(e) ==
                  \/ /\ elements'[e].state = "live" /\ elements'[e].var \in Treated'
                     /\ elements'[e].name \in Tabled
                     /\ e = ecVisDecDataTables'[elements'[e].var][elements'[e].name]
                  \/ elements'[e].state = "freed"
                  \/ \E m, n \in 1 .. P : /\ m # n /\ PlotNames[m] = elements'[e].name
                                          /\ Bin[PlotNames[m]] = Bin[PlotNames[n]]
    <3>2. ASSUME NEW e \in 1 .. L PROVE Good(e)
      <4>1. elements'[e] = elements[e]
        BY <2>6
      <4>2. \A w \in Treated : w \in Treated' /\ ecVisDecDataTables'[w] = ecVisDecDataTables[w]
        BY <2>1, <2>2, <1>4
      <4> QED
        BY <4>1, <4>2 DEF IInv, Reached
    <3>3. ASSUME NEW k \in 1 .. P PROVE Good(L + k)
      <4>1. elements'[L + k] = new(v)[k]
        BY <2>6
      <4>2. PlotNames[k] \in Tabled
        BY <2>3
      <4>3. CASE k = Last(PlotNames[k])
        <5>1. ecVisDecDataTables'[v][PlotNames[k]] = L + k
          BY <2>1, <4>2, <4>3
        <5> QED
          BY <4>1, <4>2, <4>3, <5>1, <2>2, <2>5
      <4>4. CASE k # Last(PlotNames[k])
        BY <4>1, <4>2, <4>4, <2>5, <2>7
      <4> QED
        BY <4>3, <4>4
    <3> HIDE DEF Good
    <3>4. \A e \in 1 .. L + P : Good(e)
      BY <3>2, <3>3, <2>10
    <3>5. pc' # "done" /\ in' = in /\ Len(elements') = L + P
      BY <1>1, <2>1, <2>6
    <3>6. \A w \in Treated' : \A n \in Tabled' : Element(w, n)'.var = w /\ Element(w, n)'.name = n
      BY <3>1, <1>2 DEF Element
    <3>7. \A e \in 1 .. Len(elements') :
           \/ /\ pc' # "done" /\ elements'[e].state = "live" /\ elements'[e].var \in Treated'
              /\ elements'[e].name \in Tabled'
              /\ e = ecVisDecDataTables'[elements'[e].var][elements'[e].name]
           \/ elements'[e].state = "freed"
           \/ \E m, n \in 1 .. Len(in'.plotted) :
                /\ m # n /\ PlotNames'[m] = elements'[e].name
                /\ Bin[PlotNames'[m]] = Bin[PlotNames'[n]]
      BY <3>4, <3>5, <1>2 DEF Good
    <3> QED
      BY <3>6, <3>7 DEF Reached
  <2>14. Filled'
    <3>1. \A e \in 1 .. L + P :
            /\ elements'[e].cases \subseteq CasesOf(elements'[e].var, elements'[e].name)
            /\ \A f, g \in elements'[e].cases : Key(f) = Key(g) => f = g
            /\ \A f \in elements'[e].cases : Key(f) \in DOMAIN ecCompareDataTable
      <4> TAKE e \in 1 .. L + P
      <4>1. CASE e \in 1 .. L
        BY <4>1, <2>6, <1>1 DEF IInv, Filled
      <4>2. CASE \E k \in 1 .. P : e = L + k
        BY <4>2, <2>5, <2>6
      <4> QED
        BY <4>1, <4>2, <2>10
    <3>2. ~ InFiles'
      BY <1>1, <2>1 DEF InFiles
    <3>3. \A e \in 1 .. Len(elements') :
            /\ elements'[e].cases \subseteq CasesOf(elements[e].var, elements[e].name)'
            /\ \A f, g \in elements'[e].cases : Key(f) = Key(g) => f = g
            /\ \A f \in elements'[e].cases : Key(f) \in DOMAIN ecCompareDataTable'
      BY <3>1, <1>1, <1>2, <2>6 DEF CasesOf
    <3> QED
      BY <3>2, <3>3 DEF Filled, Key
  <2>15. Estimated'
    <3>1. \A e \in 1 .. L : elements[e].settings = Blank
      BY <1>1 DEF IInv, Estimated
    <3>2. \A e \in 1 .. L + P : elements'[e].settings = Blank
      <4> TAKE e \in 1 .. L + P
      <4>1. CASE e \in 1 .. L
        BY <4>1, <3>1, <2>6
      <4>2. CASE \E k \in 1 .. P : e = L + k
        BY <4>2, <2>5, <2>6
      <4> QED
        BY <4>1, <4>2, <2>10
    <3>3. \A e \in 1 .. Len(elements') : elements'[e].settings = Blank'
      BY <3>2, <2>6, <1>2
    <3> QED
      BY <3>3 DEF Estimated
  <2>16. Turns' /\ ElementsFreed'
    BY <1>1, <2>1 DEF Turns, ElementsFreed
  <2>17. Faults'
    BY <1>1, <1>2, <1>3, <2>1 DEF IInv, Faults, HealedByRestart, ReportComplete, disk
  <2> QED
    BY <1>5, <2>11, <2>12, <2>13, <2>14, <2>15, <2>16, <2>17 DEF IInv
<1> QED
  BY <1>6, <1>7

(* A plottable configuration has results of each element, and room for all. *)
LEMMA Room ==
    ASSUME Places, Plottable, NEW v \in Whole, NEW n \in Range(in.plotted)
    PROVE  /\ CasesOf(v, n) # {}
           /\ \A cases \in SUBSET CasesOf(v, n) : \A f \in CasesOf(v, n) :
                  /\ \A g, h \in cases : Key(g) = Key(h) => g = h
                  /\ \A g \in cases : Key(g) # Key(f)
                  => Cardinality(cases) # MaxCases
<1> DEFINE S == CasesOf(v, n)
           K == {Key(f) : f \in S}
<1>1. Cardinality(K) \in 1 .. MaxCases
  <2>1. K = {Key(f) : f \in {g \in UNION Range(in.files) : g.cmp = n /\ g.var = v}}
    BY DEF CasesOf, All
  <2> QED
    BY <2>1 DEF Plottable, Whole
<1>2. S \in SUBSET All /\ IsFiniteSet(S)
  BY AllFinite, FS_Subset DEF CasesOf
<1>3. [f \in S |-> Key(f)] \in Surjection(S, K)
  <2>1. [f \in S |-> Key(f)] \in [S -> K]
    OBVIOUS
  <2>2. \A k \in K : \E f \in S : [g \in S |-> Key(g)][f] = k
    OBVIOUS
  <2> HIDE DEF S, K
  <2> QED
    BY <2>1, <2>2, Fun_IsSurj
<1>4. IsFiniteSet(K)
  <2> HIDE DEF S, K
  <2> QED
    BY <1>2, <1>3, FS_Surjection
<1>5. S # {}
  <2> SUFFICES ASSUME S = {} PROVE FALSE
    OBVIOUS
  <2>1. K = {}
    OBVIOUS
  <2>2. Cardinality(K) = 0
    <3> HIDE DEF K
    <3> QED
      BY <2>1, FS_EmptySet
  <2> HIDE DEF K
  <2> QED
    BY <2>2, <1>1
<1>6. ASSUME NEW cases \in SUBSET S, NEW f \in S,
             \A g, h \in cases : Key(g) = Key(h) => g = h, \A g \in cases : Key(g) # Key(f)
      PROVE  Cardinality(cases) # MaxCases
  <2> DEFINE C == cases \cup {f}
             m == [g \in C |-> Key(g)]
  <2>1. m \in [C -> K] /\ \A g, h \in C : m[g] = m[h] => g = h
    <3>1. \A g \in C : Key(g) \in K
      OBVIOUS
    <3>2. \A g, h \in C : Key(g) = Key(h) => g = h
      BY <1>6
    <3> HIDE DEF K, C
    <3> QED
      BY <3>1, <3>2
  <2>2. Cardinality(C) <= Cardinality(K)
    <3> HIDE DEF C, K, m
    <3>1. m \in Injection(C, K)
      BY <2>1, Fun_IsInj
    <3> QED
      BY <3>1, <1>4, FS_Injection
  <2>3. f \notin cases
    BY <1>6
  <2>4. IsFiniteSet(cases)
    BY <1>2, FS_Subset
  <2>5. Cardinality(C) = Cardinality(cases) + 1 /\ Cardinality(cases) \in Nat
    BY <2>3, <2>4, FS_AddElement, FS_CardinalityType
  <2> HIDE DEF C, K
  <2> QED
    BY <2>2, <2>5, <1>1, BoundAssumption
<1> QED
  BY <1>5, <1>6

(* An element with other results, or other settings, remains one. *)
LEMMA CasesUpdate ==
    ASSUME NEW x \in ElementType, NEW S \in SUBSET Case, NEW y, y = [x EXCEPT !.cases = S]
    PROVE  /\ y \in ElementType /\ y.cases = S
           /\ y.var = x.var /\ y.name = x.name /\ y.settings = x.settings /\ y.state = x.state
BY DEF ElementType

LEMMA SettingsUpdate ==
    ASSUME NEW x \in ElementType, NEW S \in [Range(in.CRs) -> Setting], NEW y,
           y = [x EXCEPT !.settings = S]
    PROVE  /\ y \in ElementType /\ y.settings = S
           /\ y.var = x.var /\ y.name = x.name /\ y.cases = x.cases /\ y.state = x.state
BY DEF ElementType

(* An element keeps its variable, name and state when it gets results or a *)
(* setting, and the tables lead to it as before.                           *)
LEMMA ReachedStays ==
    ASSUME IInv, UNCHANGED <<in, pc, ecVisDecDataTables>>, Len(elements') = Len(elements),
           \A d \in 1 .. Len(elements) :
               /\ elements'[d].var = elements[d].var /\ elements'[d].name = elements[d].name
               /\ elements'[d].state = elements[d].state
    PROVE  Reached'
<1>1. Tabled' = Tabled /\ PlotNames' = PlotNames /\ Treated' = Treated
  BY Fixed DEF Treated
<1>2. ASSUME NEW v \in Treated, NEW n \in Tabled
      PROVE  elements'[ecVisDecDataTables[v][n]].var = v /\ elements'[ecVisDecDataTables[v][n]].name = n
  <2>1. ecVisDecDataTables[v][n] \in 1 .. Len(elements)
    BY DEF IInv, Places
  <2>2. Element(v, n).var = v /\ Element(v, n).name = n
    BY DEF IInv, Reached
  <2> QED
    BY <2>1, <2>2 DEF Element
<1> DEFINE Good(d, x) ==
              \/ /\ pc # "done" /\ x.state = "live" /\ x.var \in Treated /\ x.name \in Tabled
                 /\ d = ecVisDecDataTables[x.var][x.name]
              \/ x.state = "freed"
              \/ \E m, n \in 1 .. Len(in.plotted) : /\ m # n /\ PlotNames[m] = x.name
                                                    /\ Bin[PlotNames[m]] = Bin[PlotNames[n]]
<1>3. \A d \in 1 .. Len(elements) : Good(d, elements[d])
  BY DEF IInv, Reached
<1>4. ASSUME NEW d \in 1 .. Len(elements) PROVE Good(d, elements'[d])
  <2>1. /\ elements'[d].state = elements[d].state /\ elements'[d].var = elements[d].var
        /\ elements'[d].name = elements[d].name
    OBVIOUS
  <2>2. Good(d, elements[d])
    BY <1>3
  <2> QED
    BY <2>1, <2>2
<1>5. \A v \in Treated' : \A n \in Tabled' : Element(v, n)'.var = v /\ Element(v, n)'.name = n
  BY <1>1, <1>2 DEF Element
<1>6. \A d \in 1 .. Len(elements') :
       \/ /\ pc' # "done" /\ elements'[d].state = "live" /\ elements'[d].var \in Treated'
          /\ elements'[d].name \in Tabled'
          /\ d = ecVisDecDataTables'[elements'[d].var][elements'[d].name]
       \/ elements'[d].state = "freed"
       \/ \E m, n \in 1 .. Len(in'.plotted) :
            /\ m # n /\ PlotNames'[m] = elements'[d].name
            /\ Bin[PlotNames'[m]] = Bin[PlotNames'[n]]
  BY <1>1, <1>4
<1> QED
  BY <1>5, <1>6 DEF Reached

(* A plotted result goes to its own element, which has room for it.        *)
LEMMA LoadResultStep == ASSUME IInv, LoadResult PROVE IInv'
<1>1. PICK f \in pending :
        /\ pc = "results" /\ pending' = pending \ {f}
        /\ UNCHANGED <<in, disk, i, var, ecPropertyTable, ecVisDecDataTables>>
        /\ \/ /\ Key(f) \in DOMAIN ecCompareDataTable
              /\ UNCHANGED <<ecCompareDataTable, elements, pc, fault>>
           \/ /\ Key(f) \notin DOMAIN ecCompareDataTable
              /\ DOMAIN ecCompareDataTable' = DOMAIN ecCompareDataTable \cup {Key(f)}
              /\ \/ /\ Misplaced(f) # "none" /\ fault' = Misplaced(f) /\ pc' = "stopped"
                    /\ elements' = elements
                 \/ /\ Misplaced(f) = "none" /\ UNCHANGED <<pc, fault>>
                    /\ elements' = IF isInPlotDecCompressors(f.cmp)
                                   THEN [elements EXCEPT
                                           ![ecVisDecDataTables[f.var][f.cmp]].cases = @ \cup {f}]
                                   ELSE elements
  BY DEF LoadResult, Stop
<1>2. /\ All' = All /\ Whole' = Whole /\ Tabled' = Tabled /\ (Fits' <=> Fits)
      /\ (Plottable' <=> Plottable) /\ ElementType' = ElementType /\ PlotNames' = PlotNames
      /\ Blank' = Blank /\ Treated' = Treated
  BY <1>1, Fixed DEF Treated
<1>3. /\ Places /\ elements \in Seq(ElementType) /\ fault = "none"
      /\ i \in 1 .. Len(in.compressors) /\ pending \subseteq in.files[i]
      /\ ecVisDecDataTables \in [Treated -> [Tabled -> 1 .. Len(elements)]]
      /\ Treated = IF run = 1 THEN in.properties ELSE Whole
  BY <1>1 DEF IInv, Places, Progress, InFiles
<1>4. f \in All /\ f \in Case
  BY <1>3, AllFinite
<1>5. Linked'
  BY <1>1, <1>2 DEF IInv, Linked, disk
<1>6. Turns' /\ ElementsFreed'
  BY <1>1 DEF Turns, ElementsFreed
<1>7. DOMAIN ecCompareDataTable' = DOMAIN ecCompareDataTable \cup {Key(f)}
  BY <1>1
<1>8. pc' = "stopped" \/ pc' = "results"
  BY <1>1
<1>9. elements = <<>> => elements' = elements
  <2> SUFFICES ASSUME elements = <<>>, isInPlotDecCompressors(f.cmp), Misplaced(f) = "none"
               PROVE  FALSE
    BY <1>1
  <2>1. f.var \in Treated /\ f.cmp \in DOMAIN ecVisDecDataTables[f.var]
    BY DEF Misplaced, Treated
  <2>2. ecVisDecDataTables[f.var][f.cmp] \in 1 .. Len(elements)
    BY <2>1, <1>3
  <2> QED
    BY <2>2
<1>10. Progress'
  <2>1. pc' = "results" =>
           /\ i \in 1 .. Len(in.compressors) /\ pending' \subseteq in.files[i]
           /\ \A n \in 1 .. i : \A g \in in.files[n] :
                  Key(g) \in DOMAIN ecCompareDataTable' \/ (n = i /\ g \in pending')
    <3>1. \A n \in 1 .. i : \A g \in in.files[n] :
               Key(g) \in DOMAIN ecCompareDataTable \/ (n = i /\ g \in pending)
      BY <1>1 DEF IInv, Progress
    <3> QED
      BY <3>1, <1>1, <1>3, <1>7
  <2>2. NULL \in Tabled' => Treated' = {} /\ elements' = <<>>
    BY <1>2, <1>9 DEF IInv, Progress
  <2>3. pc' = "results" =>
           /\ i' \in 1 .. Len(in'.compressors) /\ pending' \subseteq in'.files[i']
           /\ \A n \in 1 .. i' : \A g \in in'.files[n] :
                  Key(g)' \in DOMAIN ecCompareDataTable' \/ (n = i' /\ g \in pending')
    BY <2>1, <1>1 DEF Key
  <2>4. InFiles' => Treated' = IF run' = 1 THEN in'.properties ELSE Whole'
    BY <1>1, <1>2, <1>3 DEF disk
  <2> QED
    BY <1>8, <2>2, <2>3, <2>4 DEF Progress, InFiles
<1>11. Fits /\ Key(f) \notin DOMAIN ecCompareDataTable => Misplaced(f) = "none"
  <2> SUFFICES ASSUME Fits, Key(f) \notin DOMAIN ecCompareDataTable,
                      isInPlotDecCompressors(f.cmp), Misplaced(f) # "none"
               PROVE  FALSE
    BY DEF Misplaced
  <2>1. Plottable
    BY DEF Fits
  <2>2. f.cmp \in Tabled /\ f.var \in in.properties /\ f.cmp \in Range(in.plotted)
    BY <1>3, <1>4, <2>1, PlottableNames
  <2>3. f.var \in Treated /\ f.var \in Whole
    BY <1>3, <2>2 DEF Whole
  <2>4. f.cmp \in DOMAIN ecVisDecDataTables[f.var] /\ ecVisDecDataTables[f.var][f.cmp] \in 1 .. Len(elements)
    BY <1>3, <2>2, <2>3
  <2> DEFINE e == ecVisDecDataTables[f.var][f.cmp]
  <2>5. Cardinality(elements[e].cases) = MaxCases
    BY <2>3, <2>4 DEF Misplaced, Treated
  <2>6. elements[e].var = f.var /\ elements[e].name = f.cmp
    BY <2>2, <2>3 DEF IInv, Reached, Element
  <2>7. /\ elements[e].cases \in SUBSET CasesOf(f.var, f.cmp)
        /\ \A g, h \in elements[e].cases : Key(g) = Key(h) => g = h
        /\ \A g \in elements[e].cases : Key(g) \in DOMAIN ecCompareDataTable
    BY <2>4, <2>6, <1>1 DEF IInv, Filled
  <2>8. f \in CasesOf(f.var, f.cmp) /\ \A g \in elements[e].cases : Key(g) # Key(f)
    BY <1>4, <2>7 DEF CasesOf
  <2> HIDE DEF e
  <2> QED
    BY <2>1, <2>2, <2>3, <2>5, <2>7, <2>8, <1>3, Room
<1>12. CASE Key(f) \in DOMAIN ecCompareDataTable
  <2>1. Reached' /\ Filled' /\ Estimated'
    BY <1>1, <1>3, <1>12, Stays DEF InFiles
  <2>2. Places'
    BY <1>1, <1>2, <1>12 DEF IInv, Places, disk, InFiles
  <2>3. Faults'
    BY <1>1, <1>2, <1>12 DEF IInv, Faults, HealedByRestart, ReportComplete, disk
  <2> QED
    BY <1>5, <1>6, <1>10, <2>1, <2>2, <2>3 DEF IInv
<1>13. CASE Key(f) \notin DOMAIN ecCompareDataTable /\ Misplaced(f) # "none"
  <2>1. fault' = Misplaced(f) /\ pc' = "stopped" /\ elements' = elements
    BY <1>1, <1>13
  <2>2. Reached' /\ Filled' /\ Estimated'
    BY <1>1, <1>7, <2>1, Stays DEF InFiles
  <2>3. Places'
    BY <1>1, <1>2, <1>13, <2>1 DEF IInv, Places, disk, InFiles
  <2>4. Faults'
    <3>1. ~ Fits
      BY <1>11, <1>13
    <3>2. fault' \in {"none", "no_variable", "no_element", "overflow"}
          /\ (fault' = "no_variable" => f.var \notin Treated)
      BY <2>1 DEF Misplaced, Treated
    <3>3. HealedByRestart'
      <4> SUFFICES ASSUME \A g \in All : g.var \in Whole, fault' = "no_variable" PROVE run' = 1
        BY <1>1, <1>2 DEF HealedByRestart, All, Whole
      <4>1. f.var \in Whole /\ f.var \notin Treated
        BY <1>4, <3>2
      <4> QED
        BY <4>1, <1>1, <1>3 DEF disk
    <3> QED
      BY <3>1, <3>2, <3>3, <1>2 DEF Faults, ReportComplete
  <2> QED
    BY <1>5, <1>6, <1>10, <2>2, <2>3, <2>4 DEF IInv
<1>14. CASE Key(f) \notin DOMAIN ecCompareDataTable /\ Misplaced(f) = "none"
  <2> DEFINE e == ecVisDecDataTables[f.var][f.cmp]
             plotted == isInPlotDecCompressors(f.cmp)
  <2>1. /\ UNCHANGED <<pc, fault>>
        /\ elements' = IF plotted THEN [elements EXCEPT ![e].cases = @ \cup {f}] ELSE elements
    BY <1>1, <1>14
  <2>2. plotted => f.var \in Treated /\ f.cmp \in Tabled /\ e \in 1 .. Len(elements)
    <3>1. plotted => f.var \in Treated /\ f.cmp \in DOMAIN ecVisDecDataTables[f.var]
      BY <1>14 DEF Misplaced, Treated
    <3> QED
      BY <3>1, <1>3
  <2>3. plotted => elements[e].var = f.var /\ elements[e].name = f.cmp
    BY <2>2 DEF IInv, Reached, Element
  <2>4. \A d \in 1 .. Len(elements) : elements[d] \in ElementType
    BY <1>3
  <2> HIDE DEF e, plotted
  <2>5. /\ elements' \in Seq(ElementType) /\ Len(elements') = Len(elements)
        /\ \A d \in 1 .. Len(elements) :
             /\ elements'[d].var = elements[d].var /\ elements'[d].name = elements[d].name
             /\ elements'[d].settings = elements[d].settings /\ elements'[d].state = elements[d].state
             /\ elements'[d].cases = IF plotted /\ d = e THEN elements[d].cases \cup {f}
                                     ELSE elements[d].cases
    <3>1. CASE plotted
      <4>1. elements' = [elements EXCEPT ![e].cases = @ \cup {f}] /\ e \in 1 .. Len(elements)
        BY <2>1, <2>2, <3>1
      <4> DEFINE X == [elements[e] EXCEPT !.cases = elements[e].cases \cup {f}]
      <4>2. elements' = [elements EXCEPT ![e] = X]
        BY <4>1
      <4>3. elements[e] \in ElementType /\ elements[e].cases \cup {f} \in SUBSET Case
        BY <4>1, <2>4, <1>4 DEF ElementType
      <4>4. /\ X \in ElementType /\ X.cases = elements[e].cases \cup {f}
            /\ X.var = elements[e].var /\ X.name = elements[e].name
            /\ X.settings = elements[e].settings /\ X.state = elements[e].state
        BY <4>3, CasesUpdate
      <4> HIDE DEF X
      <4>5. /\ elements' \in Seq(ElementType) /\ Len(elements') = Len(elements) /\ elements'[e] = X
            /\ \A d \in 1 .. Len(elements) : d # e => elements'[d] = elements[d]
        <5>1. elements \in Seq(ElementType) /\ e \in 1 .. Len(elements) /\ X \in ElementType
          BY <4>1, <4>4, <1>3
        <5>2. elements \in [1 .. Len(elements) -> ElementType] /\ Len(elements) \in Nat
          BY <5>1
        <5>3. elements' \in [1 .. Len(elements) -> ElementType] /\ elements'[e] = X
          BY <5>1, <5>2, <4>2
        <5>4. \A d \in 1 .. Len(elements) : d # e => elements'[d] = elements[d]
          BY <5>1, <5>2, <4>2
        <5>5. elements' \in Seq(ElementType) /\ Len(elements') = Len(elements)
          BY <5>2, <5>3
        <5> QED
          BY <5>3, <5>4, <5>5
      <4> QED
        BY <3>1, <4>4, <4>5
    <3>2. CASE ~ plotted
      BY <3>2, <2>1, <1>3
    <3> QED
      BY <3>1, <3>2
  <2>6. Places'
    BY <1>1, <1>2, <2>1, <2>5 DEF IInv, Places, disk, InFiles
  <2>7. Reached'
    BY <1>1, <2>1, <2>5, ReachedStays
  <2>8. Filled'
    <3>1. \A d \in 1 .. Len(elements) :
             /\ elements[d].cases \subseteq CasesOf(elements[d].var, elements[d].name)
             /\ \A g, h \in elements[d].cases : Key(g) = Key(h) => g = h
             /\ \A g \in elements[d].cases : Key(g) \in DOMAIN ecCompareDataTable
      BY <1>1 DEF IInv, Filled
    <3>2. \A d \in 1 .. Len(elements') :
             /\ elements'[d].cases \subseteq CasesOf(elements'[d].var, elements'[d].name)
             /\ \A g, h \in elements'[d].cases : Key(g) = Key(h) => g = h
             /\ \A g \in elements'[d].cases : Key(g) \in DOMAIN ecCompareDataTable'
      <4> TAKE d \in 1 .. Len(elements')
      <4>1. CASE plotted /\ d = e
        <5>1. elements'[d].cases = elements[d].cases \cup {f}
          BY <4>1, <2>5
        <5>2. f \in CasesOf(elements'[d].var, elements'[d].name)
          BY <4>1, <2>3, <2>5, <1>4 DEF CasesOf
        <5>3. \A g \in elements[d].cases : Key(g) # Key(f)
          BY <3>1, <2>5, <1>14
        <5> QED
          BY <5>1, <5>2, <5>3, <3>1, <2>5, <1>7
      <4>2. CASE ~ (plotted /\ d = e)
        BY <4>2, <3>1, <2>5, <1>7
      <4> QED
        BY <4>1, <4>2
    <3>3. ASSUME Plottable, NEW g \in All, isInPlotDecCompressors(g.cmp),
                 Key(g) \in DOMAIN ecCompareDataTable'
          PROVE  elements'[ecVisDecDataTables[g.var][g.cmp]].cases # {}
      <4>1. g.cmp \in Tabled /\ g.var \in Treated
        BY <3>3, <1>3, PlottableNames DEF Whole
      <4>2. ecVisDecDataTables[g.var][g.cmp] \in 1 .. Len(elements)
        BY <4>1, <1>3
      <4>3. CASE Key(g) \in DOMAIN ecCompareDataTable
        <5>1. elements[ecVisDecDataTables[g.var][g.cmp]].cases # {}
          BY <3>3, <4>3, <1>1, <1>3 DEF IInv, Filled, Element, InFiles
        <5> QED
          BY <5>1, <4>2, <2>5
      <4>4. CASE Key(g) = Key(f)
        <5>1. g.cmp = f.cmp /\ g.var = f.var
          BY <4>4 DEF Key
        <5>2. plotted /\ ecVisDecDataTables[g.var][g.cmp] = e
          BY <5>1, <3>3 DEF plotted, e
        <5> QED
          BY <5>2, <4>2, <2>5
      <4> QED
        BY <3>3, <4>3, <4>4, <1>7
    <3>4. \A d \in 1 .. Len(elements') :
             /\ elements'[d].cases \subseteq CasesOf(elements[d].var, elements[d].name)'
             /\ \A g, h \in elements'[d].cases : Key(g) = Key(h) => g = h
             /\ \A g \in elements'[d].cases : Key(g) \in DOMAIN ecCompareDataTable'
      BY <3>2, <1>2 DEF CasesOf
    <3>5. Plottable' =>
            \A g \in All' : isInPlotDecCompressors(g.cmp)' /\ Key(g) \in DOMAIN ecCompareDataTable' =>
                Element(g.var, g.cmp)'.cases # {}
      BY <3>3, <1>1, <1>2 DEF isInPlotDecCompressors, Element
    <3> QED
      BY <3>4, <3>5 DEF Filled, Key
  <2>9. Estimated'
    <3>1. \A d \in 1 .. Len(elements) : elements[d].settings = Blank
      BY <1>1 DEF IInv, Estimated
    <3>2. \A d \in 1 .. Len(elements') : elements'[d].settings = Blank'
      BY <3>1, <2>5, <1>2
    <3> QED
      BY <3>2 DEF Estimated
  <2>10. Faults'
    BY <1>1, <1>2, <1>3, <2>1 DEF IInv, Faults, HealedByRestart, ReportComplete, disk
  <2> QED
    BY <1>5, <1>6, <1>10, <2>6, <2>7, <2>8, <2>9, <2>10 DEF IInv
<1> QED
  BY <1>12, <1>13, <1>14

(* What an estimate is made of. *)
LEMMA EstimateIs ==
    ASSUME Places, NEW cases \in SUBSET All, NEW s \in Sorted(cases), cases # {},
           NEW t \in Range(in.CRs)
    PROVE  /\ cases \in SUBSET Case /\ IsFiniteSet(cases) /\ s \in Seq(cases) /\ s # <<>> /\ t \in Nat
           /\ SettingOf(s, t, computeErrorSetting(in.mode, s, t))
<1>1. cases \in SUBSET Case /\ IsFiniteSet(cases)
  BY AllFinite, FS_Subset
<1>2. s \in Seq(cases) /\ Len(s) = Cardinality(cases) /\ Len(s) \in Nat /\ Ordered(s)
  BY <1>1, SortedIs
<1>3. s # <<>>
  <2>1. PICK f \in cases : TRUE
    OBVIOUS
  <2>2. \E n \in 1 .. Len(s) : s[n] = f
    BY <1>1, SortedIs
  <2> QED
    BY <2>2
<1>4. t \in Nat /\ in.mode \in Modes
  <2>1. in.CRs \in Seq(Nat)
    BY Conf
  <2>2. PICK n \in 1 .. Len(in.CRs) : t = in.CRs[n]
    BY <2>1 DEF Range
  <2> QED
    BY <2>1, <2>2, Conf, ElementOfSeq
<1>5. SettingOf(s, t, computeErrorSetting(in.mode, s, t))
  BY <1>1, <1>2, <1>3, <1>4, SettingIs
<1> QED
  BY <1>1, <1>2, <1>3, <1>4, <1>5

(* The setting is estimated from the results its element has, and an       *)
(* element has results before its turn comes.                              *)
LEMMA IdentifyErrorSettingStep == ASSUME IInv, IdentifyErrorSetting PROVE IInv'
<1> DEFINE C == in.compressors[i]
<1>1. PICK v \in IF i = 1 THEN pending ELSE {var} :
        /\ pc = "settings" /\ var' = v
        /\ \/ /\ i > Len(in.compressors)
              /\ fault' = "null_name" /\ pc' = "stopped" /\ UNCHANGED <<elements, pending, i>>
           \/ /\ ~ (i > Len(in.compressors)) /\ C \notin DOMAIN ecVisDecDataTables[v]
              /\ fault' = "no_element" /\ pc' = "stopped" /\ UNCHANGED <<elements, pending, i>>
           \/ /\ ~ (i > Len(in.compressors)) /\ C \in DOMAIN ecVisDecDataTables[v]
              /\ elements[ecVisDecDataTables[v][C]].cases = {}
              /\ fault' = "no_cases" /\ pc' = "stopped" /\ UNCHANGED <<elements, pending, i>>
           \/ /\ ~ (i > Len(in.compressors)) /\ C \in DOMAIN ecVisDecDataTables[v]
              /\ elements[ecVisDecDataTables[v][C]].cases # {}
              /\ \E s \in Sorted(elements[ecVisDecDataTables[v][C]].cases) :
                     elements' = [elements EXCEPT ![ecVisDecDataTables[v][C]].settings =
                                    [t \in Range(in.CRs) |-> computeErrorSetting(in.mode, s, t)]]
              /\ i' = (IF i = Plots THEN 1 ELSE i + 1)
              /\ pending' = (IF i = Plots THEN pending \ {v} ELSE pending)
              /\ UNCHANGED <<pc, fault>>
        /\ UNCHANGED <<in, disk, ecPropertyTable, ecCompareDataTable, ecVisDecDataTables>>
  BY DEF IdentifyErrorSetting, Stop
<1>2. /\ All' = All /\ Whole' = Whole /\ Tabled' = Tabled /\ (Fits' <=> Fits)
      /\ (Plottable' <=> Plottable) /\ ElementType' = ElementType /\ PlotNames' = PlotNames
      /\ Blank' = Blank /\ Treated' = Treated
  BY <1>1, Fixed DEF Treated
<1>3. /\ Places /\ elements \in Seq(ElementType) /\ fault = "none"
      /\ pending \subseteq Treated /\ i \in 1 .. Plots /\ (i > 1 => var \in pending)
      /\ ecVisDecDataTables \in [Treated -> [Tabled -> 1 .. Len(elements)]]
      /\ Treated = (IF run = 1 THEN in.properties ELSE Whole) /\ Treated \subseteq Whole
      /\ \A f \in All : Key(f) \in DOMAIN ecCompareDataTable
  BY <1>1 DEF IInv, Places, Progress, InFiles, Turns
<1>4. Plots = Len(in.plotted) /\ Plots \in Nat /\ Len(in.compressors) \in Nat /\ 1 \in 1 .. Plots
  BY <1>3, Conf DEF Plots
<1>5. v \in pending /\ v \in Treated /\ v \in Whole /\ (i > 1 => v = var)
  <2>1. v \in IF i = 1 THEN pending ELSE {var}
    OBVIOUS
  <2>2. CASE i = 1
    BY <2>1, <2>2, <1>3
  <2>3. CASE i # 1
    <3>1. v = var /\ i > 1
      BY <2>1, <2>3, <1>3, <1>4
    <3> QED
      BY <3>1, <1>3
  <2> QED
    BY <2>2, <2>3
<1>6. DOMAIN ecVisDecDataTables[v] = Tabled
  BY <1>3, <1>5
<1>7. Linked'
  BY <1>1, <1>2 DEF IInv, Linked, disk
<1>8. Fits => /\ ~ (i > Len(in.compressors)) /\ C \in Tabled
              /\ elements[ecVisDecDataTables[v][C]].cases # {}
  <2> SUFFICES ASSUME Fits
               PROVE  /\ ~ (i > Len(in.compressors)) /\ C \in Tabled
                      /\ elements[ecVisDecDataTables[v][C]].cases # {}
    OBVIOUS
  <2>1. ~ (i > Len(in.compressors))
    BY <1>3, <1>4 DEF Fits, Prefix
  <2>2. C \in Range(in.plotted)
    BY <1>3, <1>4 DEF Fits, Prefix
  <2>3. C \in Tabled /\ isInPlotDecCompressors(C)
    BY <2>2, <1>3, PlottableNames DEF Fits
  <2>4. PICK f \in All : f.cmp = C /\ f.var = v
    BY <2>2, <1>3, <1>5, Room DEF Fits, CasesOf
  <2>5. Element(f.var, f.cmp).cases # {}
    BY <2>3, <2>4, <1>1, <1>3 DEF IInv, Filled, InFiles, Fits
  <2> QED
    BY <2>1, <2>3, <2>4, <2>5 DEF Element
<1>9. CASE pc' = "stopped"
  <2>1. /\ fault' \in {"null_name", "no_element", "no_cases"} /\ ~ Fits
        /\ UNCHANGED <<in, run, elements, pending, i, ecCompareDataTable, ecVisDecDataTables>>
    BY <1>1, <1>6, <1>8, <1>9 DEF disk
  <2>2. Reached' /\ Filled' /\ Estimated' /\ ElementsFreed'
    BY <1>1, <1>9, <2>1, Stays DEF InFiles
  <2>3. Places'
    BY <1>1, <1>2, <1>3, <1>5, <1>9, <2>1 DEF Places, disk, InFiles
  <2>4. Progress'
    BY <1>1, <1>2, <1>9, <2>1 DEF IInv, Progress, InFiles
  <2>5. Turns'
    BY <1>9 DEF Turns
  <2>6. Faults'
    BY <1>1, <1>2, <2>1 DEF Faults, HealedByRestart, ReportComplete
  <2> QED
    BY <1>7, <2>2, <2>3, <2>4, <2>5, <2>6 DEF IInv
<1>10. CASE pc' # "stopped"
  <2> DEFINE e == ecVisDecDataTables[v][C]
             E == elements[e]
             setting(s) == [t \in Range(in.CRs) |-> computeErrorSetting(in.mode, s, t)]
  <2>1. /\ ~ (i > Len(in.compressors)) /\ C \in Tabled /\ E.cases # {}
        /\ \E s \in Sorted(E.cases) : elements' = [elements EXCEPT ![e].settings = setting(s)]
        /\ i' = (IF i = Plots THEN 1 ELSE i + 1)
        /\ pending' = (IF i = Plots THEN pending \ {v} ELSE pending)
        /\ UNCHANGED <<pc, fault>>
    BY <1>1, <1>6, <1>10
  <2>2. PICK s \in Sorted(E.cases) : elements' = [elements EXCEPT ![e].settings = setting(s)]
    BY <2>1
  <2>3. e \in 1 .. Len(elements) /\ E \in ElementType
    <3>1. ecVisDecDataTables[v] \in [Tabled -> 1 .. Len(elements)]
      BY <1>3, <1>5
    <3>2. e \in 1 .. Len(elements)
      BY <3>1, <2>1
    <3>3. \A k \in 1 .. Len(elements) : elements[k] \in ElementType
      BY <1>3
    <3> QED
      BY <3>2, <3>3
  <2>4. E.cases \in SUBSET All
    BY <2>3 DEF IInv, Filled, CasesOf
  <2> DEFINE S == setting(s)
  <2>5. \A t \in Range(in.CRs) : S[t] \in Setting /\ S[t] # Unset
    <3> TAKE t \in Range(in.CRs)
    <3>1. SettingOf(s, t, computeErrorSetting(in.mode, s, t))
      BY <2>1, <2>2, <2>4, <1>3, EstimateIs
    <3>2. S[t] = computeErrorSetting(in.mode, s, t)
      OBVIOUS
    <3> HIDE DEF S
    <3> QED
      BY <3>1, <3>2 DEF SettingOf, Setting, Unset, NAN, INF, Garbage
  <2>6. S \in [Range(in.CRs) -> Setting] /\ Unset \notin Range(S)
    <3>1. S = [t \in Range(in.CRs) |-> S[t]]
      OBVIOUS
    <3> HIDE DEF S
    <3> QED
      BY <3>1, <2>5 DEF Range
  <2>7. Estimate(E.cases, S)
    BY <2>1, <2>2 DEF Estimate
  <2> HIDE DEF S
  <2> DEFINE X == [elements[e] EXCEPT !.settings = S]
  <2>8. elements' = [elements EXCEPT ![e] = X]
    BY <2>2 DEF S
  <2>9. /\ X \in ElementType /\ X.settings = S /\ X.var = E.var /\ X.name = E.name
        /\ X.cases = E.cases /\ X.state = E.state
    BY <2>3, <2>6, SettingsUpdate, SMTT(60)
  <2> HIDE DEF X
  <2>10. /\ elements \in [1 .. Len(elements) -> ElementType] /\ Len(elements) \in Nat
    BY <1>3
  <2> HIDE DEF e
  <2>11. /\ elements' \in [1 .. Len(elements) -> ElementType] /\ elements'[e] = X
         /\ \A d \in 1 .. Len(elements) : d # e => elements'[d] = elements[d]
    BY <2>3, <2>8, <2>9, <2>10
  <2>12. elements' \in Seq(ElementType) /\ Len(elements') = Len(elements)
    BY <2>10, <2>11
  <2>13. \A d \in 1 .. Len(elements) :
             /\ elements'[d].var = elements[d].var /\ elements'[d].name = elements[d].name
             /\ elements'[d].cases = elements[d].cases /\ elements'[d].state = elements[d].state
             /\ elements'[d].settings = IF d = e THEN S ELSE elements[d].settings
    BY <2>9, <2>11
  <2> HIDE DEF E
  <2>14. i' \in 1 .. Plots
    BY <2>1, <1>3, <1>4
  <2>15. Places'
    BY <1>1, <1>2, <1>3, <1>4, <1>5, <2>1, <2>12, <2>14 DEF Places, disk, InFiles
  <2>16. Progress'
    <3>1. pc = "settings" /\ pc' = "settings"
      BY <1>1, <2>1
    <3>2. NULL \notin Tabled
      BY <1>1, <1>5 DEF IInv, Progress
    <3>3. in' = in /\ run' = run /\ ecCompareDataTable' = ecCompareDataTable
      BY <1>1 DEF disk
    <3>4. \A f : Key(f)' = Key(f)
      BY DEF Key
    <3> QED
      BY <1>2, <1>3, <3>1, <3>2, <3>3, <3>4 DEF Progress, InFiles
  <2>17. Reached' /\ ElementsFreed'
    <3>1. Reached'
      BY <1>1, <2>1, <2>12, <2>13, ReachedStays
    <3> QED
      BY <3>1, <1>1, <2>1 DEF ElementsFreed
  <2>18. Filled'
    <3>1. \A d \in 1 .. Len(elements) :
             /\ elements[d].cases \subseteq CasesOf(elements[d].var, elements[d].name)
             /\ \A g, h \in elements[d].cases : Key(g) = Key(h) => g = h
             /\ \A g \in elements[d].cases : Key(g) \in DOMAIN ecCompareDataTable
      BY <1>1 DEF IInv, Filled
    <3>2. \A d \in 1 .. Len(elements') :
             /\ elements'[d].cases \subseteq CasesOf(elements[d].var, elements[d].name)'
             /\ \A g, h \in elements'[d].cases : Key(g) = Key(h) => g = h
             /\ \A g \in elements'[d].cases : Key(g) \in DOMAIN ecCompareDataTable'
      <4>1. \A d \in 1 .. Len(elements') :
               /\ elements'[d].cases \subseteq CasesOf(elements'[d].var, elements'[d].name)
               /\ \A g, h \in elements'[d].cases : Key(g) = Key(h) => g = h
               /\ \A g \in elements'[d].cases : Key(g) \in DOMAIN ecCompareDataTable'
        <5>1. ecCompareDataTable' = ecCompareDataTable
          BY <1>1
        <5> TAKE d \in 1 .. Len(elements')
        <5>2. /\ d \in 1 .. Len(elements) /\ elements'[d].cases = elements[d].cases
              /\ elements'[d].var = elements[d].var /\ elements'[d].name = elements[d].name
          BY <2>12, <2>13
        <5> QED
          BY <5>1, <5>2, <3>1
      <4> QED
        BY <4>1, <1>2 DEF CasesOf
    <3>3. ASSUME Plottable, NEW g \in All, isInPlotDecCompressors(g.cmp)
          PROVE  elements'[ecVisDecDataTables[g.var][g.cmp]].cases # {}
      <4>1. g.cmp \in Tabled /\ g.var \in Treated
        BY <3>3, <1>3, PlottableNames DEF Whole
      <4>2. ecVisDecDataTables[g.var][g.cmp] \in 1 .. Len(elements)
        BY <4>1, <1>3
      <4>3. elements[ecVisDecDataTables[g.var][g.cmp]].cases # {}
        BY <3>3, <1>1, <1>3 DEF IInv, Filled, Element, InFiles
      <4> QED
        BY <4>2, <4>3, <2>13
    <3>4. Plottable' =>
            \A g \in All' : isInPlotDecCompressors(g.cmp)' /\ Key(g) \in DOMAIN ecCompareDataTable' =>
                Element(g.var, g.cmp)'.cases # {}
      BY <3>3, <1>1, <1>2 DEF isInPlotDecCompressors, Element
    <3> QED
      BY <3>2, <3>4 DEF Filled, Key
  <2>19. Estimated'
    <3>1. ASSUME NEW d \in 1 .. Len(elements')
          PROVE  elements'[d].settings = Blank' \/ Estimate(elements[d].cases, elements[d].settings)'
      <4>1. CASE d = e
        <5>1. elements'[d].cases = E.cases /\ elements'[d].settings = S /\ in' = in
          BY <4>1, <1>1, <2>3, <2>13 DEF E
        <5> QED
          BY <5>1, <2>7 DEF Estimate
      <4>2. CASE d # e
        <5>1. elements'[d] = elements[d] /\ in' = in
          BY <4>2, <1>1, <2>11, <2>12
        <5>2. elements[d].settings = Blank \/ Estimate(elements[d].cases, elements[d].settings)
          BY <1>1, <2>12 DEF IInv, Estimated
        <5>3. ASSUME Estimate(elements[d].cases, elements[d].settings)
              PROVE  Estimate(elements[d].cases, elements[d].settings)'
          BY <5>1, <5>3 DEF Estimate
        <5> QED
          BY <5>1, <5>2, <5>3, <1>2
      <4> QED
        BY <4>1, <4>2
    <3> QED
      BY <3>1, <1>1, <2>1 DEF Estimated
  <2>20. Turns'
    <3>1. \A w \in Treated : \A k \in 1 .. Plots :
              w \notin pending \/ (w = var /\ k < i) => Turn(w, k)
      BY <1>1 DEF IInv, Turns
    <3>2. ASSUME NEW w \in Treated, NEW k \in 1 .. Plots, Turn(w, k)
          PROVE  Turn(w, k)'
      <4>1. /\ k <= Len(in.compressors) /\ in.compressors[k] \in Tabled
            /\ Unset \notin Range(elements[ecVisDecDataTables[w][in.compressors[k]]].settings)
        BY <3>2 DEF Turn, Element
      <4>2. ecVisDecDataTables[w][in.compressors[k]] \in 1 .. Len(elements)
        BY <4>1, <1>3
      <4>3. Unset \notin Range(elements'[ecVisDecDataTables[w][in.compressors[k]]].settings)
        BY <4>1, <4>2, <2>6, <2>13
      <4> QED
        BY <4>1, <4>3, <1>1, <1>2 DEF Turn, Element
    <3>3. ASSUME NEW k \in 1 .. Plots, k = i
          PROVE  Turn(v, k)'
      <4>1. elements'[e].settings = S
        BY <2>3, <2>13
      <4>2. i <= Len(in.compressors)
        BY <2>1, <1>3, <1>4
      <4>3. in.compressors[k] = C /\ k <= Len(in.compressors) /\ e = ecVisDecDataTables[v][in.compressors[k]]
        BY <3>3, <4>2 DEF e
      <4> QED
        BY <4>1, <4>3, <1>1, <1>2, <2>1, <2>6 DEF Turn, Element
    <3>4. ASSUME NEW w \in Treated', NEW k \in 1 .. Plots', w \notin pending' \/ (w = var' /\ k < i')
          PROVE  Turn(w, k)'
      <4>1. w \in Treated /\ k \in 1 .. Plots /\ var' = v
        BY <1>1, <1>2 DEF Plots
      <4>2. CASE w = v
        <5>1. k < i \/ k = i
          BY <4>1, <4>2, <3>4, <2>1, <1>3, <1>4, <1>5
        <5>2. k < i => Turn(w, k)
          BY <3>1, <4>1, <4>2, <1>3, <1>4, <1>5
        <5> QED
          BY <5>1, <5>2, <3>2, <3>3, <4>1, <4>2
      <4>3. CASE w # v
        <5>1. w \notin pending
          BY <3>4, <4>1, <4>3, <2>1
        <5> QED
          BY <5>1, <3>1, <3>2, <4>1
      <4> QED
        BY <4>2, <4>3
    <3>5. pending' \subseteq Treated' /\ i' \in 1 .. Plots' /\ (i' > 1 => var' \in pending')
      <4>1. i' > 1 => i # Plots
        BY <2>1
      <4> QED
        BY <4>1, <1>1, <1>2, <1>3, <1>5, <2>1, <2>14 DEF Plots
    <3> QED
      BY <3>4, <3>5, <1>1, <2>1 DEF Turns
  <2>21. Faults'
    BY <1>1, <1>2, <1>3, <2>1 DEF IInv, Faults, HealedByRestart, ReportComplete, disk
  <2> QED
    BY <1>7, <2>15, <2>16, <2>17, <2>18, <2>19, <2>20, <2>21 DEF IInv
<1> QED
  BY <1>9, <1>10

(* A stuttering step changes nothing of it. *)
LEMMA Stutter == ASSUME IInv, UNCHANGED vars PROVE IInv'
<1>1. UNCHANGED <<in, disk, i, var, pc, pending, tables, fault>>
  BY DEF vars, disk, tables
<1>2. /\ All' = All /\ Whole' = Whole /\ Tabled' = Tabled /\ (Fits' <=> Fits)
      /\ (Plottable' <=> Plottable) /\ ElementType' = ElementType /\ PlotNames' = PlotNames
      /\ Blank' = Blank /\ Treated' = Treated /\ (InFiles' <=> InFiles)
  BY <1>1, Fixed DEF Treated, tables, InFiles
<1>3. Places' /\ Linked'
  BY <1>1, <1>2 DEF IInv, Places, Linked, disk, tables
<1>4. Progress'
  BY <1>1, <1>2 DEF IInv, Progress, disk, tables, Key
<1>5. Reached'
  BY <1>1, ReachedStays DEF tables
<1>6. Filled'
  <2>1. \A d \in 1 .. Len(elements') : LET cases == elements'[d].cases IN
           /\ cases \subseteq CasesOf(elements[d].var, elements[d].name)'
           /\ \A g, h \in cases : Key(g) = Key(h) => g = h
           /\ pc' # "done" => \A g \in cases : Key(g) \in DOMAIN ecCompareDataTable'
    BY <1>1, <1>2 DEF IInv, Filled, CasesOf, tables
  <2>2. fault' = "none" /\ Plottable' /\ InFiles' =>
            \A g \in All' : isInPlotDecCompressors(g.cmp)' /\ Key(g) \in DOMAIN ecCompareDataTable' =>
                Element(g.var, g.cmp)'.cases # {}
    BY <1>1, <1>2 DEF IInv, Filled, isInPlotDecCompressors, Element, tables
  <2> QED
    BY <2>1, <2>2 DEF Filled, Key
<1>7. Estimated'
  <2>1. ASSUME NEW e \in 1 .. Len(elements),
               Estimate(elements[e].cases, elements[e].settings)
        PROVE  Estimate(elements[e].cases, elements[e].settings)'
    BY <1>1, <2>1 DEF Estimate, tables
  <2> QED
    BY <1>1, <1>2, <2>1 DEF IInv, Estimated, tables
<1>8. Turns'
  <2>1. \A v \in Treated : \A k \in 1 .. Plots : Turn(v, k) => Turn(v, k)'
    BY <1>1, <1>2 DEF Turn, Element, tables
  <2>2. Plots' = Plots
    BY <1>1 DEF Plots
  <2> QED
    BY <1>1, <1>2, <2>1, <2>2 DEF IInv, Turns
<1>9. Faults'
  BY <1>1, <1>2 DEF IInv, Faults, HealedByRestart, ReportComplete, disk
<1>10. ElementsFreed'
  BY <1>1, <1>2 DEF IInv, ElementsFreed, tables
<1> QED
  BY <1>3, <1>4, <1>5, <1>6, <1>7, <1>8, <1>9, <1>10 DEF IInv

(* One case for each action. *)
LEMMA NextStep == ASSUME IInv, [Next]_vars PROVE IInv'
<1>1. CASE Next
  BY <1>1, StartStep, LoadPropertyStep, LoadOthersStep, LoadResultStep, NextDirectoryStep,
     StartReportStep, IdentifyErrorSettingStep, EndSettingsStep, SliceReportStep, FinalizeStep,
     RestartStep DEF Next
<1> QED
  BY <1>1, Stutter

(* Every reachable state of the program satisfies the invariant. *)
THEOREM Invariance == Spec => []IInv
<1>1. Init => IInv
  BY InitIInv
<1>2. IInv /\ [Next]_vars => IInv'
  BY NextStep
<1> QED
  BY <1>1, <1>2, PTL DEF Spec

----------------------------------------------------------------------------
(* Where an estimate lies among the results it is made of.                 *)
Errs(cases, r) == {Printed(f.err, 1) : f \in {g \in cases : g.ratio = r}}

(* The settings measured at a ratio: numbers with a bound.                 *)
LEMMA ErrsIn ==
    ASSUME NEW cases \in SUBSET Case, IsFiniteSet(cases), NEW s \in Sorted(cases)
    PROVE  /\ \A r : Errs(cases, r) \subseteq Nat
           /\ \E hi \in Nat : \A r : \A x \in Errs(cases, r) : x <= hi
           /\ \A n \in 1 .. Len(s) : Printed(s[n].err, 1) \in Errs(cases, s[n].ratio)
<1>1. /\ Len(s) \in Nat /\ s \in [1 .. Len(s) -> cases]
      /\ \A f \in cases : \E n \in 1 .. Len(s) : s[n] = f
  BY SortedIs
<1>2. \A f \in cases : Printed(f.err, 1) \in Nat
  BY CaseFields, PrintedOne
<1>3. \A r : Errs(cases, r) \subseteq Nat
  BY <1>2 DEF Errs
<1>4. \A n \in 1 .. Len(s) : Printed(s[n].err, 1) \in Errs(cases, s[n].ratio)
  BY <1>1 DEF Errs
<1>5. \E hi \in Nat : \A r : \A x \in Errs(cases, r) : x <= hi
  <2> DEFINE p == [n \in 1 .. Len(s) |-> Printed(s[n].err, 1)]
  <2>1. p \in [1 .. Len(s) -> Nat]
    BY <1>1, <1>2
  <2>2. \A n \in 1 .. Len(s) : p[n] = Printed(s[n].err, 1)
    OBVIOUS
  <2> HIDE DEF p
  <2>3. PICK hi \in Nat : \A n \in 1 .. Len(s) : p[n] <= hi
    BY <1>1, <2>1, ListBound
  <2>4. ASSUME NEW r, NEW x \in Errs(cases, r)
        PROVE  x <= hi
    <3>1. PICK f \in cases : x = Printed(f.err, 1)
      BY DEF Errs
    <3>2. PICK n \in 1 .. Len(s) : s[n] = f
      BY <1>1
    <3> QED
      BY <2>2, <2>3, <3>1, <3>2
  <2> QED
    BY <2>4
<1> QED
  BY <1>3, <1>4, <1>5

(* What lies within two members lies between least and greatest.           *)
LEMMA Between ==
    ASSUME NEW S \in SUBSET Nat, NEW hi \in Nat, \A x \in S : x <= hi,
           NEW a \in S, NEW b \in S, NEW c, Within(c, a, b)
    PROVE  c \in Min(S) .. Max(S)
<1>1. Min(S) \in S /\ Max(S) \in S /\ \A x \in S : Min(S) <= x /\ x <= Max(S)
  BY MinIn, MaxIn
<1> DEFINE lo == Min(S)
           top == Max(S)
<1>2. lo \in Nat /\ top \in Nat /\ a \in Nat /\ b \in Nat /\ lo <= a /\ a <= top /\ lo <= b /\ b <= top
  BY <1>1
<1> HIDE DEF lo, top
<1>3. c \in lo .. top
  BY <1>2 DEF Within
<1> QED
  BY <1>3 DEF lo, top

(* Two members make a set larger than one.                                 *)
LEMMA Two ==
    ASSUME NEW S, IsFiniteSet(S), NEW a \in S, NEW b \in S, a # b
    PROVE  Cardinality(S) > 1
<1>1. IsFiniteSet({a}) /\ Cardinality({a}) = 1
  BY FS_Singleton
<1>2. Cardinality({a} \cup {b}) = 2
  BY <1>1, FS_AddElement
<1>3. {a} \cup {b} \in SUBSET S
  OBVIOUS
<1>4. Cardinality({a} \cup {b}) <= Cardinality(S) /\ Cardinality(S) \in Nat
  BY <1>3, FS_Subset, FS_CardinalityType
<1> QED
  BY <1>2, <1>4

(* SettingsBracketed for one element and one wanted ratio.                 *)
LEMMA Bracketed ==
    ASSUME Places, NEW cases \in SUBSET All, NEW s \in Sorted(cases), cases # {},
           NEW t \in Range(in.CRs), NEW set, set = computeErrorSetting(in.mode, s, t)
    PROVE  LET ratios == {f.ratio : f \in cases}
               below == {r \in ratios : r < t}
               above == {r \in ratios : r >= t}
           IN  /\ set \in {NAN, INF} => Cardinality({f \in cases : f.ratio = Min(ratios)}) > 1
               /\ set = Garbage => Cardinality(cases) = 1
               /\ set >= 0 /\ below # {} /\ above # {} =>
                    LET ends == Errs(cases, Max(below)) \cup Errs(cases, Min(above))
                    IN  set \in Min(ends) .. Max(ends)
               /\ set >= 0 /\ t \in ratios => set \in Min(Errs(cases, t)) .. Max(Errs(cases, t))
<1> DEFINE ratios == {f.ratio : f \in cases}
           below == {r \in ratios : r < t}
           above == {r \in ratios : r >= t}
           u == Target(s, t)
<1>1. /\ cases \in SUBSET Case /\ IsFiniteSet(cases) /\ s \in Seq(cases) /\ s # <<>> /\ t \in Nat
      /\ SettingOf(s, t, set)
  BY EstimateIs
<1>2. /\ Len(s) = Cardinality(cases) /\ Len(s) \in Nat /\ s \in [1 .. Len(s) -> cases]
      /\ \A f \in cases : \E n \in 1 .. Len(s) : s[n] = f
      /\ \A m, n \in 1 .. Len(s) : s[m] = s[n] => m = n
      /\ \A m, n \in 1 .. Len(s) : m <= n => s[m].ratio <= s[n].ratio
  BY <1>1, SortedIs DEF Ordered
<1>3. /\ u \in 1 .. Len(s)
      /\ \/ s[u].ratio >= t /\ \A m \in 1 .. u - 1 : s[m].ratio < t
         \/ u = 1 /\ \A m \in 1 .. Len(s) : s[m].ratio < t
  BY <1>1, TargetIs
<1>4. \A n \in 1 .. Len(s) : s[n].ratio \in Nat /\ Printed(s[n].err, 1) \in Nat
  BY <1>1, ListFields
<1>5. /\ ratios \in SUBSET Nat /\ \A n \in 1 .. Len(s) : s[n].ratio \in ratios
      /\ \A r \in ratios : \E n \in 1 .. Len(s) : r = s[n].ratio
  BY <1>2, <1>4
<1>6. PICK hi \in Nat : \A r : \A x \in Errs(cases, r) : x <= hi
  BY <1>1, ErrsIn
<1>7. /\ \A r : Errs(cases, r) \subseteq Nat
      /\ \A n \in 1 .. Len(s) : Printed(s[n].err, 1) \in Errs(cases, s[n].ratio)
  BY <1>1, ErrsIn
<1>8. /\ set \in {NAN, INF} => Len(s) >= 2 /\ s[1].ratio = s[2].ratio
      /\ set = Garbage => Len(s) = 1
      /\ set >= 0 /\ u > 1 => Within(set, Printed(s[u - 1].err, 1), Printed(s[u].err, 1))
      /\ set >= 0 /\ s[u].ratio = t => set = Printed(s[u].err, 1)
  BY <1>1 DEF SettingOf
<1> HIDE DEF u, ratios
<1>9. ASSUME set \in {NAN, INF} PROVE Cardinality({f \in cases : f.ratio = Min(ratios)}) > 1
  <2> DEFINE S == {f \in cases : f.ratio = Min(ratios)}
  <2>1. 1 \in 1 .. Len(s) /\ 2 \in 1 .. Len(s) /\ s[1].ratio = s[2].ratio
    BY <1>2, <1>8, <1>9
  <2>2. Min(ratios) \in ratios /\ \A r \in ratios : Min(ratios) <= r
    BY <2>1, <1>5, MinIn
  <2>3. Min(ratios) = s[1].ratio
    <3>1. PICK n \in 1 .. Len(s) : Min(ratios) = s[n].ratio
      BY <2>2, <1>5
    <3>2. s[1].ratio <= s[n].ratio /\ s[n].ratio <= s[1].ratio
      <4>1. s[n].ratio <= s[1].ratio
        BY <2>1, <2>2, <3>1, <1>5
      <4>2. 1 <= n
        BY <1>2
      <4> QED
        BY <4>1, <4>2, <2>1, <1>2
    <3> QED
      BY <3>1, <3>2, <2>1, <1>4
  <2>4. s[1] \in S /\ s[2] \in S /\ s[1] # s[2]
    BY <2>1, <2>3, <1>2
  <2>5. IsFiniteSet(S)
    BY <1>1, FS_Subset
  <2> HIDE DEF S
  <2>6. Cardinality(S) > 1
    BY <2>4, <2>5, Two
  <2> QED
    BY <2>6 DEF S
<1>10. set = Garbage => Cardinality(cases) = 1
  BY <1>2, <1>8
<1>11. ASSUME set >= 0, below # {}, above # {}
       PROVE  LET ends == Errs(cases, Max(below)) \cup Errs(cases, Min(above))
              IN  set \in Min(ends) .. Max(ends)
  <2>1. PICK l \in 1 .. Len(s) : s[l].ratio < t
    BY <1>5, <1>11
  <2>2. PICK h \in 1 .. Len(s) : s[h].ratio >= t
    BY <1>5, <1>11
  <2>3. s[u].ratio >= t /\ \A m \in 1 .. u - 1 : s[m].ratio < t
    BY <2>2, <1>1, <1>3, <1>4
  <2>4. \A m \in 1 .. Len(s) : m >= u => s[m].ratio >= s[u].ratio
    BY <1>2, <1>3
  <2>5. u > 1 /\ u - 1 \in 1 .. Len(s)
    <3>1. ~ (l >= u)
      BY <2>1, <2>3, <2>4, <1>1, <1>3, <1>4
    <3> QED
      BY <3>1, <1>2, <1>3
  <2>6. s[u - 1].ratio < t
    BY <2>3, <2>5, <1>3
  <2>7. Max(below) = s[u - 1].ratio
    <3>1. s[u - 1].ratio \in below
      BY <2>5, <2>6, <1>5
    <3>2. below \in SUBSET Nat /\ \A r \in below : r <= t
      <4>1. below \in SUBSET Nat
        BY <1>5
      <4>2. ASSUME NEW r \in below PROVE r <= t
        <5>1. r \in Nat /\ r < t /\ t \in Nat
          BY <1>1, <1>5
        <5> QED
          BY <5>1
      <4> QED
        BY <4>1, <4>2
    <3>3. Max(below) \in below /\ \A r \in below : r <= Max(below)
      <4> HIDE DEF below
      <4> QED
        BY <3>1, <3>2, <1>1, MaxIn
    <3>4. PICK m \in 1 .. Len(s) : Max(below) = s[m].ratio
      BY <3>3, <1>5
    <3>5. s[m].ratio < t
      BY <3>3, <3>4
    <3>6. ~ (m >= u)
      <4>1. m >= u => s[m].ratio >= s[u].ratio
        BY <2>4
      <4>2. s[m].ratio \in Nat /\ s[u].ratio \in Nat /\ t \in Nat /\ s[u].ratio >= t
        BY <2>3, <1>1, <1>3, <1>4
      <4> QED
        BY <4>1, <4>2, <3>5
    <3>7. m <= u - 1
      BY <3>6, <1>2, <1>3
    <3>8. s[m].ratio <= s[u - 1].ratio
      BY <3>7, <2>5, <1>2
    <3>9. s[u - 1].ratio <= s[m].ratio
      BY <3>1, <3>3, <3>4
    <3> QED
      BY <3>4, <3>8, <3>9, <2>5, <1>4
  <2>8. Min(above) = s[u].ratio
    <3>1. s[u].ratio \in above
      BY <2>3, <1>3, <1>5
    <3>2. above \in SUBSET Nat
      BY <1>5
    <3>3. Min(above) \in above /\ \A r \in above : Min(above) <= r
      <4> HIDE DEF above
      <4> QED
        BY <3>1, <3>2, MinIn
    <3>4. PICK m \in 1 .. Len(s) : Min(above) = s[m].ratio
      BY <3>3, <1>5
    <3>5. s[m].ratio >= t
      BY <3>3, <3>4
    <3>6. m >= u
      <4>1. ~ (m \in 1 .. u - 1)
        BY <3>5, <2>3, <1>1, <1>4
      <4> QED
        BY <4>1, <1>2, <1>3
    <3>7. s[u].ratio <= s[m].ratio /\ s[m].ratio <= s[u].ratio
      BY <3>1, <3>3, <3>4, <3>6, <2>4, <1>3, <1>4
    <3> QED
      BY <3>4, <3>7, <1>3, <1>4, SMTT(60)
  <2> DEFINE ends == Errs(cases, Max(below)) \cup Errs(cases, Min(above))
  <2>9. Printed(s[u - 1].err, 1) \in ends /\ Printed(s[u].err, 1) \in ends
    BY <2>5, <2>7, <2>8, <1>3, <1>7
  <2>10. ends \in SUBSET Nat /\ \A x \in ends : x <= hi
    BY <1>6, <1>7
  <2>11. Within(set, Printed(s[u - 1].err, 1), Printed(s[u].err, 1))
    BY <2>5, <1>8, <1>11
  <2> HIDE DEF ends
  <2>12. set \in Min(ends) .. Max(ends)
    BY <2>9, <2>10, <2>11, Between
  <2> QED
    BY <2>12 DEF ends
<1>12. ASSUME set >= 0, t \in ratios
       PROVE  set \in Min(Errs(cases, t)) .. Max(Errs(cases, t))
  <2>1. PICK m \in 1 .. Len(s) : t = s[m].ratio
    BY <1>5, <1>12
  <2>2. s[u].ratio >= t /\ m \notin 1 .. u - 1
    BY <2>1, <1>1, <1>3, <1>4
  <2>3. u <= m
    BY <2>2, <1>2, <1>3
  <2>4. s[u].ratio = t
    <3>1. s[u].ratio <= t
      BY <2>1, <2>3, <1>2, <1>3
    <3> QED
      BY <3>1, <2>2, <1>1, <1>3, <1>4
  <2>5. set = Printed(s[u].err, 1) /\ set \in Errs(cases, t) /\ set \in Nat
    BY <2>4, <1>3, <1>4, <1>7, <1>8, <1>12
  <2>6. Within(set, set, set)
    BY <2>5 DEF Within
  <2>7. Errs(cases, t) \in SUBSET Nat /\ \A x \in Errs(cases, t) : x <= hi
    BY <1>6, <1>7
  <2> QED
    BY <2>5, <2>6, <2>7, Between
<1> QED
  BY <1>9, <1>10, <1>11, <1>12 DEF ratios

(* The type invariant follows from the places.                             *)
LEMMA TypesHold == ASSUME IInv PROVE TypeOK
<1>1. Places
  BY DEF IInv
<1>2. /\ dataProperties \subseteq Vars /\ run \in 1 .. MaxRuns
      /\ checkingStatus \in {"COMPARE_COMPRESSOR", "PROBE_COMPRESSOR"}
      /\ pc \in {"start", "properties", "results", "loaded", "settings", "slices",
                 "reported", "done", "stopped"}
      /\ ecPropertyTable \subseteq Vars /\ DOMAIN ecVisDecDataTables \subseteq Vars
  BY <1>1, Conf DEF IInv, Places, Linked, InFiles, Treated, Whole
<1>3. i \in 1 .. Max({Len(in.compressors), Len(in.plotted)})
  <2> DEFINE a == Len(in.compressors)
             b == Len(in.plotted)
             top == Max({a, b})
  <2>1. a \in Nat /\ b \in Nat /\ (i \in 1 .. a \/ i \in 1 .. b)
    BY <1>1, Conf DEF Places
  <2> HIDE DEF a, b
  <2>2. {a, b} \in SUBSET Nat /\ {a, b} # {} /\ a + b \in Nat /\ \A x \in {a, b} : x <= a + b
    BY <2>1
  <2>3. top \in {a, b} /\ \A x \in {a, b} : x <= top
    BY <2>2, MaxIn
  <2>4. top \in Nat /\ a <= top /\ b <= top
    BY <2>1, <2>3
  <2> HIDE DEF top
  <2>5. i \in 1 .. top
    BY <2>1, <2>4
  <2> QED
    BY <2>5 DEF top, a, b
<1>4. \A e \in 1 .. Len(elements) :
        /\ elements[e].name \in Names /\ elements[e].cases \subseteq Case
        /\ elements[e].settings \in [Range(in.CRs) -> {Unset, NAN, INF, Garbage} \cup Nat]
        /\ elements[e].state \in {"live", "replaced", "freed"}
  <2>1. \A e \in 1 .. Len(elements) : elements[e] \in ElementType
    BY <1>1 DEF Places
  <2> QED
    BY <2>1 DEF ElementType, Setting
<1>5. InTables \subseteq 1 .. Len(elements)
  BY <1>1 DEF InTables, Places, Treated, Range
<1> QED
  BY <1>2, <1>3, <1>4, <1>5 DEF TypeOK

(* An element is blank, and claims nothing, or holds an estimate.          *)
LEMMA SettingsHold == ASSUME IInv PROVE SettingsBracketed
<1>1. ASSUME NEW e \in InTables, NEW t \in Range(in.CRs)
      PROVE  LET cases == elements[e].cases
                 set == elements[e].settings[t]
                 ratios == {f.ratio : f \in cases}
                 below == {r \in ratios : r < t}
                 above == {r \in ratios : r >= t}
             IN  /\ set \in {NAN, INF} => Cardinality({f \in cases : f.ratio = Min(ratios)}) > 1
                 /\ set = Garbage => Cardinality(cases) = 1
                 /\ set >= 0 /\ below # {} /\ above # {} =>
                      LET ends == Errs(cases, Max(below)) \cup Errs(cases, Min(above))
                      IN  set \in Min(ends) .. Max(ends)
                 /\ set >= 0 /\ t \in ratios => set \in Min(Errs(cases, t)) .. Max(Errs(cases, t))
  <2> DEFINE cases == elements[e].cases
             set == elements[e].settings[t]
  <2>1. e \in 1 .. Len(elements) /\ Treated # {}
    BY TypesHold DEF TypeOK, InTables, Treated
  <2>2. pc # "done" /\ Places
    BY <2>1 DEF IInv, Progress
  <2>3. elements[e].settings = Blank \/ Estimate(cases, elements[e].settings)
    BY <2>1, <2>2 DEF IInv, Estimated
  <2>4. CASE elements[e].settings = Blank
    <3>1. set = -1
      BY <2>4 DEF Blank, Unset
    <3> HIDE DEF set
    <3>2. set \notin {NAN, INF} /\ set # Garbage /\ ~ (set >= 0)
      BY <3>1 DEF NAN, INF, Garbage
    <3> QED
      BY <3>2 DEF set
  <2>5. CASE Estimate(cases, elements[e].settings)
    <3>1. PICK s \in Sorted(cases) : cases # {} /\ set = computeErrorSetting(in.mode, s, t)
      BY <2>5 DEF Estimate
    <3>2. cases \in SUBSET All
      BY <2>1 DEF IInv, Filled, CasesOf
    <3> HIDE DEF cases, set
    <3> QED
      BY <3>1, <3>2, <2>2, Bracketed DEF cases, set
  <2> QED
    BY <2>3, <2>4, <2>5
<1> QED
  BY <1>1 DEF SettingsBracketed, Errs

(* The slice images are made in every configuration that can be plotted    *)
(* whose plotted compressors come first in the list, in every run          *)
(* (generateReport from ZC_Init to ZC_Finalize).                           *)
THEOREM SafeCorrect == Spec => []Safe
<1>1. IInv => Safe
  BY TypesHold DEF IInv, Safe, Faults, Fits
<1> QED
  BY <1>1, Invariance, PTL

(* A result whose variable has its property only with the compressors can  *)
(* stop the first run and no later one (loadProperty and its links).       *)
THEOREM HealedCorrect == Spec => []HealedByRestart
<1>1. IInv => HealedByRestart
  BY DEF IInv, Faults
<1> QED
  BY <1>1, Invariance, PTL

(* ZC_generateDecSliceImageReport comes to an element without setting only *)
(* if a compressor is listed twice.                                        *)
THEOREM ReportCorrect == Spec => []ReportComplete
<1>1. IInv => ReportComplete
  BY DEF IInv, Faults
<1> QED
  BY <1>1, Invariance, PTL

(* ZC_itentifyErrorSettingBasedOnCR: every estimate lies between the       *)
(* settings measured at the two ratios next to the wanted one, and is a    *)
(* number unless the least ratio is measured twice or is the only one.     *)
THEOREM SettingsCorrect == Spec => []SettingsBracketed
<1>1. IInv => SettingsBracketed
  BY SettingsHold
<1> QED
  BY <1>1, Invariance, PTL

(* ZC_Finalize: an element that is not freed shares its bin, or its name,  *)
(* with another plotted compressor.                                        *)
THEOREM FreedCorrect == Spec => []ElementsFreed
<1>1. IInv => ElementsFreed
  BY DEF IInv
<1> QED
  BY <1>1, Invariance, PTL

----------------------------------------------------------------------------
(* The windows of zc/src/ZC_ssim.c, for images of every size.              *)
(* A row, or a column, of an image at least two kernels high is in exactly *)
(* one of the three ranges the loops of zc_calc_ssim_2d_* go over.         *)
LEMMA OneRange ==
    ASSUME NEW n \in Nat, n >= 2 * KERNEL, NEW o \in 0 .. n - 1
    PROVE  OnBorder(n, o) = IF o \in Middle(n) THEN 0 ELSE 1
<1> DEFINE sides == {b \in 1 .. 2 : o \in Borders(n)[b]}
<1>1. CASE o \in Middle(n)
  <2>1. sides = {}
    BY <1>1 DEF Borders, Middle, KERNEL
  <2> QED
    BY <2>1, <1>1, FS_EmptySet DEF OnBorder
<1>2. CASE o < KERNEL
  <2>1. sides = {1}
    BY <1>2 DEF Borders, KERNEL
  <2>2. o \notin Middle(n)
    BY <1>2 DEF Middle, KERNEL
  <2> QED
    BY <2>1, <2>2, FS_Singleton DEF OnBorder
<1>3. CASE o >= n - KERNEL
  <2>1. sides = {2}
    BY <1>3 DEF Borders, KERNEL
  <2>2. o \notin Middle(n)
    BY <1>3 DEF Middle, KERNEL
  <2> QED
    BY <2>1, <2>2, FS_Singleton DEF OnBorder
<1> QED
  BY <1>1, <1>2, <1>3 DEF Middle, KERNEL

(* Away from the border clipping changes nothing. *)
LEMMA ClippedInside ==
    ASSUME NEW n \in Nat, NEW o \in Middle(n)
    PROVE  Clipped(n, o) = o - KERNEL .. o + KERNEL
BY DEF Clipped, Middle, KERNEL

(* A clipped window is in the image, and holds its pixel. *)
LEMMA ClippedIn ==
    ASSUME NEW n \in Nat, NEW o \in 0 .. n - 1
    PROVE  o \in Clipped(n, o) /\ Clipped(n, o) \subseteq 0 .. n - 1
BY DEF Clipped, KERNEL

(* From one kernel on, every row is in one of the ranges at least, and     *)
(* below two kernels the third is in both borders.                         *)
LEMMA SomeRange ==
    ASSUME NEW n \in Nat, n >= KERNEL, NEW o \in 0 .. n - 1
    PROVE  OnBorder(n, o) \in Nat /\ (o \notin Middle(n) => OnBorder(n, o) > 0)
<1> DEFINE sides == {b \in 1 .. 2 : o \in Borders(n)[b]}
<1>1. IsFiniteSet(sides)
  BY FS_Interval, FS_Subset
<1>2. o \notin Middle(n) => sides # {}
  <2>1. o \notin Middle(n) => 1 \in sides \/ 2 \in sides
    BY DEF Borders, Middle, KERNEL
  <2> QED
    BY <2>1
<1> HIDE DEF sides
<1>3. Cardinality(sides) \in Nat /\ (Cardinality(sides) = 0 <=> sides = {})
  BY <1>1, FS_EmptySet, FS_CardinalityType
<1> QED
  BY <1>2, <1>3 DEF OnBorder, sides

LEMMA BothBorders ==
    ASSUME NEW n \in Nat, KERNEL <= n, n < 2 * KERNEL
    PROVE  KERNEL - 1 \in 0 .. n - 1 /\ OnBorder(n, KERNEL - 1) = 2
<1> DEFINE sides == {b \in 1 .. 2 : KERNEL - 1 \in Borders(n)[b]}
<1>1. sides = {1} \cup {2}
  BY DEF Borders, KERNEL
<1>2. Cardinality({1} \cup {2}) = 2
  <2>1. IsFiniteSet({1}) /\ Cardinality({1}) = 1
    BY FS_Singleton
  <2>2. 2 \notin {1}
    OBVIOUS
  <2>3. Cardinality({1} \cup {2}) = Cardinality({1}) + 1
    BY <2>1, <2>2, FS_AddElement
  <2> QED
    BY <2>1, <2>3
<1> HIDE DEF sides
<1>3. OnBorder(n, KERNEL - 1) = 2
  BY <1>1, <1>2 DEF OnBorder, sides
<1> QED
  BY <1>3 DEF KERNEL

(* zc_calc_ssim_2d_*, on every image on which the unsigned bounds of its   *)
(* loops do not wrap, which are those of at least a kernel each way and    *)
(* some below: the six loops sum every pixel's window, whichever of the    *)
(* two functions computes it, and it is the window as far as it is in the  *)
(* image: nothing outside is read.                                         *)
THEOREM WindowsInImage ==
    ASSUME NEW H \in Nat, NEW W \in Nat
    PROVE  /\ H >= KERNEL /\ W >= KERNEL => ~ImageOverrun(H, W)
           /\ ~ImageOverrun(H, W) =>
                 \A y \in 0 .. H - 1, x \in 0 .. W - 1 :
                    /\ Summed(H, W, y, x).count > 0
                    /\ Summed(H, W, y, x).reads = zc_get_ssim(H, W, y, x)
                    /\ <<y, x>> \in zc_get_ssim(H, W, y, x)
                    /\ zc_get_ssim(H, W, y, x) \subseteq (0 .. H - 1) \X (0 .. W - 1)
<1>1. H >= KERNEL /\ W >= KERNEL => ~ImageOverrun(H, W)
  BY DEF ImageOverrun, KERNEL
<1>2. ASSUME ~ImageOverrun(H, W), NEW y \in 0 .. H - 1, NEW x \in 0 .. W - 1
      PROVE  /\ Summed(H, W, y, x).count > 0
             /\ Summed(H, W, y, x).reads = zc_get_ssim(H, W, y, x)
             /\ <<y, x>> \in zc_get_ssim(H, W, y, x)
             /\ zc_get_ssim(H, W, y, x) \subseteq (0 .. H - 1) \X (0 .. W - 1)
  <2> DEFINE inside == y \in Middle(H) /\ x \in Middle(W)
             clipped == OnBorder(H, y) + (IF y \in Middle(H) THEN OnBorder(W, x) ELSE 0)
  <2>1. /\ OnBorder(H, y) \in Nat
        /\ y \notin Middle(H) => OnBorder(H, y) > 0
        /\ y \in Middle(H) => OnBorder(W, x) \in Nat /\ (x \notin Middle(W) => OnBorder(W, x) > 0)
    <3>1. H \in Nat /\ H >= KERNEL /\ (y \in Middle(H) => W >= KERNEL)
      BY <1>2 DEF ImageOverrun, KERNEL
    <3> QED
      BY <3>1, SomeRange
  <2>2. clipped \in Nat /\ (~inside => clipped > 0)
    BY <2>1
  <2>3. /\ Summed(H, W, y, x).count = clipped + (IF inside THEN 1 ELSE 0)
        /\ Summed(H, W, y, x).reads =
              (IF clipped > 0 THEN zc_get_ssim(H, W, y, x) ELSE {})
              \cup (IF inside THEN zc_get_ssimfull_kernel(H, W, y, x) ELSE {})
    BY DEF Summed
  <2>4. ASSUME inside PROVE zc_get_ssimfull_kernel(H, W, y, x) = zc_get_ssim(H, W, y, x)
    BY <2>4, ClippedInside DEF zc_get_ssim, zc_get_ssimfull_kernel
  <2> HIDE DEF inside, clipped
  <2>5. Summed(H, W, y, x).count > 0
    BY <2>2, <2>3
  <2>6. Summed(H, W, y, x).reads = zc_get_ssim(H, W, y, x)
    <3>1. CASE inside
      BY <2>3, <2>4, <3>1
    <3>2. CASE ~inside
      BY <2>2, <2>3, <3>2
    <3> QED
      BY <3>1, <3>2
  <2> QED
    BY <2>5, <2>6, ClippedIn DEF zc_get_ssim
<1> QED
  BY <1>1, <1>2

(* The mean over H * W windows is that of the pixels, each counted once,   *)
(* exactly on the images of two kernels each way, and on those of six rows *)
(* whatever their width: below, the loops over the two borders meet and    *)
(* count pixels twice.                                                     *)
THEOREM EveryWindowOnce ==
    ASSUME NEW H \in Nat \ {0}, NEW W \in Nat \ {0}, ~ImageOverrun(H, W)
    PROVE  (\A y \in 0 .. H - 1, x \in 0 .. W - 1 : Summed(H, W, y, x).count = 1)
           <=> H >= 2 * KERNEL /\ (W >= 2 * KERNEL \/ Middle(H) = {})
<1>1. \A y, x : Summed(H, W, y, x).count =
        OnBorder(H, y) + (IF y \in Middle(H) THEN OnBorder(W, x) ELSE 0)
        + (IF y \in Middle(H) /\ x \in Middle(W) THEN 1 ELSE 0)
  BY DEF Summed
<1>2. /\ H >= KERNEL /\ (Middle(H) # {} => W >= KERNEL)
      /\ 2 * KERNEL \in Nat /\ 0 \in 0 .. W - 1 /\ 0 \in 0 .. H - 1
  BY DEF ImageOverrun, KERNEL
<1>3. ASSUME H >= 2 * KERNEL, W >= 2 * KERNEL \/ Middle(H) = {},
             NEW y \in 0 .. H - 1, NEW x \in 0 .. W - 1
      PROVE  Summed(H, W, y, x).count = 1
  <2>1. CASE y \in Middle(H)
    <3>1. OnBorder(H, y) = 0 /\ OnBorder(W, x) = IF x \in Middle(W) THEN 0 ELSE 1
      BY <1>3, <2>1, OneRange
    <3> QED
      BY <1>1, <2>1, <3>1
  <2>2. CASE y \notin Middle(H)
    <3>1. OnBorder(H, y) = 1
      BY <1>3, <2>2, OneRange
    <3> QED
      BY <1>1, <2>2, <3>1
  <2> QED
    BY <2>1, <2>2
<1>4. ASSUME H < 2 * KERNEL
      PROVE  \E y \in 0 .. H - 1, x \in 0 .. W - 1 : Summed(H, W, y, x).count # 1
  <2>1. KERNEL - 1 \in 0 .. H - 1 /\ OnBorder(H, KERNEL - 1) = 2
    BY <1>2, <1>4, BothBorders
  <2>2. KERNEL - 1 \notin Middle(H)
    BY DEF Middle, KERNEL
  <2>3. Summed(H, W, KERNEL - 1, 0).count = 2
    BY <1>1, <2>1, <2>2
  <2> QED
    BY <1>2, <2>1, <2>3
<1>5. ASSUME H >= 2 * KERNEL, W < 2 * KERNEL, Middle(H) # {}
      PROVE  \E y \in 0 .. H - 1, x \in 0 .. W - 1 : Summed(H, W, y, x).count # 1
  <2>1. PICK y \in Middle(H) : TRUE
    BY <1>5
  <2>2. y \in 0 .. H - 1
    BY <2>1 DEF Middle, KERNEL
  <2>3. OnBorder(H, y) = 0
    BY <1>5, <2>1, <2>2, OneRange
  <2>4. KERNEL - 1 \in 0 .. W - 1 /\ OnBorder(W, KERNEL - 1) = 2
    BY <1>2, <1>5, BothBorders
  <2>5. KERNEL - 1 \notin Middle(W)
    BY DEF Middle, KERNEL
  <2>6. Summed(H, W, y, KERNEL - 1).count = 2
    BY <1>1, <2>1, <2>3, <2>4, <2>5
  <2> QED
    BY <2>2, <2>4, <2>6
<1>6. H < 2 * KERNEL \/ H >= 2 * KERNEL
  BY <1>2
<1>7. W < 2 * KERNEL \/ W >= 2 * KERNEL
  BY <1>2
<1> QED
  BY <1>3, <1>4, <1>5, <1>6, <1>7

(* zc_calc_ssim_3d_*: of a stack of fewer than forty layers every one is   *)
(* sampled, of a taller one the first of every r3 / 20.                    *)
THEOREM EveryLayer ==
    ASSUME NEW r3 \in Nat, r3 < 2 * FEW_LAYERS
    PROVE  Sampled(r3) = 0 .. r3 - 1
<1>1. (IF r3 > FEW_LAYERS THEN r3 \div FEW_LAYERS ELSE 1) = 1
  BY DEF FEW_LAYERS
<1>2. \A x \in Int : x % 1 = 0
  OBVIOUS
<1> QED
  BY <1>1, <1>2 DEF Sampled
=============================================================================
