---------------------------- MODULE DataProperty ----------------------------
(***************************************************************************)
(* The kernels zc/src/ZC_DataProperty*.c run on the original field when    *)
(* ZC_startCmpr generates its property: the Laplacian, the length of the   *)
(* gradient, the Sobolev norms, the autocorrelation and the Fourier        *)
(* transform.  The copies for float and double are the same text; each     *)
(* operator stands for both.  What a kernel computes is a form of Fields;  *)
(* the empty form stands for memory the kernel never writes.               *)
(***************************************************************************)
EXTENDS Fields

CONSTANTS
    AUTOCORR_SIZE,  \* lags of the autocorrelation, 100 in the code
    LONG,           \* a field with more elements than this, 4096 in the code
    MOD,            \* the Fourier transform is taken in the integers modulo
    ROOT            \* MOD, where ROOT has the order LARGEST, in place of
                    \* exp(-2*PI*i/LARGEST)

LARGEST == MOD - 1
Power(b, n) ==
    LET power[k \in 0 .. n] == IF k = 0 THEN 1 ELSE (b * power[k - 1]) % MOD
    IN  power[n]

ASSUME LengthAssumption == AUTOCORR_SIZE \in Nat \ {0} /\ LONG \in Nat /\ LONG >= AUTOCORR_SIZE
ASSUME RootAssumption ==
    /\ MOD \in Nat \ {0, 1, 2} /\ ROOT \in 1 .. LARGEST
    /\ \A n \in 1 .. LARGEST : Power(ROOT, n) = 1 <=> n = LARGEST

-----------------------------------------------------------------------------
(* computeLap: the second difference along every axis, taken at the cell's *)
(* nearest cell that is not on the boundary: i = max(1, min(x, r-2)),      *)
(* where r-2 is unsigned and exceeds any x when r is 1.                    *)

LapCentre(s, c) ==
    [a \in DOMAIN s |->
        LET low == IF s[a] = 1 \/ c[a] < s[a] - 2 THEN c[a] ELSE s[a] - 2
        IN  IF low < 1 THEN 1 ELSE low]

SecondAlong(s, i, a) == <<<<4, i - Stride(s, a)>>, <<-8, i>>, <<4, i + Stride(s, a)>>>>

Concat(parts) ==
    LET upTo[n \in 0 .. Len(parts)] == IF n = 0 THEN <<>> ELSE upTo[n - 1] \o parts[n]
    IN  upTo[Len(parts)]

computeLap(s) ==
    [c \in Cells(s) |->
        IF Len(s) > 3 THEN <<>>
        ELSE LET i == Flat(s, LapCentre(s, c))
             IN  Concat([a \in 1 .. Len(s) |-> SecondAlong(s, i, a)])]

-----------------------------------------------------------------------------
(* computeGradientLength: corners, edges, sides and interior are swept one *)
(* after the other.  A sweep is the place its cells have on each axis; the *)
(* differences it takes are one-sided at an end, central inside.  In three *)
(* dimensions the edges along z have no sweep.                             *)

Sweeps(d) ==
    CASE d = 1 -> <<<<"first">>, <<"last">>, <<"inner">>>>
      [] d = 2 -> <<<<"first", "first">>, <<"last", "first">>,
                    <<"first", "last">>, <<"last", "last">>,
                    <<"inner", "first">>, <<"inner", "last">>,
                    <<"first", "inner">>, <<"last", "inner">>, <<"inner", "inner">>>>
      [] d = 3 -> <<<<"first", "first", "first">>, <<"last", "first", "first">>,
                    <<"first", "last", "first">>, <<"last", "last", "first">>,
                    <<"first", "first", "last">>, <<"last", "first", "last">>,
                    <<"first", "last", "last">>, <<"last", "last", "last">>,
                    <<"inner", "first", "first">>, <<"inner", "last", "first">>,
                    <<"first", "inner", "first">>, <<"last", "inner", "first">>,
                    <<"inner", "first", "last">>, <<"inner", "last", "last">>,
                    <<"first", "inner", "last">>, <<"last", "inner", "last">>,
                    <<"inner", "inner", "first">>, <<"inner", "inner", "last">>,
                    <<"inner", "first", "inner">>, <<"inner", "last", "inner">>,
                    <<"first", "inner", "inner">>, <<"last", "inner", "inner">>,
                    <<"inner", "inner", "inner">>>>
      [] OTHER -> <<>>

Place(r, place) == CASE place = "first" -> {0}
                     [] place = "last" -> {r - 1}
                     [] OTHER -> 1 .. r - 2
InSweep(s, sweep, c) == \A a \in DOMAIN s : c[a] \in Place(s[a], sweep[a])

FirstAlong_NotHalved(s, i, a, place) ==
    LET n == Stride(s, a)
    IN  CASE place = "first" -> <<<<4, i + n>>, <<-4, i>>>>
          [] place = "last"  -> <<<<4, i>>, <<-4, i - n>>>>
          [] OTHER           -> <<<<4, i + n>>, <<-4, i - n>>>>
FirstAlong(s, i, a, place) ==
    LET n == Stride(s, a)
    IN  CASE place = "first" -> <<<<4, i + n>>, <<-4, i>>>>
          [] place = "last"  -> <<<<4, i>>, <<-4, i - n>>>>
          [] OTHER           -> <<<<2, i + n>>, <<-2, i - n>>>>

(* The cell whose differences a sweep writes to c.  The sweep over the     *)
(* edge with y = 0 in the last layer computes index and assigns to         *)
(* gradMag[i], the same place in the first layer.                          *)
Misplaced(sweep) == sweep = <<"inner", "first", "last">>
Source(s, sweep, c) == IF Misplaced(sweep) THEN [c EXCEPT ![3] = s[3] - 1] ELSE c
Writes(s, sweep, c) ==
    /\ InSweep(s, sweep, Source(s, sweep, c))
    /\ Misplaced(sweep) => c[3] = 0

(* For each cell the forms whose squares are summed under the root, as the *)
(* last sweep that writes it leaves them; none where memset's zero stays.  *)
(* In one dimension the difference is stored with its sign.                *)
computeGradientLength(s) ==
    LET sweeps == Sweeps(Len(s))
    IN  [c \in Cells(s) |->
            LET writers == {n \in DOMAIN sweeps : Writes(s, sweeps[n], c)}
                last == CHOOSE n \in writers : \A m \in writers : m <= n
                i == Flat(s, Source(s, sweeps[last], c))
            IN  IF writers = {} THEN <<>>
                ELSE [a \in 1 .. Len(s) |-> FirstAlong(s, i, a, sweeps[last][a])]]

-----------------------------------------------------------------------------
(* The Sobolev norms sum the squares of the forms at each cell that is not *)
(* on the boundary and divide by their number.  calculateSobolevNorm_p2    *)
(* passes 0 for r5: they see the first r1*r2*r3*r4 elements.               *)

Seen(s) == SubSeq(s, 1, IF Len(s) < 4 THEN Len(s) ELSE 4)

calculateSobolevNorm_s0(s) ==
    [forms |-> [c \in Cells(Seen(s)) |-> <<Value(Flat(Seen(s), c))>>],
     n     |-> Length(Seen(s))]

(* The cells the loops of s1 and s2 visit; more than three dimensions are  *)
(* not supported and give -1.                                              *)
Visited_ToEnd(s) ==
    {c \in Cells(SubSeq(s, 1, Dimension(Seen(s)))) :
        \A a \in DOMAIN c : c[a] \in 1 .. s[a] - 1}
Visited(s) ==
    {c \in Cells(SubSeq(s, 1, Dimension(Seen(s)))) :
        \A a \in DOMAIN c : c[a] \in 1 .. s[a] - 2}
Supported(s) == Dimension(Seen(s)) <= 3

Mixed(s, i, a, b) ==
    LET m == Stride(s, a)  n == Stride(s, b)
    IN  <<<<1, i - n - m>>, <<1, i + n + m>>, <<-1, i - n + m>>, <<-1, i + n - m>>>>

s1_forms(s, c) ==
    LET i == Flat(SubSeq(s, 1, Len(c)), c)
    IN  <<Value(i)>> \o [a \in DOMAIN c |-> FirstAlong(s, i, a, "inner")]

s2_forms(s, c) ==
    LET i == Flat(SubSeq(s, 1, Len(c)), c)
    IN  s1_forms(s, c) \o [a \in DOMAIN c |-> SecondAlong(s, i, a)]
        \o CASE Len(c) = 1 -> <<>>
             [] Len(c) = 2 -> <<Mixed(s, i, 1, 2)>>
             [] OTHER -> <<Mixed(s, i, 1, 2), Mixed(s, i, 2, 3), Mixed(s, i, 1, 3)>>

Unsupported == [forms |-> <<>>, n |-> -1]

calculateSobolevNorm_s1(s) ==
    IF ~ Supported(s) THEN Unsupported
    ELSE [forms |-> [c \in Visited(s) |-> s1_forms(s, c)], n |-> Cardinality(Visited(s))]
calculateSobolevNorm_s2(s) ==
    IF ~ Supported(s) THEN Unsupported
    ELSE [forms |-> [c \in Visited(s) |-> s2_forms(s, c)], n |-> Cardinality(Visited(s))]

-----------------------------------------------------------------------------
(* ZC_compute_autocorrelation1D: what each lag holds.  steady is the least *)
(* lag at which one of the two windows of the field is constant, 0 when    *)
(* the field is.  In a short field the loop over lags that meets constant  *)
(* windows sets every lag to 1 and, its index being the same, ends there.  *)

OverLags(x) == [lag \in 1 .. AUTOCORR_SIZE |-> x]

autocorrelation(s, steady) ==
    CASE Length(s) > LONG -> OverLags(IF steady = 0 THEN "zero" ELSE "own")
      [] OTHER -> OverLags(IF steady <= AUTOCORR_SIZE THEN "one" ELSE "own")

(* The windows of a short field at a lag above its length start outside it; *)
(* the loop comes to such a lag only when a single element gave it no       *)
(* windows, and so no constant ones, at lag 1.                              *)
LagOverrun(s) == Length(s) = 1 /\ AUTOCORR_SIZE > 1

(* The lags from which a field that is not long may be steady: the windows *)
(* of its last lag have one element.                                       *)
SteadyLags(s) ==
    0 .. IF Length(s) > LONG \/ Length(s) > AUTOCORR_SIZE + 1
         THEN AUTOCORR_SIZE + 1 ELSE Length(s) - 1

-----------------------------------------------------------------------------
(* fft(v, n, tmp) in memory: v and tmp are addresses, and the two recursive *)
(* calls transform the halves of tmp in place with v as their scratch.      *)

(* exp(-2*PI*i*m/n) *)
Root_Doubled(n, m) == Power(ROOT, (LARGEST \div n) * 2 * m)
Root(n, m) == Power(ROOT, (LARGEST \div n) * m)

RECURSIVE fft(_, _, _, _)
fft(mem, v, n, tmp) ==
    IF n <= 1 THEN mem
    ELSE LET h == n \div 2
             ve == tmp
             vo == tmp + h
             split == [a \in DOMAIN mem |->
                         IF a \in ve .. ve + h - 1 THEN mem[v + 2 * (a - ve)]
                         ELSE IF a \in vo .. vo + h - 1 THEN mem[v + 2 * (a - vo) + 1]
                         ELSE mem[a]]
             even == fft(split, ve, h, v)
             done == fft(even, vo, h, v)
             z(m) == Root(n, m) * done[vo + m]
         IN  [a \in DOMAIN mem |->
                IF a \in v .. v + h - 1 THEN (done[ve + a - v] + z(a - v)) % MOD
                ELSE IF a \in v + h .. v + n - 1
                THEN (done[ve + a - v - h] - z(a - v - h)) % MOD
                ELSE done[a]]

(* pow(2, (int)log2(numOfElem)) *)
fft_size(s) ==
    CHOOSE n \in {2 ^ k : k \in 0 .. 20} : n <= Length(s) /\ Length(s) < 2 * n

(* The coefficients of the field whose only nonzero element is a 1 at p,   *)
(* computed in fftCoeff at 0 with scratch at n.                            *)
ZC_computeFFT(s, p) ==
    LET n == fft_size(s)
        mem == fft([a \in 0 .. 2 * n - 1 |-> IF a = p THEN 1 ELSE 0], 0, n, n)
    IN  [k \in 0 .. n - 1 |-> mem[k]]
=============================================================================
