------------------------------- MODULE Fields -------------------------------
(***************************************************************************)
(* The fields Z-checker assesses and the differences its metrics take on   *)
(* them.  A field is an array of data of sizes r1, ..., r5, r1 fastest; a  *)
(* size that is not used is 0 in the code and absent here, so a shape is   *)
(* the sequence of the sizes that are used.                                *)
(*                                                                         *)
(* What a kernel computes from the data is kept as the linear form it      *)
(* takes: a sequence of terms <<weight, index>>, the weights in quarters   *)
(* so that a value is <<4, i>> and (d[i+1] - d[i-1])/2 is <<2, i+1>>,      *)
(* <<-2, i-1>>.  A form is judged by what it gives on polynomials of the   *)
(* coordinates: a first difference is exact on the linear ones, a second   *)
(* one on the quadratic ones, whatever index arithmetic built it.          *)
(***************************************************************************)
EXTENDS Integers, Sequences, FiniteSets

Product(s) ==
    LET product[n \in 0 .. Len(s)] == IF n = 0 THEN 1 ELSE s[n] * product[n - 1]
    IN  product[Len(s)]

(* ZC_computeDataLength *)
Length(s) == Product(s)

Stride(s, a) == Product(SubSeq(s, 1, a - 1))

(* The index c1 + r1*(c2 + r2*(c3 + ...)), and its coordinates. *)
Flat(s, c) ==
    LET from[a \in 1 .. Len(s)] ==
            c[a] + (IF a = Len(s) THEN 0 ELSE s[a] * from[a + 1])
    IN  from[1]
Coord(s, i) == [a \in 1 .. Len(s) |-> (i \div Stride(s, a)) % s[a]]

Indices(s) == 0 .. Length(s) - 1
Cells(s) == {Coord(s, i) : i \in Indices(s)}

(* ZC_computeDimension: trailing and inner sizes of 1 do not count. *)
Dimension(s) ==
    LET ones == Cardinality({a \in 1 .. Len(s) : s[a] = 1})
        AtLeast(m, n) == IF n < m THEN m ELSE n
    IN  CASE Len(s) = 1 -> 1
          [] Len(s) = 2 -> IF s[2] = 1 THEN 1 ELSE 2
          [] Len(s) = 3 -> AtLeast(1, 3 - ones)
          [] Len(s) = 4 -> IF s[2] = 1 /\ s[3] = 1 /\ s[4] = 1 THEN 1
                           ELSE AtLeast(2, 4 - ones)
          [] OTHER -> 5

(* No size of 1 stands before a longer one: the first Dimension(s) sizes   *)
(* hold all the data.                                                      *)
Compact(s) == Length(SubSeq(s, 1, Dimension(s))) = Length(s)

Shift(c, a, n) == [c EXCEPT ![a] = @ + n]
Shrink(s, n) == [a \in DOMAIN s |-> s[a] - n]

-----------------------------------------------------------------------------
(* Reference: what a form is worth.                                        *)

Value(i) == <<<<4, i>>>>

Reads(f) == {f[n][2] : n \in DOMAIN f}
InBounds(s, f) == Reads(f) \subseteq Indices(s)

(* All data read lie within k cells of c in every coordinate. *)
Near(s, f, c, k) ==
    \A i \in Reads(f) : LET d == Coord(s, i)
                        IN  \A a \in DOMAIN s : d[a] - c[a] \in -k .. k

Total(terms) ==
    LET total[n \in 0 .. Len(terms)] == IF n = 0 THEN 0 ELSE terms[n] + total[n - 1]
    IN  total[Len(terms)]

(* The form on the polynomials 1, x_a and x_a * x_b. *)
On1(f) == Total([n \in DOMAIN f |-> f[n][1]])
OnX(s, f, a) == Total([n \in DOMAIN f |-> f[n][1] * Coord(s, f[n][2])[a]])
OnXX(s, f, a, b) ==
    Total([n \in DOMAIN f |->
              LET d == Coord(s, f[n][2]) IN f[n][1] * d[a] * d[b]])

(* f is the derivative along a: it gives 4, one, on x_a and 0 on the rest. *)
IsFirst(s, f, a) ==
    /\ InBounds(s, f)
    /\ On1(f) = 0
    /\ \A b \in DOMAIN s : OnX(s, f, b) = IF b = a THEN 4 ELSE 0

(* f is the sum over the pairs P of the second derivatives along them. *)
IsSecond(s, f, P) ==
    /\ InBounds(s, f)
    /\ On1(f) = 0
    /\ \A a \in DOMAIN s : OnX(s, f, a) = 0
    /\ \A a, b \in DOMAIN s :
          a <= b => OnXX(s, f, a, b) = IF <<a, b>> \notin P THEN 0
                                       ELSE IF a = b THEN 8 ELSE 4

(* The pairs of axes a Hessian has once each. *)
Pairs(n) == {p \in (1 .. n) \X (1 .. n) : p[1] <= p[2]}
=============================================================================
