------------------------- MODULE DerivativeMetrics --------------------------
(***************************************************************************)
(* The derivative metrics of zc/src/zc_derivativeMetrics.cpp over the      *)
(* class matrix of zc/include.  A matrix has its sizes and, per element,   *)
(* the forms of the two fields its value is made of: one form for a        *)
(* derivative, several for a norm.  Both fields are treated alike, so one  *)
(* matrix stands for the pair.  The instances for float and double are     *)
(* one template; each operator stands for both.                            *)
(***************************************************************************)
EXTENDS Fields

CONSTANT ssimSize       \* the side of a window, 7 in the code

ASSUME WindowAssumption == ssimSize \in Nat \ {0}

(* The matrix the analysis wraps around the data of s: sizes beyond the    *)
(* dimension are set to 1.                                                 *)
Wrapped(s) == SubSeq(s, 1, Dimension(s))

(* The status of every metric: dimensions above 4 and sizes below least    *)
(* are refused.                                                            *)
Accepted_OneLess(s, least) ==
    /\ Dimension(s) \in 1 .. 4
    /\ \A a \in 1 .. Dimension(s) : s[a] >= least - 1
Accepted(s, least) ==
    /\ Dimension(s) \in 1 .. 4
    /\ \A a \in 1 .. Dimension(s) : s[a] >= least

-----------------------------------------------------------------------------
(* der_1d, der_2d_dim0, ... : the central difference along a at c.         *)
der(m, c, a) == <<<<2, Flat(m, Shift(c, a, 1))>>, <<-2, Flat(m, Shift(c, a, -1))>>>>

(* m_der_*_v2: the matrix of the differences along a, two shorter on a.    *)
(* Each reads the cell and the one two further; on all but the last axis   *)
(* the place written is computed with the shorter size.                    *)
m_der(m, a) ==
    LET sizes == Shift(m, a, -2)
        Cell(i) == Coord(IF a = Len(m) THEN m ELSE sizes, i)
    IN  [sizes |-> sizes,
         forms |-> [i \in Indices(sizes) |->
                       LET j == Flat(m, Cell(i))
                       IN  <<<<2, j + 2 * Stride(m, a)>>, <<-2, j>>>>]]

(* derOr_1_norm_2: at each cell c + 1 the 2-norm of the first derivatives. *)
Norm1Forms(m, c) ==
    LET d == [a \in DOMAIN m |-> c[a] + 1] IN [a \in DOMAIN m |-> der(m, d, a)]

(* The entry (a, b) of the Hessian at d.  In four dimensions dx dt takes   *)
(* its second difference at the same place as its first.                   *)
Hessian_NotHalved(m, d, a, b) ==
    LET up == Shift(d, b, 1)
        down == Shift(d, b, -1)
    IN  <<<<2, Flat(m, Shift(up, a, 1))>>, <<-2, Flat(m, Shift(up, a, -1))>>,
          <<-2, Flat(m, Shift(down, a, 1))>>, <<2, Flat(m, Shift(down, a, -1))>>>>
Hessian(m, d, a, b) ==
    LET back == IF Len(m) = 4 /\ a = 1 /\ b = 4 THEN 1 ELSE -1
        up == Shift(d, b, 1)
        down == Shift(d, b, back)
    IN  <<<<1, Flat(m, Shift(up, a, 1))>>, <<-1, Flat(m, Shift(up, a, -1))>>,
          <<-1, Flat(m, Shift(down, a, 1))>>, <<1, Flat(m, Shift(down, a, -1))>>>>

(* derOr_2_norm_Frobenius: at each cell c + 2 the norm of the Hessian,     *)
(* which is symmetric: the entries above the diagonal stand for both.      *)
Norm2Forms(m, c) ==
    LET d == [a \in DOMAIN m |-> c[a] + 2]
    IN  [p \in Pairs(Len(m)) |-> Hessian(m, d, p[1], p[2])]

derOr_1_norm_2(m) ==
    [sizes |-> Shrink(m, 2), forms |-> [c \in Cells(Shrink(m, 2)) |-> Norm1Forms(m, c)]]
derOr_2_norm_Frobenius(m) ==
    [sizes |-> Shrink(m, 4), forms |-> [c \in Cells(Shrink(m, 4)) |-> Norm2Forms(m, c)]]

-----------------------------------------------------------------------------
(* The PSNR metrics fuse the norm and the mean: their loops visit the same *)
(* cells, and the sum is divided by n.  For the first order n takes the    *)
(* sizes of z and t as they are.                                           *)

derivativeOrder1_psnr_Metric(m) ==
    [forms |-> [c \in Cells(Shrink(m, 2)) |-> Norm1Forms(m, c)],
     n     |-> Product([a \in DOMAIN m |-> IF a <= 2 THEN m[a] - 2 ELSE m[a]])]
derivativeOrder2_psnr_Metric(m) ==
    [forms |-> [c \in Cells(Shrink(m, 4)) |-> Norm2Forms(m, c)],
     n     |-> Product(Shrink(m, 4))]

(* PSNR and maxDiff of two matrices of the same sizes go over the first n  *)
(* elements of data.                                                       *)
PSNR(matrix) == 0 .. Product(matrix.sizes) - 1
maxDiff(matrix) == 0 .. Product(matrix.sizes) - 1

(* SSIM_*_windowed: the mean over windows at every offset; the assertion   *)
(* that a window fits the matrix holds or the program aborts.              *)
WindowFits(sizes) == \A a \in DOMAIN sizes : ssimSize <= sizes[a]
Offsets_NoLast(sizes) == Cells([a \in DOMAIN sizes |-> IF sizes[a] = ssimSize THEN 1 ELSE sizes[a] - ssimSize])
Offsets(sizes) == Cells([a \in DOMAIN sizes |-> sizes[a] - ssimSize + 1])

(* SSIM_*_calcWindow: the data it reads. *)
calcWindow(sizes, offset) ==
    {Flat(sizes, c) : c \in {[a \in DOMAIN sizes |-> offset[a] + w[a]] :
                               w \in [DOMAIN sizes -> 0 .. ssimSize - 1]}}

SSIM_windowed(sizes) ==
    [windows |-> [o \in Offsets(sizes) |-> calcWindow(sizes, o)],
     n       |-> Cardinality(Offsets(sizes))]
NoWindows == [windows |-> <<>>, n |-> 0]

-----------------------------------------------------------------------------
(* sobolevNorm_s1_p2 indexes data and the matrices of the derivatives with *)
(* macros whose arguments are not parenthesised: cIdx2D(i1+1, i0, n0-2) is *)
(* (i1+1*n0-2+i0).  An axis other than the one the matrix is shorter on    *)
(* has argument i+1; the shorter axis has argument i and size n-2.         *)
MacroIndex(m, c, short) ==
    LET top == Len(m)
        Arg(a) == IF a = short THEN c[a] ELSE c[a] + 1
        from[a \in 1 .. top] ==
            IF a = top THEN Arg(a)
            ELSE (IF a + 1 = top /\ short # top THEN c[top] + 1 * m[a]
                  ELSE from[a + 1] * m[a])
                 - (IF a = short THEN 2 ELSE 0) + Arg(a)
    IN  from[1]

sobolevCells(m) == Cells(Shrink(m, 2))
sobolevNorm_s1_p2(m) ==
    [at |-> [c \in sobolevCells(m) |-> [short \in 0 .. Len(m) |-> MacroIndex(m, c, short)]],
     n  |-> Product(Shrink(m, 2))]
=============================================================================
