------------------------------- MODULE Metrics ------------------------------
(***************************************************************************)
(* One offline assessment of a compressor on a field: ZC_startCmpr has     *)
(* ZC_genProperties compute what is asked of the original field, then      *)
(* ZC_endDec has ZC_compareData compare the decompressed field with it.    *)
(* Each kernel is an action, under its flag of the configuration and in    *)
(* the order the two functions call them; the functions for float and      *)
(* double are copies, and differ in one call.                              *)
(*                                                                         *)
(* property and compareResult hold what each kernel stored, by its name;   *)
(* a name that is not in their domain still has memset's zeros.  A kernel  *)
(* that reads outside the data, or fails an assertion, ends the program.   *)
(***************************************************************************)
EXTENDS DataProperty, DerivativeMetrics, ImageSSIM, TLC

CONSTANTS Cases     \* what is assessed: records of a shape and a set of flags

Flags == {"autocorr", "fft", "lap", "gradLen", "sobolev_s0", "sobolev_s1", "sobolev_s2",
          "ssimImage2D", "sep_maxDiff", "sep_psnr", "sep_ssim", "order1_psnr",
          "order2_psnr", "order1_ssim", "order2_ssim", "order1_sobolev"}

ASSUME CasesAssumption ==
    \A x \in Cases : /\ x.flags \subseteq Flags
                     /\ x.shape \in Seq(Nat \ {0}) /\ Len(x.shape) \in 1 .. 5

VARIABLES
    shape, flags,
    dataType,       \* "float" or "double"
    pc,             \* the kernel that is next, "done" or "stopped"
    property, compareResult,
    fault           \* "none", "overrun" or "abort"

vars == <<shape, flags, dataType, pc, property, compareResult, fault>>

Init ==
    /\ \E x \in Cases : shape = x.shape /\ flags = x.flags
    /\ dataType \in {"float", "double"}
    /\ pc = "autocorr"
    /\ property = <<>> /\ compareResult = <<>>
    /\ fault = "none"

Stop(why) ==
    /\ fault' = why /\ pc' = "stopped"
    /\ UNCHANGED <<shape, flags, dataType, property, compareResult>>
Go(next) == pc' = next /\ UNCHANGED <<shape, flags, dataType, fault>>
Skip(next) == Go(next) /\ UNCHANGED <<property, compareResult>>
Describe(name, value, next) ==
    /\ property' = (name :> value) @@ property
    /\ Go(next) /\ UNCHANGED compareResult
Store(name, value, next) ==
    /\ compareResult' = (name :> value) @@ compareResult
    /\ Go(next) /\ UNCHANGED property

Overruns(forms) == \E f \in forms : ~ InBounds(shape, f)
Values(f) == {f[x] : x \in DOMAIN f}
AllForms(norms) == UNION {Values(norms[c]) : c \in DOMAIN norms}

-----------------------------------------------------------------------------
(* ZC_genProperties_float and ZC_genProperties_double *)

Autocorrelation ==
    /\ pc = "autocorr"
    /\ IF "autocorr" \notin flags THEN Skip("fft")
       ELSE IF LagOverrun(shape) THEN Stop("overrun")
       ELSE \E steady \in SteadyLags(shape) :
               Describe("autocorr", [steady |-> steady, lags |-> autocorrelation(shape, steady)], "fft")

FFT ==
    /\ pc = "fft"
    /\ IF "fft" \notin flags THEN Skip("lap")
       ELSE \E p \in 0 .. fft_size(shape) - 1 :
               Describe("fft", [at |-> p, coeff |-> ZC_computeFFT(shape, p)], "lap")

Laplacian ==
    /\ pc = "lap"
    /\ IF "lap" \notin flags THEN Skip("gradLen")
       ELSE LET lap == computeLap(shape)
            IN  IF Overruns(Values(lap)) THEN Stop("overrun")
                ELSE Describe("lap", lap, "gradLen")

Gradient ==
    /\ pc = "gradLen"
    /\ IF "gradLen" \notin flags THEN Skip("sobolev_s0")
       ELSE LET grad == computeGradientLength(shape)
            IN  IF Overruns(AllForms(grad)) THEN Stop("overrun")
                ELSE Describe("gradLen", grad, "sobolev_s0")

SobolevS0 ==
    /\ pc = "sobolev_s0"
    /\ IF pc \notin flags THEN Skip("sobolev_s1")
       ELSE Describe(pc, calculateSobolevNorm_s0(shape), "sobolev_s1")

SobolevS1 ==
    /\ pc = "sobolev_s1"
    /\ IF pc \notin flags THEN Skip("sobolev_s2")
       ELSE Describe(pc, calculateSobolevNorm_s1(shape), "sobolev_s2")

SobolevS2 ==
    /\ pc = "sobolev_s2"
    /\ IF pc \notin flags THEN Skip("ssimImage2D")
       ELSE Describe(pc, calculateSobolevNorm_s2(shape), "ssimImage2D")

(* The Fourier transform and the Laplacian are one function for both       *)
(* types, the others have a copy for each.                                 *)
autocorrelation1D_float == dataType = "float" /\ Autocorrelation
autocorrelation1D_double == dataType = "double" /\ Autocorrelation
computeGradientLength_float == dataType = "float" /\ Gradient
computeGradientLength_double == dataType = "double" /\ Gradient
calculateSobolevNorm_s0_p2_float == dataType = "float" /\ SobolevS0
calculateSobolevNorm_s0_p2_double == dataType = "double" /\ SobolevS0
calculateSobolevNorm_s1_p2_float == dataType = "float" /\ SobolevS1
calculateSobolevNorm_s1_p2_double == dataType = "double" /\ SobolevS1
calculateSobolevNorm_s2_p2_float == dataType = "float" /\ SobolevS2
calculateSobolevNorm_s2_p2_double == dataType = "double" /\ SobolevS2

ZC_genProperties_float ==
    \/ autocorrelation1D_float
    \/ dataType = "float" /\ (FFT \/ Laplacian)
    \/ computeGradientLength_float
    \/ calculateSobolevNorm_s0_p2_float
    \/ calculateSobolevNorm_s1_p2_float
    \/ calculateSobolevNorm_s2_p2_float
ZC_genProperties_double ==
    \/ autocorrelation1D_double
    \/ dataType = "double" /\ (FFT \/ Laplacian)
    \/ computeGradientLength_double
    \/ calculateSobolevNorm_s0_p2_double
    \/ calculateSobolevNorm_s1_p2_double
    \/ calculateSobolevNorm_s2_p2_double

-----------------------------------------------------------------------------
(* ZC_compareData_float and ZC_compareData_double *)

(* The layers of r1*r2 elements the call for the dimension hands over; a   *)
(* field of one dimension has no image and gets 0, -1 and -2.              *)
Layers(s) ==
    CASE Dimension(s) = 2 -> 1
      [] Dimension(s) = 3 -> s[3]
      [] Dimension(s) = 4 -> s[3] * s[4]
      [] OTHER -> s[3] * s[4] * s[5]

NoImage ==
    /\ pc = "ssimImage2D"
    /\ IF pc \notin flags THEN Skip("separate")
       ELSE /\ Dimension(shape) = 1
            /\ Store(pc, [layers |-> {}, counter |-> -1], "separate")

Image ==
    /\ pc = "ssimImage2D" /\ pc \in flags /\ Dimension(shape) = 2
    /\ LET W == shape[1]  H == shape[2]
       IN  IF ImageOverrun(H, W) THEN Stop("overrun")
           ELSE Store(pc, [layers |-> {0}, image |-> zc_calc_ssim_2d(H, W),
                           counter |-> 1, constant |-> {}], "separate")

Stack ==
    /\ pc = "ssimImage2D" /\ pc \in flags /\ Dimension(shape) > 2
    /\ LET W == shape[1]  H == shape[2]  r3 == Layers(shape)
       IN  \E constant \in {{}, {0}, 0 .. r3 - 1} :
              IF ImageOverrun(H, W) /\ Sampled(r3) \ constant # {} THEN Stop("overrun")
              ELSE Store(pc, zc_calc_ssim_3d(r3, H, W, constant) @@ [constant |-> constant],
                         "separate")

zc_calc_ssim_2d_float == dataType = "float" /\ Image
zc_calc_ssim_2d_double == dataType = "double" /\ Image
zc_calc_ssim_3d_float == dataType = "float" /\ Stack
zc_calc_ssim_3d_double == dataType = "double" /\ Stack

(* zc_analyze_der_order1: maximum, PSNR and SSIM of the derivative along   *)
(* each axis, in a field of compareResult for each metric and axis.  Only  *)
(* the flag of the maximum asks for sizes that a window fits.              *)
SepMetrics == {"sep_maxDiff", "sep_psnr", "sep_ssim"} \cap flags
minDim == IF "sep_maxDiff" \in flags THEN 2 + ssimSize ELSE 3

(* What the metrics make of the derivative along an axis: the maximum and  *)
(* PSNR go over all of it, the windows of SSIM must fit.                   *)
Assessed(d) ==
    [derivative |-> d,
     over   |-> IF "sep_psnr" \in flags THEN PSNR(d) ELSE maxDiff(d),
     image  |-> IF "sep_ssim" \in flags THEN SSIM_windowed(d.sizes) ELSE NoWindows]

(* field[metric][f] is the parameter that is given the address of the   *)
(* field of axis f; parameters of axes the field does not have are set 0.  *)
AxisFields(field, dim) ==
    [metric \in SepMetrics |->
        [f \in 1 .. 4 |-> IF field[metric][f] <= dim THEN field[metric][f] ELSE 0]]

Analyze(field) ==
    LET dim == Dimension(shape)
        d == [a \in 1 .. dim |-> m_der(Wrapped(shape), a)]
    IN  IF SepMetrics = {} \/ ~ Accepted(shape, minDim) THEN Skip("order1_psnr")
        ELSE IF "sep_ssim" \in flags /\ \E a \in 1 .. dim : ~ WindowFits(d[a].sizes)
        THEN Stop("abort")
        ELSE Store(pc, [along  |-> [a \in 1 .. dim |-> Assessed(d[a])],
                        fields |-> AxisFields(field, dim)],
                   "order1_psnr")

OwnField == [metric \in SepMetrics |-> [f \in 1 .. 4 |-> f]]
(* The call for double gives psnrDt where psnrDz is expected, and the      *)
(* other way round.                                                        *)
PassedField ==
    [metric \in SepMetrics |->
        [f \in 1 .. 4 |-> IF metric = "sep_psnr" /\ f > 2 THEN 7 - f ELSE f]]

zc_analyze_der_order1_float ==
    pc = "separate" /\ dataType = "float" /\ Analyze(OwnField)
zc_analyze_der_order1_double ==
    pc = "separate" /\ dataType = "double" /\ Analyze(PassedField)

(* The metrics of one number: -1 when the sizes are refused. *)
Refused == [valid |-> FALSE]
Metric(name, least, value, fits, next) ==
    /\ pc = name
    /\ IF name \notin flags THEN Skip(next)
       ELSE IF ~ Accepted(shape, least) THEN Store(name, Refused, next)
       ELSE IF ~ fits THEN Stop("abort")
       ELSE Store(name, [valid |-> TRUE] @@ value, next)

M == Wrapped(shape)
Order1Psnr ==
    Metric("order1_psnr", 3, derivativeOrder1_psnr_Metric(M), TRUE, "order2_psnr")
Order2Psnr ==
    Metric("order2_psnr", 5, derivativeOrder2_psnr_Metric(M), TRUE, "order1_ssim")
Order1Ssim ==
    LET norm == derOr_1_norm_2(M)
    IN  Metric("order1_ssim", 9, norm @@ SSIM_windowed(norm.sizes),
               WindowFits(norm.sizes), "order2_ssim")
Order2Ssim ==
    LET norm == derOr_2_norm_Frobenius(M)
    IN  Metric("order2_ssim", 11, norm @@ SSIM_windowed(norm.sizes),
               WindowFits(norm.sizes), "order1_sobolev")
Order1Sobolev ==
    Metric("order1_sobolev", 9, sobolevNorm_s1_p2(M), TRUE, "done")

zc_calc_metric_der_order1_psnr_float == dataType = "float" /\ Order1Psnr
zc_calc_metric_der_order2_psnr_float == dataType = "float" /\ Order2Psnr
zc_calc_metric_der_order1_ssim_float == dataType = "float" /\ Order1Ssim
zc_calc_metric_der_order2_ssim_float == dataType = "float" /\ Order2Ssim
zc_calc_metric_der_order1_sobolev_p2_float == dataType = "float" /\ Order1Sobolev
zc_calc_metric_der_order1_psnr_double == dataType = "double" /\ Order1Psnr
zc_calc_metric_der_order2_psnr_double == dataType = "double" /\ Order2Psnr
zc_calc_metric_der_order1_ssim_double == dataType = "double" /\ Order1Ssim
zc_calc_metric_der_order2_ssim_double == dataType = "double" /\ Order2Ssim
zc_calc_metric_der_order1_sobolev_p2_double == dataType = "double" /\ Order1Sobolev

ZC_compareData_float ==
    \/ dataType = "float" /\ NoImage
    \/ zc_calc_ssim_2d_float \/ zc_calc_ssim_3d_float
    \/ zc_analyze_der_order1_float
    \/ zc_calc_metric_der_order1_psnr_float \/ zc_calc_metric_der_order2_psnr_float
    \/ zc_calc_metric_der_order1_ssim_float \/ zc_calc_metric_der_order2_ssim_float
    \/ zc_calc_metric_der_order1_sobolev_p2_float
ZC_compareData_double ==
    \/ dataType = "double" /\ NoImage
    \/ zc_calc_ssim_2d_double \/ zc_calc_ssim_3d_double
    \/ zc_analyze_der_order1_double
    \/ zc_calc_metric_der_order1_psnr_double \/ zc_calc_metric_der_order2_psnr_double
    \/ zc_calc_metric_der_order1_ssim_double \/ zc_calc_metric_der_order2_ssim_double
    \/ zc_calc_metric_der_order1_sobolev_p2_double

Next ==
    \/ ZC_genProperties_float \/ ZC_genProperties_double
    \/ ZC_compareData_float \/ ZC_compareData_double

Spec == Init /\ [][Next]_vars

-----------------------------------------------------------------------------
(* The properties are judged once an assessment has ended.                 *)
Ended == pc \in {"done", "stopped"}
Stored(name) == Ended /\ name \in DOMAIN compareResult
Generated(name) == Ended /\ name \in DOMAIN property
Given(name) == Stored(name) /\ compareResult[name].valid

(* No kernel reads outside the data or fails its assertion unless the      *)
(* field is smaller than the kernel's own stencil: the checks of the       *)
(* sizes before the windowed metrics let no window through that does not   *)
(* fit its matrix, but for separate SSIM, whose check looks at the flag of *)
(* the maximum.                                                            *)
Confined ==
    /\ fault = "overrun" =>
         \/ "autocorr" \in flags /\ Length(shape) = 1
         \/ "lap" \in flags /\ \E a \in DOMAIN shape : shape[a] < 3
         \/ "gradLen" \in flags /\ \E a \in DOMAIN shape : shape[a] < 2
         \/ "ssimImage2D" \in flags /\ (shape[1] < 3 \/ shape[2] < 3)
    /\ fault = "abort" =>
         /\ "sep_ssim" \in flags /\ "sep_maxDiff" \notin flags
         /\ ~ Accepted(shape, 2 + ssimSize)

(* What is drawn as the Laplacian and the length of the gradient is that:  *)
(* at every cell the sum of the second derivatives, and one exact first    *)
(* derivative per axis, from data near the cell, on fields of sizes 3 and  *)
(* more.  Of the gradient the four edges along z and the edge that a sweep *)
(* writes for another are not right, and above three dimensions nothing is *)
(* computed.                                                               *)
AtLeast(n) == Len(shape) <= 3 /\ \A a \in DOMAIN shape : shape[a] >= n
EdgeAlongZ(c) == Len(c) = 3 /\ c[1] \in {0, shape[1] - 1} /\ c[2] \in {0, shape[2] - 1}
                 /\ c[3] \in 1 .. shape[3] - 2
FrontEdge(c) == Len(c) = 3 /\ c[1] \in 1 .. shape[1] - 2 /\ c[2] = 0
                /\ c[3] \in {0, shape[3] - 1}

StencilsExact ==
    /\ Generated("lap") /\ AtLeast(3) =>
         \A c \in Cells(shape) :
            /\ IsSecond(shape, property["lap"][c], {<<a, a>> : a \in DOMAIN shape})
            /\ Near(shape, property["lap"][c], c, 2)
    /\ Generated("gradLen") /\ AtLeast(2) =>
         \A c \in Cells(shape) :
            EdgeAlongZ(c) \/ FrontEdge(c)
            \/ /\ DOMAIN property["gradLen"][c] = DOMAIN shape
               /\ \A a \in DOMAIN shape :
                     /\ IsFirst(shape, property["gradLen"][c][a], a)
                     /\ Near(shape, property["gradLen"][c][a], c, 1)

(* The Sobolev norms take, at every cell that has all its neighbours and   *)
(* at no other, the value once, each first derivative once and each second *)
(* derivative once, mixed ones included, and divide by the number of these *)
(* cells.  The norm of order 0 takes every element, but of a field of five *)
(* dimensions only the first r1*r2*r3*r4.                                  *)
InnerCells(s) == {c \in Cells(s) : \A a \in DOMAIN s : c[a] \in 1 .. s[a] - 2}

SobolevExact ==
    LET s == Wrapped(shape)
        d == Len(s)
        Takes(forms, c, orders) ==
            /\ Len(forms) = 1 + d + (IF 2 \in orders THEN Cardinality(Pairs(d)) ELSE 0)
            /\ \E n \in DOMAIN forms : forms[n] = Value(Flat(s, c))
            /\ \A a \in 1 .. d : \E n \in DOMAIN forms : IsFirst(s, forms[n], a)
            /\ 2 \in orders =>
                 \A p \in Pairs(d) : \E n \in DOMAIN forms : IsSecond(s, forms[n], {p})
            /\ \A n \in DOMAIN forms : Near(s, forms[n], c, 1)
        Exact(norm, orders) ==
            /\ DOMAIN norm.forms = InnerCells(s)
            /\ norm.n = Cardinality(InnerCells(s))
            /\ \A c \in InnerCells(s) : Takes(norm.forms[c], c, orders)
    IN  /\ Generated("sobolev_s0") /\ Len(shape) <= 4 =>
             LET s0 == property["sobolev_s0"]
             IN  /\ s0.n = Length(shape)
                 /\ {s0.forms[c][1] : c \in DOMAIN s0.forms} = {Value(i) : i \in Indices(shape)}
        /\ d <= 3 /\ Compact(shape) =>
             /\ Generated("sobolev_s1") => Exact(property["sobolev_s1"], {1})
             /\ Generated("sobolev_s2") => Exact(property["sobolev_s2"], {1, 2})

(* The Fourier transform, which swaps its two buffers at every level, is   *)
(* the transform of the first fft_size elements; and a lag of the          *)
(* autocorrelation is its own coefficient unless every lag says 1 because  *)
(* some lag has constant windows, as it has in every field of at most      *)
(* AUTOCORR_SIZE elements.                                                 *)
TransformsExact ==
    /\ Generated("fft") =>
         LET n == fft_size(shape)  p == property["fft"].at
         IN  \A k \in 0 .. n - 1 :
                property["fft"].coeff[k] = Power(ROOT, (LARGEST \div n) * ((p * k) % n))
    /\ Generated("autocorr") =>
         LET r == property["autocorr"]
         IN  /\ Length(shape) > LONG => \A l \in DOMAIN r.lags : r.lags[l] # "one"
             /\ Length(shape) <= AUTOCORR_SIZE => \A l \in DOMAIN r.lags : r.lags[l] = "one"
             /\ r.steady > AUTOCORR_SIZE => \A l \in DOMAIN r.lags : r.lags[l] = "own"

(* Every pixel of every sampled layer that is not constant has its window  *)
(* summed once, which reads its neighbourhood as far as there is image and *)
(* nothing else, and the sum is divided by the number of pixels; every     *)
(* layer is sampled of at most 20, and of more than 20 at least 20 are.    *)
(* Images of less than 6 rows or columns count pixels twice, and sizes of  *)
(* 1 before a longer one hide layers.                                      *)
ImagesExact ==
    Stored("ssimImage2D") /\ Dimension(shape) > 1 /\ Compact(shape)
    /\ shape[1] >= 2 * KERNEL /\ shape[2] >= 2 * KERNEL =>
        LET r == compareResult["ssimImage2D"]
            stack == IF Dimension(shape) = 2 THEN 1
                     ELSE Length(shape) \div (shape[1] * shape[2])
            constant == r.constant
            pixels == (0 .. shape[2] - 1) \X (0 .. shape[1] - 1)
        IN  /\ \A p \in pixels :
                  LET window == r.image.summed[p]
                  IN  /\ window.count = 1
                      /\ window.reads = {q \in pixels : q[1] - p[1] \in -KERNEL .. KERNEL
                                                       /\ q[2] - p[2] \in -KERNEL .. KERNEL}
            /\ r.image.n = shape[1] * shape[2]
            /\ r.counter = Cardinality(r.layers)
            /\ r.layers \cap constant = {}
            /\ stack <= FEW_LAYERS => r.layers = (0 .. stack - 1) \ constant
            /\ stack > FEW_LAYERS => Cardinality(r.layers \cup constant) >= FEW_LAYERS

(* Each element of the matrix of axis a is the derivative along a of the   *)
(* cell it stands for, PSNR and maximum go over all of them, the windows   *)
(* cover all of them and stay inside; and each metric's field of an axis   *)
(* is the metric of that axis, 0 for an axis there is not.  For double     *)
(* data the PSNR of z and t are excepted: they change places.              *)
WindowsCover(sizes, w) ==
    /\ w.n = Cardinality(DOMAIN w.windows)
    /\ UNION Values(w.windows) = Indices(sizes)
    /\ \A o \in DOMAIN w.windows :
          LET cells == {Coord(sizes, i) : i \in w.windows[o]}
          IN  /\ Cardinality(cells) = Product([a \in DOMAIN sizes |-> ssimSize])
              /\ \A c \in cells : \A a \in DOMAIN sizes : c[a] - o[a] \in 0 .. ssimSize - 1

FieldOwn(metric, f) ==
    compareResult["separate"].fields[metric][f] = IF f <= Dimension(shape) THEN f ELSE 0

SeparateExact ==
    Stored("separate") =>
        LET r == compareResult["separate"]  m == Wrapped(shape)
        IN  /\ \A a \in DOMAIN m :
                  LET d == r.along[a].derivative
                  IN  /\ DOMAIN d.forms = Indices(d.sizes)
                      /\ \A i \in DOMAIN d.forms :
                            /\ IsFirst(m, d.forms[i], a)
                            /\ Near(m, d.forms[i], Shift(Coord(d.sizes, i), a, 1), 1)
                      /\ r.along[a].over = DOMAIN d.forms
                      /\ "sep_ssim" \in flags => WindowsCover(d.sizes, r.along[a].image)
            /\ \A metric \in DOMAIN r.fields, f \in 1 .. 4 :
                  \/ dataType = "double" /\ metric = "sep_psnr" /\ f > 2
                  \/ FieldOwn(metric, f)

(* The Sobolev norm of the difference reads within the data and within the *)
(* three or more matrices of derivatives whatever its macros make of the   *)
(* indices, visits a cell for each inner one, and on a field of one        *)
(* dimension takes value and derivative of the same cell.                  *)
SobolevConfined ==
    Given("order1_sobolev") =>
        LET m == Wrapped(shape)  r == compareResult["order1_sobolev"]
        IN  /\ r.n = Cardinality(DOMAIN r.at)
            /\ \A c \in DOMAIN r.at :
                  /\ r.at[c][0] \in Indices(m)
                  /\ \A a \in DOMAIN m : r.at[c][a] \in Indices(Shift(m, a, -2))
            /\ Len(m) = 1 => \A c \in DOMAIN r.at :
                  r.at[c][0] = c[1] + 1 /\ r.at[c][1] = c[1]

-----------------------------------------------------------------------------
(* The metrics of order 1 and 2 compare, at every cell that has the data   *)
(* around it, all first derivatives, and all second ones, of the two       *)
(* fields; the mean is over these cells, the windows cover them.  Excepted *)
(* are the divisor of the PSNR of order 1 above two dimensions and, in     *)
(* four, the derivative in x and t.                                        *)
NormsExact ==
    LET m == Wrapped(shape)
        Lies(c, n) == [a \in DOMAIN m |-> c[a] + n]
        First(r) ==
            /\ DOMAIN r.forms = Cells(Shrink(m, 2))
            /\ \A c \in DOMAIN r.forms : \A a \in DOMAIN m :
                  IsFirst(m, r.forms[c][a], a) /\ Near(m, r.forms[c][a], Lies(c, 1), 1)
        Second(r) ==
            /\ DOMAIN r.forms = Cells(Shrink(m, 4))
            /\ \A c \in DOMAIN r.forms : \A p \in Pairs(Len(m)) :
                  \/ p = <<1, 4>>
                  \/ /\ IsSecond(m, r.forms[c][p], {p})
                     /\ Near(m, r.forms[c][p], Lies(c, 2), IF p[1] = p[2] THEN 2 ELSE 1)
    IN  /\ Given("order1_psnr") =>
             /\ First(compareResult["order1_psnr"])
             /\ Len(m) <= 2 => compareResult["order1_psnr"].n = Cardinality(Cells(Shrink(m, 2)))
        /\ Given("order2_psnr") =>
             /\ Second(compareResult["order2_psnr"])
             /\ compareResult["order2_psnr"].n = Cardinality(Cells(Shrink(m, 4)))
        /\ Given("order1_ssim") =>
             /\ First(compareResult["order1_ssim"])
             /\ WindowsCover(Shrink(m, 2), compareResult["order1_ssim"])
        /\ Given("order2_ssim") =>
             /\ Second(compareResult["order2_ssim"])
             /\ WindowsCover(Shrink(m, 4), compareResult["order2_ssim"])
        /\ SobolevConfined

(* Contradicted by the code.                                               *)

(* Each field is its own axis's metric, as the comment on the parameters   *)
(* "PSNR of dx, dy, dx, dt" has it.                                        *)
FieldsOwn ==
    Stored("separate") =>
        \A metric \in DOMAIN compareResult["separate"].fields, f \in 1 .. 4 : FieldOwn(metric, f)
=============================================================================
