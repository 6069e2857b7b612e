------------------------------ MODULE ImageSSIM -----------------------------
(***************************************************************************)
(* The structural similarity of images, zc/src/ZC_ssim.c: a weighted       *)
(* window around every pixel of a layer, clipped at the border, the sum    *)
(* divided by the number of pixels; over a stack of layers the least, the  *)
(* average and the greatest.  Kept of a layer is how often each pixel's    *)
(* window is summed and what the window reads, of a stack which layers     *)
(* are.  The copies for float and double are the same text.                *)
(***************************************************************************)
EXTENDS Integers, FiniteSets, Sequences

KERNEL == 3
FEW_LAYERS == 20

(* zc_get_ssim_*: the window around yo, xo as far as it is in the image;   *)
(* zc_get_ssimfull_kernel_*: the whole window.                             *)
Clipped(n, o) ==
    (IF o - KERNEL < 0 THEN 0 ELSE o - KERNEL) .. (IF o + KERNEL > n - 1 THEN n - 1 ELSE o + KERNEL)
zc_get_ssim(H, W, yo, xo) == Clipped(H, yo) \X Clipped(W, xo)
zc_get_ssimfull_kernel(H, W, yo, xo) == (yo - KERNEL .. yo + KERNEL) \X (xo - KERNEL .. xo + KERNEL)

(* The loops over rows j and columns i.  The border rows take every column *)
(* with the clipped window; the rows between take the clipped window on    *)
(* the columns of the border and the full kernel on the others.            *)
Borders(n) == <<0 .. KERNEL - 1, n - KERNEL .. n - 1>>
Middle_OneMore(n) == KERNEL .. n - KERNEL
Middle(n) == KERNEL .. n - KERNEL - 1
OnBorder(n, o) == Cardinality({b \in 1 .. 2 : o \in Borders(n)[b]})

(* The windows summed for the pixel j, i: how many, and where they read.   *)
Summed(H, W, j, i) ==
    LET inside == j \in Middle(H) /\ i \in Middle(W)
        clipped == OnBorder(H, j) + (IF j \in Middle(H) THEN OnBorder(W, i) ELSE 0)
    IN  [count |-> clipped + (IF inside THEN 1 ELSE 0),
         reads |-> (IF clipped > 0 THEN zc_get_ssim(H, W, j, i) ELSE {})
                   \cup (IF inside THEN zc_get_ssimfull_kernel(H, W, j, i) ELSE {})]

zc_calc_ssim_2d(H, W) ==
    [summed |-> [pixel \in (0 .. H - 1) \X (0 .. W - 1) |-> Summed(H, W, pixel[1], pixel[2])],
     n      |-> H * W]

(* The bounds height - KERNEL and width - KERNEL are unsigned.  The second *)
(* is in a loop that runs only when there are rows between.                *)
ImageOverrun(H, W) == H < KERNEL \/ (Middle(H) # {} /\ W < KERNEL)

(* The layers sampled of a stack. *)
Sampled(r3) ==
    LET intv == IF r3 > FEW_LAYERS THEN r3 \div FEW_LAYERS ELSE 1
    IN  {i \in 0 .. r3 - 1 : i % intv = 0}

(* Layers where the original is constant are skipped. *)
zc_calc_ssim_3d(r3, H, W, constant) ==
    LET layers == Sampled(r3) \ constant
    IN  [layers |-> layers, image |-> zc_calc_ssim_2d(H, W), counter |-> Cardinality(layers)]
=============================================================================
