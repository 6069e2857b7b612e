-------------------------------- MODULE MCStore --------------------------------
(***************************************************************************)
(* Store with three sessions, one of which may be killed: a field shorter *)
(* than FFT_SIZE and one with every image, whose counts exceed an int;     *)
(* flags that ask for some of the metrics and for all.                     *)
(***************************************************************************)
EXTENDS Store

MCShapes == {[dim |-> 1, dataType |-> "ZC_DOUBLE", numOfElem |-> 2, compressSize |-> 1],
             [dim |-> 3, dataType |-> "ZC_FLOAT", numOfElem |-> 8, compressSize |-> 9]}
Half == {"sobolevNorm_s1_p2", "fftCoeff", "absErrPDF", "psnr", "ssim",
         "derivativeOrder1_psnr", "derivative1_sobolev"}
All == Sobolev \cup Arrays \cup AllFlags \cup {"absErrPDF", "pwrErrPDF", "autoCorrAbsErr"}
MCFlagSets == {Half, All}
================================================================================
