------------------------------ MODULE MCMetrics -----------------------------
(* The kernels on small fields.  Each flag alone meets the sizes at the    *)
(* limits of its kernel, so that the fault of one does not hide another;   *)
(* the flags of the separate derivatives meet in every combination; and    *)
(* all flags run in one assessment.                                        *)
EXTENDS Metrics

OneAndTwo == {<<a>> : a \in {1, 2, 3, 4, 6, 8, 9, 11}}
             \cup {<<a, b>> : a, b \in {1, 2, 3, 5, 6, 7, 9}}
Cubes == {<<3, 3, 3>>, <<4, 3, 5>>, <<2, 3, 3>>, <<3, 1, 4>>, <<4, 4, 1>>, <<1, 4, 4>>, <<6, 6, 3>>}
Hyper == {<<3, 3, 3, 3>>, <<4, 3, 3, 3>>, <<4, 3, 1, 3>>, <<3, 3, 3, 1>>, <<2, 2, 2, 2, 2>>, <<3, 1, 3, 3, 2>>}

Separate == {"sep_maxDiff", "sep_psnr", "sep_ssim"}

MCCases ==
    [shape : OneAndTwo \cup Cubes \cup Hyper, flags : {{f} : f \in Flags \ {"fft"}} \cup SUBSET Separate]
    \cup [shape : {<<9>>, <<11>>, <<9, 9>>, <<9, 11>>, <<11, 11>>}, flags : {Flags \ {"fft"}}]
    \cup [shape : {<<1>>, <<2>>, <<3>>, <<9>>, <<4, 4>>, <<3, 3, 3>>}, flags : {{"fft"}}]
    \cup [shape : {<<5, 5, 5>>, <<5, 6, 5>>}, flags : {{"order2_psnr"}, {"sobolev_s2"}}]
    \cup [shape : {<<5, 5, 5, 5>>, <<5, 5, 5, 6>>}, flags : {{"order2_psnr"}}]
    \cup [shape : {<<9, 9, 9>>, <<9, 10, 9>>}, flags : {{"order1_ssim"}, {"order1_sobolev"}, Separate}]
    \cup [shape : {<<11, 11, 11>>}, flags : {{"order2_ssim"}}]
    \cup [shape : {<<6, 6, 20>>, <<6, 6, 39>>, <<6, 7, 41>>, <<6, 6, 3, 5>>, <<6, 6, 1, 5>>, <<6, 6, 2, 2, 2>>},
          flags : {{"ssimImage2D"}}]
=============================================================================
