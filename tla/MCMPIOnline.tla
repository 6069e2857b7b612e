---------------------------- MODULE MCMPIOnline ----------------------------
(* Programs as the examples make them: rounds with the properties after    *)
(* each (heatdis), a length and then a comparison (compareDataSets_online) *)
(* or the properties (analyzeDataProperty_online), and two variables of    *)
(* different lengths, with and without measuring the second.               *)
EXTENDS MPIOnline

c(kind, var, solution) == [kind |-> kind, var |-> var, solution |-> solution]

MCPrograms == {
    <<c("round", "x", "sz"), c("properties", "x", "sz"), c("round", "x", "sz")>>,
    <<c("length", "y", "sz"), c("compare", "y", "sz")>>,
    <<c("length", "y", "sz"), c("properties", "y", "sz"), c("round", "x", "sz")>>,
    <<c("round", "x", "sz"), c("length", "y", "sz"), c("round", "y", "zfp")>> }

e(ori, dec) == [ori |-> ori, dec |-> dec]

(* Only the root differs from the other ranks: of the data that differ by  *)
(* an exchange of two others, one is taken.  Ranks have all one content,   *)
(* or the root the middle value and the others different ones.             *)
Chosen(g) ==
    \/ \A q, r \in Ranks : g[q] = g[r]
    \/ g[0].ori = 1 /\ \A q, r \in Ranks : 0 < q /\ q < r => g[q].ori < g[r].ori

(* One element of x on each rank, errors of every sign and a zero; two of  *)
(* y, which is as many as there are lags, or one on the ranks but the root.*)
content(f, long) ==
    [x |-> [r \in Ranks |-> <<f[r]>>],
     y |-> [r \in Ranks |-> IF r \in long THEN <<e(1, 3), e(2, 2)>> ELSE <<e(-1, -1)>>]]
MCParts ==
    {content(f, Ranks) : f \in {g \in [Ranks -> {e(0, 0), e(1, 2), e(2, 0)}] : Chosen(g)}}
    \cup {content([r \in Ranks |-> e(r, 2 - r)], {0})}

(* The images of y are too small on one rank. *)
MCFits == [v \in Vars |-> [r \in Ranks |-> v = "x" \/ r # 1]]

MCFlagSets == {
    {"compressTime", "decompressTime", "compressSize", "entropy",
     "absErrPDF", "pearsonCorr", "valErrCorr", "SSIMIMAGE2D"},
    {"autocorr", "absErrPDF", "errAutoCorr", "valErrCorr"},
    {"compressSize", "absErrPDF", "pwrErrPDF"}, {} }
=============================================================================
