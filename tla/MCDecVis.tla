------------------------------ MODULE MCDecVis ------------------------------
(* Two compressors of one kind (sz, sz_d), and two whose names end in the  *)
(* same letter and so share a bin (zfp, fpzip).  Ratios are wanted below,  *)
(* between, at and beyond those measured.                                  *)
EXTENDS DecVis

MCId == [sz |-> 0, sz_d |-> 0, zfp |-> 1, fpzip |-> 2]
MCBin == [sz |-> 58, sz_d |-> 36, zfp |-> 48, fpzip |-> 48]

c(n, e, v, r) == [cmp |-> n, err |-> e, var |-> v, ratio |-> r]

(* What may be measured for a compressor: little, to vary the rest of the  *)
(* configuration, and much, for the estimates.                             *)
Few(n) == {{}, {c(n, 20, "u", 5), c(n, 45, "v", 8)}}

Many(n) == {
    {},
    {c(n, 20, "u", 5)},
    {c(n, 10, "u", 3), c(n, 45, "u", 8)},
    {c(n, 30, "u", 5), c(n, 10, "u", 5)},
    {c(n, 10, "u", 5), c(n, 30, "u", 5), c(n, 30, "u", 9)},
    {c(n, 15, "u", 3), c(n, 20, "u", 5), c(n, 90, "u", 8)},
    {c(n, 60, "u", 3), c(n, 10, "u", 5), c(n, 11, "u", 8), c(n, 12, "u", 9)} }

Lists == { <<"sz">>, <<"sz", "zfp">>, <<"zfp", "fpzip">>, <<"sz", "sz_d">>, <<"sz", "sz", "zfp">>,
           <<"sz", "zfp", "fpzip">> }
Plotted == { <<"sz">>, <<"zfp">>, <<"zfp", "sz">>, <<"zfp", "fpzip">>, <<"sz", "sz_d">> }

Properties == {<<{"u"}, {}>>, <<{"u"}, {"v"}>>, <<{}, {"u", "v"}>>, <<{"u", "v"}, {}>>}

input(l, p, m, s, f) ==
    [compressors |-> l, plotted |-> p, CRs |-> <<2, 5, 7, 30>>, mode |-> m,
     properties |-> s[1], others |-> s[2], files |-> f]

Files(l) ==
    {f \in [1 .. Len(l) -> UNION {Few(n) : n \in Range(l)}] : \A n \in 1 .. Len(l) : f[n] \in Few(l[n])}

MCInputs ==
    UNION {{input(l, p, "SELECT_NEAREST", s, f) :
                p \in Plotted, s \in Properties, f \in Files(l)} : l \in Lists}
    \cup {input(<<"sz", "zfp">>, <<"zfp", "sz">>, m, <<{"u"}, {}>>, <<f, g>>) :
            m \in Modes, f \in Many("sz"), g \in Many("zfp")}
=============================================================================
