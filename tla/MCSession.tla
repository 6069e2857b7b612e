----------------------------- MODULE MCSession -----------------------------
(* Two open rounds, two variables, two cases; with SessionLoaded.cfg also a*)
(* name that has an extension.                                             *)
EXTENDS Session, TLC

CONSTANTS j1, j2

(* Every array is asked for but the slice images; the variable a may be    *)
(* named like the first case.                                              *)
MCFlagSets == {{"autocorr", "lap", "gradLen"}}
MCSameCase == [n \in Names |-> IF n = "a" THEN 11 ELSE NULL]

MCStem == [n \in Names |-> IF n = "b.dat" THEN "b" ELSE n]

(* The rounds are interchangeable; names, cases and addresses are not.     *)
MCSymmetry == Permutations(Jobs)
=============================================================================
