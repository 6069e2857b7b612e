-------------------------- MODULE MCRateDistortion --------------------------
(* Three compressors, the name of one being a prefix of another's, lists   *)
(* of one or two of them, and two families of tables: up to MaxKeys        *)
(* results of one variable that have an error, with every pattern of       *)
(* metrics, and every one of two results over two variables.               *)
EXTENDS RateDistortion

CONSTANTS sz, sz_t, zfp, MaxKeys

MCPrefixed == {<<n, n>> : n \in Names} \cup {<<sz_t, sz>>}
MCConfigs == {<<sz>>, <<zfp, sz>>, <<sz, sz_t>>}

OneVariable ==
    UNION {[S -> [metric : {NAN, 1, 2}, exact : {FALSE}]] :
              S \in {T \in SUBSET [name : Names, bound : Bounds, var : {"x"}] :
                        Cardinality(T) <= MaxKeys}}
TwoVariables ==
    UNION {[S -> [metric : {-1, 1}, exact : BOOLEAN]] :
              S \in {T \in SUBSET [name : {sz, zfp}, bound : Bounds, var : {"x", "y"}] :
                        Cardinality(T) = 2}}
MCTables == OneVariable \cup TwoVariables
=============================================================================
