------------------------------- MODULE KeyMap -------------------------------
(***************************************************************************)
(* What the hash table of zc/src/ZC_Hashtable.c promises the session and   *)
(* the report generator: a map from variable names (or "compressor(bound)  *)
(* :variable" cases) to pointers, without bins or chains.  A key that is   *)
(* absent and a key stored with a NULL pointer both read as NULL.          *)
(***************************************************************************)
EXTENDS Naturals

CONSTANTS Keys, Values, NULL

VARIABLES
    map,    \* key -> pointer, NULL, or "absent"
    ret     \* the pointer the last call returned

Absent == "absent"
Read(k) == IF map[k] = Absent THEN NULL ELSE map[k]

Init == map = [k \in Keys |-> Absent] /\ ret = NULL

Put(k, v) == map' = [map EXCEPT ![k] = v] /\ UNCHANGED ret
Get(k) == ret' = Read(k) /\ UNCHANGED map
Remove(k) == ret' = Read(k) /\ map' = [map EXCEPT ![k] = Absent]
Destroy == map' = [k \in Keys |-> Absent] /\ UNCHANGED ret

Next ==
    \/ \E k \in Keys :
        \/ \E v \in Values \cup {NULL} : Put(k, v)
        \/ Get(k)
        \/ Remove(k)
    \/ Destroy

Spec == Init /\ [][Next]_<<map, ret>>
=============================================================================
