---------------------------- MODULE MCQuickSort ----------------------------
(* Lists of four elements over four structures, two of which have the same *)
(* key, so that ties, duplicates and every order occur.                    *)
EXTENDS QuickSort

MCKey == [e \in Elem |-> e \div 2]
=============================================================================
