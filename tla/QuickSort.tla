----------------------------- MODULE QuickSort -----------------------------
(***************************************************************************)
(* The in-place quicksort of zc/src/ZC_quicksort.c.  The file holds the    *)
(* same algorithm three times: ZC_quick_sort orders RateDistElem records   *)
(* by psnr, ZC_quick_sort_vis_CR orders ZC_CompareData records by          *)
(* compressRatio, and ZC_quick_sort2 orders StringElem records by value,   *)
(* from large to small.  Variable fn says which copy runs.                 *)
(*                                                                         *)
(* One step is one test of a loop of ZC_divide*, or one call or return of  *)
(* ZC_quick_sort*.  The pending recursive calls are kept in todo, the      *)
(* next one first.  Indices are size_t: 0 - 1 is SIZE_MAX.                 *)
(***************************************************************************)
EXTENDS Integers, Sequences

CONSTANTS
    N,          \* number of elements the caller passes (end = N - 1)
    Elem,       \* the structures pointed to by the list
    Key,        \* the compared field of each structure; NaN is not in Int
    SIZE_MAX    \* largest size_t

ASSUME NAssumption == N \in Nat \ {0}
ASSUME KeyAssumption == Key \in [Elem -> Int]
ASSUME SizeAssumption == SIZE_MAX \in Nat /\ SIZE_MAX > N

VARIABLES
    fn,         \* the copy of the algorithm that runs
    list,       \* the array being sorted
    orig,       \* the array at the call (history)
    todo,       \* the calls (start, end) still to be made, next one first
    cur,        \* arguments of the ZC_divide* in progress
    i, j,       \* its two scan indices
    pc

vars == <<fn, list, orig, todo, cur, i, j, pc>>

Sorts == {"ZC_quick_sort", "ZC_quick_sort2", "ZC_quick_sort_vis_CR"}
Idx == 0 .. N - 1
CallArgs == [start : 0 .. SIZE_MAX, end : 0 .. SIZE_MAX]

(* x - 1 on size_t. *)
Dec(x) == IF x = 0 THEN SIZE_MAX ELSE x - 1

(* The comparison of the left scan, and of the right scan, of the copy f.  *)
Before(f, a, b) ==
    IF f = "ZC_quick_sort2" THEN Key[a] >= Key[b] ELSE Key[a] <= Key[b]
After(f, a, b) ==
    IF f = "ZC_quick_sort2" THEN Key[a] < Key[b] ELSE Key[a] > Key[b]

Swapped(l, p, q) == [l EXCEPT ![p] = l[q], ![q] = l[p]]

Call(s, e) == [start |-> s, end |-> e]

----------------------------------------------------------------------------
Init ==
    /\ fn \in Sorts
    /\ list \in [Idx -> Elem]
    /\ orig = list
    /\ todo = <<Call(0, Dec(N))>>
    /\ cur = Call(0, 0)
    /\ i = 0 /\ j = 0
    /\ pc = "call"

(* ZC_quick_sort*(list, start, end): nothing to do unless start < end.     *)
Enter ==
    /\ pc = "call" /\ todo # <<>>
    /\ todo' = Tail(todo)
    /\ IF Head(todo).start < Head(todo).end
       THEN /\ cur' = Head(todo)
            /\ i' = Head(todo).start
            /\ j' = Head(todo).end
            /\ pc' = "left"
       ELSE UNCHANGED <<cur, i, j, pc>>
    /\ UNCHANGED <<fn, list, orig>>

(* Mutants of ScanLeft: the bound test is dropped; the test is strict.      *)
ScanLeft_NoBound ==
    /\ pc = "left"
    /\ IF Before(fn, list[i], list[cur.end])
       THEN i' = i + 1 /\ UNCHANGED pc
       ELSE pc' = "right" /\ UNCHANGED i
    /\ UNCHANGED <<fn, list, orig, todo, cur, j>>
ScanLeft_Strict ==
    /\ pc = "left"
    /\ IF After(fn, list[cur.end], list[i]) /\ i < cur.end
       THEN i' = i + 1 /\ UNCHANGED pc
       ELSE pc' = "right" /\ UNCHANGED i
    /\ UNCHANGED <<fn, list, orig, todo, cur, j>>

(* while(list[i] <= list[pivot] && i < end) i++;                           *)
ScanLeft ==
    /\ pc = "left"
    /\ IF Before(fn, list[i], list[cur.end]) /\ i < cur.end
       THEN i' = i + 1 /\ UNCHANGED pc
       ELSE pc' = "right" /\ UNCHANGED i
    /\ UNCHANGED <<fn, list, orig, todo, cur, j>>

(* while(list[j] > list[pivot]) j--;                                       *)
ScanRight ==
    /\ pc = "right"
    /\ IF After(fn, list[j], list[cur.end])
       THEN j' = Dec(j) /\ UNCHANGED pc
       ELSE pc' = "swap" /\ UNCHANGED j
    /\ UNCHANGED <<fn, list, orig, todo, cur, i>>

(* Mutant of Exchange: the swap forgets the temporary. *)
Exchange_NoTemp ==
    /\ pc = "swap"
    /\ IF i < j
       THEN list' = [list EXCEPT ![i] = list[j]] /\ pc' = "left"
       ELSE pc' = "split" /\ UNCHANGED list
    /\ UNCHANGED <<fn, orig, todo, cur, i, j>>

(* if(i < j) swap list[i] and list[j]; and the test of while(i < j).       *)
Exchange ==
    /\ pc = "swap"
    /\ IF i < j
       THEN list' = Swapped(list, i, j) /\ pc' = "left"
       ELSE pc' = "split" /\ UNCHANGED list
    /\ UNCHANGED <<fn, orig, todo, cur, i, j>>

(* Mutant of Split: the left half is cut short. *)
Split_ShortLeft ==
    /\ pc = "split"
    /\ list' = Swapped(list, j, cur.end)
    /\ todo' = <<Call(cur.start + 1, Dec(j)), Call(j + 1, cur.end)>> \o todo
    /\ pc' = "call"
    /\ UNCHANGED <<fn, orig, cur, i, j>>

(* The last swap of ZC_divide*, its return value mid = j, and the two      *)
(* recursive calls: the left half is sorted first.                         *)
Split ==
    /\ pc = "split"
    /\ list' = Swapped(list, j, cur.end)
    /\ todo' = <<Call(cur.start, Dec(j)), Call(j + 1, cur.end)>> \o todo
    /\ pc' = "call"
    /\ UNCHANGED <<fn, orig, cur, i, j>>

Return ==
    /\ pc = "call" /\ todo = <<>>
    /\ pc' = "done"
    /\ UNCHANGED <<fn, list, orig, todo, cur, i, j>>

(* The caller goes on with the sorted list. *)
Done == pc = "done" /\ UNCHANGED vars

Next == Enter \/ ScanLeft \/ ScanRight \/ Exchange \/ Split \/ Return \/ Done

Spec == Init /\ [][Next]_vars /\ WF_vars(Next)

----------------------------------------------------------------------------
TypeOK ==
    /\ fn \in Sorts
    /\ list \in [Idx -> Elem]
    /\ orig \in [Idx -> Elem]
    /\ todo \in Seq(CallArgs)
    /\ cur \in CallArgs
    /\ i \in 0 .. SIZE_MAX
    /\ j \in 0 .. SIZE_MAX
    /\ pc \in {"call", "left", "right", "swap", "split", "done"}

(* Every list[] the code evaluates is inside the range it was called on:   *)
(* the left scan has no test before its first read of list[i], and the     *)
(* right scan has no lower bound at all.                                   *)
InBounds ==
    pc \in {"left", "right", "swap", "split"} =>
        /\ cur.end \in Idx
        /\ i \in cur.start .. cur.end
        /\ j \in cur.start .. cur.end

(* When the outermost call returns the list is in order: increasing for    *)
(* the psnr and the compression-ratio copy, decreasing for ZC_quick_sort2. *)
Sorted ==
    pc = "done" => \A p, q \in Idx : p < q => Before(fn, list[p], list[q])

(* l is a rearrangement of m: sorting neither loses nor repeats a result.  *)
IsPermutation(l, m) ==
    \E f \in [Idx -> Idx] :
        /\ \A p, q \in Idx : f[p] = f[q] => p = q
        /\ \A p \in Idx : l[p] = m[f[p]]

(* At every moment, between any two swaps, the list holds the elements of  *)
(* the call: the callers print a record per element (rate-distortion       *)
(* lines), so a lost or repeated pointer is a wrong table and a double     *)
(* free.                                                                   *)
Permuted == IsPermutation(list, orig)

(* The recursion ends for every list of comparable keys. *)
Terminates == <>(pc = "done")
=============================================================================
