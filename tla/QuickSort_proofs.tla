-------------------------- MODULE QuickSort_proofs --------------------------
(* Proofs about QuickSort, for every list length and every set of keys.    *)
EXTENDS QuickSort, SequenceTheorems, TLAPS

(* From position e + 1 on, the list is final: each element there is in     *)
(* order with every element before it.                                     *)
Settled(e) ==
    \A p, q \in Idx : p < q /\ q > e => Before(fn, list[p], list[q])

(* A pending call that returns at once. *)
Trivial(c) == c.start >= c.end

(* While a call (start, end) is pending or divided, only the prefix up to  *)
(* end is open; the other pending calls are trivial, because ZC_divide*    *)
(* always returns end: its right scan starts on the pivot and never moves. *)
CallInv ==
    pc = "call" =>
        \/ todo = <<>> /\ Settled(0)
        \/ /\ todo # <<>>
           /\ \A k \in 2 .. Len(todo) : Trivial(todo[k])
           /\ \/ todo[1].start = 0 /\ todo[1].end \in Idx /\ Settled(todo[1].end)
              \/ Trivial(todo[1]) /\ Settled(0)

DivideInv ==
    pc \in {"left", "right", "swap", "split"} =>
        /\ \A k \in 1 .. Len(todo) : Trivial(todo[k])
        /\ cur.start = 0 /\ cur.end \in Idx /\ cur.end > 0
        /\ j = cur.end
        /\ i \in 0 .. cur.end
        /\ Settled(cur.end)
        /\ \A k \in 0 .. i - 1 : Before(fn, list[k], list[cur.end])

ScanInv ==
    /\ pc \in {"right", "swap"} =>
        i = cur.end \/ ~ Before(fn, list[i], list[cur.end])
    /\ pc = "split" => i = cur.end
    /\ pc = "done" => Settled(0)

IInv == TypeOK /\ CallInv /\ DivideInv /\ ScanInv

(* A swap of two elements of a list is a list of the same type, read       *)
(* element by element.                                                     *)
LEMMA SwapType ==
    ASSUME NEW l \in [Idx -> Elem], NEW p \in Idx, NEW q \in Idx
    PROVE  /\ Swapped(l, p, q) \in [Idx -> Elem]
           /\ Swapped(l, p, q)[p] = l[q]
           /\ Swapped(l, p, q)[q] = l[p]
           /\ \A k \in Idx \ {p, q} : Swapped(l, p, q)[k] = l[k]
BY DEF Swapped

(* The comparison is a total preorder on structures, and the two scans'    *)
(* tests are complementary.                                                *)
LEMMA Order ==
    ASSUME NEW f \in Sorts, NEW a \in Elem, NEW b \in Elem, NEW c \in Elem
    PROVE  /\ Before(f, a, a)
           /\ Before(f, a, b) \/ Before(f, b, a)
           /\ Before(f, a, b) /\ Before(f, b, c) => Before(f, a, c)
           /\ After(f, a, b) <=> ~ Before(f, a, b)
BY KeyAssumption DEF Before, After, Sorts

LEMMA IdxType == Idx \subseteq 0 .. SIZE_MAX /\ 0 \in Idx /\ Idx \subseteq Int
BY NAssumption, SizeAssumption DEF Idx

----------------------------------------------------------------------------
(* The invariant holds when the sort is called. *)
LEMMA InitInv == Init => IInv
<1> SUFFICES ASSUME Init PROVE IInv
  OBVIOUS
<1> USE NAssumption, SizeAssumption DEF Init
<1>1. Dec(N) = N - 1 /\ N - 1 \in Idx /\ N - 1 \in 0 .. SIZE_MAX
  BY DEF Dec, Idx
<1>2. Call(0, Dec(N)) \in CallArgs /\ Call(0, 0) \in CallArgs
  BY <1>1 DEF Call, CallArgs
<1>3. todo \in Seq(CallArgs) /\ Len(todo) = 1 /\ todo[1] = Call(0, Dec(N)) /\ todo # <<>>
  BY <1>2
<1>4. TypeOK
  BY <1>2, <1>3 DEF TypeOK, Sorts
<1>5. Settled(todo[1].end)
  BY <1>1, <1>3 DEF Settled, Idx, Call
<1>6. CallInv
  BY <1>1, <1>3, <1>5 DEF CallInv, Call
<1>7. QED
  BY <1>4, <1>6 DEF IInv, DivideInv, ScanInv

(* A state of the same call with the same list stays settled. *)
LEMMA SettledStable ==
    ASSUME NEW e, Settled(e), list' = list, fn' = fn
    PROVE  Settled(e)'
BY DEF Settled, Before

(* ZC_quick_sort* returns at once or starts to divide its range. *)
LEMMA EnterInv == IInv /\ Enter => IInv'
<1> SUFFICES ASSUME IInv, Enter PROVE IInv'
  OBVIOUS
<1> USE DEF IInv, Enter
<1>1. todo \in Seq(CallArgs) /\ todo # <<>> /\ todo' = Tail(todo)
  BY DEF TypeOK
<1>2. /\ Head(todo) = todo[1] /\ todo[1] \in CallArgs
      /\ todo' \in Seq(CallArgs) /\ Len(todo') = Len(todo) - 1
      /\ \A k \in 1 .. Len(todo') : todo'[k] = todo[k + 1]
  BY <1>1
<1>3. \A k \in 1 .. Len(todo') : Trivial(todo'[k])
  <2>1. \A k \in 2 .. Len(todo) : Trivial(todo[k])
    BY <1>1 DEF CallInv
  <2>2. \A k \in 1 .. Len(todo') : k + 1 \in 2 .. Len(todo)
    BY <1>1, <1>2
  <2>3. QED
    BY <1>2, <2>1, <2>2 DEF Trivial
<1>4. CASE todo[1].start < todo[1].end
  <2>1. todo[1].start = 0 /\ todo[1].end \in Idx /\ Settled(todo[1].end)
    BY <1>1, <1>2, <1>4, IdxType DEF CallInv, Trivial, CallArgs
  <2>2. cur' = todo[1] /\ i' = 0 /\ j' = todo[1].end /\ pc' = "left"
    BY <1>2, <1>4, <2>1
  <2>3. Settled(cur.end)'
    BY <2>1, <2>2, SettledStable DEF Settled, Before
  <2>4. TypeOK'
    BY <1>2, <2>1, <2>2, SizeAssumption, IdxType DEF TypeOK
  <2>5. DivideInv'
    BY <1>2, <1>3, <1>4, <2>1, <2>2, <2>3, IdxType DEF DivideInv, Trivial, Idx
  <2>6. QED
    BY <2>2, <2>4, <2>5 DEF CallInv, ScanInv
<1>5. CASE ~ (todo[1].start < todo[1].end)
  <2>1. UNCHANGED <<cur, i, j, pc, fn, list, orig>> /\ pc = "call"
    BY <1>2, <1>5
  <2>2. Settled(0)
    <3>1. CASE Trivial(todo[1]) /\ Settled(0)
      BY <3>1
    <3>2. CASE todo[1].start = 0 /\ todo[1].end \in Idx /\ Settled(todo[1].end)
      BY <1>5, <3>2 DEF Idx
    <3>3. QED
      BY <1>1, <3>1, <3>2 DEF CallInv
  <2>3. Settled(0)'
    BY <2>1, <2>2, SettledStable
  <2>4. CallInv'
    <3>1. CASE todo' = <<>>
      BY <2>3, <3>1 DEF CallInv, Trivial
    <3>2. CASE todo' # <<>>
      <4>1. 1 \in 1 .. Len(todo')
        BY <1>2, <3>2
      <4>2. QED
        BY <1>3, <2>3, <3>2, <4>1 DEF CallInv, Trivial
    <3>3. QED
      BY <3>1, <3>2
  <2>5. QED
    BY <1>2, <2>1, <2>4 DEF TypeOK, DivideInv, ScanInv
<1>6. QED
  BY <1>4, <1>5

(* The left scan only passes elements that are in order with the pivot. *)
LEMMA ScanLeftInv == IInv /\ ScanLeft => IInv'
<1> SUFFICES ASSUME IInv, ScanLeft PROVE IInv'
  OBVIOUS
<1> USE DEF IInv, ScanLeft
<1>1. Settled(cur.end)' /\ cur.end \in Idx /\ i \in 0 .. cur.end
  BY SettledStable DEF DivideInv, Settled, Before
<1>2. cur.end \in Nat /\ cur.end < N /\ N < SIZE_MAX
  BY <1>1, NAssumption, SizeAssumption DEF Idx
<1>3. CASE Before(fn, list[i], list[cur.end]) /\ i < cur.end
  <2>1. i' = i + 1 /\ pc' = "left" /\ UNCHANGED <<fn, list, orig, todo, cur, j>>
    BY <1>3
  <2>2. i' \in 0 .. cur.end /\ \A k \in 0 .. i : k = i \/ k \in 0 .. i - 1
    BY <1>1, <1>2, <1>3, <2>1
  <2>3. \A k \in 0 .. i' - 1 : Before(fn', list'[k], list'[cur'.end])
    <3>1. 0 .. i' - 1 = 0 .. i
      BY <1>1, <1>2, <2>1
    <3>2. QED
      BY <1>3, <2>1, <2>2, <3>1 DEF DivideInv
  <2>4. DivideInv'
    BY <1>1, <2>1, <2>2, <2>3 DEF DivideInv, Before, Trivial
  <2>5. TypeOK'
    <3>1. i' \in 0 .. SIZE_MAX
      BY <1>2, <2>2, SizeAssumption, NAssumption
    <3>2. QED
      BY <2>1, <3>1 DEF TypeOK
  <2>6. QED
    BY <2>1, <2>4, <2>5 DEF CallInv, ScanInv
<1>4. CASE ~ (Before(fn, list[i], list[cur.end]) /\ i < cur.end)
  <2>1. pc' = "right" /\ UNCHANGED <<fn, list, orig, todo, cur, i, j>>
    BY <1>4
  <2>2. DivideInv'
    BY <1>1, <2>1 DEF DivideInv, Before, Trivial
  <2>3. i = cur.end \/ ~ Before(fn, list[i], list[cur.end])
    BY <1>1, <1>2, <1>4
  <2>4. QED
    BY <2>1, <2>2, <2>3 DEF TypeOK, CallInv, ScanInv, Before
<1>5. QED
  BY <1>3, <1>4

(* The right scan starts on the pivot, so it never moves. *)
LEMMA ScanRightInv == IInv /\ ScanRight => IInv'
<1> SUFFICES ASSUME IInv, ScanRight PROVE IInv'
  OBVIOUS
<1> USE DEF IInv, ScanRight
<1>1. Settled(cur.end)' /\ cur.end \in Idx /\ j = cur.end
  BY SettledStable DEF DivideInv, Settled, Before
<1>2. ~ After(fn, list[j], list[cur.end])
  BY <1>1, Order DEF TypeOK
<1>3. pc' = "swap" /\ UNCHANGED <<fn, list, orig, todo, cur, i, j>>
  BY <1>2
<1>4. DivideInv'
  BY <1>1, <1>3 DEF DivideInv, Before, Trivial
<1>5. QED
  BY <1>3, <1>4 DEF TypeOK, CallInv, ScanInv, Before

(* A swap of list[i] with the pivot puts the larger of the two at the end. *)
LEMMA ExchangeInv == IInv /\ Exchange => IInv'
<1> SUFFICES ASSUME IInv, Exchange PROVE IInv'
  OBVIOUS
<1> USE DEF IInv, Exchange
<1>1. /\ pc = "swap" /\ list \in [Idx -> Elem] /\ fn \in Sorts
      /\ cur.end \in Idx /\ j = cur.end /\ i \in 0 .. cur.end /\ Settled(cur.end)
      /\ \A k \in 0 .. i - 1 : Before(fn, list[k], list[cur.end])
  BY DEF TypeOK, DivideInv
<1>2. CASE i < j
  <2>1. /\ list' = Swapped(list, i, cur.end) /\ pc' = "left"
        /\ UNCHANGED <<fn, orig, todo, cur, i, j>>
    BY <1>1, <1>2
  <2>2. i \in Idx /\ 0 .. i - 1 \subseteq Idx \ {i, cur.end}
    BY <1>1, <1>2, NAssumption DEF Idx
  <2>3. /\ list' \in [Idx -> Elem]
        /\ list'[i] = list[cur.end] /\ list'[cur.end] = list[i]
        /\ \A k \in Idx \ {i, cur.end} : list'[k] = list[k]
    BY <1>1, <2>1, <2>2 DEF Swapped
  <2>4. Settled(cur.end)'
    <3>1. SUFFICES ASSUME NEW p \in Idx, NEW q \in Idx, p < q, q > cur.end
                   PROVE  Before(fn, list'[p], list'[q])
      BY <2>1 DEF Settled, Before
    <3>2. PICK r \in Idx : list'[p] = list[r] /\ r < q
      BY <1>1, <1>2, <2>2, <2>3, <3>1, NAssumption DEF Idx
    <3>3. q # i /\ q # cur.end /\ list'[q] = list[q]
      BY <1>1, <1>2, <2>3, <3>1 DEF Idx
    <3>4. QED
      BY <1>1, <3>1, <3>2, <3>3 DEF Settled
  <2>5. \A k \in 0 .. i - 1 : Before(fn, list'[k], list'[cur.end])
    <3>1. ~ Before(fn, list[i], list[cur.end])
      BY <1>1, <1>2 DEF ScanInv, Idx
    <3>2. Before(fn, list[cur.end], list[i])
      BY <1>1, <2>2, <3>1, Order
    <3>3. SUFFICES ASSUME NEW k \in 0 .. i - 1
                   PROVE  Before(fn, list'[k], list'[cur.end])
      OBVIOUS
    <3>4. k \in Idx \ {i, cur.end} /\ Before(fn, list[k], list[cur.end])
      BY <1>1, <2>2
    <3>5. Before(fn, list[k], list[i])
      BY <1>1, <2>2, <3>2, <3>4, Order
    <3>6. QED
      BY <2>3, <3>4, <3>5
  <2>6. DivideInv'
    BY <1>1, <2>1, <2>4, <2>5 DEF DivideInv, Before, Trivial
  <2>7. QED
    BY <2>1, <2>3, <2>6 DEF TypeOK, CallInv, ScanInv
<1>3. CASE ~ (i < j)
  <2>1. /\ pc' = "split" /\ UNCHANGED <<list, fn, orig, todo, cur, i, j>>
        /\ i = cur.end
    BY <1>1, <1>3 DEF Idx
  <2>2. Settled(cur.end)'
    BY <1>1, <2>1 DEF Settled, Before
  <2>3. DivideInv'
    BY <1>1, <2>1, <2>2 DEF DivideInv, Before, Trivial
  <2>4. QED
    BY <2>1, <2>3 DEF TypeOK, CallInv, ScanInv
<1>4. QED
  BY <1>2, <1>3

(* The pivot is the greatest of its range when the range is split: the     *)
(* left call keeps everything but the last element, the right one is empty.*)
LEMMA SplitInv == IInv /\ Split => IInv'
<1> SUFFICES ASSUME IInv, Split PROVE IInv'
  OBVIOUS
<1> USE DEF IInv, Split
<1>1. /\ pc = "split" /\ list \in [Idx -> Elem] /\ fn \in Sorts
      /\ cur.end \in Idx /\ j = cur.end /\ i = cur.end /\ cur.end > 0
      /\ cur.start = 0 /\ Settled(cur.end) /\ todo \in Seq(CallArgs)
      /\ \A k \in 1 .. Len(todo) : Trivial(todo[k])
      /\ \A k \in 0 .. cur.end - 1 : Before(fn, list[k], list[cur.end])
  BY DEF TypeOK, DivideInv, ScanInv
<1>2. list' = list
  BY <1>1, SwapType DEF Swapped
<1> DEFINE lo == Call(0, cur.end - 1)
           hi == Call(cur.end + 1, cur.end)
<1>3. cur.end - 1 \in Idx /\ cur.end - 1 \in 0 .. SIZE_MAX /\ cur.end + 1 \in 0 .. SIZE_MAX
  BY <1>1, NAssumption, SizeAssumption DEF Idx
<1>4. lo \in CallArgs /\ hi \in CallArgs /\ Trivial(hi)
  <2>1. 0 \in 0 .. SIZE_MAX /\ cur.end \in 0 .. SIZE_MAX /\ cur.end + 1 > cur.end
    BY <1>1, IdxType DEF Idx
  <2>2. QED
    BY <1>3, <2>1 DEF CallArgs, Call, Trivial
<1>5. todo' = <<lo, hi>> \o todo
  BY <1>1 DEF Dec, Idx
<1>6. /\ todo' \in Seq(CallArgs) /\ todo' # <<>> /\ Len(todo') = Len(todo) + 2
      /\ todo'[1] = lo /\ todo'[2] = hi
      /\ \A k \in 3 .. Len(todo') : todo'[k] = todo[k - 2] /\ k - 2 \in 1 .. Len(todo)
  <2>1. <<lo, hi>> \in Seq(CallArgs) /\ Len(<<lo, hi>>) = 2
    BY <1>4
  <2>2. todo' \in Seq(CallArgs) /\ Len(todo') = 2 + Len(todo)
    BY <1>1, <1>5, <2>1
  <2>3. QED
    BY <1>1, <1>5, <2>1, <2>2
<1>7. \A k \in 2 .. Len(todo') : Trivial(todo'[k])
  BY <1>1, <1>4, <1>6
<1>8. Settled(cur.end - 1)'
  <2>1. SUFFICES ASSUME NEW p \in Idx, NEW q \in Idx, p < q, q > cur.end - 1
                 PROVE  Before(fn, list[p], list[q])
    BY <1>2 DEF Settled, Before
  <2>2. CASE q = cur.end
    BY <1>1, <2>1, <2>2 DEF Idx
  <2>3. CASE q > cur.end
    BY <1>1, <2>1, <2>3 DEF Settled
  <2>4. QED
    BY <1>1, <2>1, <2>2, <2>3 DEF Idx
<1>9. CallInv'
  <2>1. todo'[1].start = 0 /\ todo'[1].end = cur.end - 1
    BY <1>6 DEF Call
  <2>2. Settled(todo[1].end)'
    BY <1>1, <1>8, <2>1 DEF Settled
  <2>3. QED
    BY <1>3, <1>6, <1>7, <2>1, <2>2 DEF CallInv, Trivial, Idx
<1>10. TypeOK'
  BY <1>1, <1>2, <1>6 DEF TypeOK
<1>11. QED
  BY <1>9, <1>10 DEF DivideInv, ScanInv

(* The outermost call returns a settled list. *)
LEMMA ReturnInv == IInv /\ Return => IInv'
<1> SUFFICES ASSUME IInv, Return PROVE IInv'
  OBVIOUS
<1> USE DEF IInv, Return
<1>1. todo = <<>> /\ Len(todo) = 0 /\ pc = "call" /\ pc' = "done"
  BY DEF TypeOK
<1>2. Settled(0)
  BY <1>1 DEF CallInv
<1>3. Settled(0)'
  BY <1>2, SettledStable
<1>4. QED
  BY <1>1, <1>3 DEF TypeOK, CallInv, DivideInv, ScanInv

(* The invariant is inductive. *)
LEMMA StepInv == IInv /\ [Next]_vars => IInv'
<1> SUFFICES ASSUME IInv, [Next]_vars PROVE IInv'
  OBVIOUS
<1>1. CASE UNCHANGED vars
  <2>1. ASSUME NEW e PROVE Settled(e)' <=> Settled(e)
    BY <1>1 DEF vars, Settled, Before
  <2>2. QED
    BY <1>1, <2>1
       DEF vars, IInv, TypeOK, CallInv, DivideInv, ScanInv, Trivial, Before
<1>2. QED
  BY <1>1, EnterInv, ScanLeftInv, ScanRightInv, ExchangeInv, SplitInv, ReturnInv
     DEF Next, Done

(* ZC_quick_sort*, started on (0, p - 1), keeps the inductive invariant.   *)
THEOREM Inductive == Spec => []IInv
BY InitInv, StepInv, PTL DEF Spec

(* Every variable of the sort keeps its type: no index leaves size_t and   *)
(* every pending call is a pair of indices.                                *)
THEOREM TypeCorrect == Spec => []TypeOK
<1>1. IInv => TypeOK
  BY DEF IInv
<1>2. QED
  BY <1>1, Inductive, PTL

(* For every length and every assignment of keys, with ties, each list[]   *)
(* that ZC_divide* reads is inside the range it was called on.             *)
THEOREM BoundsCorrect == Spec => []InBounds
<1>1. IInv => InBounds
  BY NAssumption DEF IInv, DivideInv, InBounds, Idx
<1>2. QED
  BY <1>1, Inductive, PTL

(* For every length and every assignment of keys, the list is in order     *)
(* when the sort returns, in each of the three copies of the algorithm.    *)
THEOREM SortCorrect == Spec => []Sorted
<1>1. IInv => Sorted
  BY DEF IInv, ScanInv, Settled, Sorted, Idx
<1>2. QED
  BY <1>1, Inductive, PTL

----------------------------------------------------------------------------
(* A swap of a rearrangement is a rearrangement. *)
LEMMA SwapPermutes ==
    ASSUME NEW l \in [Idx -> Elem], NEW m, IsPermutation(l, m),
           NEW p \in Idx, NEW q \in Idx
    PROVE  IsPermutation(Swapped(l, p, q), m)
<1>1. PICK f \in [Idx -> Idx] :
        /\ \A a, b \in Idx : f[a] = f[b] => a = b
        /\ \A a \in Idx : l[a] = m[f[a]]
  BY DEF IsPermutation
<1> DEFINE g == [f EXCEPT ![p] = f[q], ![q] = f[p]]
<1>2. g \in [Idx -> Idx] /\ g[p] = f[q] /\ g[q] = f[p]
      /\ \A a \in Idx \ {p, q} : g[a] = f[a]
  OBVIOUS
<1>3. \A a, b \in Idx : g[a] = g[b] => a = b
  BY <1>1, <1>2
<1>4. \A a \in Idx : Swapped(l, p, q)[a] = m[g[a]]
  BY <1>1, <1>2 DEF Swapped
<1>5. QED
  BY <1>2, <1>3, <1>4 DEF IsPermutation

(* For every length and every list, the sort only rearranges: no result    *)
(* record is lost or repeated, at any point of its execution.              *)
THEOREM PermutationCorrect == Spec => []Permuted
<1>1. Init => Permuted
  <2>1. SUFFICES ASSUME Init PROVE IsPermutation(list, list)
    BY DEF Init, Permuted
  <2> DEFINE id == [k \in Idx |-> k]
  <2>2. id \in [Idx -> Idx] /\ \A a \in Idx : id[a] = a
    OBVIOUS
  <2>3. QED
    BY <2>2 DEF IsPermutation
<1>2. IInv /\ Permuted /\ [Next]_vars => Permuted'
  <2> SUFFICES ASSUME IInv, Permuted, [Next]_vars PROVE Permuted'
    OBVIOUS
  <2>1. orig' = orig
    BY DEF Next, vars, Enter, ScanLeft, ScanRight, Exchange, Split, Return, Done
  <2>2. CASE Exchange
    <3>1. CASE i < j
      <4>1. i \in Idx /\ j \in Idx /\ list \in [Idx -> Elem]
        BY <2>2, <3>1, NAssumption DEF IInv, TypeOK, DivideInv, Exchange, Idx
      <4>2. list' = Swapped(list, i, j)
        BY <2>2, <3>1 DEF Exchange
      <4>3. QED
        BY <2>1, <4>1, <4>2, SwapPermutes DEF Permuted
    <3>2. CASE ~ (i < j)
      BY <2>1, <2>2, <3>2 DEF Exchange, Permuted
    <3>3. QED
      BY <3>1, <3>2
  <2>3. CASE Split
    <3>1. j \in Idx /\ cur.end \in Idx /\ list \in [Idx -> Elem]
      BY <2>3 DEF IInv, TypeOK, DivideInv, Split
    <3>2. QED
      BY <2>1, <2>3, <3>1, SwapPermutes DEF Permuted, Split
  <2>4. CASE list' = list
    BY <2>1, <2>4 DEF Permuted
  <2>5. QED
    BY <2>2, <2>3, <2>4
       DEF Next, vars, Enter, ScanLeft, ScanRight, Return, Done
<1>3. QED
  BY <1>1, <1>2, Inductive, PTL DEF Spec
=============================================================================
