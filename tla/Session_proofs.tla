--------------------------- MODULE Session_proofs ---------------------------
(***************************************************************************)
(* Who owns which block, for any number of rounds, names, cases and        *)
(* addresses: the two tables name each other's blocks consistently, every  *)
(* open round holds live blocks of its own, and so nothing is freed twice. *)
(***************************************************************************)
EXTENDS Session, WellFoundedInduction, TLAPS

----------------------------------------------------------------------------
(* The inductive invariant.  It says something only while the application  *)
(* keeps the rules; after the first misuse nothing runs any more.          *)
Clean == misuse \subseteq {"orphaned"}

(* A property is alive iff the table has it under its own name, and a      *)
(* result with a solution is alive iff the table has it under that case.   *)
PropTableOK(h) ==
    /\ \A n \in Names : h.propTable[n] # NULL =>
           h.propTable[n] \in h.live /\ h.prop[h.propTable[n]] = n
    /\ \A p \in h.live \cap Props : h.propTable[h.prop[p]] = p
CmpTableOK(h) ==
    /\ \A s \in Cases : h.cmpTable[s] # NULL =>
           h.cmpTable[s] \in h.live /\ h.cmp[h.cmpTable[s]].solution = s
    /\ \A c \in h.live \cap Cmps :
           h.cmp[c].solution # NULL => h.cmpTable[h.cmp[c].solution] = c
(* What a freed block left behind, and what a property may still leave.    *)
Excused == {"metrics"} \cup (Unfreed \cap UNION FlagSets)
LossOK(h) ==
    /\ h.lost \subseteq Excused
    /\ \A p \in Props : h.parts[p] \cap Unfreed \subseteq Excused
Tables(h) ==
    /\ PropTableOK(h) /\ CmpTableOK(h)
    /\ LossOK(h)

(* What a round points to is alive, and no other round points to it. *)
RoundOK(h, job) ==
    /\ job.p # NULL => job.p \in h.live
    /\ job.c # NULL => job.c \in h.live /\ h.cmp[job.c].solution = job.sol
    /\ job.phase = "compressed" => job.p # NULL /\ job.c # NULL /\ job.sol # NULL
    /\ job.phase \in {"compressed", "decoded"} /\ job.p # NULL
           /\ job.c # NULL /\ job.sol # NULL => h.cmp[job.c].property = job.p
Apart(i, j) ==
    /\ i.p # NULL => i.p # j.p
    /\ i.c # NULL => i.c # j.c
Rounds ==
    /\ \A j \in Jobs : RoundOK(heap, jobs[j])
    /\ \A i, j \in Jobs : i # j => Apart(jobs[i], jobs[j])

(* Only a property freed under a stored result leaves that result a        *)
(* pointer to nothing, and only ZC_compareData_overall follows it.         *)
Complete(h) ==
    \A s \in Cases : h.cmpTable[s] # NULL => h.cmp[h.cmpTable[s]].property \in h.live
Described == "orphaned" \notin misuse => Complete(heap)
Faults == heap.fault # "none" => "orphaned" \in misuse /\ up /\ heap.fault = "bad_read"

(* Between ZC_Finalize and ZC_Init the tables are empty. *)
Empty ==
    /\ \A n \in Names : heap.propTable[n] = NULL
    /\ \A s \in Cases : heap.cmpTable[s] = NULL
Process == (up => cfgFile # "freed") /\ (~ up => Empty)

Owned == Tables(heap) /\ Rounds /\ Described /\ Faults /\ Process
IInv == TypeOK /\ (Clean => Owned)

----------------------------------------------------------------------------
(* Addresses.                                                              *)
LEMMA LeastAddress ==
    ASSUME NEW T \in SUBSET Nat, T # {}
    PROVE  First(T) \in T
<1> DEFINE R == OpToRel(<, Nat)
<1>1. IsWellFoundedOn(R, Nat)
  BY NatLessThanWellFounded
<1>2. \A x, y \in Nat : y < x => <<y, x>> \in R
  BY DEF OpToRel
<1> HIDE DEF R
<1>3. \E x \in T : \A y \in T : ~ (<<y, x>> \in R)
  BY <1>1, WFMin
<1>4. \A x, y \in T : ~ (<<y, x>> \in R) => x <= y
  BY <1>2
<1>5. \E x \in T : \A y \in T : x <= y
  BY <1>3, <1>4, Zenon
<1> QED
  BY <1>5 DEF First

LEMMA SomeName == AnyName \in Names
BY StemAssumption DEF AnyName

(* An address malloc gives out is not in use and nothing points to it.     *)
LEMMA FreshProp ==
    ASSUME TypeOK, FreshIn(Props) # {}
    PROVE  /\ NewProp \in Props /\ NewProp # NULL /\ NewProp \notin Cmps
           /\ NewProp \notin heap.live
           /\ \A n \in Names : heap.propTable[n] # NewProp
           /\ \A j \in Jobs : jobs[j].p # NewProp
           /\ \A c \in heap.live \cap Cmps : heap.cmp[c].property # NewProp
<1>1. NewProp \in FreshIn(Props)
  BY LeastAddress, AddressAssumption DEF NewProp, FreshIn
<1> QED
  BY <1>1, AddressAssumption DEF FreshIn, Held, Pointed

LEMMA FreshCmp ==
    ASSUME TypeOK, FreshIn(Cmps) # {}
    PROVE  /\ NewCmp \in Cmps /\ NewCmp # NULL /\ NewCmp \notin Props
           /\ NewCmp \notin heap.live
           /\ \A s \in Cases : heap.cmpTable[s] # NewCmp
           /\ \A j \in Jobs : jobs[j].c # NewCmp
<1>1. NewCmp \in FreshIn(Cmps)
  BY LeastAddress, AddressAssumption DEF NewCmp, FreshIn
<1> QED
  BY <1>1, AddressAssumption DEF FreshIn, Held, Pointed

----------------------------------------------------------------------------
(* The types of what the library's functions return, misused or not.      *)
LEMMA UseType ==
    ASSUME NEW h \in Heap, NEW b
    PROVE  Use(h, b) \in Heap
BY DEF Use, Heap

LEMMA ReleaseType ==
    ASSUME NEW h \in Heap, NEW b
    PROVE  Release(h, b) \in Heap
<1>1. CASE b \in h.live \cap Props
  <2> DEFINE prop == [h.prop EXCEPT ![b] = AnyName]
             parts == [h.parts EXCEPT ![b] = {}]
             live == h.live \ {b}
  <2>1. Release(h, b) = [h EXCEPT !.live = live, !.prop = prop, !.parts = parts]
    BY <1>1, AddressAssumption DEF Release, Heap
  <2>2. prop \in [Props -> Names]
    BY SomeName DEF Heap
  <2>3. live \in SUBSET (Props \cup Cmps)
    BY DEF Heap
  <2>4. parts \in [Props -> SUBSET Parts]
    BY DEF Heap
  <2> HIDE DEF prop, parts, live
  <2> QED
    BY <2>1, <2>2, <2>3, <2>4 DEF Heap
<1>2. CASE b \in h.live \cap Cmps
  <2>1. Release(h, b) = [h EXCEPT !.live = @ \ {b}, !.cmp[b] = Blank]
    BY <1>2, AddressAssumption DEF Release
  <2>2. [h.cmp EXCEPT ![b] = Blank] \in
            [Cmps -> [solution : Cases \cup {NULL}, property : Props \cup {NULL},
                      metrics : BOOLEAN]]
    BY DEF Heap, Blank
  <2>3. h.live \ {b} \in SUBSET (Props \cup Cmps)
    BY DEF Heap
  <2> QED
    BY <2>1, <2>2, <2>3 DEF Heap
<1>3. CASE b \notin h.live \cap Props /\ b \notin h.live \cap Cmps
  <2>1. Release(h, b) = [h EXCEPT !.fault = "bad_free"]
    BY <1>3 DEF Release
  <2> QED
    BY <2>1 DEF Heap
<1> QED
  BY <1>1, <1>2, <1>3

LEMMA LostType ==
    ASSUME NEW h \in Heap, NEW more \in SUBSET (Parts \cup {"varName", "metrics"})
    PROVE  [h EXCEPT !.lost = @ \cup more] \in Heap
<1>1. h.lost \cup more \in SUBSET (Parts \cup {"varName", "metrics"})
  BY DEF Heap
<1> QED
  BY <1>1 DEF Heap

LEMMA FreeInternalType ==
    ASSUME NEW h \in Heap, NEW p \in Props
    PROVE  freeDataProperty_internal(h, p) \in Heap
<1>1. h.parts[p] \cap Unfreed \in SUBSET (Parts \cup {"varName", "metrics"})
  BY DEF Heap, Unfreed, Parts
<1> QED
  BY <1>1, ReleaseType, LostType DEF freeDataProperty_internal

LEMMA PutPropType ==
    ASSUME NEW h \in Heap, NEW n \in Names, NEW p \in Props
    PROVE  PutProp(h, n, p) \in Heap /\ PutProp(h, n, p).propTable[n] = p
<1>1. CASE Unbound(h, n)
  BY <1>1 DEF PutProp, Heap
<1>2. CASE ~ Unbound(h, n)
  <2> DEFINE g == Release(h, h.propTable[n])
             more == {"varName"} \cup h.parts[h.propTable[n]]
             lost == g.lost \cup more
  <2>1. g \in Heap
    BY ReleaseType
  <2>2. more \in SUBSET (Parts \cup {"varName", "metrics"})
    <3>1. h.propTable[n] \in Props
      BY <1>2 DEF Unbound, Heap
    <3>2. h.parts[h.propTable[n]] \in SUBSET Parts
      BY <3>1 DEF Heap
    <3> QED
      BY <3>2
  <2>3. PutProp(h, n, p) = [g EXCEPT !.propTable[n] = p, !.lost = lost]
    <3>1. g.lost \cup {"varName"} \cup h.parts[h.propTable[n]] = lost
      BY Zenon
    <3> HIDE DEF lost
    <3> QED
      BY <1>2, <2>1, <3>1 DEF PutProp, Heap
  <2> HIDE DEF g, more
  <2>4. [g.propTable EXCEPT ![n] = p] \in [Names -> Props \cup {NULL}]
        /\ lost \in SUBSET (Parts \cup {"varName", "metrics"})
    BY <2>1, <2>2 DEF Heap
  <2> HIDE DEF lost
  <2>5. PutProp(h, n, p) \in Heap
    BY <2>1, <2>3, <2>4 DEF Heap
  <2>6. PutProp(h, n, p).propTable = [g.propTable EXCEPT ![n] = p]
    BY <2>1, <2>3 DEF Heap
  <2>7. g.propTable \in [Names -> Props \cup {NULL}]
    BY <2>1 DEF Heap
  <2> QED
    BY <2>5, <2>6, <2>7
<1> QED
  BY <1>1, <1>2

LEMMA AllocPropType ==
    ASSUME NEW h \in Heap, NEW n \in Names, NEW p \in Props,
           NEW parts \in SUBSET Parts
    PROVE  AllocProp(h, n, p, parts) \in Heap
<1>1. /\ [h.prop EXCEPT ![p] = Stem[n]] \in [Props -> Names]
      /\ [h.parts EXCEPT ![p] = parts] \in [Props -> SUBSET Parts]
      /\ h.live \cup {p} \in SUBSET (Props \cup Cmps)
  BY StemAssumption DEF Heap
<1> QED
  BY <1>1 DEF AllocProp, Heap

LEMMA AllocCmpType ==
    ASSUME NEW h \in Heap, NEW c \in Cmps, NEW s \in Cases \cup {NULL},
           NEW p \in Props \cup {NULL}
    PROVE  AllocCmp(h, c, s, p) \in Heap
BY DEF AllocCmp, Heap

LEMMA FreeDataPropertyType ==
    ASSUME NEW h \in Heap, NEW p \in Props
    PROVE  FreeDataProperty(h, p) \in Heap
<1> DEFINE h1 == Use(h, p)
           found == h1.propTable[h1.prop[p]]
           h2 == [h1 EXCEPT !.propTable[h1.prop[p]] = NULL]
<1>1. h1 \in Heap
  BY UseType
<1>2. h2 \in Heap /\ found \in Props \cup {NULL}
  <2> HIDE DEF h1
  <2> QED
    BY <1>1 DEF Heap
<1>3. \/ FreeDataProperty(h, p) = freeDataProperty_internal(h1, p)
      \/ found # NULL /\ FreeDataProperty(h, p) = freeDataProperty_internal(h2, found)
  BY DEF FreeDataProperty
<1> QED
  <2> HIDE DEF h1, h2, found
  <2> QED
    BY <1>1, <1>2, <1>3, FreeInternalType

LEMMA FreeCompareResultType ==
    ASSUME NEW h \in Heap, NEW c \in Cmps
    PROVE  FreeCompareResult(h, c) \in Heap
<1> DEFINE h1 == Use(h, c)
           s == h1.cmp[c].solution
           h2 == [h1 EXCEPT !.cmpTable[s] = NULL]
<1>1. h1 \in Heap
  BY UseType
<1>2. s = NULL \/ h2 \in Heap
  <2> HIDE DEF h1
  <2> QED
    BY <1>1 DEF Heap
<1>3. \/ FreeCompareResult(h, c) = h1
      \/ FreeCompareResult(h, c) = Release(h1, c)
      \/ s # NULL /\ FreeCompareResult(h, c) = Release(h2, h1.cmpTable[s])
  <2>1. CASE s = NULL
    BY <2>1 DEF FreeCompareResult
  <2>2. CASE s # NULL /\ h1.cmpTable[s] = NULL
    BY <2>2 DEF FreeCompareResult
  <2>3. CASE s # NULL /\ h1.cmpTable[s] # NULL
    BY <2>3 DEF FreeCompareResult
  <2> QED
    BY <2>1, <2>2, <2>3
<1> QED
  <2> HIDE DEF h1, h2, s
  <2> QED
    BY <1>1, <1>2, <1>3, ReleaseType

LEMMA startCmprType ==
    ASSUME NEW h \in Heap, NEW n \in Names, NEW p \in Props
    PROVE  startCmpr(h, n, p) \in Heap
<1> DEFINE h1 == IF Unbound(h, n) THEN h ELSE FreeDataProperty(h, h.propTable[n])
<1>1. h1 \in Heap
  <2>1. ~ Unbound(h, n) => h.propTable[n] \in Props
    BY DEF Unbound, Heap
  <2> QED
    BY <2>1, FreeDataPropertyType
<1>2. startCmpr(h, n, p) = PutProp(AllocProp(h1, n, p, {}), Stem[n], p)
  BY DEF startCmpr
<1> HIDE DEF h1
<1>3. Stem[n] \in Names
  BY StemAssumption
<1> QED
  BY <1>1, <1>2, <1>3, AllocPropType, PutPropType

LEMMA genPropertiesType ==
    ASSUME NEW h \in Heap, NEW n \in Names, NEW p \in Props,
           NEW parts \in SUBSET Parts
    PROVE  /\ genProperties(h, n, p, parts) \in Heap
           /\ generated(h, n, p) \in Props \cup {NULL}
<1>1. CASE Unbound(h, n)
  BY <1>1, AllocPropType, PutPropType DEF genProperties, generated
<1>2. CASE ~ Unbound(h, n)
  <2> DEFINE q == h.propTable[n]
             h1 == Use(h, q)
             kept == [h1.parts EXCEPT ![q] = @ \cup (parts \cap Moved)]
             lost == h1.lost \cup (parts \cap Unfreed)
  <2>1. q \in Props
    BY <1>2 DEF Unbound, Heap
  <2>2. genProperties(h, n, p, parts) = [h1 EXCEPT !.parts = kept, !.lost = lost]
    BY <1>2 DEF genProperties
  <2>3. h1 \in Heap
    BY UseType
  <2> HIDE DEF h1, q
  <2>4. kept \in [Props -> SUBSET Parts]
    <3>1. \A k \in SUBSET Parts : k \cup (parts \cap Moved) \in SUBSET Parts
      OBVIOUS
    <3> QED
      BY <2>1, <2>3, <3>1 DEF Heap
  <2>5. lost \in SUBSET (Parts \cup {"varName", "metrics"})
    BY <2>3 DEF Heap
  <2> HIDE DEF kept, lost
  <2> QED
    BY <1>2, <2>1, <2>2, <2>3, <2>4, <2>5 DEF generated, Heap, q
<1> QED
  BY <1>1, <1>2

LEMMA storeVarType ==
    ASSUME NEW h \in Heap, NEW n \in Names, NEW p \in Props,
           NEW parts \in SUBSET Parts
    PROVE  /\ storeVar(h, n, p, parts) \in Heap
           /\ storeVar(h, n, p, parts).propTable[n] \in Props \cup {NULL}
           /\ storeVar(h, n, p, parts).cmpTable \in [Cases -> Cmps \cup {NULL}]
           /\ storeVar(h, n, p, parts).cmp \in
                  [Cmps -> [solution : Cases \cup {NULL}, property : Props \cup {NULL},
                            metrics : BOOLEAN]]
<1>1. storeVar(h, n, p, parts) \in Heap
  BY genPropertiesType, PutPropType DEF storeVar
<1> QED
  BY <1>1 DEF Heap

LEMMA constructOneVariableType ==
    ASSUME NEW h \in Heap, NEW n \in Names, NEW p \in Props, NEW c \in Cmps,
           NEW parts \in SUBSET Parts
    PROVE  constructOneVariable(h, n, p, c, parts) \in Heap
BY storeVarType, AllocCmpType DEF constructOneVariable

LEMMA registerVarType ==
    ASSUME NEW h \in Heap, NEW n \in Names, NEW p \in Props, NEW c \in Cmps,
           NEW parts \in SUBSET Parts
    PROVE  /\ registerVar(h, n, p, c, parts) \in Heap
           /\ registered(h, n, c) \in Cmps
<1>1. registerVar(h, n, p, c, parts) \in Heap
  BY storeVarType, constructOneVariableType DEF registerVar
<1>2. FoundResult(h, n) \in Cmps \cup {NULL}
  BY FlagAssumption DEF FoundResult, Heap
<1> QED
  BY <1>1, <1>2 DEF registered

LEMMA LoadedType ==
    ASSUME NEW h \in Heap, NEW n \in Names, NEW c \in Cmps
    PROVE  Loaded(n, h, c) \in Job
<1>1. h.propTable[n] \in Props \cup {NULL} /\ h.cmp[c].solution \in Cases \cup {NULL}
  BY DEF Heap
<1> QED
  BY <1>1 DEF Loaded, Job

LEMMA compareIntoType ==
    ASSUME NEW h \in Heap, NEW c \in Cmps
    PROVE  compareInto(h, c) \in Heap
<1> DEFINE h1 == Use(Use(h, c), h.cmp[c].property)
           lost == IF h1.cmp[c].metrics THEN h1.lost \cup {"metrics"} ELSE h1.lost
<1>1. h1 \in Heap
  BY UseType
<1>2. compareInto(h, c) = [h1 EXCEPT !.cmp[c].metrics = TRUE, !.lost = lost]
  BY DEF compareInto
<1>3. lost \in SUBSET (Parts \cup {"varName", "metrics"})
  BY <1>1 DEF Heap
<1> HIDE DEF h1, lost
<1>4. [h1.cmp EXCEPT ![c].metrics = TRUE] \in
          [Cmps -> [solution : Cases \cup {NULL}, property : Props \cup {NULL},
                    metrics : BOOLEAN]]
  <2> DEFINE R == [solution : Cases \cup {NULL}, property : Props \cup {NULL},
                   metrics : BOOLEAN]
  <2>1. h1.cmp \in [Cmps -> R]
    BY <1>1 DEF Heap
  <2>2. [h1.cmp[c] EXCEPT !.metrics = TRUE] \in R
    BY <2>1
  <2>3. [h1.cmp EXCEPT ![c].metrics = TRUE] =
        [h1.cmp EXCEPT ![c] = [h1.cmp[c] EXCEPT !.metrics = TRUE]]
    OBVIOUS
  <2> HIDE DEF R
  <2>4. [h1.cmp EXCEPT ![c].metrics = TRUE] \in [Cmps -> R]
    BY <2>1, <2>2, <2>3
  <2> QED
    BY <2>4 DEF R
<1> QED
  BY <1>1, <1>2, <1>3, <1>4 DEF Heap

LEMMA endCmprType ==
    ASSUME NEW h \in Heap, NEW p \in Props, NEW s \in Cases, NEW c \in Cmps
    PROVE  /\ endCmpr(h, p, s, c) \in Heap
           /\ endCmpr(h, p, s, c).cmpTable[s] \in Cmps
<1> DEFINE stored == h.cmpTable[s]
           h1 == IF stored = NULL
                 THEN [AllocCmp(h, c, s, p) EXCEPT !.cmpTable[s] = c]
                 ELSE Use(h, stored)
           h2 == Use(h1, p)
           r == h1.cmpTable[s]
<1>1. h1 \in Heap /\ h1.cmpTable[s] \in Cmps
  <2>1. CASE stored = NULL
    <3> DEFINE a == AllocCmp(h, c, s, p)
    <3>1. a \in Heap
      BY AllocCmpType
    <3>2. h1 = [a EXCEPT !.cmpTable[s] = c]
      BY <2>1
    <3> HIDE DEF a, h1
    <3>3. [a.cmpTable EXCEPT ![s] = c] \in [Cases -> Cmps \cup {NULL}]
      BY <3>1 DEF Heap
    <3>4. h1 \in Heap /\ h1.cmpTable = [a.cmpTable EXCEPT ![s] = c]
      BY <3>1, <3>2, <3>3 DEF Heap
    <3> QED
      BY <3>1, <3>4 DEF Heap
  <2>2. CASE stored # NULL
    <3>1. h1 = Use(h, stored) /\ stored \in Cmps
      BY <2>2 DEF Heap
    <3>2. h1 \in Heap
      BY <3>1, UseType
    <3>3. Use(h, stored).cmpTable = h.cmpTable
      BY DEF Use, Heap
    <3> QED
      BY <3>1, <3>2, <3>3
  <2> QED
    BY <2>1, <2>2
<1>2. endCmpr(h, p, s, c) = [h2 EXCEPT !.cmp[r].property = p, !.cmp[r].solution = s]
  BY DEF endCmpr
<1>3. h2 \in Heap /\ h2.cmpTable = h1.cmpTable
  <2> HIDE DEF h1
  <2>1. h2 \in Heap
    BY <1>1, UseType
  <2> QED
    BY <1>1, <2>1 DEF Use, Heap
<1> HIDE DEF h2
<1>4. r \in Cmps
  BY <1>1
<1> HIDE DEF r
<1> DEFINE g == [h2.cmp EXCEPT ![r].property = p, ![r].solution = s]
<1>5. g \in [Cmps -> [solution : Cases \cup {NULL}, property : Props \cup {NULL},
                     metrics : BOOLEAN]]
  BY <1>3, <1>4 DEF Heap
<1>6. endCmpr(h, p, s, c) = [h2 EXCEPT !.cmp = g]
  BY <1>2, <1>3 DEF Heap
<1> HIDE DEF g
<1>7. endCmpr(h, p, s, c) \in Heap /\ endCmpr(h, p, s, c).cmpTable = h2.cmpTable
  BY <1>3, <1>5, <1>6 DEF Heap
<1> QED
  BY <1>1, <1>3, <1>7

----------------------------------------------------------------------------
(* What the functions do to tables that are in order.                      *)
LEMMA FreeInternalEffect ==
    ASSUME NEW h \in Heap, NEW p \in h.live \cap Props
    PROVE  LET g == freeDataProperty_internal(h, p)
           IN  /\ g.live = h.live \ {p}
               /\ g.prop = [h.prop EXCEPT ![p] = AnyName]
               /\ g.propTable = h.propTable
               /\ g.cmp = h.cmp /\ g.cmpTable = h.cmpTable
               /\ g.fault = h.fault
               /\ LossOK(h) => LossOK(g)
<1> DEFINE g == freeDataProperty_internal(h, p)
           live == h.live \ {p}
           prop == [h.prop EXCEPT ![p] = AnyName]
           parts == [h.parts EXCEPT ![p] = {}]
           lost == h.lost \cup (h.parts[p] \cap Unfreed)
<1>1. Release(h, p) = [h EXCEPT !.live = live, !.prop = prop, !.parts = parts]
  BY AddressAssumption DEF Release, Heap
<1>2. g = [h EXCEPT !.live = live, !.prop = prop, !.parts = parts, !.lost = lost]
  <2> HIDE DEF live, prop, parts
  <2> QED
    BY <1>1 DEF freeDataProperty_internal, Heap
<1>3. \A q \in Props : parts[q] \subseteq h.parts[q]
  BY DEF Heap
<1> HIDE DEF g, live, prop, parts, lost
<1>4. /\ g.live = live /\ g.prop = prop /\ g.parts = parts /\ g.lost = lost
      /\ g.propTable = h.propTable /\ g.cmp = h.cmp /\ g.cmpTable = h.cmpTable
      /\ g.fault = h.fault
  BY <1>2 DEF Heap
<1>5. LossOK(h) => LossOK(g)
  BY <1>3, <1>4 DEF LossOK, lost
<1>6. /\ g.live = h.live \ {p}
      /\ g.prop = [h.prop EXCEPT ![p] = AnyName]
  BY <1>4 DEF live, prop
<1> QED
  BY <1>4, <1>5, <1>6 DEF g

(* g is h with p stored under n in the place of q, which is freed.         *)
Stores(h, g, n, p, q) ==
    /\ g.live = (h.live \ {q}) \cup {p}
    /\ g.propTable = [h.propTable EXCEPT ![n] = p]
    /\ g.prop[p] = n /\ \A x \in Props \ {p, q} : g.prop[x] = h.prop[x]
    /\ g.cmp = h.cmp /\ g.cmpTable = h.cmpTable
    /\ g.fault = h.fault
    /\ LossOK(h) => LossOK(g)

LEMMA FreeDataPropertyEffect ==
    ASSUME NEW h \in Heap, PropTableOK(h), NEW p \in h.live \cap Props
    PROVE  LET g == FreeDataProperty(h, p)
           IN  /\ g.live = h.live \ {p}
               /\ g.prop = [h.prop EXCEPT ![p] = AnyName]
               /\ g.propTable = [h.propTable EXCEPT ![h.prop[p]] = NULL]
               /\ g.cmp = h.cmp /\ g.cmpTable = h.cmpTable
               /\ g.fault = h.fault
               /\ LossOK(h) => LossOK(g)
<1> DEFINE k == [h EXCEPT !.propTable[h.prop[p]] = NULL]
<1>1. Use(h, p) = h
  BY DEF Use
<1>2. h.propTable[h.prop[p]] = p /\ p # NULL
  BY AddressAssumption DEF PropTableOK
<1>3. FreeDataProperty(h, p) = freeDataProperty_internal(k, p)
  BY <1>1, <1>2 DEF FreeDataProperty
<1>4. /\ k.live = h.live /\ k.prop = h.prop /\ k.cmp = h.cmp /\ k.cmpTable = h.cmpTable
      /\ k.lost = h.lost /\ k.fault = h.fault /\ k.parts = h.parts
      /\ k.propTable = [h.propTable EXCEPT ![h.prop[p]] = NULL]
      /\ k \in Heap
  BY DEF Heap
<1> HIDE DEF k
<1>5. LossOK(h) => LossOK(k)
  BY <1>4 DEF LossOK
<1> DEFINE g == FreeDataProperty(h, p)
<1>6. /\ g.live = k.live \ {p} /\ g.prop = [k.prop EXCEPT ![p] = AnyName]
      /\ g.propTable = k.propTable /\ g.cmp = k.cmp /\ g.cmpTable = k.cmpTable
      /\ g.fault = k.fault /\ (LossOK(k) => LossOK(g))
  BY <1>3, <1>4, FreeInternalEffect
<1> HIDE DEF g
<1>7. /\ g.live = h.live \ {p}
      /\ g.prop = [h.prop EXCEPT ![p] = AnyName]
      /\ g.propTable = [h.propTable EXCEPT ![h.prop[p]] = NULL]
      /\ g.cmp = h.cmp /\ g.cmpTable = h.cmpTable
      /\ g.fault = h.fault
      /\ LossOK(h) => LossOK(g)
  BY <1>4, <1>5, <1>6
<1> QED
  BY <1>7 DEF g

LEMMA StoreEffect ==
    ASSUME NEW h \in Heap, NEW n \in Names, Stem[n] = n, Unbound(h, n),
           NEW p \in Props, p \notin h.live,
           NEW parts \in SUBSET Parts, parts \cap Unfreed \subseteq Excused
    PROVE  Stores(h, PutProp(AllocProp(h, n, p, parts), n, p), n, p, NULL)
<1> DEFINE k == AllocProp(h, n, p, parts)
<1>1. k = [h EXCEPT !.prop[p] = n, !.parts[p] = parts, !.live = @ \cup {p}]
  BY DEF AllocProp
<1>2. /\ k \in Heap /\ k.live = h.live \cup {p} /\ k.prop = [h.prop EXCEPT ![p] = n]
      /\ k.propTable = h.propTable /\ k.cmp = h.cmp /\ k.cmpTable = h.cmpTable
      /\ k.lost = h.lost /\ k.fault = h.fault
      /\ k.parts = [h.parts EXCEPT ![p] = parts]
  BY <1>1, AllocPropType DEF Heap
<1> HIDE DEF k
<1>3. PutProp(k, n, p) = [k EXCEPT !.propTable[n] = p]
  BY <1>2 DEF PutProp, Unbound
<1>4. NULL \notin h.live
  BY AddressAssumption DEF Heap
<1> DEFINE g == PutProp(k, n, p)
<1>5. /\ g.live = k.live /\ g.prop = k.prop /\ g.cmp = k.cmp /\ g.cmpTable = k.cmpTable
      /\ g.lost = k.lost /\ g.fault = k.fault /\ g.parts = k.parts
      /\ g.propTable = [k.propTable EXCEPT ![n] = p]
  BY <1>2, <1>3 DEF Heap
<1>6. g.prop[p] = n /\ \A x \in Props \ {p} : g.prop[x] = h.prop[x]
  BY <1>2, <1>5 DEF Heap
<1> HIDE DEF g
<1>7. LossOK(h) => LossOK(g)
  <2>1. \A x \in Props : g.parts[x] = IF x = p THEN parts ELSE h.parts[x]
    BY <1>2, <1>5 DEF Heap
  <2> QED
    BY <1>2, <1>5, <2>1 DEF LossOK
<1>8. Stores(h, g, n, p, NULL)
  BY <1>2, <1>4, <1>5, <1>6, <1>7 DEF Stores
<1> QED
  BY <1>8 DEF g, k

LEMMA startCmprEffect ==
    ASSUME NEW h \in Heap, PropTableOK(h), NEW n \in Names, Stem[n] = n,
           NEW p \in Props, p \notin h.live
    PROVE  Stores(h, startCmpr(h, n, p), n, p, h.propTable[n])
<1> DEFINE q == h.propTable[n]
           k == IF Unbound(h, n) THEN h ELSE FreeDataProperty(h, q)
<1>1. startCmpr(h, n, p) = PutProp(AllocProp(k, n, p, {}), n, p)
  BY DEF startCmpr
<1>2. CASE Unbound(h, n)
  BY <1>1, <1>2, StoreEffect DEF Unbound
<1>3. CASE ~ Unbound(h, n)
  <2>1. q \in h.live \cap Props /\ h.prop[q] = n
    BY <1>3 DEF Unbound, PropTableOK, Heap
  <2>2. /\ k.live = h.live \ {q} /\ k.prop = [h.prop EXCEPT ![q] = AnyName]
        /\ k.propTable = [h.propTable EXCEPT ![n] = NULL]
        /\ k.cmp = h.cmp /\ k.cmpTable = h.cmpTable
        /\ k.fault = h.fault /\ (LossOK(h) => LossOK(k))
    BY <1>3, <2>1, FreeDataPropertyEffect
  <2>3. k \in Heap
    BY <1>3, <2>1, FreeDataPropertyType
  <2> HIDE DEF k
  <2>4. Unbound(k, n)
    BY <2>2 DEF Unbound, Heap
  <2>5. Stores(k, PutProp(AllocProp(k, n, p, {}), n, p), n, p, NULL)
    BY <2>2, <2>3, <2>4, StoreEffect
  <2> DEFINE g == PutProp(AllocProp(k, n, p, {}), n, p)
  <2> HIDE DEF g
  <2>6. /\ g.live = (k.live \ {NULL}) \cup {p}
        /\ g.propTable = [k.propTable EXCEPT ![n] = p]
        /\ g.prop[p] = n /\ \A x \in Props \ {p, NULL} : g.prop[x] = k.prop[x]
        /\ g.cmp = k.cmp /\ g.cmpTable = k.cmpTable
        /\ g.fault = k.fault /\ (LossOK(k) => LossOK(g))
    BY <2>5 DEF Stores, g
  <2>7. NULL \notin h.live
    BY AddressAssumption DEF Heap
  <2>8. g.live = (h.live \ {q}) \cup {p}
    BY <2>2, <2>6, <2>7
  <2>9. g.propTable = [h.propTable EXCEPT ![n] = p]
    BY <2>2, <2>6 DEF Heap
  <2>10. \A x \in Props \ {p, q} : g.prop[x] = h.prop[x]
    BY <2>2, <2>6, AddressAssumption DEF Heap
  <2>11. Stores(h, g, n, p, q)
    BY <2>2, <2>6, <2>8, <2>9, <2>10 DEF Stores
  <2> QED
    BY <1>1, <2>11 DEF g
<1> QED
  BY <1>2, <1>3

LEMMA StoresKeeps ==
    ASSUME NEW h \in Heap, NEW g \in Heap, Tables(h), NEW n \in Names,
           NEW p \in Props, p \notin h.live, Stores(h, g, n, p, h.propTable[n])
    PROVE  Tables(g)
<1> USE DEF Stores
<1>1. p # NULL /\ NULL \notin h.live /\ p \notin Cmps
  BY AddressAssumption DEF Heap
<1>2. PropTableOK(g)
  <2>1. ASSUME NEW m \in Names, g.propTable[m] # NULL
        PROVE  g.propTable[m] \in g.live /\ g.prop[g.propTable[m]] = m
    <3>1. CASE m = n
      BY <3>1 DEF Heap
    <3>2. CASE m # n
      <4>1. g.propTable[m] = h.propTable[m] /\ h.propTable[m] \in Props
        BY <2>1, <3>2 DEF Heap
      <4>2. h.propTable[m] \in h.live /\ h.prop[h.propTable[m]] = m
        BY <2>1, <4>1 DEF Tables, PropTableOK
      <4>3. h.propTable[m] # h.propTable[n]
        BY <3>2, <4>2, <1>1 DEF Tables, PropTableOK
      <4> QED
        BY <4>1, <4>2, <4>3
    <3> QED
      BY <3>1, <3>2
  <2>2. ASSUME NEW x \in g.live \cap Props
        PROVE  g.propTable[g.prop[x]] = x
    <3>1. CASE x = p
      BY <3>1 DEF Heap
    <3>2. CASE x # p
      <4>1. x \in h.live /\ x # h.propTable[n] /\ g.prop[x] = h.prop[x]
        BY <3>2
      <4>2. h.propTable[h.prop[x]] = x
        BY <4>1 DEF Tables, PropTableOK
      <4> QED
        BY <4>1, <4>2 DEF Heap
    <3> QED
      BY <3>1, <3>2
  <2> QED
    BY <2>1, <2>2 DEF PropTableOK
<1>3. CmpTableOK(g)
  <2>1. \A c \in Cmps : c \in g.live <=> c \in h.live
    BY <1>1, AddressAssumption DEF Heap
  <2> QED
    BY <2>1 DEF Tables, CmpTableOK, Heap
<1> QED
  BY <1>2, <1>3 DEF Tables

LEMMA PropTableFrame ==
    ASSUME NEW h \in Heap, PropTableOK(h), NEW g, g.prop = h.prop,
           g.propTable = h.propTable, \A p \in Props : p \in g.live <=> p \in h.live
    PROVE  PropTableOK(g)
<1>1. \A n \in Names : h.propTable[n] # NULL => h.propTable[n] \in Props
  BY DEF Heap
<1> QED
  BY <1>1 DEF PropTableOK

LEMMA CmpTableFrame ==
    ASSUME NEW h \in Heap, CmpTableOK(h), NEW g, g.cmpTable = h.cmpTable,
           \A c \in Cmps : c \in g.live <=> c \in h.live,
           \A c \in h.live \cap Cmps : g.cmp[c].solution = h.cmp[c].solution
    PROVE  CmpTableOK(g)
<1>1. \A s \in Cases : h.cmpTable[s] # NULL => h.cmpTable[s] \in Cmps
  BY DEF Heap
<1> QED
  BY <1>1 DEF CmpTableOK

LEMMA FreeDataPropertyKeeps ==
    ASSUME NEW h \in Heap, Tables(h), NEW p \in h.live \cap Props
    PROVE  Tables(FreeDataProperty(h, p))
<1> DEFINE g == FreeDataProperty(h, p)
<1>1. /\ g.live = h.live \ {p}
      /\ g.prop = [h.prop EXCEPT ![p] = AnyName]
      /\ g.propTable = [h.propTable EXCEPT ![h.prop[p]] = NULL]
      /\ g.cmp = h.cmp /\ g.cmpTable = h.cmpTable
      /\ g.fault = h.fault /\ LossOK(g)
  BY FreeDataPropertyEffect DEF Tables
<1>2. g \in Heap
  BY FreeDataPropertyType
<1> HIDE DEF g
<1>3. PropTableOK(g)
  <2>1. h.propTable[h.prop[p]] = p /\ h.prop[p] \in Names
    BY DEF Tables, PropTableOK, Heap
  <2>2. ASSUME NEW m \in Names, g.propTable[m] # NULL
        PROVE  g.propTable[m] \in g.live /\ g.prop[g.propTable[m]] = m
    <3>1. m # h.prop[p] /\ g.propTable[m] = h.propTable[m]
      BY <1>1, <2>2 DEF Heap
    <3>2. h.propTable[m] \in h.live /\ h.prop[h.propTable[m]] = m /\ h.propTable[m] \in Props
      BY <2>2, <3>1 DEF Tables, PropTableOK, Heap
    <3> QED
      BY <1>1, <3>1, <3>2 DEF Heap
  <2>3. ASSUME NEW x \in g.live \cap Props
        PROVE  g.propTable[g.prop[x]] = x
    <3>1. x # p /\ g.prop[x] = h.prop[x] /\ h.propTable[h.prop[x]] = x
      BY <1>1, <2>3 DEF Tables, PropTableOK, Heap
    <3>2. h.prop[x] # h.prop[p]
      BY <2>1, <3>1
    <3> QED
      BY <1>1, <3>1, <3>2 DEF Heap
  <2> QED
    BY <2>2, <2>3 DEF PropTableOK
<1>4. CmpTableOK(g)
  <2>1. \A c \in Cmps : c \in g.live <=> c \in h.live
    BY <1>1, AddressAssumption
  <2> QED
    BY <1>1, <2>1, CmpTableFrame DEF Tables
<1> QED
  BY <1>1, <1>3, <1>4 DEF Tables, g

(* A result that no table has. *)
LEMMA AllocCmpEffect ==
    ASSUME NEW h \in Heap, Tables(h), NEW c \in Cmps, c \notin h.live,
           NEW p \in Props \cup {NULL}
    PROVE  LET g == AllocCmp(h, c, NULL, p)
           IN  /\ g.live = h.live \cup {c}
               /\ g.cmp = [h.cmp EXCEPT ![c] =
                      [solution |-> NULL, property |-> p, metrics |-> FALSE]]
               /\ g.prop = h.prop /\ g.propTable = h.propTable /\ g.cmpTable = h.cmpTable
               /\ g.fault = h.fault
               /\ Tables(g)
<1> DEFINE g == AllocCmp(h, c, NULL, p)
<1>1. /\ g.live = h.live \cup {c}
      /\ g.cmp = [h.cmp EXCEPT ![c] =
             [solution |-> NULL, property |-> p, metrics |-> FALSE]]
      /\ g.prop = h.prop /\ g.propTable = h.propTable /\ g.cmpTable = h.cmpTable
      /\ g.parts = h.parts /\ g.lost = h.lost /\ g.fault = h.fault
  BY DEF AllocCmp, Heap
<1> HIDE DEF g
<1>2. PropTableOK(g)
  BY <1>1, AddressAssumption, PropTableFrame DEF Tables
<1>3. CmpTableOK(g)
  <2>1. \A s \in Cases : h.cmpTable[s] # NULL =>
            /\ h.cmpTable[s] \in h.live /\ h.cmpTable[s] # c
            /\ h.cmpTable[s] \in Cmps /\ h.cmp[h.cmpTable[s]].solution = s
    <3>1. h.cmpTable \in [Cases -> Cmps \cup {NULL}]
      BY DEF Heap
    <3> QED
      BY <3>1 DEF Tables, CmpTableOK
  <2>2. g.cmp[c].solution = NULL /\ \A x \in Cmps : x # c => g.cmp[x] = h.cmp[x]
    <3>1. DOMAIN h.cmp = Cmps
      BY DEF Heap
    <3> QED
      BY <1>1, <3>1
  <2>3. \A x \in h.live \cap Cmps :
            h.cmp[x].solution # NULL => h.cmpTable[h.cmp[x].solution] = x
    BY DEF Tables, CmpTableOK
  <2>4. \A x \in g.live \cap Cmps :
            g.cmp[x].solution # NULL => g.cmpTable[g.cmp[x].solution] = x
    BY <1>1, <2>2, <2>3
  <2>5. \A s \in Cases : g.cmpTable[s] # NULL =>
            g.cmpTable[s] \in g.live /\ g.cmp[g.cmpTable[s]].solution = s
    BY <1>1, <2>1, <2>2
  <2> QED
    BY <2>4, <2>5 DEF CmpTableOK
<1>4. LossOK(g)
  BY <1>1 DEF Tables, LossOK
<1> QED
  BY <1>1, <1>2, <1>3, <1>4 DEF Tables, g

(* The record that ZC_endCmpr_offline uses for case s.                     *)
Record(h, s, c) == IF h.cmpTable[s] = NULL THEN c ELSE h.cmpTable[s]

LEMMA endCmprEffect ==
    ASSUME NEW h \in Heap, Tables(h), NEW p \in h.live \cap Props, NEW s \in Cases,
           NEW c \in Cmps, c \notin h.live
    PROVE  LET g == endCmpr(h, p, s, c)
               r == Record(h, s, c)
           IN  /\ g.live = h.live \cup {r} /\ r \in Cmps
               /\ g.cmpTable = [h.cmpTable EXCEPT ![s] = r]
               /\ g.cmp[r].solution = s /\ g.cmp[r].property = p
               /\ \A x \in Cmps \ {r} : g.cmp[x] = h.cmp[x]
               /\ g.prop = h.prop /\ g.propTable = h.propTable
               /\ g.parts = h.parts /\ g.lost = h.lost /\ g.fault = h.fault
<1> DEFINE g == endCmpr(h, p, s, c)
           r == Record(h, s, c)
           h1 == IF h.cmpTable[s] = NULL
                 THEN [AllocCmp(h, c, s, p) EXCEPT !.cmpTable[s] = c]
                 ELSE Use(h, h.cmpTable[s])
<1>1. /\ h1.live = h.live \cup {r} /\ r \in Cmps
      /\ h1.cmpTable = [h.cmpTable EXCEPT ![s] = r]
      /\ \A x \in Cmps \ {r} : h1.cmp[x] = h.cmp[x]
      /\ h1.prop = h.prop /\ h1.propTable = h.propTable
      /\ h1.parts = h.parts /\ h1.lost = h.lost /\ h1.fault = h.fault
      /\ h1 \in Heap
  <2>1. CASE h.cmpTable[s] = NULL
    <3> DEFINE a == AllocCmp(h, c, s, p)
    <3>1. /\ a \in Heap /\ a.live = h.live \cup {c} /\ a.cmpTable = h.cmpTable
          /\ a.cmp = [h.cmp EXCEPT ![c] =
                 [solution |-> s, property |-> p, metrics |-> FALSE]]
          /\ a.prop = h.prop /\ a.propTable = h.propTable
          /\ a.parts = h.parts /\ a.lost = h.lost /\ a.fault = h.fault
      <4>1. a \in Heap
        BY AllocCmpType
      <4>2. /\ a.live = h.live \cup {c} /\ a.cmpTable = h.cmpTable
            /\ a.cmp = [h.cmp EXCEPT ![c] =
                   [solution |-> s, property |-> p, metrics |-> FALSE]]
        BY DEF AllocCmp, Heap
      <4>3. /\ a.prop = h.prop /\ a.propTable = h.propTable
            /\ a.parts = h.parts /\ a.lost = h.lost /\ a.fault = h.fault
        BY DEF AllocCmp, Heap
      <4> QED
        BY <4>1, <4>2, <4>3
    <3>2. h1 = [a EXCEPT !.cmpTable[s] = c] /\ r = c
      BY <2>1 DEF Record
    <3> HIDE DEF a, h1, r
    <3>3. [a.cmpTable EXCEPT ![s] = c] \in [Cases -> Cmps \cup {NULL}]
      BY <3>1 DEF Heap
    <3>4. /\ h1 \in Heap /\ h1.cmpTable = [a.cmpTable EXCEPT ![s] = c]
          /\ h1.live = a.live /\ h1.cmp = a.cmp /\ h1.prop = a.prop
          /\ h1.propTable = a.propTable /\ h1.parts = a.parts /\ h1.lost = a.lost /\ h1.fault = a.fault
      BY <3>1, <3>2, <3>3 DEF Heap
    <3> QED
      BY <3>1, <3>2, <3>4 DEF Heap
  <2>2. CASE h.cmpTable[s] # NULL
    <3>1. h.cmpTable[s] \in h.live \cap Cmps /\ r = h.cmpTable[s]
      BY <2>2 DEF Tables, CmpTableOK, Heap, Record
    <3>2. h1 = h
      BY <2>2, <3>1 DEF Use
    <3>3. h.cmpTable = [h.cmpTable EXCEPT ![s] = r]
      BY <3>1 DEF Heap
    <3> QED
      BY <3>1, <3>2, <3>3
  <2> QED
    BY <2>1, <2>2
<1>2. g = [Use(h1, p) EXCEPT !.cmp[h1.cmpTable[s]].property = p,
                             !.cmp[h1.cmpTable[s]].solution = s]
  BY DEF endCmpr
<1> HIDE DEF g, h1, r
<1>3. Use(h1, p) = h1
  BY <1>1 DEF Use
<1>4. h1.cmpTable[s] = r
  BY <1>1 DEF Heap
<1> DEFINE e == [h1.cmp EXCEPT ![r].property = p, ![r].solution = s]
<1>5. g = [h1 EXCEPT !.cmp = e]
  BY <1>2, <1>3, <1>4, <1>1, ZenonT(60) DEF Heap
<1>6. e[r].property = p /\ e[r].solution = s /\ \A x \in Cmps \ {r} : e[x] = h1.cmp[x]
  BY <1>1 DEF Heap
<1> HIDE DEF e
<1>7. /\ g.cmp = e /\ g.live = h1.live /\ g.cmpTable = h1.cmpTable /\ g.prop = h1.prop
      /\ g.propTable = h1.propTable /\ g.parts = h1.parts /\ g.lost = h1.lost /\ g.fault = h1.fault
  BY <1>1, <1>5 DEF Heap
<1>8. /\ g.live = h.live \cup {r} /\ r \in Cmps
      /\ g.cmpTable = [h.cmpTable EXCEPT ![s] = r]
      /\ g.cmp[r].solution = s /\ g.cmp[r].property = p
      /\ \A x \in Cmps \ {r} : g.cmp[x] = h.cmp[x]
      /\ g.prop = h.prop /\ g.propTable = h.propTable
      /\ g.parts = h.parts /\ g.lost = h.lost /\ g.fault = h.fault
  BY <1>1, <1>6, <1>7
<1> QED
  BY <1>8 DEF g, r

LEMMA endCmprKeeps ==
    ASSUME NEW h \in Heap, Tables(h), NEW p \in h.live \cap Props, NEW s \in Cases,
           NEW c \in Cmps, c \notin h.live
    PROVE  Tables(endCmpr(h, p, s, c))
<1> DEFINE g == endCmpr(h, p, s, c)
           r == Record(h, s, c)
<1>1. /\ g.live = h.live \cup {r} /\ r \in Cmps
      /\ g.cmpTable = [h.cmpTable EXCEPT ![s] = r]
      /\ g.cmp[r].solution = s /\ g.cmp[r].property = p
      /\ \A x \in Cmps \ {r} : g.cmp[x] = h.cmp[x]
      /\ g.prop = h.prop /\ g.propTable = h.propTable
      /\ g.parts = h.parts /\ g.lost = h.lost /\ g.fault = h.fault
  BY endCmprEffect
<1>2. r = c \/ (r = h.cmpTable[s] /\ r \in h.live /\ h.cmp[r].solution = s)
  <2>1. CASE h.cmpTable[s] = NULL
    BY <2>1 DEF Record
  <2>2. CASE h.cmpTable[s] # NULL
    BY <2>2 DEF Record, Tables, CmpTableOK
  <2> QED
    BY <2>1, <2>2
<1>3. \A t \in Cases : t # s => h.cmpTable[t] # r
  BY <1>1, <1>2, AddressAssumption DEF Tables, CmpTableOK
<1>4. h.cmpTable[s] # NULL => r = h.cmpTable[s]
  BY DEF Record
<1> HIDE DEF g, r
<1>5. PropTableOK(g)
  BY <1>1, AddressAssumption, PropTableFrame DEF Tables
<1>6. CmpTableOK(g)
  <2>1. ASSUME NEW t \in Cases, g.cmpTable[t] # NULL
        PROVE  g.cmpTable[t] \in g.live /\ g.cmp[g.cmpTable[t]].solution = t
    <3>1. CASE t = s
      BY <1>1, <3>1 DEF Heap
    <3>2. CASE t # s
      <4>1. g.cmpTable[t] = h.cmpTable[t] /\ h.cmpTable[t] \in Cmps \ {r}
        BY <1>1, <1>3, <2>1, <3>2 DEF Heap
      <4> QED
        BY <1>1, <2>1, <4>1 DEF Tables, CmpTableOK
    <3> QED
      BY <3>1, <3>2
  <2>2. ASSUME NEW x \in g.live \cap Cmps, g.cmp[x].solution # NULL
        PROVE  g.cmpTable[g.cmp[x].solution] = x
    <3>1. CASE x = r
      BY <1>1, <3>1 DEF Heap
    <3>2. CASE x # r
      <4>1. /\ g.cmp[x] = h.cmp[x] /\ h.cmp[x].solution \in Cases
            /\ h.cmpTable[h.cmp[x].solution] = x
        BY <1>1, <2>2, <3>2 DEF Tables, CmpTableOK, Heap
      <4>2. h.cmp[x].solution # s
        BY <1>4, <3>2, <4>1, AddressAssumption
      <4> QED
        BY <1>1, <4>1, <4>2 DEF Heap
    <3> QED
      BY <3>1, <3>2
  <2> QED
    BY <2>1, <2>2 DEF CmpTableOK
<1>7. LossOK(g)
  BY <1>1 DEF Tables, LossOK
<1> QED
  BY <1>5, <1>6, <1>7 DEF Tables, g

LEMMA compareIntoEffect ==
    ASSUME NEW h \in Heap, Tables(h), NEW c \in h.live \cap Cmps,
           h.cmp[c].property \in h.live
    PROVE  LET g == compareInto(h, c)
           IN  /\ \A x \in Cmps : g.cmp[x].solution = h.cmp[x].solution
                                  /\ g.cmp[x].property = h.cmp[x].property
               /\ g.live = h.live /\ g.cmpTable = h.cmpTable
               /\ g.prop = h.prop /\ g.propTable = h.propTable
               /\ g.fault = h.fault
               /\ Tables(g)
<1> DEFINE g == compareInto(h, c)
           lost == IF h.cmp[c].metrics THEN h.lost \cup {"metrics"} ELSE h.lost
           e == [h.cmp EXCEPT ![c].metrics = TRUE]
<1>1. g = [h EXCEPT !.cmp = e, !.lost = lost]
  BY DEF compareInto, Use, Heap
<1>2. \A x \in Cmps : e[x].solution = h.cmp[x].solution /\ e[x].property = h.cmp[x].property
  BY DEF Heap
<1>3. lost \subseteq Excused
  BY DEF Tables, LossOK, Excused
<1> HIDE DEF g, e, lost
<1>4. /\ g.cmp = e /\ g.lost = lost /\ g.parts = h.parts /\ g.live = h.live /\ g.cmpTable = h.cmpTable
      /\ g.prop = h.prop /\ g.propTable = h.propTable /\ g.fault = h.fault
  BY <1>1 DEF Heap
<1>5. PropTableOK(g)
  BY <1>4, PropTableFrame DEF Tables
<1>6. CmpTableOK(g)
  BY <1>2, <1>4, CmpTableFrame DEF Tables
<1>7. LossOK(g)
  BY <1>3, <1>4 DEF Tables, LossOK
<1> QED
  BY <1>2, <1>4, <1>5, <1>6, <1>7 DEF Tables, g

LEMMA FreeCompareResultEffect ==
    ASSUME NEW h \in Heap, Tables(h), NEW c \in h.live \cap Cmps
    PROVE  LET g == FreeCompareResult(h, c)
           IN  /\ g.prop = h.prop /\ g.propTable = h.propTable
               /\ g.fault = h.fault
               /\ g.live \subseteq h.live /\ h.live \subseteq g.live \cup {c}
               /\ \A x \in Cmps \ {c} : g.cmp[x] = h.cmp[x]
               /\ \A s \in Cases : g.cmpTable[s] # NULL =>
                      g.cmpTable[s] = h.cmpTable[s] /\ g.cmpTable[s] # c
               /\ Tables(g)
<1> DEFINE g == FreeCompareResult(h, c)
           s == h.cmp[c].solution
<1>1. Use(h, c) = h
  BY DEF Use
<1>2. CASE s = NULL
  <2>1. g = h
    BY <1>1, <1>2 DEF FreeCompareResult
  <2>2. \A t \in Cases : h.cmpTable[t] # c
    BY <1>2, AddressAssumption DEF Tables, CmpTableOK
  <2> QED
    BY <2>1, <2>2
<1>3. CASE s # NULL
  <2> DEFINE k == [h EXCEPT !.cmpTable[s] = NULL]
  <2>1. s \in Cases /\ h.cmpTable[s] = c /\ c # NULL
    BY <1>3, AddressAssumption DEF Tables, CmpTableOK, Heap
  <2>2. g = Release(k, c)
    BY <1>1, <1>3, <2>1 DEF FreeCompareResult
  <2>3. /\ k.live = h.live /\ k.prop = h.prop /\ k.cmp = h.cmp /\ k.propTable = h.propTable
        /\ k.parts = h.parts /\ k.lost = h.lost /\ k.fault = h.fault
        /\ k.cmpTable = [h.cmpTable EXCEPT ![s] = NULL]
        /\ k \in Heap
    BY <2>1 DEF Heap
  <2> HIDE DEF k, s
  <2>4. Release(k, c) = [k EXCEPT !.live = @ \ {c}, !.cmp[c] = Blank]
    BY <2>3, AddressAssumption DEF Release
  <2> HIDE DEF g
  <2>5. /\ g.live = h.live \ {c} /\ g.cmp = [h.cmp EXCEPT ![c] = Blank]
        /\ g.cmpTable = [h.cmpTable EXCEPT ![s] = NULL]
        /\ g.prop = h.prop /\ g.propTable = h.propTable
        /\ g.parts = h.parts /\ g.lost = h.lost /\ g.fault = h.fault
    BY <2>2, <2>3, <2>4 DEF Heap
  <2>6. PropTableOK(g)
    BY <2>5, AddressAssumption, PropTableFrame DEF Tables
  <2>7. \A t \in Cases : t # s => h.cmpTable[t] # c
    BY <2>1 DEF Tables, CmpTableOK, s
  <2>8. CmpTableOK(g)
    <3>1. ASSUME NEW t \in Cases, g.cmpTable[t] # NULL
          PROVE  g.cmpTable[t] \in g.live /\ g.cmp[g.cmpTable[t]].solution = t
      <4>1. t # s /\ g.cmpTable[t] = h.cmpTable[t] /\ h.cmpTable[t] \in Cmps
        BY <2>5, <3>1 DEF Heap
      <4>2. h.cmpTable[t] # c
        BY <2>7, <4>1
      <4> QED
        BY <2>5, <3>1, <4>1, <4>2 DEF Tables, CmpTableOK, Heap
    <3>2. ASSUME NEW x \in g.live \cap Cmps, g.cmp[x].solution # NULL
          PROVE  g.cmpTable[g.cmp[x].solution] = x
      <4>1. x # c /\ g.cmp[x] = h.cmp[x] /\ h.cmp[x].solution \in Cases
        BY <2>5, <3>2 DEF Heap
      <4>2. h.cmpTable[h.cmp[x].solution] = x
        BY <2>5, <3>2, <4>1 DEF Tables, CmpTableOK
      <4>3. h.cmp[x].solution # s
        BY <2>1, <4>1, <4>2
      <4> QED
        BY <2>5, <4>1, <4>2, <4>3 DEF Heap
    <3> QED
      BY <3>1, <3>2 DEF CmpTableOK
  <2>9. \A t \in Cases : g.cmpTable[t] # NULL =>
            g.cmpTable[t] = h.cmpTable[t] /\ g.cmpTable[t] # c
    BY <2>5, <2>7 DEF Heap
  <2>10. /\ g.live \subseteq h.live /\ h.live \subseteq g.live \cup {c}
         /\ \A x \in Cmps \ {c} : g.cmp[x] = h.cmp[x]
    BY <2>5 DEF Heap
  <2>11. Tables(g)
    BY <2>5, <2>6, <2>8 DEF Tables, LossOK
  <2> QED
    BY <2>5, <2>9, <2>10, <2>11 DEF g
<1> QED
  BY <1>2, <1>3

(* A property analysed again keeps its block and its place in the table.   *)
LEMMA AnalysedAgainEffect ==
    ASSUME NEW h \in Heap, Tables(h), NEW n \in Names, h.propTable[n] \in h.live \cap Props,
           NEW p \in Props, NEW parts \in SUBSET Parts,
           parts \cap Unfreed \subseteq Excused
    PROVE  LET g == genProperties(h, n, p, parts)
           IN  /\ g.live = h.live /\ g.prop = h.prop /\ g.propTable = h.propTable
               /\ g.cmp = h.cmp /\ g.cmpTable = h.cmpTable /\ g.fault = h.fault
               /\ Tables(g)
<1> DEFINE q == h.propTable[n]
           g == genProperties(h, n, p, parts)
           kept == [h.parts EXCEPT ![q] = @ \cup (parts \cap Moved)]
           lost == h.lost \cup (parts \cap Unfreed)
<1>1. Use(h, q) = h /\ ~ Unbound(h, n)
  BY AddressAssumption DEF Use, Unbound
<1>2. g = [h EXCEPT !.parts = kept, !.lost = lost]
  BY <1>1 DEF genProperties
<1>3. lost \subseteq Excused
  BY DEF Tables, LossOK
<1>4. \A x \in Props : kept[x] \cap Unfreed \subseteq Excused
  <2>1. \A x \in Props : kept[x] \subseteq h.parts[x] \cup Moved
    BY DEF Heap
  <2>2. Moved \cap Unfreed = {}
    BY DEF Moved, Unfreed
  <2> HIDE DEF kept
  <2> QED
    BY <2>1, <2>2 DEF Tables, LossOK
<1> HIDE DEF g, kept, lost
<1>5. /\ g.live = h.live /\ g.prop = h.prop /\ g.propTable = h.propTable
      /\ g.cmp = h.cmp /\ g.cmpTable = h.cmpTable /\ g.fault = h.fault
      /\ g.parts = kept /\ g.lost = lost
  BY <1>2 DEF Heap
<1>6. PropTableOK(g) /\ CmpTableOK(g)
  BY <1>5, PropTableFrame, CmpTableFrame DEF Tables
<1>7. LossOK(g)
  BY <1>3, <1>4, <1>5 DEF LossOK
<1> QED
  BY <1>5, <1>6, <1>7 DEF Tables, g

----------------------------------------------------------------------------
(* The steps.                                                              *)
Rules == {"dotted", "overlap", "orphaned", "stored_twice", "Init_NULL_after_Init"}

LEMMA StepType ==
    ASSUME TypeOK, NEW j \in Jobs, NEW h \in Heap, NEW job \in Job,
           NEW flags \in SUBSET Rules, Step(j, h, job, flags)
    PROVE  TypeOK'
BY DEF Step, TypeOK, Rules

(* What a configuration asks for it may leave behind.                      *)
LEMMA AskedOK ==
    ASSUME TypeOK
    PROVE  asked \in SUBSET Parts /\ asked \cap Unfreed \subseteq Excused
<1>1. CASE asked \in FlagSets
  BY <1>1, FlagAssumption DEF Excused
<1>2. CASE asked = {"autocorr"}
  BY <1>2 DEF Parts, Unfreed, Excused
<1> QED
  BY <1>1, <1>2 DEF TypeOK

LEMMA FlagsType ==
    ASSUME NEW j \in Jobs
    PROVE  /\ \A n \in Names : /\ Dotted(n) \subseteq Rules /\ SharesName(j, n) \subseteq Rules
                               /\ StoredTwice(n) \subseteq Rules
           /\ \A s \in Cases : SharesCase(j, s) \subseteq Rules
           /\ \A p \in Props \cup {NULL} : Orphans(p) \subseteq Rules
BY DEF Dotted, SharesName, SharesCase, StoredTwice, Orphans, Rules

(* What the rules say where they are kept. *)
LEMMA RulesKept ==
    ASSUME NEW j \in Jobs, NEW n \in Names
    PROVE  /\ Dotted(n) \subseteq {"orphaned"} => Stem[n] = n
           /\ SharesName(j, n) \subseteq {"orphaned"} =>
                  \A k \in Jobs \ {j} : jobs[k].p # NULL => heap.prop[jobs[k].p] # Stem[n]
BY DEF Dotted, SharesName

LEMMA CaseKept ==
    ASSUME NEW j \in Jobs, NEW s \in Cases, SharesCase(j, s) \subseteq {"orphaned"}
    PROVE  \A k \in Jobs \ {j} : jobs[k].c # NULL => jobs[k].sol # s
BY DEF SharesCase

(* A step of round j that keeps the rules keeps the invariant if it leaves *)
(* the tables in order and the other rounds their blocks.                  *)
LEMMA CleanStep ==
    ASSUME IInv, Running, NEW j \in Jobs, NEW h, NEW job, NEW flags,
           Step(j, h, job, flags), Clean',
           Tables(h), h.fault = "none", RoundOK(h, job),
           \A k \in Jobs \ {j} : RoundOK(h, jobs[k]) /\ Apart(job, jobs[k]),
           "orphaned" \notin misuse \cup flags => Complete(h)
    PROVE  Owned'
<1>1. /\ heap' = h /\ jobs' = [jobs EXCEPT ![j] = job] /\ misuse' = misuse \cup flags
      /\ up' = up /\ cfgFile' = cfgFile
  BY DEF Step
<1>2. Owned /\ up
  BY <1>1 DEF IInv, Clean, Running
<1>3. Rounds'
  <2>1. \A k \in Jobs : jobs'[k] = IF k = j THEN job ELSE jobs[k]
    BY <1>1 DEF IInv, TypeOK
  <2>2. \A k \in Jobs : RoundOK(h, jobs'[k])
    BY <2>1
  <2>3. ASSUME NEW i \in Jobs, NEW k \in Jobs, i # k
        PROVE  Apart(jobs'[i], jobs'[k])
    <3>1. CASE i = j
      BY <2>1, <2>3, <3>1
    <3>2. CASE k = j
      BY <2>1, <2>3, <3>2 DEF Apart
    <3>3. CASE i # j /\ k # j
      BY <1>2, <2>1, <2>3, <3>3 DEF Owned, Rounds
    <3> QED
      BY <3>1, <3>2, <3>3
  <2> QED
    BY <1>1, <2>2, <2>3 DEF Rounds
<1>4. Tables(heap)'
  BY <1>1
<1>5. Described' /\ Faults' /\ Process'
  BY <1>1, <1>2 DEF Described, Faults, Process, Owned, Running
<1> QED
  BY <1>3, <1>4, <1>5 DEF Owned

(* Storing a property for round j leaves the other rounds what they have.  *)
LEMMA StoresRounds ==
    ASSUME TypeOK, Tables(heap), Rounds, NEW j \in Jobs, NEW n \in Names,
           Stem[n] = n, SharesName(j, n) \subseteq {"orphaned"},
           NEW p \in Props, p \notin heap.live,
           NEW h \in Heap, Stores(heap, h, n, p, heap.propTable[n])
    PROVE  /\ \A k \in Jobs \ {j} : RoundOK(h, jobs[k])
           /\ \A k \in Jobs : jobs[k].p # p
           /\ Complete(heap) /\ Orphans(heap.propTable[n]) = {} => Complete(h)
<1> DEFINE q == heap.propTable[n]
<1>1. /\ h.live = (heap.live \ {q}) \cup {p}
      /\ h.cmp = heap.cmp /\ h.cmpTable = heap.cmpTable
  BY DEF Stores
<1>2. q \in Props \cup {NULL} /\ heap \in Heap
  BY DEF TypeOK, Heap
<1>3. ASSUME NEW k \in Jobs \ {j}
      PROVE  RoundOK(h, jobs[k])
  <2>1. RoundOK(heap, jobs[k])
    BY DEF Rounds
  <2>2. jobs[k].p # NULL => jobs[k].p \in h.live
    <3>1. SUFFICES ASSUME jobs[k].p # NULL PROVE jobs[k].p # q
      BY <1>1, <2>1 DEF RoundOK
    <3>2. heap.prop[jobs[k].p] # n
      BY <3>1, RulesKept
    <3> QED
      BY <3>1, <3>2 DEF Tables, PropTableOK
  <2>3. jobs[k].c # NULL => jobs[k].c \in h.live
    BY <1>1, <1>2, <2>1, AddressAssumption DEF TypeOK, Job, RoundOK
  <2> QED
    BY <1>1, <2>1, <2>2, <2>3 DEF RoundOK
<1>4. \A k \in Jobs : jobs[k].p # p
  BY AddressAssumption DEF Rounds, RoundOK
<1>5. ASSUME Complete(heap), Orphans(q) = {}
      PROVE  Complete(h)
  <2>1. \A s \in Cases : heap.cmpTable[s] # NULL => heap.cmp[heap.cmpTable[s]].property # q
    BY <1>5 DEF Orphans
  <2> QED
    BY <1>1, <1>5, <2>1 DEF Complete
<1> QED
  BY <1>3, <1>4, <1>5

LEMMA StartCmprInv ==
    ASSUME IInv, NEW j \in Jobs, NEW n \in Names, StartCmpr(j, n)
    PROVE  IInv'
<1> DEFINE h == startCmpr(heap, n, NewProp)
           job == [Idle EXCEPT !.phase = "started", !.p = NewProp]
           flags == Dotted(n) \cup SharesName(j, n) \cup Orphans(heap.propTable[n])
                      \cup Orphans(heap.propTable[Stem[n]])
<1>1. Running /\ FreshIn(Props) # {} /\ Step(j, h, job, flags)
  BY DEF StartCmpr
<1>2. TypeOK /\ heap \in Heap
  BY DEF IInv, TypeOK
<1>3. /\ NewProp \in Props /\ NewProp # NULL /\ NewProp \notin heap.live
  BY <1>1, <1>2, FreshProp
<1>4. h \in Heap
  BY <1>2, <1>3, startCmprType
<1>5. job \in Job
  BY <1>3 DEF Idle, Job
<1>6. flags \in SUBSET Rules
  <2>1. /\ heap.propTable[n] \in Props \cup {NULL}
        /\ heap.propTable[Stem[n]] \in Props \cup {NULL}
    BY <1>2, StemAssumption DEF Heap
  <2> QED
    BY <2>1, FlagsType
<1>7. TypeOK'
  BY <1>1, <1>2, <1>4, <1>5, <1>6, StepType
<1>8. ASSUME Clean'
      PROVE  Owned'
  <2>1. flags \subseteq {"orphaned"} /\ Clean
    BY <1>1, <1>8 DEF Clean, Step
  <2>2. Stem[n] = n /\ SharesName(j, n) \subseteq {"orphaned"}
    BY <2>1, RulesKept
  <2>3. Tables(heap) /\ Rounds /\ Described
    BY <2>1 DEF IInv, Owned
  <2>4. Stores(heap, h, n, NewProp, heap.propTable[n])
    BY <1>2, <1>3, <2>2, <2>3, startCmprEffect DEF Tables
  <2>5. Tables(h) /\ h.fault = "none"
    BY <1>1, <1>2, <1>3, <1>4, <2>3, <2>4, StoresKeeps DEF Stores, Running, Sound
  <2>6. RoundOK(h, job)
    BY <1>3, <2>4 DEF RoundOK, Idle, Stores
  <2>7. /\ \A k \in Jobs \ {j} : RoundOK(h, jobs[k])
        /\ \A k \in Jobs : jobs[k].p # NewProp
        /\ Complete(heap) /\ Orphans(heap.propTable[n]) = {} => Complete(h)
    BY <1>2, <1>3, <1>4, <2>2, <2>3, <2>4, StoresRounds
  <2>8. \A k \in Jobs \ {j} : RoundOK(h, jobs[k]) /\ Apart(job, jobs[k])
    BY <2>7 DEF Apart, Idle
  <2>9. "orphaned" \notin misuse \cup flags => Complete(h)
    BY <2>3, <2>7 DEF Described, Orphans
  <2> HIDE DEF h, job, flags
  <2> QED
    BY <1>1, <1>8, <2>5, <2>6, <2>8, <2>9, CleanStep
<1> QED
  BY <1>7, <1>8 DEF IInv

(* A property that is found in the table is alive and no other round's.    *)
LEMMA FoundProp ==
    ASSUME TypeOK, Tables(heap), Rounds, NEW j \in Jobs, NEW n \in Names,
           Stem[n] = n, SharesName(j, n) \subseteq {"orphaned"}, ~ Unbound(heap, n)
    PROVE  /\ heap.propTable[n] \in heap.live \cap Props
           /\ \A k \in Jobs \ {j} : jobs[k].p # heap.propTable[n]
<1>1. heap.propTable[n] # NULL /\ heap.propTable[n] \in Props \cup {NULL}
  BY DEF Unbound, TypeOK, Heap
<1>2. heap.propTable[n] \in heap.live /\ heap.prop[heap.propTable[n]] = n
  BY <1>1 DEF Tables, PropTableOK
<1> QED
  BY <1>1, <1>2, RulesKept

LEMMA GenPropertiesInv ==
    ASSUME IInv, NEW j \in Jobs, NEW n \in Names, GenProperties(j, n)
    PROVE  IInv'
<1> DEFINE h == genProperties(heap, n, NewProp, asked)
           p == generated(heap, n, NewProp)
           job == [Idle EXCEPT !.phase = "analyzed", !.p = p]
           flags == Dotted(n) \cup SharesName(j, n)
<1>1. Running /\ FreshIn(Props) # {} /\ Step(j, h, job, flags)
  BY DEF GenProperties
<1>2. TypeOK /\ heap \in Heap
  BY DEF IInv, TypeOK
<1>3. /\ NewProp \in Props /\ NewProp # NULL /\ NewProp \notin heap.live
  BY <1>1, <1>2, FreshProp
<1>4. h \in Heap /\ p \in Props \cup {NULL}
  BY <1>2, <1>3, AskedOK, genPropertiesType
<1>5. job \in Job
  BY <1>4 DEF Idle, Job
<1>6. TypeOK'
  BY <1>1, <1>2, <1>4, <1>5, FlagsType, StepType
<1>7. ASSUME Clean'
      PROVE  Owned'
  <2>1. flags \subseteq {"orphaned"} /\ Clean
    BY <1>1, <1>7 DEF Clean, Step
  <2>2. Stem[n] = n /\ SharesName(j, n) \subseteq {"orphaned"}
    BY <2>1, RulesKept
  <2>3. Tables(heap) /\ Rounds /\ Described /\ heap.fault = "none"
    BY <1>1, <2>1 DEF IInv, Owned, Running, Sound
  <2>4. CASE Unbound(heap, n)
    <3>1. h = PutProp(AllocProp(heap, n, NewProp, asked), n, NewProp) /\ p = NewProp
      BY <2>4 DEF genProperties, generated
    <3>2. Stores(heap, h, n, NewProp, heap.propTable[n])
      BY <1>2, <1>3, <2>2, <2>4, <3>1, AskedOK, StoreEffect DEF Unbound
    <3>3. Tables(h) /\ h.fault = "none"
      BY <1>2, <1>3, <1>4, <2>3, <3>2, StoresKeeps DEF Stores
    <3>4. RoundOK(h, job)
      BY <1>3, <3>1, <3>2 DEF RoundOK, Idle, Stores
    <3>5. /\ \A k \in Jobs \ {j} : RoundOK(h, jobs[k])
          /\ \A k \in Jobs : jobs[k].p # NewProp
      BY <1>2, <1>3, <1>4, <2>2, <2>3, <3>2, StoresRounds
    <3>6. \A k \in Jobs \ {j} : RoundOK(h, jobs[k]) /\ Apart(job, jobs[k])
      BY <3>1, <3>5 DEF Apart, Idle
    <3>7. "orphaned" \notin misuse \cup flags => Complete(h)
      <4>1. NULL \notin heap.live
        BY <1>2, AddressAssumption DEF Heap
      <4>2. heap.live \subseteq h.live /\ h.cmp = heap.cmp /\ h.cmpTable = heap.cmpTable
        BY <2>4, <3>2, <4>1 DEF Stores, Unbound
      <4> QED
        BY <2>3, <4>2 DEF Described, Complete
    <3> HIDE DEF h, job, flags
    <3> QED
      BY <1>1, <1>7, <3>3, <3>4, <3>6, <3>7, CleanStep
  <2>5. CASE ~ Unbound(heap, n)
    <3>1. p = heap.propTable[n] /\ p \in heap.live \cap Props
          /\ \A k \in Jobs \ {j} : jobs[k].p # p
      BY <1>2, <2>2, <2>3, <2>5, FoundProp DEF generated
    <3>2. /\ h.live = heap.live /\ h.cmp = heap.cmp /\ h.cmpTable = heap.cmpTable
          /\ h.fault = "none" /\ Tables(h)
      BY <1>2, <1>3, <2>3, <3>1, AskedOK, AnalysedAgainEffect
    <3>3. RoundOK(h, job)
      BY <3>1, <3>2 DEF RoundOK, Idle
    <3> HIDE DEF h, p
    <3>4. \A k \in Jobs \ {j} : RoundOK(h, jobs[k]) /\ Apart(job, jobs[k])
      BY <2>3, <3>1, <3>2 DEF Rounds, RoundOK, Apart, Idle
    <3>5. "orphaned" \notin misuse \cup flags => Complete(h)
      BY <2>3, <3>2 DEF Described, Complete
    <3> HIDE DEF job, flags
    <3> QED
      BY <1>1, <1>7, <3>2, <3>3, <3>4, <3>5, CleanStep
  <2> QED
    BY <2>4, <2>5
<1> QED
  BY <1>6, <1>7 DEF IInv

LEMMA EndCmprInv ==
    ASSUME IInv, NEW j \in Jobs, NEW s \in Cases, EndCmpr(j, s)
    PROVE  IInv'
<1> DEFINE p == jobs[j].p
           h == endCmpr(heap, p, s, NewCmp)
           job == [jobs[j] EXCEPT !.phase = "compressed", !.sol = s, !.c = h.cmpTable[s]]
           flags == SharesCase(j, s)
           r == Record(heap, s, NewCmp)
<1>1. Running /\ p # NULL /\ FreshIn(Cmps) # {} /\ Step(j, h, job, flags)
  BY DEF EndCmpr
<1>2. TypeOK /\ heap \in Heap /\ jobs[j] \in Job /\ p \in Props
  BY <1>1 DEF IInv, TypeOK, Job
<1>3. NewCmp \in Cmps /\ NewCmp \notin heap.live /\ NewCmp # NULL
  BY <1>1, <1>2, FreshCmp
<1>4. h \in Heap /\ h.cmpTable[s] \in Cmps
  BY <1>2, <1>3, endCmprType
<1>5. job \in Job
  BY <1>2, <1>4 DEF Job
<1>6. TypeOK'
  BY <1>1, <1>2, <1>4, <1>5, FlagsType, StepType
<1>7. ASSUME Clean'
      PROVE  Owned'
  <2>1. flags \subseteq {"orphaned"} /\ Clean
    BY <1>1, <1>7 DEF Clean, Step
  <2>2. Tables(heap) /\ Rounds /\ Described /\ heap.fault = "none"
    BY <1>1, <2>1 DEF IInv, Owned, Running, Sound
  <2>3. p \in heap.live \cap Props
    BY <1>1, <1>2, <2>2 DEF Rounds, RoundOK
  <2>4. /\ h.live = heap.live \cup {r} /\ r \in Cmps
        /\ h.cmpTable = [heap.cmpTable EXCEPT ![s] = r]
        /\ h.cmp[r].solution = s /\ h.cmp[r].property = p
        /\ \A x \in Cmps \ {r} : h.cmp[x] = heap.cmp[x]
        /\ h.prop = heap.prop /\ h.propTable = heap.propTable
        /\ h.lost = heap.lost /\ h.fault = heap.fault
    BY <1>2, <1>3, <2>2, <2>3, endCmprEffect
  <2>5. Tables(h) /\ h.fault = "none"
    BY <1>2, <1>3, <2>2, <2>3, <2>4, endCmprKeeps
  <2>6. h.cmpTable[s] = r
    BY <1>2, <2>4 DEF Heap
  <2>7. \A k \in Jobs \ {j} : jobs[k].c # r
    <3>1. CASE heap.cmpTable[s] = NULL
      BY <1>1, <1>2, <3>1, FreshCmp DEF Record
    <3>2. CASE heap.cmpTable[s] # NULL
      <4>1. r = heap.cmpTable[s] /\ heap.cmp[r].solution = s
        BY <2>2, <3>2 DEF Record, Tables, CmpTableOK
      <4>2. \A k \in Jobs \ {j} : jobs[k].c # NULL => jobs[k].sol # s
        BY <2>1, CaseKept
      <4> QED
        BY <2>2, <3>2, <4>1, <4>2 DEF Rounds, RoundOK
    <3> QED
      BY <3>1, <3>2
  <2> HIDE DEF r, h
  <2>8. job.p = p /\ job.c = r /\ job.sol = s /\ job.phase = "compressed"
    BY <1>2, <2>6 DEF Job
  <2>9. RoundOK(h, job)
    BY <1>1, <2>3, <2>4, <2>8, AddressAssumption DEF RoundOK
  <2>10. \A k \in Jobs \ {j} : RoundOK(h, jobs[k]) /\ Apart(job, jobs[k])
    <3>1. SUFFICES ASSUME NEW k \in Jobs \ {j}
                   PROVE  RoundOK(h, jobs[k]) /\ Apart(job, jobs[k])
      OBVIOUS
    <3>2. RoundOK(heap, jobs[k]) /\ Apart(jobs[j], jobs[k]) /\ jobs[k] \in Job
      BY <1>2, <2>2 DEF Rounds, TypeOK
    <3>3. jobs[k].c # NULL => h.cmp[jobs[k].c] = heap.cmp[jobs[k].c]
      BY <2>4, <2>7, <3>2 DEF Job
    <3>4. RoundOK(h, jobs[k])
      BY <2>4, <3>2, <3>3 DEF RoundOK
    <3> QED
      BY <2>7, <2>8, <3>2, <3>4 DEF Apart
  <2>11. Complete(heap) => Complete(h)
    <3>1. SUFFICES ASSUME Complete(heap), NEW t \in Cases, h.cmpTable[t] # NULL
                   PROVE  h.cmp[h.cmpTable[t]].property \in h.live
      BY DEF Complete
    <3>2. CASE h.cmpTable[t] = r
      BY <2>3, <2>4, <3>2
    <3>3. CASE h.cmpTable[t] # r
      <4>1. t # s /\ h.cmpTable[t] = heap.cmpTable[t] /\ h.cmpTable[t] \in Cmps
        BY <1>2, <1>4, <2>4, <2>6, <3>1, <3>3 DEF Heap
      <4> QED
        BY <2>4, <3>1, <3>3, <4>1 DEF Complete
    <3> QED
      BY <3>2, <3>3
  <2>12. "orphaned" \notin misuse \cup flags => Complete(h)
    BY <2>2, <2>11 DEF Described
  <2> HIDE DEF job, flags
  <2> QED
    BY <1>1, <1>7, <2>5, <2>9, <2>10, <2>12, CleanStep
<1> QED
  BY <1>6, <1>7 DEF IInv

LEMMA EndDecInv ==
    ASSUME IInv, NEW j \in Jobs, EndDec(j)
    PROVE  IInv'
<1> DEFINE c == jobs[j].c
           h == compareInto(heap, c)
           job == [jobs[j] EXCEPT !.phase = "decoded"]
<1>1. Running /\ jobs[j].phase = "compressed" /\ Step(j, h, job, {})
  BY DEF EndDec
<1>2. TypeOK /\ heap \in Heap /\ jobs[j] \in Job
  BY DEF IInv, TypeOK
<1>3. Clean /\ Owned
  BY <1>1 DEF IInv, Clean, Running, Sound
<1>4. Tables(heap) /\ Rounds /\ Described /\ heap.fault = "none"
  BY <1>1, <1>3 DEF Owned, Running, Sound
<1>5. /\ RoundOK(heap, jobs[j]) /\ c \in heap.live \cap Cmps /\ c # NULL
      /\ jobs[j].p # NULL /\ jobs[j].sol # NULL
      /\ heap.cmp[c].property = jobs[j].p /\ jobs[j].p \in heap.live
  BY <1>1, <1>2, <1>4 DEF Rounds, RoundOK, Job
<1>6. /\ \A x \in Cmps : h.cmp[x].solution = heap.cmp[x].solution
                         /\ h.cmp[x].property = heap.cmp[x].property
      /\ h.live = heap.live /\ h.cmpTable = heap.cmpTable
      /\ h.prop = heap.prop /\ h.propTable = heap.propTable
      /\ h.fault = heap.fault
      /\ Tables(h)
  BY <1>2, <1>4, <1>5, compareIntoEffect
<1>7. h \in Heap /\ job \in Job
  BY <1>2, <1>5, compareIntoType DEF Job
<1>8. TypeOK'
  BY <1>1, <1>2, <1>7, StepType
<1> HIDE DEF h
<1>9. /\ job.p = jobs[j].p /\ job.c = jobs[j].c /\ job.sol = jobs[j].sol
      /\ job.phase = "decoded"
  BY <1>2 DEF Job
<1>10. RoundOK(h, job)
  BY <1>5, <1>6, <1>9 DEF RoundOK
<1>11. \A k \in Jobs \ {j} : RoundOK(h, jobs[k]) /\ Apart(job, jobs[k])
  <2>1. SUFFICES ASSUME NEW k \in Jobs \ {j}
                 PROVE  RoundOK(h, jobs[k]) /\ Apart(job, jobs[k])
    OBVIOUS
  <2>2. RoundOK(heap, jobs[k]) /\ Apart(jobs[j], jobs[k]) /\ jobs[k] \in Job
    BY <1>2, <1>4 DEF Rounds, TypeOK
  <2>3. RoundOK(h, jobs[k])
    BY <1>6, <2>2 DEF RoundOK, Job
  <2> QED
    BY <1>9, <2>2, <2>3 DEF Apart
<1>12. "orphaned" \notin misuse \cup {} => Complete(h)
  <2>1. \A s \in Cases : heap.cmpTable[s] # NULL => heap.cmpTable[s] \in Cmps
    BY <1>2 DEF Heap
  <2> QED
    BY <1>4, <1>6, <2>1 DEF Described, Complete
<1>13. Clean'
  BY <1>1, <1>3 DEF Clean, Step
<1> HIDE DEF job
<1>14. Owned'
  BY <1>1, <1>4, <1>6, <1>10, <1>11, <1>12, <1>13, CleanStep
<1> QED
  BY <1>8, <1>14 DEF IInv

(* What a round and the stored results have in h they have in g too, if g  *)
(* keeps the blocks they point to.                                         *)
LEMMA RoundFrame ==
    ASSUME NEW h, NEW g, NEW job, RoundOK(h, job),
           job.p # NULL => job.p \in g.live,
           job.c # NULL => /\ job.c \in g.live
                           /\ g.cmp[job.c].solution = h.cmp[job.c].solution
                           /\ g.cmp[job.c].property = h.cmp[job.c].property
    PROVE  RoundOK(g, job)
BY DEF RoundOK

LEMMA CompleteFrame ==
    ASSUME NEW h, NEW g, Complete(h),
           \A s \in Cases : g.cmpTable[s] # NULL =>
               /\ g.cmpTable[s] = h.cmpTable[s]
               /\ g.cmp[g.cmpTable[s]].property = h.cmp[g.cmpTable[s]].property
               /\ h.cmp[g.cmpTable[s]].property \in h.live =>
                      h.cmp[g.cmpTable[s]].property \in g.live
    PROVE  Complete(g)
BY DEF Complete

LEMMA CompareDataInv ==
    ASSUME IInv, NEW j \in Jobs, NEW n \in Names, CompareData(j, n)
    PROVE  IInv'
<1> DEFINE h0 == startCmpr(heap, n, NewProp)
           h1 == AllocCmp(h0, NewCmp, NULL, NewProp)
           h == compareInto(h1, NewCmp)
           job == [phase |-> "decoded", p |-> NewProp, c |-> NewCmp, sol |-> NULL]
           flags == Dotted(n) \cup SharesName(j, n) \cup Orphans(heap.propTable[n])
                      \cup Orphans(heap.propTable[Stem[n]])
<1>1. Running /\ FreshIn(Props) # {} /\ FreshIn(Cmps) # {} /\ Step(j, h, job, flags)
  BY DEF CompareData
<1>2. TypeOK /\ heap \in Heap
  BY DEF IInv, TypeOK
<1>3. /\ NewProp \in Props /\ NewProp # NULL /\ NewProp \notin heap.live
      /\ NewCmp \in Cmps /\ NewCmp # NULL /\ NewCmp \notin heap.live /\ NewCmp # NewProp
      /\ \A s \in Cases : heap.cmpTable[s] # NewCmp
      /\ \A k \in Jobs : jobs[k].c # NewCmp
  BY <1>1, <1>2, FreshProp, FreshCmp
<1>4. h0 \in Heap /\ h1 \in Heap /\ h \in Heap
  <2>1. h0 \in Heap
    BY <1>2, <1>3, startCmprType
  <2>2. h1 \in Heap
    BY <1>3, <2>1, AllocCmpType
  <2> QED
    BY <1>3, <2>1, <2>2, compareIntoType
<1>5. job \in Job
  BY <1>3 DEF Job
<1>6. flags \in SUBSET Rules
  <2>1. /\ heap.propTable[n] \in Props \cup {NULL}
        /\ heap.propTable[Stem[n]] \in Props \cup {NULL}
    BY <1>2, StemAssumption DEF Heap
  <2> QED
    BY <2>1, FlagsType
<1>7. TypeOK'
  BY <1>1, <1>2, <1>4, <1>5, <1>6, StepType
<1>8. ASSUME Clean'
      PROVE  Owned'
  <2>1. flags \subseteq {"orphaned"} /\ Clean
    BY <1>1, <1>8 DEF Clean, Step
  <2>2. Stem[n] = n /\ SharesName(j, n) \subseteq {"orphaned"}
    BY <2>1, RulesKept
  <2>3. Tables(heap) /\ Rounds /\ Described /\ heap.fault = "none"
    BY <1>1, <2>1 DEF IInv, Owned, Running, Sound
  <2>4. Stores(heap, h0, n, NewProp, heap.propTable[n])
    BY <1>2, <1>3, <2>2, <2>3, startCmprEffect DEF Tables
  <2>5. Tables(h0) /\ h0.fault = "none"
    BY <1>2, <1>3, <1>4, <2>3, <2>4, StoresKeeps DEF Stores
  <2>6. /\ \A k \in Jobs \ {j} : RoundOK(h0, jobs[k])
        /\ \A k \in Jobs : jobs[k].p # NewProp
        /\ Complete(heap) /\ Orphans(heap.propTable[n]) = {} => Complete(h0)
    BY <1>2, <1>3, <1>4, <2>2, <2>3, <2>4, StoresRounds
  <2>7. NewCmp \notin h0.live /\ NewProp \in h0.live /\ h0.cmpTable = heap.cmpTable
    BY <1>3, <2>4 DEF Stores
  <2> HIDE DEF h0
  <2>8. /\ h1.live = h0.live \cup {NewCmp}
        /\ h1.cmp = [h0.cmp EXCEPT ![NewCmp] =
               [solution |-> NULL, property |-> NewProp, metrics |-> FALSE]]
        /\ h1.cmpTable = h0.cmpTable /\ h1.fault = h0.fault
        /\ Tables(h1)
    BY <1>3, <1>4, <2>5, <2>7, AllocCmpEffect
  <2>9. /\ h1.cmp[NewCmp].solution = NULL /\ h1.cmp[NewCmp].property = NewProp
        /\ \A x \in Cmps \ {NewCmp} : h1.cmp[x] = h0.cmp[x]
    BY <1>3, <1>4, <2>8 DEF Heap
  <2> HIDE DEF h1
  <2>10. /\ \A x \in Cmps : h.cmp[x].solution = h1.cmp[x].solution
                            /\ h.cmp[x].property = h1.cmp[x].property
         /\ h.live = h1.live /\ h.cmpTable = h1.cmpTable /\ h.fault = h1.fault
         /\ Tables(h)
    <3>1. NewCmp \in h1.live \cap Cmps /\ h1.cmp[NewCmp].property \in h1.live
      BY <1>3, <2>7, <2>8, <2>9
    <3> QED
      BY <1>4, <2>8, <3>1, compareIntoEffect
  <2> HIDE DEF h
  <2>11. RoundOK(h, job)
    BY <1>3, <2>7, <2>8, <2>9, <2>10 DEF RoundOK
  <2>12. \A x \in Cmps \ {NewCmp} : h.cmp[x].solution = h0.cmp[x].solution
                                    /\ h.cmp[x].property = h0.cmp[x].property
    BY <2>9, <2>10
  <2>13. \A k \in Jobs \ {j} : RoundOK(h, jobs[k]) /\ Apart(job, jobs[k])
    <3>1. SUFFICES ASSUME NEW k \in Jobs \ {j}
                   PROVE  RoundOK(h, jobs[k]) /\ Apart(job, jobs[k])
      OBVIOUS
    <3>2. RoundOK(h0, jobs[k]) /\ jobs[k] \in Job
      BY <1>2, <2>6 DEF TypeOK
    <3>3. jobs[k].p # NULL => jobs[k].p \in h.live
      BY <2>8, <2>10, <3>2 DEF RoundOK
    <3>4. jobs[k].c # NULL => jobs[k].c \in h.live /\ jobs[k].c \in Cmps \ {NewCmp}
      BY <1>3, <2>8, <2>10, <3>2 DEF RoundOK, Job
    <3>5. RoundOK(h, jobs[k])
      BY <2>12, <3>2, <3>3, <3>4, RoundFrame
    <3> QED
      BY <1>3, <2>6, <3>5 DEF Apart
  <2>14. "orphaned" \notin misuse \cup flags => Complete(h)
    <3>1. SUFFICES ASSUME "orphaned" \notin misuse \cup flags PROVE Complete(h)
      OBVIOUS
    <3>2. Complete(h0)
      BY <2>3, <2>6, <3>1 DEF Described, Orphans
    <3>3. \A s \in Cases : h.cmpTable[s] # NULL =>
              h.cmpTable[s] = h0.cmpTable[s] /\ h.cmpTable[s] \in Cmps \ {NewCmp}
      BY <1>2, <1>3, <2>7, <2>8, <2>10 DEF Heap
    <3> QED
      BY <2>8, <2>10, <2>12, <3>2, <3>3, CompleteFrame
  <2>15. h.fault = "none"
    BY <2>5, <2>8, <2>10
  <2> HIDE DEF job, flags
  <2> QED
    BY <1>1, <1>8, <2>10, <2>11, <2>13, <2>14, <2>15, CleanStep
<1> QED
  BY <1>7, <1>8 DEF IInv

LEMMA RegisterVarInv ==
    ASSUME IInv, NEW j \in Jobs, NEW n \in Names, RegisterVar(j, n)
    PROVE  IInv'
<1> DEFINE h == registerVar(heap, n, NewProp, NewCmp, asked)
           c == registered(heap, n, NewCmp)
           job == Loaded(n, h, c)
           shared == IF FoundResult(heap, n) = NULL THEN {} ELSE SharesCase(j, SameCase[n])
           flags == Dotted(n) \cup SharesName(j, n) \cup StoredTwice(n) \cup shared
<1>1. Running /\ FreshIn(Props) # {} /\ FreshIn(Cmps) # {} /\ Step(j, h, job, flags)
  BY DEF RegisterVar
<1>2. TypeOK /\ heap \in Heap
  BY DEF IInv, TypeOK
<1>3. /\ NewProp \in Props
      /\ NewCmp \in Cmps /\ NewCmp # NULL /\ NewCmp \notin heap.live
      /\ \A s \in Cases : heap.cmpTable[s] # NewCmp
      /\ \A k \in Jobs : jobs[k].c # NewCmp
  BY <1>1, <1>2, FreshProp, FreshCmp
<1>4. h \in Heap /\ c \in Cmps
  BY <1>2, <1>3, AskedOK, registerVarType
<1>5. job \in Job
  <2> HIDE DEF h, c
  <2> QED
    BY <1>4, LoadedType
<1>6. flags \in SUBSET Rules
  <2>1. shared \subseteq Rules
    <3>1. FoundResult(heap, n) # NULL => SameCase[n] \in Cases
      BY FlagAssumption DEF FoundResult
    <3> QED
      BY <3>1, FlagsType
  <2> QED
    BY <2>1, FlagsType
<1>7. TypeOK'
  BY <1>1, <1>2, <1>4, <1>5, <1>6, StepType
<1>8. ASSUME Clean'
      PROVE  Owned'
  <2>1. flags \subseteq {"orphaned"} /\ Clean
    BY <1>1, <1>8 DEF Clean, Step
  <2>2. Stem[n] = n /\ SharesName(j, n) \subseteq {"orphaned"} /\ ~ Unbound(heap, n)
    BY <2>1, RulesKept DEF StoredTwice
  <2>3. Tables(heap) /\ Rounds /\ Described /\ heap.fault = "none"
    BY <1>1, <2>1 DEF IInv, Owned, Running, Sound
  <2> DEFINE q == heap.propTable[n]
  <2>4. q \in heap.live \cap Props /\ \A k \in Jobs \ {j} : jobs[k].p # q
    BY <1>2, <2>2, <2>3, FoundProp
  <2>5. storeVar(heap, n, NewProp, asked) = heap
    BY <2>2 DEF storeVar
  <2>6. CASE FoundResult(heap, n) = NULL
    <3>1. h = AllocCmp(heap, NewCmp, NULL, q) /\ c = NewCmp
      BY <2>5, <2>6 DEF registerVar, registered, constructOneVariable
    <3> HIDE DEF h, c
    <3>2. /\ h.live = heap.live \cup {NewCmp}
          /\ h.cmp = [heap.cmp EXCEPT ![NewCmp] =
                 [solution |-> NULL, property |-> q, metrics |-> FALSE]]
          /\ h.propTable = heap.propTable
          /\ h.cmpTable = heap.cmpTable /\ h.fault = heap.fault
          /\ Tables(h)
      BY <1>2, <1>3, <2>3, <2>4, <3>1, AllocCmpEffect
    <3>3. /\ h.cmp[NewCmp].solution = NULL
          /\ \A x \in Cmps \ {NewCmp} : h.cmp[x] = heap.cmp[x]
      BY <1>2, <1>3, <3>2 DEF Heap
    <3>4. job.phase = "loaded" /\ job.p = q /\ job.c = NewCmp /\ job.sol = NULL
      BY <3>1, <3>2, <3>3 DEF Loaded
    <3> HIDE DEF job
    <3>5. RoundOK(h, job)
      BY <1>3, <2>4, <3>2, <3>3, <3>4 DEF RoundOK
    <3>6. \A k \in Jobs \ {j} : RoundOK(h, jobs[k]) /\ Apart(job, jobs[k])
      <4>1. SUFFICES ASSUME NEW k \in Jobs \ {j}
                     PROVE  RoundOK(h, jobs[k]) /\ Apart(job, jobs[k])
        OBVIOUS
      <4>2. RoundOK(heap, jobs[k]) /\ jobs[k] \in Job
        BY <1>2, <2>3 DEF Rounds, TypeOK
      <4>3. jobs[k].p # NULL => jobs[k].p \in h.live
        BY <3>2, <4>2 DEF RoundOK
      <4>4. jobs[k].c # NULL => jobs[k].c \in h.live /\ jobs[k].c \in Cmps \ {NewCmp}
        BY <1>3, <3>2, <4>2 DEF RoundOK, Job
      <4>5. RoundOK(h, jobs[k])
        BY <3>3, <4>2, <4>3, <4>4, RoundFrame
      <4> QED
        BY <1>3, <2>4, <3>4, <4>5 DEF Apart
    <3>7. "orphaned" \notin misuse \cup flags => Complete(h)
      <4>1. \A s \in Cases : h.cmpTable[s] # NULL => h.cmpTable[s] \in Cmps \ {NewCmp}
        BY <1>2, <1>3, <3>2 DEF Heap
      <4> QED
        BY <2>3, <3>2, <3>3, <4>1, CompleteFrame DEF Described
    <3>8. h.fault = "none"
      BY <2>3, <3>2
    <3> HIDE DEF flags
    <3> QED
      BY <1>1, <1>8, <3>2, <3>5, <3>6, <3>7, <3>8, CleanStep
  <2>7. CASE FoundResult(heap, n) # NULL
    <3>1. h = heap /\ c = FoundResult(heap, n)
      BY <2>5, <2>7 DEF registerVar, registered
    <3> DEFINE s == SameCase[n]
    <3>2. s \in Cases /\ c = heap.cmpTable[s] /\ c # NULL
      BY <2>7, <3>1, FlagAssumption DEF FoundResult
    <3>3. c \in heap.live /\ heap.cmp[c].solution = s
      BY <2>3, <3>2 DEF Tables, CmpTableOK
    <3>4. \A k \in Jobs \ {j} : jobs[k].c # NULL => jobs[k].sol # s
      BY <2>1, <2>7, <3>2, CaseKept
    <3>5. \A k \in Jobs \ {j} : jobs[k].c # c
      BY <2>3, <3>2, <3>3, <3>4 DEF Rounds, RoundOK
    <3> HIDE DEF h, c, s
    <3>6. job.phase = "loaded" /\ job.p = q /\ job.c = c /\ job.sol = s
      BY <3>1, <3>3 DEF Loaded
    <3> HIDE DEF job
    <3>7. RoundOK(h, job)
      BY <2>4, <3>1, <3>3, <3>6 DEF RoundOK
    <3>8. \A k \in Jobs \ {j} : RoundOK(h, jobs[k]) /\ Apart(job, jobs[k])
      BY <2>3, <2>4, <3>1, <3>5, <3>6 DEF Rounds, Apart
    <3>9. "orphaned" \notin misuse \cup flags => Complete(h)
      BY <2>3, <3>1 DEF Described
    <3> HIDE DEF flags
    <3> QED
      BY <1>1, <1>8, <2>3, <3>1, <3>7, <3>8, <3>9, CleanStep
  <2> QED
    BY <2>6, <2>7
<1> QED
  BY <1>7, <1>8 DEF IInv

LEMMA LoadMultiVarsInv ==
    ASSUME IInv, NEW j \in Jobs, NEW n \in Names, LoadMultiVars(j, n)
    PROVE  IInv'
<1> DEFINE h == constructOneVariable(heap, n, NewProp, NewCmp, asked)
           flags == Dotted(n) \cup SharesName(j, n) \cup StoredTwice(n)
<1>1. /\ FreshIn(Props) # {} /\ FreshIn(Cmps) # {} /\ Unbound(heap, n)
      /\ Step(j, h, Loaded(n, h, NewCmp), flags) \/ Step(j, h, Idle, flags)
  BY DEF LoadMultiVars
<1>2. TypeOK /\ heap \in Heap
  BY DEF IInv, TypeOK
<1>3. NewProp \in Props /\ NewCmp \in Cmps
  BY <1>1, <1>2, FreshProp, FreshCmp
<1>4. h \in Heap
  BY <1>2, <1>3, AskedOK, constructOneVariableType
<1> HIDE DEF h
<1>5. Loaded(n, h, NewCmp) \in Job /\ Idle \in Job
  BY <1>3, <1>4, LoadedType DEF Idle, Job
<1>6. flags \in SUBSET Rules
  BY FlagsType
<1>7. "stored_twice" \in flags
  BY <1>1 DEF StoredTwice
<1> HIDE DEF flags
<1>8. TypeOK'
  BY <1>1, <1>2, <1>4, <1>5, <1>6, StepType
<1>9. ~ Clean'
  BY <1>1, <1>7 DEF Step, Clean
<1> QED
  BY <1>8, <1>9 DEF IInv

LEMMA FreePropertyInv ==
    ASSUME IInv, NEW j \in Jobs, FreeProperty(j)
    PROVE  IInv'
<1> DEFINE p == jobs[j].p
           h == FreeDataProperty(heap, p)
           job == [jobs[j] EXCEPT !.p = NULL]
           flags == Orphans(p)
<1>1. /\ Running /\ p # NULL /\ Step(j, h, job, flags)
      /\ jobs[j].phase \in {"analyzed", "decoded", "loaded"}
  BY DEF FreeProperty
<1>2. TypeOK /\ heap \in Heap /\ jobs[j] \in Job /\ p \in Props
  BY <1>1 DEF IInv, TypeOK, Job
<1>3. h \in Heap /\ job \in Job
  BY <1>2, FreeDataPropertyType DEF Job
<1>4. TypeOK'
  BY <1>1, <1>2, <1>3, FlagsType, StepType
<1>5. ASSUME Clean'
      PROVE  Owned'
  <2>1. Clean
    BY <1>1, <1>5 DEF Clean, Step
  <2>2. Tables(heap) /\ Rounds /\ Described /\ heap.fault = "none"
    BY <1>1, <2>1 DEF IInv, Owned, Running, Sound
  <2>3. p \in heap.live \cap Props /\ p \notin Cmps
    BY <1>1, <1>2, <2>2, AddressAssumption DEF Rounds, RoundOK
  <2>4. /\ h.live = heap.live \ {p} /\ h.cmp = heap.cmp /\ h.cmpTable = heap.cmpTable
        /\ h.fault = heap.fault
    BY <1>2, <2>2, <2>3, FreeDataPropertyEffect DEF Tables
  <2>5. Tables(h)
    BY <1>2, <2>2, <2>3, FreeDataPropertyKeeps
  <2> HIDE DEF h
  <2>6. job.p = NULL /\ job.c = jobs[j].c /\ job.sol = jobs[j].sol
        /\ job.phase = jobs[j].phase
    BY <1>2 DEF Job
  <2>7. RoundOK(h, job)
    <3>1. RoundOK(heap, jobs[j])
      BY <2>2 DEF Rounds
    <3>2. jobs[j].c # NULL => jobs[j].c # p
      BY <1>2, <2>3 DEF Job
    <3> QED
      BY <1>1, <2>4, <2>6, <3>1, <3>2 DEF RoundOK
  <2>8. \A k \in Jobs \ {j} : RoundOK(h, jobs[k]) /\ Apart(job, jobs[k])
    <3>1. SUFFICES ASSUME NEW k \in Jobs \ {j}
                   PROVE  RoundOK(h, jobs[k]) /\ Apart(job, jobs[k])
      OBVIOUS
    <3>2. RoundOK(heap, jobs[k]) /\ Apart(jobs[j], jobs[k]) /\ jobs[k] \in Job
      BY <1>2, <2>2 DEF Rounds, TypeOK
    <3>3. jobs[k].p # NULL => jobs[k].p \in h.live
      BY <1>1, <2>4, <3>2 DEF RoundOK, Apart
    <3>4. jobs[k].c # NULL => jobs[k].c \in h.live
      BY <2>3, <2>4, <3>2 DEF RoundOK, Job
    <3>5. RoundOK(h, jobs[k])
      BY <2>4, <3>2, <3>3, <3>4, RoundFrame
    <3> QED
      BY <2>6, <3>2, <3>5 DEF Apart
  <2>9. "orphaned" \notin misuse \cup flags => Complete(h)
    <3>1. SUFFICES ASSUME "orphaned" \notin misuse, "orphaned" \notin Orphans(p)
                   PROVE  Complete(h)
      OBVIOUS
    <3>2. \A s \in Cases : heap.cmpTable[s] # NULL =>
              heap.cmp[heap.cmpTable[s]].property # p
      BY <3>1 DEF Orphans
    <3> QED
      BY <2>2, <2>4, <3>1, <3>2 DEF Described, Complete
  <2>10. h.fault = "none"
    BY <2>2, <2>4
  <2> HIDE DEF job, flags
  <2> QED
    BY <1>1, <1>5, <2>5, <2>7, <2>8, <2>9, <2>10, CleanStep
<1> QED
  BY <1>4, <1>5 DEF IInv

LEMMA FreeResultInv ==
    ASSUME IInv, NEW j \in Jobs, FreeResult(j)
    PROVE  IInv'
<1> DEFINE c == jobs[j].c
           h == FreeCompareResult(heap, c)
           job == [jobs[j] EXCEPT !.c = NULL, !.sol = NULL]
<1>1. /\ Running /\ c # NULL /\ Step(j, h, job, {})
      /\ jobs[j].phase \in {"decoded", "loaded"}
  BY DEF FreeResult
<1>2. TypeOK /\ heap \in Heap /\ jobs[j] \in Job /\ c \in Cmps
  BY <1>1 DEF IInv, TypeOK, Job
<1>3. h \in Heap /\ job \in Job
  BY <1>2, FreeCompareResultType DEF Job
<1>4. TypeOK'
  BY <1>1, <1>2, <1>3, StepType
<1>5. Clean /\ Clean'
  BY <1>1 DEF Clean, Step, Running, Sound
<1>6. Tables(heap) /\ Rounds /\ Described /\ heap.fault = "none"
  BY <1>1, <1>5 DEF IInv, Owned, Running, Sound
<1>7. c \in heap.live \cap Cmps /\ c \notin Props
  BY <1>1, <1>2, <1>6, AddressAssumption DEF Rounds, RoundOK
<1>8. /\ h.live \subseteq heap.live /\ heap.live \subseteq h.live \cup {c}
      /\ \A x \in Cmps \ {c} : h.cmp[x] = heap.cmp[x]
      /\ \A s \in Cases : h.cmpTable[s] # NULL =>
             h.cmpTable[s] = heap.cmpTable[s] /\ h.cmpTable[s] # c
      /\ h.fault = "none" /\ Tables(h)
  BY <1>2, <1>6, <1>7, FreeCompareResultEffect
<1> HIDE DEF h
<1>9. job.p = jobs[j].p /\ job.c = NULL /\ job.sol = NULL /\ job.phase = jobs[j].phase
  BY <1>2 DEF Job
<1>10. RoundOK(h, job)
  <2>1. RoundOK(heap, jobs[j])
    BY <1>6 DEF Rounds
  <2>2. jobs[j].p # NULL => jobs[j].p # c
    BY <1>2, <1>7 DEF Job
  <2> QED
    BY <1>1, <1>8, <1>9, <2>1, <2>2 DEF RoundOK
<1>11. \A k \in Jobs \ {j} : RoundOK(h, jobs[k]) /\ Apart(job, jobs[k])
  <2>1. SUFFICES ASSUME NEW k \in Jobs \ {j}
                 PROVE  RoundOK(h, jobs[k]) /\ Apart(job, jobs[k])
    OBVIOUS
  <2>2. RoundOK(heap, jobs[k]) /\ Apart(jobs[j], jobs[k]) /\ jobs[k] \in Job
    BY <1>2, <1>6 DEF Rounds, TypeOK
  <2>3. jobs[k].p # NULL => jobs[k].p \in h.live
    BY <1>7, <1>8, <2>2 DEF RoundOK, Job
  <2>4. jobs[k].c # NULL => jobs[k].c \in h.live /\ jobs[k].c \in Cmps \ {c}
    BY <1>1, <1>8, <2>2 DEF RoundOK, Apart, Job
  <2>5. RoundOK(h, jobs[k])
    BY <1>8, <2>2, <2>3, <2>4, RoundFrame
  <2> QED
    BY <1>9, <2>2, <2>5 DEF Apart
<1>12. "orphaned" \notin misuse \cup {} => Complete(h)
  <2>1. SUFFICES ASSUME "orphaned" \notin misuse PROVE Complete(h)
    OBVIOUS
  <2>2. Complete(heap)
    BY <1>6, <2>1 DEF Described
  <2>3. ASSUME NEW s \in Cases, h.cmpTable[s] # NULL
        PROVE  /\ h.cmpTable[s] = heap.cmpTable[s]
               /\ h.cmp[h.cmpTable[s]].property = heap.cmp[h.cmpTable[s]].property
               /\ heap.cmp[h.cmpTable[s]].property \in heap.live =>
                      heap.cmp[h.cmpTable[s]].property \in h.live
    <3>1. h.cmpTable[s] = heap.cmpTable[s] /\ h.cmpTable[s] \in Cmps \ {c}
      BY <1>2, <1>8, <2>3 DEF Heap
    <3>2. heap.cmp[h.cmpTable[s]].property \in Props \cup {NULL}
      BY <1>2, <3>1 DEF Heap
    <3>3. c \notin Props \cup {NULL}
      BY <1>1, <1>7
    <3> QED
      BY <1>8, <3>1, <3>2, <3>3
  <2> QED
    BY <2>2, <2>3, CompleteFrame
<1> HIDE DEF job
<1>13. Owned'
  BY <1>1, <1>5, <1>8, <1>10, <1>11, <1>12, CleanStep
<1> QED
  BY <1>4, <1>13 DEF IInv

LEMMA LeaveInv ==
    ASSUME IInv, NEW j \in Jobs, Leave(j)
    PROVE  IInv'
<1>1. Running /\ Step(j, heap, Idle, {})
  BY DEF Leave
<1>2. TypeOK /\ heap \in Heap
  BY DEF IInv, TypeOK
<1>3. Idle \in Job
  BY DEF Idle, Job
<1>4. TypeOK'
  BY <1>1, <1>2, <1>3, StepType
<1>5. Clean /\ Clean'
  BY <1>1 DEF Clean, Step, Running, Sound
<1>6. Tables(heap) /\ Rounds /\ Described /\ heap.fault = "none"
  BY <1>1, <1>5 DEF IInv, Owned, Running, Sound
<1>7. RoundOK(heap, Idle)
  BY DEF RoundOK, Idle
<1>8. \A k \in Jobs \ {j} : RoundOK(heap, jobs[k]) /\ Apart(Idle, jobs[k])
  BY <1>6 DEF Rounds, Apart, Idle
<1>9. "orphaned" \notin misuse \cup {} => Complete(heap)
  BY <1>6 DEF Described
<1>10. Owned'
  BY <1>1, <1>5, <1>6, <1>7, <1>8, <1>9, CleanStep
<1> QED
  BY <1>4, <1>10 DEF IInv

(* Only a result whose property is gone makes the overall comparison read  *)
(* freed memory.                                                           *)
LEMMA CompareDataOverallInv ==
    ASSUME IInv, CompareDataOverall
    PROVE  IInv'
<1>1. /\ Running /\ jobs' = jobs /\ up' = up /\ cfgFile' = cfgFile /\ misuse' = misuse
      /\ asked' = asked
      /\ heap' = IF \A c \in Stored : c \in heap.live
                                      /\ heap.cmp[c].property \in heap.live
                 THEN heap ELSE [heap EXCEPT !.fault = "bad_read"]
  BY DEF CompareDataOverall
<1>2. TypeOK /\ heap \in Heap /\ Clean /\ up /\ heap.fault = "none"
  BY <1>1 DEF IInv, TypeOK, Running, Sound, Clean
<1>3. Tables(heap) /\ Rounds /\ Described /\ Process
  BY <1>2 DEF IInv, Owned
<1>4. /\ heap'.prop = heap.prop /\ heap'.propTable = heap.propTable
      /\ heap'.cmp = heap.cmp /\ heap'.cmpTable = heap.cmpTable
      /\ heap'.live = heap.live /\ heap'.lost = heap.lost /\ heap'.parts = heap.parts
      /\ heap'.fault \in {"none", "bad_read"} /\ heap' \in Heap
  BY <1>1, <1>2 DEF Heap
<1>5. heap'.fault # "none" => "orphaned" \in misuse
  <2>1. SUFFICES ASSUME "orphaned" \notin misuse
                 PROVE  \A c \in Stored : c \in heap.live
                                          /\ heap.cmp[c].property \in heap.live
    BY <1>1, <1>2
  <2>2. Complete(heap)
    BY <1>3, <2>1 DEF Described
  <2> QED
    BY <1>3, <2>2 DEF Stored, Complete, Tables, CmpTableOK
<1>6. TypeOK'
  BY <1>1, <1>2, <1>4 DEF TypeOK
<1>7. Tables(heap)' /\ Rounds' /\ Described' /\ Process'
  <2>1. Tables(heap)'
    BY <1>3, <1>4 DEF Tables, PropTableOK, CmpTableOK, LossOK
  <2>2. Rounds'
    BY <1>1, <1>3, <1>4 DEF Rounds, RoundOK
  <2>3. Described' /\ Process'
    BY <1>1, <1>3, <1>4 DEF Described, Complete, Process, Empty
  <2> QED
    BY <2>1, <2>2, <2>3
<1>8. Faults'
  BY <1>1, <1>2, <1>4, <1>5 DEF Faults
<1> QED
  BY <1>6, <1>7, <1>8 DEF IInv, Owned

LEMMA FinalizeInv ==
    ASSUME IInv, Finalize
    PROVE  IInv'
<1> DEFINE owned == ({heap.propTable[n] : n \in Names}
                     \cup {heap.cmpTable[s] : s \in Cases}) \ {NULL}
           fault == IF owned \subseteq heap.live /\ cfgFile # "freed"
                    THEN "none" ELSE "bad_free"
           prop == [p \in Props |-> IF p \in owned THEN AnyName ELSE heap.prop[p]]
           cmp == [c \in Cmps |-> IF c \in owned THEN Blank ELSE heap.cmp[c]]
           parts == [p \in Props |-> IF p \in owned THEN {} ELSE heap.parts[p]]
           left == Unfreed \cap UNION {heap.parts[p] : p \in owned \cap Props}
           lost == heap.lost \cup left
<1>1. /\ heap' = [heap EXCEPT !.fault = fault, !.live = @ \ owned, !.prop = prop,
                              !.parts = parts, !.lost = lost,
                              !.cmp = cmp, !.propTable = [n \in Names |-> NULL],
                              !.cmpTable = [s \in Cases |-> NULL]]
      /\ jobs' = [j \in Jobs |-> Idle] /\ up' = FALSE /\ misuse' = misuse
      /\ asked' = asked
      /\ cfgFile' = IF cfgFile = "NULL" THEN "NULL" ELSE "freed"
  BY DEF Finalize
<1>2. TypeOK /\ heap \in Heap /\ Clean /\ up /\ heap.fault = "none"
  BY DEF Finalize, IInv, TypeOK, Running, Sound, Clean
<1>3. Tables(heap) /\ Process
  BY <1>2 DEF IInv, Owned
<1>4. owned \subseteq heap.live /\ cfgFile # "freed"
  BY <1>2, <1>3 DEF Process, Tables, PropTableOK, CmpTableOK
<1>5. /\ prop \in [Props -> Names] /\ heap.live \ owned \in SUBSET (Props \cup Cmps)
      /\ cmp \in [Cmps -> [solution : Cases \cup {NULL}, property : Props \cup {NULL},
                           metrics : BOOLEAN]]
      /\ fault = "none"
  BY <1>2, <1>4, SomeName DEF Heap, Blank
<1>6. /\ parts \in [Props -> SUBSET Parts] /\ \A p \in Props : parts[p] \subseteq heap.parts[p]
       /\ left \subseteq Excused /\ left \subseteq Parts
  <2>1. heap.parts \in [Props -> SUBSET Parts]
    BY <1>2 DEF Heap
  <2>2. \A p \in Props : heap.parts[p] \cap Unfreed \subseteq Excused
    BY <1>3 DEF Tables, LossOK
  <2> HIDE DEF owned
  <2>3. parts \in [Props -> SUBSET Parts] /\ \A p \in Props : parts[p] \subseteq heap.parts[p]
    BY <2>1
  <2> DEFINE T == {heap.parts[p] : p \in owned \cap Props}
  <2>4. \A t \in T : t \subseteq Parts /\ t \cap Unfreed \subseteq Excused
    BY <2>1, <2>2
  <2>5. left = Unfreed \cap UNION T
    OBVIOUS
  <2> HIDE DEF T, parts, left
  <2>6. Unfreed \cap (UNION T) \subseteq Excused /\ UNION T \subseteq Parts
    BY <2>4
  <2> QED
    BY <2>3, <2>5, <2>6
<1>7. lost \in SUBSET (Parts \cup {"varName", "metrics"}) /\ lost \subseteq Excused
  <2>1. heap.lost \in SUBSET (Parts \cup {"varName", "metrics"}) /\ heap.lost \subseteq Excused
    BY <1>2, <1>3 DEF Heap, Tables, LossOK
  <2>2. left \subseteq Excused /\ left \subseteq Parts
    BY <1>6
  <2> HIDE DEF left
  <2> QED
    BY <2>1, <2>2
<1>8. /\ \A p \in heap.live \cap Props : p \in owned
      /\ \A c \in heap.live \cap Cmps : c \in owned \/ heap.cmp[c].solution = NULL
  <2>1. ASSUME NEW p \in heap.live \cap Props
        PROVE  p \in owned
    <3>1. heap.propTable[heap.prop[p]] = p /\ heap.prop[p] \in Names /\ p # NULL
      BY <1>2, <1>3, AddressAssumption DEF Tables, PropTableOK, Heap
    <3> QED
      BY <3>1
  <2>2. ASSUME NEW c \in heap.live \cap Cmps, heap.cmp[c].solution # NULL
        PROVE  c \in owned
    <3>1. /\ heap.cmpTable[heap.cmp[c].solution] = c
          /\ heap.cmp[c].solution \in Cases /\ c # NULL
      BY <1>2, <1>3, <2>2, AddressAssumption DEF Tables, CmpTableOK, Heap
    <3> QED
      BY <3>1
  <2> QED
    BY <2>1, <2>2
<1> HIDE DEF prop, cmp, fault, owned, parts, left, lost
<1>9. /\ heap'.live = heap.live \ owned /\ heap'.prop = prop /\ heap'.cmp = cmp
      /\ heap'.propTable = [n \in Names |-> NULL]
      /\ heap'.cmpTable = [s \in Cases |-> NULL]
      /\ heap'.fault = "none" /\ heap'.parts = parts /\ heap'.lost = lost /\ heap' \in Heap
  BY <1>1, <1>2, <1>5, <1>6, <1>7 DEF Heap
<1>10. TypeOK'
  BY <1>1, <1>2, <1>9 DEF TypeOK, Idle, Job
<1>11. Tables(heap)'
  <2>1. \A c \in heap'.live \cap Cmps : heap'.cmp[c].solution = NULL
    BY <1>8, <1>9 DEF cmp
  <2> QED
    BY <1>3, <1>8, <1>9, <1>6, <1>7, <2>1 DEF Tables, PropTableOK, CmpTableOK, LossOK
<1>12. Rounds'
  BY <1>1 DEF Rounds, RoundOK, Apart, Idle
<1>13. Described' /\ Faults' /\ Process'
  BY <1>1, <1>9 DEF Described, Complete, Faults, Process, Empty
<1> QED
  BY <1>10, <1>11, <1>12, <1>13 DEF IInv, Owned

LEMMA StartInv ==
    ASSUME IInv, ZC_Init \/ ZC_Init_NULL
    PROVE  IInv'
<1>1. /\ heap' = heap /\ jobs' = jobs /\ up' = TRUE /\ ~ up /\ heap.fault = "none" /\ Clean
      /\ \/ cfgFile' = "block" /\ asked' \in FlagSets /\ misuse' = misuse
         \/ /\ cfgFile' = cfgFile /\ asked' = asked
            /\ misuse' = IF cfgFile = "freed" THEN misuse \cup {"Init_NULL_after_Init"}
                         ELSE misuse
  BY DEF ZC_Init, ZC_Init_NULL, Sound, Clean
<1>2. TypeOK'
  BY <1>1 DEF IInv, TypeOK
<1>3. Owned
  BY <1>1 DEF IInv
<1>4. ASSUME Clean' PROVE Owned'
  <2>1. misuse' = misuse /\ cfgFile' # "freed"
    BY <1>1, <1>4 DEF Clean
  <2>2. Tables(heap)' /\ Rounds'
    BY <1>1, <1>3 DEF Owned, Rounds
  <2>3. Described' /\ Faults' /\ Process'
    BY <1>1, <1>3, <2>1 DEF Owned, Described, Faults, Process
  <2> QED
    BY <2>2, <2>3 DEF Owned
<1> QED
  BY <1>2, <1>4 DEF IInv

LEMMA InitInv == Init => IInv
<1> SUFFICES ASSUME Init PROVE IInv
  OBVIOUS
<1>1. TypeOK
  <2>1. heap \in Heap
    BY SomeName DEF Init, Heap, Blank
  <2>2. Idle \in Job
    BY DEF Idle, Job
  <2> QED
    BY <2>1, <2>2 DEF Init, TypeOK
<1>2. Tables(heap)
  BY DEF Init, Tables, PropTableOK, CmpTableOK, LossOK
<1>3. Rounds
  BY DEF Init, Rounds, RoundOK, Apart, Idle
<1>4. Described /\ Faults /\ Process
  BY DEF Init, Described, Complete, Faults, Process, Empty
<1> QED
  BY <1>1, <1>2, <1>3, <1>4 DEF IInv, Owned

LEMMA StepInv == IInv /\ [Next]_vars => IInv'
<1> SUFFICES ASSUME IInv, [Next]_vars PROVE IInv'
  OBVIOUS
<1>1. CASE ZC_Init \/ ZC_Init_NULL
  BY <1>1, StartInv
<1>2. CASE Finalize
  BY <1>2, FinalizeInv
<1>3. CASE CompareDataOverall
  BY <1>3, CompareDataOverallInv
<1>4. ASSUME NEW j \in Jobs, NEW n \in Names,
             \/ StartCmpr(j, n) \/ GenProperties(j, n) \/ CompareData(j, n)
             \/ RegisterVar(j, n) \/ LoadMultiVars(j, n)
      PROVE  IInv'
  BY <1>4, StartCmprInv, GenPropertiesInv, CompareDataInv, RegisterVarInv, LoadMultiVarsInv
<1>5. ASSUME NEW j \in Jobs, NEW s \in Cases, EndCmpr(j, s)
      PROVE  IInv'
  BY <1>5, EndCmprInv
<1>6. ASSUME NEW j \in Jobs, EndDec(j) \/ FreeProperty(j) \/ FreeResult(j) \/ Leave(j)
      PROVE  IInv'
  BY <1>6, EndDecInv, FreePropertyInv, FreeResultInv, LeaveInv
<1>7. CASE UNCHANGED vars
  <2>1. /\ heap' = heap /\ jobs' = jobs /\ up' = up /\ cfgFile' = cfgFile
        /\ asked' = asked /\ misuse' = misuse
    BY <1>7 DEF vars
  <2> QED
    BY <2>1 DEF IInv, TypeOK, Clean, Owned, Rounds, Described, Faults, Process, Empty
<1> QED
  BY <1>1, <1>2, <1>3, <1>4, <1>5, <1>6, <1>7 DEF Next

THEOREM Invariance == Spec => []IInv
BY InitInv, StepInv, PTL DEF Spec

----------------------------------------------------------------------------
(* No order of calls makes the library touch or free a block twice while   *)
(* the application keeps the rules: ht_set, ht_removeEntry and the free    *)
(* functions of zc.c agree on who owns a block.                            *)
THEOREM SafeCorrect == Spec => []Safe
<1>1. IInv => Safe
  <2> SUFFICES ASSUME IInv PROVE Safe
    OBVIOUS
  <2>1. TypeOK /\ (Clean => Faults)
    BY DEF IInv, Owned
  <2> QED
    BY <2>1 DEF Safe, Faults, Clean
<1> QED
  BY <1>1, Invariance, PTL

(* Whatever rounds were open, whatever was freed before and whatever the   *)
(* configurations asked for, ZC_Finalize leaves of the blocks only results *)
(* that ZC_compareData returned, and of what the freed ones held only the  *)
(* arrays a second comparison dropped and those freeDataProperty_internal  *)
(* forgets, where a configuration asked for them.                          *)
THEOREM NoLeakCorrect == Spec => []NoLeak
<1>1. IInv => NoLeak
  <2> SUFFICES ASSUME IInv, ~ up, Clean
               PROVE  /\ \A b \in heap.live : b \in Cmps /\ heap.cmp[b].solution = NULL
                      /\ heap.lost \subseteq Excused
    BY DEF NoLeak, Clean, Excused
  <2>1. Tables(heap) /\ Empty /\ heap \in Heap
    BY DEF IInv, Owned, Process, TypeOK
  <2>2. ASSUME NEW b \in heap.live
        PROVE  b \in Cmps /\ heap.cmp[b].solution = NULL
    <3>1. CASE b \in Props
      <4>1. heap.prop[b] \in Names /\ heap.propTable[heap.prop[b]] = b /\ b # NULL
        BY <2>1, <3>1, AddressAssumption DEF Tables, PropTableOK, Heap
      <4> QED
        BY <2>1, <4>1 DEF Empty
    <3>2. CASE b \in Cmps
      <4>1. heap.cmp[b].solution \in Cases \cup {NULL} /\ b # NULL
        BY <2>1, <3>2, AddressAssumption DEF Heap
      <4> QED
        BY <2>1, <3>2, <4>1 DEF Tables, CmpTableOK, Empty
    <3> QED
      BY <2>1, <3>1, <3>2 DEF Heap
  <2> QED
    BY <2>1, <2>2 DEF Tables, LossOK
<1> QED
  BY <1>1, Invariance, PTL

(* The results of two open rounds are not mixed up, for any number of them.*)
THEOREM AssociationCorrect == Spec => []Association
<1>1. IInv => Association
  <2> SUFFICES ASSUME IInv, Clean, NEW j \in Jobs,
                      jobs[j].phase \in {"compressed", "decoded"}, jobs[j].p # NULL,
                      jobs[j].c # NULL, jobs[j].sol # NULL
               PROVE  /\ heap.cmpTable[jobs[j].sol] = jobs[j].c
                      /\ heap.cmp[jobs[j].c].property = jobs[j].p
                      /\ heap.cmp[jobs[j].c].solution = jobs[j].sol
                      /\ heap.propTable[heap.prop[jobs[j].p]] = jobs[j].p
    BY DEF Association, Clean
  <2>1. /\ Tables(heap) /\ RoundOK(heap, jobs[j])
        /\ jobs[j].p \in Props /\ jobs[j].c \in Cmps
    BY DEF IInv, Owned, Rounds, TypeOK, Job
  <2>2. /\ jobs[j].p \in heap.live \cap Props /\ jobs[j].c \in heap.live \cap Cmps
        /\ heap.cmp[jobs[j].c].solution = jobs[j].sol
        /\ heap.cmp[jobs[j].c].property = jobs[j].p
    BY <2>1 DEF RoundOK
  <2> QED
    BY <2>1, <2>2 DEF Tables, PropTableOK, CmpTableOK
<1> QED
  BY <1>1, Invariance, PTL
=============================================================================
