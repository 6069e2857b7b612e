-------------------------- MODULE HashTable_proofs --------------------------
(* Proofs about HashTable, for every finite set of keys, every set of      *)
(* addresses, every number of bins and every hash function.                *)
EXTENDS HashTable, FiniteSetTheorems, FunctionTheorems, SequenceTheorems,
        NaturalsInduction, WellFoundedInduction, TLAPS

(* A chain that may hang in bin b. *)
GoodChain(c, b) ==
    /\ c \in Seq(Entry)
    /\ \A n \in 1 .. Len(c) : hash[c[n].key] = b
    /\ \A m, n \in 1 .. Len(c) : c[m].key = c[n].key => m = n

(* What a chain says of a key. *)
ValueIn(c, k) == IF Matches(c, k) = {} THEN "absent" ELSE c[FirstMatch(c, k)].value

(* Chain d says w of k and agrees with chain c on the other keys. *)
Changed(c, d, k, w) ==
    \A l \in Keys : ValueIn(d, l) = IF l = k THEN w ELSE ValueIn(c, l)

IInv == TypeOK /\ WellFormed /\ CountMatches

(* The chain with another value in its n-th entry. *)
Replaced(c, n, v) == [c EXCEPT ![n].value = v]

(* In a chain without repetition the match that is found is the only one.  *)
LEMMA OnlyMatch ==
    ASSUME NEW c, NEW k, NEW b, GoodChain(c, b), NEW n \in 1 .. Len(c), c[n].key = k
    PROVE  Matches(c, k) = {n} /\ FirstMatch(c, k) = n /\ ValueIn(c, k) = c[n].value
<1>1. Matches(c, k) = {n}
  BY DEF Matches, GoodChain
<1>2. FirstMatch(c, k) = n
  <2>1. \A m \in {n} : n <= m
    OBVIOUS
  <2>2. FirstMatch(c, k) = CHOOSE m \in {n} : \A l \in {n} : m <= l
    BY <1>1 DEF FirstMatch
  <2>3. QED
    BY <2>1, <2>2
<1>3. QED
  BY <1>1, <1>2 DEF ValueIn

(* A chain says of the key of each entry what the entry holds. *)
LEMMA EntryValue ==
    ASSUME NEW c, NEW b, GoodChain(c, b), NEW n \in 1 .. Len(c)
    PROVE  ValueIn(c, c[n].key) = c[n].value
BY OnlyMatch

(* A key without a match is absent, and only such a key. *)
LEMMA NoMatch ==
    ASSUME NEW c, NEW k, NEW b, GoodChain(c, b)
    PROVE  /\ Matches(c, k) = {} => ValueIn(c, k) = "absent"
           /\ Matches(c, k) # {} =>
                  \E n \in 1 .. Len(c) : c[n].key = k /\ ValueIn(c, k) = c[n].value
           /\ Matches(c, k) = {} <=> ValueIn(c, k) = "absent"
<1>1. Matches(c, k) # {} =>
          \E n \in 1 .. Len(c) : c[n].key = k /\ ValueIn(c, k) = c[n].value
  <2> SUFFICES ASSUME Matches(c, k) # {}
               PROVE  \E n \in 1 .. Len(c) : c[n].key = k /\ ValueIn(c, k) = c[n].value
    OBVIOUS
  <2>1. PICK n \in 1 .. Len(c) : c[n].key = k
    BY DEF Matches
  <2>2. ValueIn(c, k) = c[n].value
    BY <2>1, OnlyMatch
  <2>3. QED
    BY <2>1, <2>2
<1>2. ASSUME NEW n \in 1 .. Len(c) PROVE c[n].value # "absent"
  <2>1. c[n] \in Entry
    BY ElementOfSeq DEF GoodChain
  <2>2. c[n].value \in Values \cup {NULL}
    BY <2>1 DEF Entry
  <2>3. QED
    BY <2>2, NullAssumption
<1>3. QED
  BY <1>1, <1>2 DEF ValueIn

(* ht_set appends to a chain that does not hold the key. *)
LEMMA AppendChain ==
    ASSUME NEW b \in Bins, NEW k \in Keys, hash[k] = b, NEW v \in Values \cup {NULL},
           NEW c, GoodChain(c, b), Matches(c, k) = {}
    PROVE  LET d == Append(c, [key |-> k, value |-> v]) IN
           /\ GoodChain(d, b)
           /\ Changed(c, d, k, v)
<1> DEFINE e == [key |-> k, value |-> v]
           d == Append(c, e)
<1>1. e \in Entry
  BY DEF Entry
<1>2. /\ d \in Seq(Entry) /\ Len(c) \in Nat /\ Len(d) = Len(c) + 1
      /\ d[Len(c) + 1] = e /\ \A n \in 1 .. Len(c) : d[n] = c[n]
  BY <1>1, AppendProperties DEF GoodChain
<1>3. \A n \in 1 .. Len(c) : c[n].key # k
  BY DEF Matches
<1>4. GoodChain(d, b)
  BY <1>2, <1>3 DEF GoodChain
<1>5. ValueIn(d, k) = v
  <2>1. Len(c) + 1 \in 1 .. Len(d) /\ d[Len(c) + 1].key = k /\ d[Len(c) + 1].value = v
    BY <1>2
  <2>2. QED
    BY <1>4, <2>1, OnlyMatch
<1>6. ASSUME NEW l \in Keys, l # k PROVE ValueIn(d, l) = ValueIn(c, l)
  <2>1. CASE Matches(c, l) = {}
    <3>1. Matches(d, l) = {}
      BY <1>2, <1>6, <2>1 DEF Matches
    <3>2. QED
      BY <2>1, <3>1 DEF ValueIn
  <2>2. CASE Matches(c, l) # {}
    <3>1. PICK n \in 1 .. Len(c) : c[n].key = l /\ ValueIn(c, l) = c[n].value
      BY <2>2, NoMatch
    <3>2. n \in 1 .. Len(d) /\ d[n] = c[n]
      BY <1>2
    <3>3. ValueIn(d, d[n].key) = d[n].value
      BY <1>4, <3>2, EntryValue
    <3>4. QED
      BY <3>1, <3>2, <3>3
  <2>3. QED
    BY <2>1, <2>2
<1>7. QED
  BY <1>4, <1>5, <1>6 DEF Changed

(* ht_set replaces the value of the entry with the key. *)
LEMMA ReplaceChain ==
    ASSUME NEW b \in Bins, NEW k \in Keys, NEW v \in Values \cup {NULL},
           NEW c, GoodChain(c, b), NEW n \in 1 .. Len(c), c[n].key = k
    PROVE  /\ GoodChain(Replaced(c, n, v), b)
           /\ Changed(c, Replaced(c, n, v), k, v)
<1> DEFINE d == Replaced(c, n, v)
<1>1. ASSUME NEW m \in 1 .. Len(c)
      PROVE  c[m] \in Entry /\ [c[m] EXCEPT !.value = v] \in Entry
  <2>1. c[m] \in Entry
    BY ElementOfSeq DEF GoodChain
  <2>2. QED
    BY <2>1 DEF Entry
<1>2. c \in [1 .. Len(c) -> Entry] /\ Len(c) \in Nat
  BY <1>1, LenProperties DEF GoodChain
<1>3. /\ d \in [1 .. Len(c) -> Entry]
      /\ d[n] = [c[n] EXCEPT !.value = v]
      /\ \A m \in 1 .. Len(c) : m # n => d[m] = c[m]
  BY <1>1, <1>2 DEF Replaced
<1>4. d \in Seq(Entry) /\ Len(d) = Len(c)
  BY <1>2, <1>3, IsASeq, LenProperties
<1>5. d[n].key = k /\ d[n].value = v
  BY <1>1, <1>3 DEF Entry
<1>6. \A m \in 1 .. Len(c) : d[m].key = c[m].key
  BY <1>3, <1>5
<1> HIDE DEF d
<1>7. GoodChain(d, b)
  BY <1>4, <1>6 DEF GoodChain
<1>8. ValueIn(d, k) = v
  <2>1. n \in 1 .. Len(d)
    BY <1>4
  <2>2. ValueIn(d, d[n].key) = d[n].value
    BY <1>7, <2>1, EntryValue
  <2>3. QED
    BY <1>5, <2>2
<1>9. ASSUME NEW l \in Keys, l # k PROVE ValueIn(d, l) = ValueIn(c, l)
  <2>1. CASE Matches(c, l) = {}
    <3>1. Matches(d, l) = {}
      BY <1>4, <1>6, <2>1 DEF Matches
    <3>2. QED
      BY <2>1, <3>1 DEF ValueIn
  <2>2. CASE Matches(c, l) # {}
    <3>1. PICK m \in 1 .. Len(c) : c[m].key = l /\ ValueIn(c, l) = c[m].value
      BY <2>2, NoMatch
    <3>2. m \in 1 .. Len(d) /\ d[m] = c[m]
      BY <1>3, <1>4, <1>9, <3>1
    <3>3. ValueIn(d, d[m].key) = d[m].value
      BY <1>7, <3>2, EntryValue
    <3>4. QED
      BY <3>1, <3>2, <3>3
  <2>3. QED
    BY <2>1, <2>2
<1>10. Changed(c, d, k, v)
  BY <1>8, <1>9 DEF Changed
<1>11. QED
  BY <1>7, <1>10 DEF d

(* ht_freePairEntry unlinks the entry with the key. *)
LEMMA RemoveChain ==
    ASSUME NEW b \in Bins, NEW k \in Keys,
           NEW c, GoodChain(c, b), NEW n \in 1 .. Len(c), c[n].key = k
    PROVE  LET d == RemoveAt(c, n) IN
           /\ GoodChain(d, b)
           /\ Changed(c, d, k, "absent")
<1> DEFINE d == RemoveAt(c, n)
           old(m) == IF m < n THEN m ELSE m + 1
           new(m) == IF m < n THEN m ELSE m - 1
<1>1. c \in Seq(Entry) /\ Len(c) \in Nat /\ n \in 1 .. Len(c)
  BY DEF GoodChain
<1> DEFINE s == SubSeq(c, 1, n - 1)
           t == SubSeq(c, n + 1, Len(c))
<1>2. s \in Seq(Entry) /\ Len(s) = n - 1 /\ \A m \in 1 .. n - 1 : s[m] = c[m]
  BY <1>1
<1>3. /\ t \in Seq(Entry) /\ Len(t) = Len(c) - n
      /\ \A m \in 1 .. Len(c) - n : t[m] = c[m + n]
  BY <1>1
<1>4. /\ d \in Seq(Entry) /\ Len(d) = Len(c) - 1
      /\ \A m \in 1 .. Len(d) : d[m] = c[old(m)]
  <2>1. d = s \o t
    BY DEF RemoveAt
  <2> HIDE DEF d, s, t
  <2>2. /\ d \in Seq(Entry) /\ Len(d) = Len(s) + Len(t)
        /\ \A m \in 1 .. Len(s) + Len(t) :
               d[m] = IF m <= Len(s) THEN s[m] ELSE t[m - Len(s)]
    BY <1>2, <1>3, <2>1, ConcatProperties
  <2>3. Len(d) = Len(c) - 1
    BY <1>1, <1>2, <1>3, <2>2
  <2>4. ASSUME NEW m \in 1 .. Len(d) PROVE d[m] = c[old(m)]
    <3>1. CASE m <= n - 1
      <4>1. m \in 1 .. n - 1 /\ old(m) = m
        BY <1>1, <2>3, <3>1
      <4>2. m \in 1 .. Len(s) + Len(t) /\ m <= Len(s)
        BY <1>2, <2>2, <4>1
      <4>3. d[m] = s[m]
        BY <2>2, <4>2
      <4>4. QED
        BY <1>2, <4>1, <4>3
    <3>2. CASE ~ (m <= n - 1)
      <4>1. m - (n - 1) \in 1 .. Len(c) - n /\ m - (n - 1) + n = m + 1
        BY <1>1, <2>3, <3>2
      <4>2. d[m] = t[m - (n - 1)]
        BY <1>2, <2>2, <3>2
      <4>3. t[m - (n - 1)] = c[m - (n - 1) + n]
        BY <1>3, <4>1
      <4>4. old(m) = m + 1
        BY <1>1, <2>3, <3>2
      <4>5. QED
        BY <4>1, <4>2, <4>3, <4>4
    <3>3. QED
      BY <3>1, <3>2
  <2>5. QED
    BY <2>2, <2>3, <2>4
<1> HIDE DEF d
<1>5. \A m \in 1 .. Len(d) : old(m) \in 1 .. Len(c) /\ old(m) # n /\ new(old(m)) = m
  BY <1>1, <1>4
<1>6. \A m \in 1 .. Len(c) : m # n => new(m) \in 1 .. Len(d) /\ old(new(m)) = m
  BY <1>1, <1>4
<1> HIDE DEF old, new
<1>7. GoodChain(d, b)
  <2>1. \A m \in 1 .. Len(c) : hash[c[m].key] = b
    BY DEF GoodChain
  <2>2. \A m \in 1 .. Len(d) : hash[d[m].key] = b
    BY <1>4, <1>5, <2>1
  <2>3. ASSUME NEW m \in 1 .. Len(d), NEW l \in 1 .. Len(d), d[m].key = d[l].key
        PROVE  m = l
    <3>1. old(m) = old(l)
      BY <1>4, <1>5, <2>3 DEF GoodChain
    <3>2. QED
      BY <1>5, <3>1
  <2>4. QED
    BY <1>4, <2>2, <2>3 DEF GoodChain
<1>8. ValueIn(d, k) = "absent"
  <2>1. \A m \in 1 .. Len(d) : d[m].key # k
    BY <1>4, <1>5 DEF GoodChain
  <2>2. QED
    BY <2>1 DEF ValueIn, Matches
<1>9. ASSUME NEW l \in Keys, l # k PROVE ValueIn(d, l) = ValueIn(c, l)
  <2>1. CASE Matches(c, l) = {}
    <3>1. Matches(d, l) = {}
      BY <1>4, <1>5, <2>1 DEF Matches
    <3>2. QED
      BY <2>1, <3>1 DEF ValueIn
  <2>2. CASE Matches(c, l) # {}
    <3>1. PICK m \in 1 .. Len(c) : c[m].key = l /\ ValueIn(c, l) = c[m].value
      BY <2>2, NoMatch
    <3>2. new(m) \in 1 .. Len(d) /\ d[new(m)] = c[m]
      BY <1>4, <1>6, <1>9, <3>1
    <3>3. ValueIn(d, d[new(m)].key) = d[new(m)].value
      BY <1>7, <3>2, EntryValue
    <3>4. QED
      BY <3>1, <3>2, <3>3
  <2>3. QED
    BY <2>1, <2>2
<1>10. Changed(c, d, k, "absent")
  BY <1>8, <1>9 DEF Changed
<1>11. QED
  BY <1>7, <1>10 DEF d

----------------------------------------------------------------------------
(* The table as its chains describe it. *)
LEMMA View ==
    ASSUME TypeOK, WellFormed, NEW k \in Keys
    PROVE  /\ hash[k] \in Bins /\ GoodChain(ChainOf(k), hash[k])
           /\ k \in KeysIn <=> Matches(ChainOf(k), k) # {}
           /\ mapOf[k] = ValueIn(ChainOf(k), k)
           /\ k \in KeysIn <=> mapOf[k] # "absent"
           /\ \A b \in Bins : Matches(table[b], k) # {} => b = hash[k]
<1>1. hash[k] \in Bins
  BY HashAssumption
<1>2. \A b \in Bins : GoodChain(table[b], b)
  BY DEF TypeOK, WellFormed, GoodChain
<1>3. \A b \in Bins : Matches(table[b], k) # {} => b = hash[k]
  BY <1>2 DEF GoodChain, Matches
<1>4. k \in KeysIn <=> Matches(ChainOf(k), k) # {}
  BY <1>1, <1>3 DEF KeysIn, ChainOf
<1>5. mapOf[k] = ValueIn(ChainOf(k), k)
  BY <1>4 DEF mapOf, Lookup, ValueIn
<1>6. GoodChain(ChainOf(k), hash[k])
  BY <1>1, <1>2 DEF ChainOf
<1>7. Matches(ChainOf(k), k) = {} <=> ValueIn(ChainOf(k), k) = "absent"
  BY <1>6, NoMatch
<1>8. QED
  BY <1>1, <1>3, <1>4, <1>5, <1>6, <1>7

(* A step that replaces the chain of one key's bin changes the map at that *)
(* key, and the set of keys accordingly.                                   *)
LEMMA OneChain ==
    ASSUME TypeOK, WellFormed, NEW k \in Keys, NEW d, GoodChain(d, hash[k]),
           table' = [table EXCEPT ![hash[k]] = d],
           NEW w \in Values \cup {NULL, "absent"},
           Changed(ChainOf(k), d, k, w)
    PROVE  /\ table' \in [Bins -> Seq(Entry)] /\ WellFormed'
           /\ mapOf' = [mapOf EXCEPT ![k] = w]
           /\ KeysIn' = IF w = "absent" THEN KeysIn \ {k} ELSE KeysIn \cup {k}
<1>1. hash[k] \in Bins /\ table \in [Bins -> Seq(Entry)]
  BY View DEF TypeOK
<1>2. /\ table' \in [Bins -> Seq(Entry)] /\ table'[hash[k]] = d
      /\ \A b \in Bins : b # hash[k] => table'[b] = table[b]
  BY <1>1 DEF GoodChain
<1>3. WellFormed'
  BY <1>1, <1>2 DEF GoodChain, WellFormed
<1>4. ASSUME NEW l \in Keys
      PROVE  /\ mapOf'[l] = IF l = k THEN w ELSE mapOf[l]
             /\ l \in KeysIn' <=> mapOf'[l] # "absent"
  <2>1. hash[l] \in Bins /\ ChainOf(l)' = table'[hash[l]] /\ ChainOf(l) = table[hash[l]]
    BY HashAssumption DEF ChainOf
  <2>2. \A b \in Bins : GoodChain(table'[b], b)
    BY <1>2, <1>3 DEF WellFormed, GoodChain
  <2>3. \A b \in Bins : Matches(table'[b], l) # {} => b = hash[l]
    BY <2>2 DEF GoodChain, Matches
  <2>4. l \in KeysIn' <=> Matches(table'[hash[l]], l) # {}
    BY <2>1, <2>3 DEF KeysIn
  <2>5. mapOf'[l] = ValueIn(table'[hash[l]], l)
    BY <2>1, <2>4 DEF mapOf, Lookup, ValueIn
  <2>6. Matches(table'[hash[l]], l) = {} <=> ValueIn(table'[hash[l]], l) = "absent"
    BY <2>1, <2>2, NoMatch
  <2>7. mapOf[l] = ValueIn(table[hash[l]], l)
    BY <2>1, View
  <2>8. hash[l] = hash[k] => ChainOf(k) = table[hash[l]]
    BY DEF ChainOf
  <2>9. QED
    BY <1>2, <2>1, <2>4, <2>5, <2>6, <2>7, <2>8 DEF Changed
<1>5. mapOf \in [Keys -> {mapOf[l] : l \in Keys}] /\ DOMAIN mapOf' = Keys
  BY DEF mapOf
<1>6. mapOf' = [mapOf EXCEPT ![k] = w]
  BY <1>4, <1>5 DEF mapOf
<1>7. \A l \in Keys : l \in KeysIn <=> mapOf[l] # "absent"
  BY View
<1>8. KeysIn \subseteq Keys /\ KeysIn' \subseteq Keys
  BY DEF KeysIn
<1>9. KeysIn' = IF w = "absent" THEN KeysIn \ {k} ELSE KeysIn \cup {k}
  BY <1>4, <1>7, <1>8
<1>10. QED
  BY <1>2, <1>3, <1>6, <1>9

LEMMA FiniteKeys == IsFiniteSet(KeysIn) /\ Cardinality(KeysIn) \in Nat
<1>1. KeysIn \in SUBSET Keys
  BY DEF KeysIn
<1>2. IsFiniteSet(KeysIn)
  BY <1>1, KeysAssumption, FS_Subset
<1>3. QED
  BY <1>2, FS_CardinalityType

----------------------------------------------------------------------------
LEMMA InitInv == Init => IInv /\ KM!Init
<1> SUFFICES ASSUME Init PROVE IInv /\ KM!Init
  OBVIOUS
<1>1. table = [b \in Bins |-> <<>>] /\ count = 0 /\ live = {} /\ held = {} /\ ret = NULL
  BY DEF Init
<1>2. TypeOK /\ WellFormed
  <2>1. <<>> \in Seq(Entry)
    OBVIOUS
  <2>2. QED
    BY <1>1, <2>1 DEF TypeOK, WellFormed
<1>3. KeysIn = {}
  BY <1>1 DEF KeysIn, Matches
<1>4. CountMatches
  BY <1>1, <1>3, FS_EmptySet DEF CountMatches
<1>5. mapOf = [k \in Keys |-> "absent"]
  BY <1>3 DEF mapOf
<1>6. QED
  BY <1>1, <1>2, <1>4, <1>5 DEF IInv, KM!Init, KM!Absent

(* ht_set puts its value under its key. *)
LEMMA SetStep ==
    ASSUME IInv, NEW k \in Keys, NEW v \in Values \cup {NULL}, ht_set(k, v)
    PROVE  IInv' /\ KM!Put(k, v)
<1> DEFINE c == ChainOf(k)
           n == FirstMatch(c, k)
           d == IF Matches(c, k) # {} THEN Replaced(c, n, v)
                ELSE Append(c, [key |-> k, value |-> v])
<1>1. TypeOK /\ WellFormed /\ CountMatches
  BY DEF IInv
<1>2. hash[k] \in Bins /\ GoodChain(c, hash[k]) /\ (k \in KeysIn <=> Matches(c, k) # {})
  BY <1>1, View
<1>3. Matches(c, k) # {} => n \in 1 .. Len(c) /\ c[n].key = k
  <2> SUFFICES ASSUME Matches(c, k) # {} PROVE n \in 1 .. Len(c) /\ c[n].key = k
    OBVIOUS
  <2>1. PICK m \in 1 .. Len(c) : c[m].key = k
    BY DEF Matches
  <2>2. n = m
    BY <1>2, <2>1, OnlyMatch
  <2>3. QED
    BY <2>1, <2>2
<1>4. GoodChain(d, hash[k]) /\ Changed(c, d, k, v)
  <2>1. CASE Matches(c, k) # {}
    <3> HIDE DEF c, n
    <3>1. GoodChain(c, hash[k]) /\ n \in 1 .. Len(c) /\ c[n].key = k
      BY <1>2, <1>3, <2>1
    <3>2. GoodChain(Replaced(c, n, v), hash[k]) /\ Changed(c, Replaced(c, n, v), k, v)
      BY <1>2, <3>1, ReplaceChain
    <3>3. QED
      BY <2>1, <3>2
  <2>2. CASE Matches(c, k) = {}
    BY <1>2, <2>2, AppendChain
  <2>3. QED
    BY <2>1, <2>2
<1>5. table' = [table EXCEPT ![hash[k]] = d]
  BY <1>1, <1>2 DEF ht_set, ChainOf, TypeOK, Replaced
<1>6. v # "absent" /\ v \in Values \cup {NULL, "absent"}
  BY NullAssumption
<1> HIDE DEF d
<1>7. /\ table' \in [Bins -> Seq(Entry)] /\ WellFormed'
      /\ mapOf' = [mapOf EXCEPT ![k] = v]
      /\ KeysIn' = KeysIn \cup {k}
  BY <1>1, <1>4, <1>5, <1>6, OneChain
<1>8. count' = IF k \in KeysIn THEN count ELSE count + 1
  BY <1>2 DEF ht_set, ChainOf
<1>9. CountMatches'
  BY <1>1, <1>7, <1>8, FiniteKeys, FS_AddElement DEF CountMatches
<1>10. UNCHANGED <<held, ret>> /\ live' \subseteq live \cup ({v} \ {NULL})
  BY DEF ht_set
<1>11. TypeOK'
  BY <1>1, <1>7, <1>8, <1>10 DEF TypeOK
<1>12. QED
  BY <1>7, <1>9, <1>10, <1>11 DEF IInv, KM!Put

(* ht_freePairEntry removes its key and returns what was stored. *)
LEMMA RemoveStep ==
    ASSUME IInv, NEW k \in Keys, ht_freePairEntry(k)
    PROVE  IInv' /\ KM!Remove(k)
<1> DEFINE c == ChainOf(k)
           found == {b \in Bins : Matches(table[b], k) # {}}
<1>1. TypeOK /\ WellFormed /\ CountMatches
  BY DEF IInv
<1>2. /\ hash[k] \in Bins /\ GoodChain(c, hash[k]) /\ (k \in KeysIn <=> Matches(c, k) # {})
      /\ mapOf[k] = ValueIn(c, k) /\ (k \in KeysIn <=> mapOf[k] # "absent")
      /\ \A b \in Bins : Matches(table[b], k) # {} => b = hash[k]
  BY <1>1, View
<1>3. CASE k \notin KeysIn
  <2>1. found = {}
    BY <1>2, <1>3 DEF KeysIn
  <2>2. ret' = NULL /\ UNCHANGED <<table, count, live, held>>
    BY <2>1 DEF ht_freePairEntry
  <2>3. IInv'
    BY <1>1, <2>2 DEF IInv, TypeOK, WellFormed, CountMatches, KeysIn
  <2>4. mapOf' = mapOf /\ mapOf[k] = "absent" /\ mapOf = [mapOf EXCEPT ![k] = "absent"]
    BY <1>2, <1>3, <2>2 DEF mapOf, Lookup, KeysIn, ChainOf
  <2>5. QED
    BY <2>2, <2>3, <2>4 DEF KM!Remove, KM!Read, KM!Absent
<1>4. CASE k \in KeysIn
  <2>1. found = {hash[k]}
    BY <1>2, <1>4 DEF ChainOf
  <2>2. (CHOOSE b \in found : \A y \in found : b <= y) = hash[k]
    <3>1. hash[k] <= hash[k]
      BY <1>2, HashAssumption DEF Bins
    <3>2. QED
      BY <2>1, <3>1
  <2>3. PICK n \in 1 .. Len(c) : c[n].key = k
    BY <1>2, <1>4 DEF Matches
  <2>4. FirstMatch(c, k) = n /\ ValueIn(c, k) = c[n].value
    BY <1>2, <2>3, OnlyMatch
  <2>5. /\ ret' = c[n].value /\ held' = (held \cup {ret'}) \ {NULL}
        /\ table' = [table EXCEPT ![hash[k]] = RemoveAt(@, n)]
        /\ count' = count - 1 /\ UNCHANGED live
    BY <2>1, <2>2, <2>4 DEF ht_freePairEntry, ChainOf
  <2>6. table' = [table EXCEPT ![hash[k]] = RemoveAt(c, n)]
    BY <1>1, <1>2, <2>5 DEF ChainOf, TypeOK
  <2> DEFINE d == RemoveAt(c, n)
  <2>7. GoodChain(d, hash[k]) /\ Changed(ChainOf(k), d, k, "absent")
    BY <1>2, <2>3, RemoveChain
  <2>8. /\ table' \in [Bins -> Seq(Entry)] /\ WellFormed'
        /\ mapOf' = [mapOf EXCEPT ![k] = "absent"]
        /\ KeysIn' = KeysIn \ {k}
    <3>1. table' = [table EXCEPT ![hash[k]] = d]
      BY <2>6
    <3> HIDE DEF c, d
    <3>2. QED
      BY <1>1, <2>7, <3>1, OneChain
  <2>9. CountMatches' /\ count' \in Nat
    <3>1. Cardinality(KeysIn') = Cardinality(KeysIn) - 1
      BY <1>4, <2>8, FiniteKeys, FS_RemoveElement
    <3>2. IsFiniteSet(KeysIn')
      BY <2>8, FiniteKeys, FS_RemoveElement
    <3>3. Cardinality(KeysIn') \in Nat
      BY <3>2, FS_CardinalityType
    <3>4. QED
      BY <1>1, <2>5, <3>1, <3>3 DEF CountMatches
  <2>10. ret' \in Values \cup {NULL}
    <3>1. c[n] \in Entry
      BY <1>2, <2>3, ElementOfSeq DEF GoodChain
    <3>2. QED
      BY <2>5, <3>1 DEF Entry
  <2>11. IInv'
    BY <1>1, <2>5, <2>8, <2>9, <2>10 DEF IInv, TypeOK
  <2>12. QED
    BY <1>2, <1>4, <2>4, <2>5, <2>8, <2>11 DEF KM!Remove, KM!Read, KM!Absent
<1>5. QED
  BY <1>3, <1>4

(* ht_get reads the map. *)
LEMMA GetStep ==
    ASSUME IInv, NEW k \in Keys, ht_get(k)
    PROVE  IInv' /\ KM!Get(k)
<1>1. TypeOK /\ WellFormed /\ CountMatches
  BY DEF IInv
<1>2. /\ mapOf[k] = ValueIn(ChainOf(k), k) /\ GoodChain(ChainOf(k), hash[k])
      /\ (Matches(ChainOf(k), k) = {} <=> mapOf[k] = "absent")
  BY <1>1, View
<1>3. ret' = (IF mapOf[k] = "absent" THEN NULL ELSE mapOf[k])
  BY <1>2 DEF ht_get, Lookup, ValueIn
<1>4. Lookup(k) \in Values \cup {NULL}
  <2>1. CASE Matches(ChainOf(k), k) = {}
    BY <2>1 DEF Lookup
  <2>2. CASE Matches(ChainOf(k), k) # {}
    <3>1. PICK n \in 1 .. Len(ChainOf(k)) : ValueIn(ChainOf(k), k) = ChainOf(k)[n].value
      BY <1>2, <2>2, NoMatch
    <3>2. ChainOf(k)[n] \in Entry
      BY <1>2, ElementOfSeq DEF GoodChain
    <3>3. QED
      BY <2>2, <3>1, <3>2 DEF Lookup, ValueIn, Entry
  <2>3. QED
    BY <2>1, <2>2
<1>5. UNCHANGED <<table, count, live, held>>
  BY DEF ht_get
<1>6. IInv'
  BY <1>1, <1>4, <1>5 DEF ht_get, IInv, TypeOK, WellFormed, CountMatches, KeysIn
<1>7. mapOf' = mapOf
  BY <1>5 DEF mapOf, KeysIn, Lookup, ChainOf
<1>8. QED
  BY <1>3, <1>6, <1>7 DEF KM!Get, KM!Read, KM!Absent

(* ZC_Finalize and a new ZC_Init leave an empty map. *)
LEMMA DestroyStep == ASSUME IInv, Destroy PROVE IInv' /\ KM!Destroy
<1>1. /\ table' = [b \in Bins |-> <<>>] /\ count' = 0 /\ live' \subseteq live
      /\ UNCHANGED <<held, ret>>
  BY DEF Destroy
<1>2. TypeOK' /\ WellFormed'
  <2>1. <<>> \in Seq(Entry)
    OBVIOUS
  <2>2. QED
    BY <1>1, <2>1 DEF IInv, TypeOK, WellFormed
<1>3. KeysIn' = {}
  BY <1>1 DEF KeysIn, Matches
<1>4. CountMatches'
  BY <1>1, <1>3, FS_EmptySet DEF CountMatches
<1>5. mapOf' = [k \in Keys |-> "absent"]
  BY <1>3 DEF mapOf
<1>6. QED
  BY <1>1, <1>2, <1>4, <1>5 DEF IInv, KM!Destroy, KM!Absent

(* Each step of the table is a step of the map, or leaves it alone. *)
LEMMA NextStep ==
    ASSUME IInv, [Next]_vars
    PROVE  IInv' /\ [KM!Next]_<<mapOf, ret>>
<1>1. ASSUME NEW k \in Keys, Set(k) PROVE IInv' /\ KM!Next
  BY <1>1, SetStep DEF Set, KM!Next
<1>2. ASSUME NEW k \in Keys, ht_get(k) PROVE IInv' /\ KM!Next
  BY <1>2, GetStep DEF KM!Next
<1>3. ASSUME NEW k \in Keys, ht_freePairEntry(k) PROVE IInv' /\ KM!Next
  BY <1>3, RemoveStep DEF KM!Next
<1>4. CASE Destroy
  BY <1>4, DestroyStep DEF KM!Next
<1>5. CASE FreeReturned \/ UNCHANGED vars
  <2>1. /\ UNCHANGED <<table, count, ret>> /\ held' \subseteq held /\ live' \subseteq live
    BY <1>5 DEF FreeReturned, vars
  <2>2. IInv'
    BY <2>1 DEF IInv, TypeOK, WellFormed, CountMatches, KeysIn
  <2>3. mapOf' = mapOf
    BY <2>1 DEF mapOf, KeysIn, Lookup, ChainOf
  <2>4. QED
    BY <2>1, <2>2, <2>3
<1>6. QED
  BY <1>1, <1>2, <1>3, <1>4, <1>5 DEF Next

(* IInv is inductive. *)
THEOREM Inductive == Spec => []IInv
BY InitInv, NextStep, PTL DEF Spec

(* The types of table, count and pointers, for every hash function. *)
THEOREM TypeCorrect == Spec => []TypeOK
<1>1. IInv => TypeOK
  BY DEF IInv
<1>2. QED
  BY <1>1, Inductive, PTL

(* Whatever calls are made on colliding keys, each entry is in its own bin *)
(* and no chain holds a key twice.                                         *)
THEOREM ChainsCorrect == Spec => []WellFormed
<1>1. IInv => WellFormed
  BY DEF IInv
<1>2. QED
  BY <1>1, Inductive, PTL

(* hashtable->count is the number of keys stored. *)
THEOREM CountCorrect == Spec => []CountMatches
<1>1. IInv => CountMatches
  BY DEF IInv
<1>2. QED
  BY <1>1, Inductive, PTL

(* The chained table implements the map: every call does to the map what   *)
(* KeyMap says, and returns what it returns.                               *)
THEOREM Refinement == Spec => ImplementsKeyMap
<1>1. Spec => KM!Init /\ [][KM!Next]_<<mapOf, ret>>
  BY InitInv, NextStep, Inductive, PTL DEF Spec
<1>2. QED
  BY <1>1 DEF ImplementsKeyMap, KM!Spec
----------------------------------------------------------------------------
(* What ht_getAllKeys lists.                                               *)

LEMMA LeastBad ==
    ASSUME NEW T \in SUBSET Nat, T # {}
    PROVE  \E x \in T : \A y \in T : x <= y
<1> DEFINE R == OpToRel(<, Nat)
<1>1. IsWellFoundedOn(R, Nat)
  BY NatLessThanWellFounded
<1>2. \A x, y \in Nat : y < x => <<y, x>> \in R
  BY DEF OpToRel
<1> HIDE DEF R
<1>3. \E x \in T : \A y \in T : ~ (<<y, x>> \in R)
  BY <1>1, WFMin
<1>4. \A x, y \in T : ~ (<<y, x>> \in R) => x <= y
  BY <1>2
<1> QED
  BY <1>3, <1>4, Zenon

(* The keys of a chain, and the array after one more bin. *)
ChainKeys(b) == [n \in 1 .. Len(table[b]) |-> table[b][n].key]
Scanned(f, b) ==
    IF b = -1 THEN <<>>
    ELSE IF Len(f[b - 1]) < count THEN f[b - 1] \o ChainKeys(b) ELSE f[b - 1]
Scan(f, b) == f = [a \in -1 .. b |-> Scanned(f, a)]

(* The recursion over the bins has a solution ...                          *)
LEMMA ScanExists == \A n \in Nat : \E f : Scan(f, n)
<1> DEFINE Bad == {n \in Nat : ~ \E f : Scan(f, n)}
<1> SUFFICES ASSUME Bad # {} PROVE FALSE
  OBVIOUS
<1>1. PICK n \in Bad : \A m \in Bad : n <= m
  BY LeastBad
<1>2. n \in Nat
  OBVIOUS
<1>3. ASSUME NEW f, NEW b \in Nat, Scan(f, b - 1) PROVE \E g : Scan(g, b)
  <2> DEFINE g == [a \in -1 .. b |-> IF a = b THEN Scanned(f, b) ELSE f[a]]
  <2>1. \A a \in -1 .. b : a # -1 => a - 1 \in -1 .. b /\ a - 1 # b
    OBVIOUS
  <2>2. \A a \in -1 .. b : a # -1 => g[a - 1] = f[a - 1]
    BY <2>1
  <2>3. \A a \in -1 .. b : a # b => f[a] = Scanned(f, a)
    BY <1>3 DEF Scan
  <2> HIDE DEF g
  <2>4. \A a \in -1 .. b : Scanned(g, a) = Scanned(f, a)
    BY <2>2 DEF Scanned
  <2>5. g = [a \in -1 .. b |-> Scanned(f, a)]
    BY <2>3 DEF g
  <2>6. Scan(g, b)
    BY <2>4, <2>5 DEF Scan
  <2> QED
    BY <2>6
<1>4. Scan([a \in {-1} |-> <<>>], -1)
  BY DEF Scan, Scanned
<1>5. CASE n = 0
  <2>1. 0 \in Nat /\ 0 - 1 = -1
    OBVIOUS
  <2>2. \E f : Scan(f, 0 - 1)
    BY <1>4, <2>1
  <2>3. \E g : Scan(g, 0)
    BY <1>3, <2>1, <2>2
  <2> QED
    BY <1>5, <2>3
<1>6. CASE n # 0
  <2>1. n - 1 \in Nat /\ n - 1 \notin Bad
    BY <1>1, <1>2, <1>6
  <2>2. PICK f : Scan(f, n - 1)
    BY <2>1
  <2> QED
    BY <1>2, <1>3, <2>2
<1> QED
  BY <1>5, <1>6

(* ... and ht_getAllKeys is it, after the last bin. *)
LEMMA AllKeysScan ==
    \E f : Scan(f, HASHTABLE_SIZE - 1) /\ AllKeys = f[HASHTABLE_SIZE - 1]
<1> DEFINE f == CHOOSE g : g = [b \in -1 .. HASHTABLE_SIZE - 1 |->
                    IF b = -1 THEN <<>>
                    ELSE IF Len(g[b - 1]) < count
                         THEN g[b - 1] \o [n \in 1 .. Len(table[b]) |-> table[b][n].key]
                         ELSE g[b - 1]]
<1>1. AllKeys = f[HASHTABLE_SIZE - 1]
  BY DEF AllKeys
<1>2. f = CHOOSE g : Scan(g, HASHTABLE_SIZE - 1)
  BY DEF Scan, Scanned, ChainKeys
<1>3. \E g : Scan(g, HASHTABLE_SIZE - 1)
  BY ScanExists, HashAssumption
<1> HIDE DEF f
<1> QED
  BY <1>1, <1>2, <1>3

KeysOf(b)   == {k \in KeysIn : hash[k] = b}
KeysUpTo(b) == {k \in KeysIn : hash[k] <= b}

(* The chain of a bin lists the keys of the bin, each once. *)
LEMMA ChainLists ==
    ASSUME TypeOK, WellFormed, NEW b \in Bins
    PROVE  /\ ChainKeys(b) \in Seq(Keys) /\ Len(ChainKeys(b)) \in Nat
           /\ ToSet(ChainKeys(b)) = KeysOf(b)
           /\ Cardinality(KeysOf(b)) = Len(ChainKeys(b))
<1> DEFINE c == table[b]
           s == ChainKeys(b)
<1>1. GoodChain(c, b) /\ Len(c) \in Nat
  BY LenProperties DEF TypeOK, WellFormed, GoodChain
<1>2. \A n \in 1 .. Len(c) : c[n] \in Entry
  BY <1>1, ElementOfSeq DEF GoodChain
<1>3. \A n \in 1 .. Len(c) : c[n].key \in Keys
  BY <1>2 DEF Entry
<1>4. s \in [1 .. Len(c) -> Keys]
  BY <1>3 DEF ChainKeys
<1>5. s \in Seq(Keys) /\ Len(s) = Len(c)
  BY <1>1, <1>4, IsASeq, LenProperties
<1>6. \A n \in 1 .. Len(c) : s[n] = c[n].key
  BY DEF ChainKeys
<1>7. ASSUME NEW k \in Keys PROVE k \in KeysOf(b) <=> \E n \in 1 .. Len(c) : s[n] = k
  <2>1. hash[k] = b => (k \in KeysIn <=> Matches(c, k) # {})
    BY View DEF ChainOf
  <2>2. Matches(c, k) # {} <=> \E n \in 1 .. Len(c) : s[n] = k
    BY <1>6 DEF Matches
  <2>3. (\E n \in 1 .. Len(c) : s[n] = k) => hash[k] = b
    BY <1>1, <1>6 DEF GoodChain
  <2> QED
    BY <2>1, <2>2, <2>3 DEF KeysOf
<1>8. KeysOf(b) \subseteq Keys
  BY DEF KeysOf, KeysIn
<1>9. DOMAIN s = 1 .. Len(c)
  BY <1>4
<1> HIDE DEF s, c
<1>10. ToSet(s) = KeysOf(b)
  <2>1. \A k \in ToSet(s) : k \in Keys
    BY <1>4, <1>9 DEF ToSet
  <2> QED
    BY <1>7, <1>8, <1>9, <2>1 DEF ToSet
<1>11. s \in Bijection(1 .. Len(c), KeysOf(b))
  <2>1. s \in [1 .. Len(c) -> KeysOf(b)]
    BY <1>4, <1>7
  <2>2. \A m, n \in 1 .. Len(c) : s[m] = s[n] => m = n
    BY <1>1, <1>6 DEF GoodChain
  <2>3. \A k \in KeysOf(b) : \E n \in 1 .. Len(c) : s[n] = k
    BY <1>7, <1>8
  <2> QED
    BY <2>1, <2>2, <2>3 DEF Bijection, Injection, IsInjective, Surjection
<1>12. Cardinality(KeysOf(b)) = Len(c)
  <2>1. IsFiniteSet(1 .. Len(c)) /\ Cardinality(1 .. Len(c)) = Len(c)
    <3>1. ASSUME NEW n \in Nat PROVE IsFiniteSet(1 .. n) /\ Cardinality(1 .. n) = n
      BY FS_Interval
    <3> QED
      BY <1>1, <3>1
  <2>2. ExistsBijection(1 .. Len(c), KeysOf(b))
    BY <1>11 DEF ExistsBijection
  <2> QED
    BY <2>1, <2>2, FS_Bijection
<1> QED
  BY <1>1, <1>5, <1>10, <1>12 DEF s

LEMMA ConcatSet ==
    ASSUME NEW s \in Seq(Keys), NEW t \in Seq(Keys)
    PROVE  ToSet(s \o t) = ToSet(s) \cup ToSet(t)
<1> DEFINE u == s \o t
<1>1. /\ Len(s) \in Nat /\ Len(t) \in Nat /\ u \in Seq(Keys) /\ Len(u) = Len(s) + Len(t)
      /\ \A i \in 1 .. Len(s) + Len(t) : u[i] = IF i <= Len(s) THEN s[i] ELSE t[i - Len(s)]
  BY ConcatProperties, LenProperties
<1>2. DOMAIN s = 1 .. Len(s) /\ DOMAIN t = 1 .. Len(t) /\ DOMAIN u = 1 .. Len(s) + Len(t)
  BY <1>1, LenProperties
<1> HIDE DEF u
<1>3. ASSUME NEW i \in DOMAIN u PROVE u[i] \in ToSet(s) \cup ToSet(t)
  <2>1. CASE i <= Len(s)
    <3>1. i \in DOMAIN s /\ u[i] = s[i]
      BY <1>1, <1>2, <2>1
    <3> QED
      BY <3>1 DEF ToSet
  <2>2. CASE ~ (i <= Len(s))
    <3>1. i - Len(s) \in DOMAIN t /\ u[i] = t[i - Len(s)]
      BY <1>1, <1>2, <2>2
    <3> QED
      BY <3>1 DEF ToSet
  <2> QED
    BY <2>1, <2>2
<1>4. ASSUME NEW i \in DOMAIN s PROVE s[i] \in ToSet(u)
  <2>1. i \in DOMAIN u /\ u[i] = s[i]
    BY <1>1, <1>2
  <2> QED
    BY <2>1 DEF ToSet
<1>5. ASSUME NEW i \in DOMAIN t PROVE t[i] \in ToSet(u)
  <2>1. i + Len(s) \in DOMAIN u /\ u[i + Len(s)] = t[i + Len(s) - Len(s)]
    BY <1>1, <1>2
  <2>2. i + Len(s) - Len(s) = i
    BY <1>1, <1>2
  <2> QED
    BY <2>1, <2>2 DEF ToSet
<1>6. ToSet(u) = ToSet(s) \cup ToSet(t)
  BY <1>3, <1>4, <1>5 DEF ToSet
<1> QED
  BY <1>6 DEF u

(* The array holds the keys of one more bin, or already held them all. *)
LEMMA ScanStep ==
    ASSUME IInv, NEW b \in Bins, NEW f, Scan(f, HASHTABLE_SIZE - 1),
           f[b - 1] \in Seq(Keys), ToSet(f[b - 1]) = KeysUpTo(b - 1),
           Len(f[b - 1]) = Cardinality(KeysUpTo(b - 1))
    PROVE  /\ f[b] \in Seq(Keys) /\ ToSet(f[b]) = KeysUpTo(b)
           /\ Len(f[b]) = Cardinality(KeysUpTo(b))
<1> DEFINE s == f[b - 1]
           t == ChainKeys(b)
<1>1. TypeOK /\ WellFormed /\ count = Cardinality(KeysIn)
  BY DEF IInv, CountMatches
<1>2. b \in 0 .. HASHTABLE_SIZE - 1 /\ HASHTABLE_SIZE \in Nat
  BY HashAssumption DEF Bins
<1>3. \A k \in KeysIn : hash[k] \in Int
  BY HashAssumption DEF KeysIn, Bins
<1>4. f[b] = IF Len(s) < count THEN s \o t ELSE s
  <2>1. b \in -1 .. HASHTABLE_SIZE - 1 /\ b # -1
    BY <1>2
  <2>2. f[b] = Scanned(f, b)
    BY <2>1 DEF Scan
  <2> QED
    BY <2>1, <2>2 DEF Scanned
<1>5. /\ IsFiniteSet(KeysIn) /\ KeysOf(b) \in SUBSET KeysIn
      /\ KeysUpTo(b - 1) \in SUBSET KeysIn /\ KeysUpTo(b) \in SUBSET KeysIn
  BY FiniteKeys DEF KeysOf, KeysUpTo
<1>6. KeysUpTo(b) = KeysUpTo(b - 1) \cup KeysOf(b) /\ KeysUpTo(b - 1) \cap KeysOf(b) = {}
  BY <1>2, <1>3 DEF KeysOf, KeysUpTo
<1>7. CASE Len(s) < count
  <2>1. /\ t \in Seq(Keys) /\ ToSet(t) = KeysOf(b) /\ Cardinality(KeysOf(b)) = Len(t)
    BY <1>1, ChainLists
  <2>2. IsFiniteSet(KeysUpTo(b - 1)) /\ IsFiniteSet(KeysOf(b))
    BY <1>5, FS_Subset
  <2>3. Cardinality(KeysUpTo(b)) = Cardinality(KeysUpTo(b - 1)) + Cardinality(KeysOf(b)) - 0
    BY <1>6, <2>2, FS_Union, FS_EmptySet
  <2>4. Cardinality(KeysUpTo(b - 1)) \in Nat /\ Cardinality(KeysOf(b)) \in Nat
    BY <2>2, FS_CardinalityType
  <2> HIDE DEF s, t
  <2>5. /\ s \in Seq(Keys) /\ ToSet(s) = KeysUpTo(b - 1)
        /\ Len(s) = Cardinality(KeysUpTo(b - 1))
    BY DEF s
  <2>6. /\ s \o t \in Seq(Keys) /\ Len(s \o t) = Len(s) + Len(t)
        /\ ToSet(s \o t) = ToSet(s) \cup ToSet(t)
    BY <2>1, <2>5, ConcatProperties, ConcatSet
  <2> QED
    BY <1>4, <1>6, <1>7, <2>1, <2>3, <2>4, <2>5, <2>6
<1>8. CASE ~ (Len(s) < count)
  <2>1. Cardinality(KeysUpTo(b - 1)) <= Cardinality(KeysIn)
    BY <1>5, FS_Subset
  <2>2. Cardinality(KeysUpTo(b - 1)) \in Nat /\ Cardinality(KeysIn) \in Nat
    BY <1>5, FS_Subset, FS_CardinalityType
  <2>3. Cardinality(KeysIn) = Cardinality(KeysUpTo(b - 1))
    BY <1>1, <1>8, <2>1, <2>2
  <2>4. KeysIn = KeysUpTo(b - 1)
    BY <1>5, <2>3, FS_Subset
  <2>5. KeysUpTo(b) = KeysUpTo(b - 1)
    BY <1>5, <1>6, <2>4
  <2> QED
    BY <1>4, <1>8, <2>5
<1> QED
  BY <1>7, <1>8

LEMMA ScanAll ==
    ASSUME IInv, NEW f, Scan(f, HASHTABLE_SIZE - 1)
    PROVE  /\ Len(f[HASHTABLE_SIZE - 1]) = count
           /\ ToSet(f[HASHTABLE_SIZE - 1]) = KeysIn
<1> DEFINE H == HASHTABLE_SIZE
           Lists(b) == /\ f[b] \in Seq(Keys) /\ ToSet(f[b]) = KeysUpTo(b)
                       /\ Len(f[b]) = Cardinality(KeysUpTo(b))
           Bad == {n \in 0 .. H : ~ Lists(n - 1)}
<1>1. H \in Nat /\ H # 0 /\ \A k \in KeysIn : hash[k] \in 0 .. H - 1
  BY HashAssumption DEF Bins, KeysIn
<1>2. Lists(-1)
  <2>1. f[-1] = <<>>
    BY <1>1 DEF Scan, Scanned
  <2>2. KeysUpTo(-1) = {}
    BY <1>1 DEF KeysUpTo
  <2>3. <<>> \in Seq(Keys) /\ ToSet(<<>>) = {} /\ Len(<<>>) = 0
    BY DEF ToSet
  <2> QED
    BY <2>1, <2>2, <2>3, FS_EmptySet
<1>3. ASSUME NEW b \in 0 .. H - 1, Lists(b - 1) PROVE Lists(b)
  BY <1>3, ScanStep DEF Bins
<1> HIDE DEF Lists
<1>4. Bad = {}
  <2> SUFFICES ASSUME Bad # {} PROVE FALSE
    OBVIOUS
  <2>1. PICK n \in Bad : \A m \in Bad : n <= m
    <3>1. Bad \in SUBSET Nat
      BY <1>1
    <3> HIDE DEF Bad
    <3> QED
      BY <3>1, LeastBad
  <2>2. CASE n = 0
    BY <1>2, <2>2
  <2>3. CASE n # 0
    <3>1. n - 1 \in 0 .. H /\ n - 1 \notin Bad /\ n - 1 \in 0 .. H - 1
      BY <1>1, <2>1, <2>3
    <3>2. Lists(n - 1 - 1)
      BY <3>1
    <3> QED
      BY <1>3, <3>1, <3>2
  <2> QED
    BY <2>2, <2>3
<1>5. H \in 0 .. H /\ H \notin Bad
  BY <1>1, <1>4
<1>6. Lists(H - 1)
  BY <1>5
<1>7. KeysUpTo(H - 1) = KeysIn
  BY <1>1 DEF KeysUpTo
<1> QED
  BY <1>6, <1>7 DEF Lists, IInv, CountMatches

LEMMA ListsAll == IInv => KeyArray
BY AllKeysScan, ScanAll DEF KeyArray

(* ht_getAllKeys fills exactly the count pointers it allocated, with every *)
(* key stored, although the copy of a chain never looks at the limit: when *)
(* the limit is reached, every key is in the array, and before that the    *)
(* chain still fits.                                                       *)
THEOREM KeyArrayCorrect == Spec => []KeyArray
BY ListsAll, Inductive, PTL

----------------------------------------------------------------------------
(* Who owns the blocks.                                                    *)

(* Ownership, of a map m whose keys are K, the blocks a and the blocks h.  *)
Owned(m, K, a, h) ==
    /\ a = ({m[k] : k \in K} \ {NULL}) \cup h
    /\ {m[k] : k \in K} \cap h = {}
    /\ \A k, l \in K : k # l /\ m[k] # NULL => m[k] # m[l]

LEMMA LookupIs == ASSUME NEW k \in KeysIn PROVE mapOf[k] = Lookup(k)
BY DEF mapOf, KeysIn

LEMMA StoredIs == ASSUME TypeOK, WellFormed PROVE StoredValues = {mapOf[k] : k \in KeysIn}
<1>1. \A b \in Bins : GoodChain(table[b], b)
  BY DEF TypeOK, WellFormed, GoodChain
<1>2. ASSUME NEW b \in Bins, NEW n \in 1 .. Len(table[b])
      PROVE  \E k \in KeysIn : table[b][n].value = mapOf[k]
  <2> DEFINE k == table[b][n].key
  <2>1. table[b][n] \in Entry
    BY <1>1, ElementOfSeq DEF GoodChain
  <2>2. k \in Keys /\ hash[k] = b
    BY <1>1, <2>1 DEF Entry, GoodChain
  <2>3. ValueIn(table[b], k) = table[b][n].value
    BY <1>1, EntryValue
  <2>4. n \in Matches(table[b], k)
    BY DEF Matches
  <2> HIDE DEF k
  <2>5. k \in KeysIn /\ mapOf[k] = table[b][n].value
    BY <2>2, <2>3, <2>4, View DEF ChainOf
  <2> QED
    BY <2>5
<1>3. ASSUME NEW k \in KeysIn
      PROVE  \E b \in Bins : \E n \in 1 .. Len(table[b]) : mapOf[k] = table[b][n].value
  <2>1. k \in Keys
    BY DEF KeysIn
  <2>2. /\ hash[k] \in Bins /\ GoodChain(ChainOf(k), hash[k])
        /\ Matches(ChainOf(k), k) # {} /\ mapOf[k] = ValueIn(ChainOf(k), k)
    BY <2>1, View
  <2>3. PICK n \in 1 .. Len(ChainOf(k)) : ValueIn(ChainOf(k), k) = ChainOf(k)[n].value
    BY <2>2, NoMatch
  <2> QED
    BY <2>2, <2>3 DEF ChainOf
<1>4. \A x : x \in StoredValues <=>
                 \E b \in Bins : \E n \in 1 .. Len(table[b]) : x = table[b][n].value
  BY DEF StoredValues
<1>5. \A x : x \in StoredValues <=> \E k \in KeysIn : x = mapOf[k]
  BY <1>2, <1>3, <1>4
<1> QED
  BY <1>5

LEMMA KeysAre == TypeOK /\ WellFormed => KeysIn = {k \in Keys : mapOf[k] # "absent"}
<1> SUFFICES ASSUME TypeOK, WellFormed PROVE KeysIn = {k \in Keys : mapOf[k] # "absent"}
  OBVIOUS
<1>1. \A k \in Keys : k \in KeysIn <=> mapOf[k] # "absent"
  BY View
<1>2. KeysIn \subseteq Keys
  BY DEF KeysIn
<1> QED
  BY <1>1, <1>2

LEMMA OwnershipIs ==
    TypeOK /\ WellFormed => (Ownership <=> Owned(mapOf, KeysIn, live, held))
<1> SUFFICES ASSUME TypeOK, WellFormed
             PROVE  Ownership <=> Owned(mapOf, KeysIn, live, held)
  OBVIOUS
<1>1. StoredValues = {mapOf[k] : k \in KeysIn}
  BY StoredIs
<1>2. \A k \in KeysIn : mapOf[k] = Lookup(k)
  BY LookupIs
<1> QED
  BY <1>1, <1>2 DEF Ownership, Owned

(* A block fresh from malloc replaces one that is freed, or is added. *)
LEMMA PutOwned ==
    ASSUME NEW K \in SUBSET Keys, NEW m, DOMAIN m = Keys, NEW a \in SUBSET Values,
           NEW h \in SUBSET Values, Owned(m, K, a, h), NEW k \in Keys,
           NEW v \in (Values \ a) \cup {NULL}
    PROVE  Owned([m EXCEPT ![k] = v], K \cup {k},
                 ((IF k \in K THEN a \ {m[k]} ELSE a) \cup {v}) \ {NULL}, h)
<1> DEFINE w == [m EXCEPT ![k] = v]
           L == K \cup {k}
           d == ((IF k \in K THEN a \ {m[k]} ELSE a) \cup {v}) \ {NULL}
           S == {m[l] : l \in K}
           T == {w[l] : l \in L}
<1>1. NULL \notin Values
  BY NullAssumption
<1>2. w[k] = v /\ \A l \in Keys : l # k => w[l] = m[l]
  OBVIOUS
<1>3. \A x : x \in T <=> (x = v \/ \E l \in K \ {k} : x = m[l])
  BY <1>2
<1>4. a = (S \ {NULL}) \cup h /\ S \cap h = {}
  BY DEF Owned
<1>5. \A l \in K : m[l] # NULL => m[l] \in a
  BY <1>4
<1>6. \A i, l \in K : i # l /\ m[i] # NULL => m[i] # m[l]
  BY DEF Owned
<1>7. \A x : x \in S <=> \E l \in K : x = m[l]
  OBVIOUS
<1> HIDE DEF w, S, T
<1>8. v \notin h /\ (v # NULL => v \notin a)
  BY <1>1, <1>4
<1>9. T \cap h = {}
  BY <1>3, <1>4, <1>7, <1>8
<1>10. ASSUME NEW x PROVE x \in d <=> (x \in T /\ x # NULL) \/ x \in h
  <2>1. x \in h => x # NULL
    BY <1>1
  <2>2. CASE k \in K
    <3>1. x \in d <=> ((x \in a /\ x # m[k]) \/ x = v) /\ x # NULL
      BY <2>2
    <3>2. x \in a <=> ((\E l \in K : x = m[l]) /\ x # NULL) \/ x \in h
      BY <1>4, <1>7
    <3>3. m[k] \notin h
      BY <1>4, <1>7, <2>2
    <3>4. x # NULL => ((\E l \in K : x = m[l]) /\ x # m[k] <=> \E l \in K \ {k} : x = m[l])
      BY <1>6, <2>2
    <3> HIDE DEF d
    <3> QED
      BY <1>3, <2>1, <3>1, <3>2, <3>3, <3>4
  <2>3. CASE k \notin K
    <3>1. x \in d <=> (x \in a \/ x = v) /\ x # NULL
      BY <2>3
    <3>2. x \in a <=> ((\E l \in K : x = m[l]) /\ x # NULL) \/ x \in h
      BY <1>4, <1>7
    <3>3. K \ {k} = K
      BY <2>3
    <3> HIDE DEF d
    <3> QED
      BY <1>3, <2>1, <3>1, <3>2, <3>3
  <2> QED
    BY <2>2, <2>3
<1>11. d = (T \ {NULL}) \cup h
  BY <1>10
<1>12. ASSUME NEW i \in L, NEW l \in L, i # l, w[i] # NULL PROVE w[i] # w[l]
  BY <1>2, <1>5, <1>6, <1>8, <1>12
<1> QED
  BY <1>9, <1>11, <1>12 DEF Owned, T

(* An entry's block goes to the client. *)
LEMMA RemoveOwned ==
    ASSUME NEW K \in SUBSET Keys, NEW m, DOMAIN m = Keys, NEW a \in SUBSET Values,
           NEW h \in SUBSET Values, Owned(m, K, a, h), NEW k \in K
    PROVE  Owned([m EXCEPT ![k] = "absent"], K \ {k}, a, (h \cup {m[k]}) \ {NULL})
<1> DEFINE w == [m EXCEPT ![k] = "absent"]
           L == K \ {k}
           g == (h \cup {m[k]}) \ {NULL}
           S == {m[l] : l \in K}
           T == {w[l] : l \in L}
<1>1. NULL \notin Values
  BY NullAssumption
<1>2. \A l \in L : w[l] = m[l]
  OBVIOUS
<1>3. \A x : x \in T <=> \E l \in L : x = m[l]
  BY <1>2
<1>4. a = (S \ {NULL}) \cup h /\ S \cap h = {}
  BY DEF Owned
<1>5. \A x : x \in S <=> (x = m[k] \/ \E l \in L : x = m[l])
  OBVIOUS
<1>6. \A i, l \in K : i # l /\ m[i] # NULL => m[i] # m[l]
  BY DEF Owned
<1> HIDE DEF w, S, T
<1>7. a = (T \ {NULL}) \cup g
  BY <1>1, <1>3, <1>4, <1>5
<1>8. T \cap g = {}
  BY <1>3, <1>4, <1>5, <1>6
<1>9. ASSUME NEW i \in L, NEW l \in L, i # l, w[i] # NULL PROVE w[i] # w[l]
  BY <1>2, <1>6, <1>9
<1> QED
  BY <1>7, <1>8, <1>9 DEF Owned, T

LEMMA InitOwned == Init => Ownership
BY DEF Init, Ownership, StoredValues, KeysIn, Matches

(* Where the invariant holds, before and after a step, the blocks are owned *)
(* as the map says.                                                        *)
LEMMA Before ==
    ASSUME IInv
    PROVE  /\ TypeOK /\ WellFormed /\ live \in SUBSET Values /\ held \in SUBSET Values
           /\ KeysIn = {k \in Keys : mapOf[k] # "absent"} /\ DOMAIN mapOf = Keys
           /\ Ownership <=> Owned(mapOf, KeysIn, live, held)
BY KeysAre, OwnershipIs DEF IInv, TypeOK, mapOf

LEMMA After ==
    ASSUME IInv'
    PROVE  /\ KeysIn' = {k \in Keys : mapOf'[k] # "absent"}
           /\ Ownership' <=> Owned(mapOf', KeysIn', live', held')
<1>1. TypeOK' /\ WellFormed'
  BY DEF IInv
<1>2. (TypeOK /\ WellFormed => KeysIn = {k \in Keys : mapOf[k] # "absent"})'
  BY KeysAre, PTL
<1>3. (TypeOK /\ WellFormed => (Ownership <=> Owned(mapOf, KeysIn, live, held)))'
  BY OwnershipIs, PTL
<1>4. KeysIn' = {k \in Keys : mapOf'[k] # "absent"}
  BY <1>1, <1>2
<1>5. Ownership' <=> Owned(mapOf', KeysIn', live', held')
  BY <1>1, <1>3
<1> QED
  BY <1>4, <1>5

LEMMA SetOwned ==
    ASSUME IInv, Ownership, NEW k \in Keys, Set(k)
    PROVE  Ownership'
<1>1. PICK v \in (Values \ live) \cup {NULL} : ht_set(k, v)
  BY DEF Set
<1>2. IInv' /\ mapOf' = [mapOf EXCEPT ![k] = v]
  BY <1>1, SetStep, Before DEF KM!Put
<1>3. v # "absent"
  BY NullAssumption
<1>4. KeysIn' = KeysIn \cup {k}
  BY <1>2, <1>3, Before, After
<1>5. /\ held' = held
      /\ live' = ((IF k \in KeysIn THEN live \ {mapOf[k]} ELSE live) \cup {v}) \ {NULL}
  <2>1. (k \in KeysIn <=> Matches(ChainOf(k), k) # {}) /\ mapOf[k] = ValueIn(ChainOf(k), k)
    BY Before, View
  <2> QED
    BY <1>1, <2>1 DEF ht_set, ValueIn, ChainOf
<1>6. KeysIn \in SUBSET Keys
  BY DEF KeysIn
<1>7. Owned(mapOf', KeysIn', live', held')
  BY <1>2, <1>4, <1>5, <1>6, Before, PutOwned
<1> QED
  BY <1>2, <1>7, After

(* A step that leaves the table leaves what is stored. *)
LEMMA SameTable ==
    ASSUME UNCHANGED table
    PROVE  /\ StoredValues' = StoredValues /\ KeysIn' = KeysIn
           /\ \A k \in KeysIn : Lookup(k)' = Lookup(k)
BY DEF StoredValues, KeysIn, Lookup, ChainOf

LEMMA SameOwner ==
    ASSUME Ownership, UNCHANGED <<table, live, held>>
    PROVE  Ownership'
<1>1. /\ StoredValues' = StoredValues /\ KeysIn' = KeysIn
      /\ \A k \in KeysIn : Lookup(k)' = Lookup(k)
  BY SameTable
<1>2. \A k, l \in KeysIn : k # l /\ Lookup(k)' # NULL => Lookup(k)' # Lookup(l)'
  BY <1>1 DEF Ownership
<1>3. live' = (StoredValues' \ {NULL}) \cup held' /\ StoredValues' \cap held' = {}
  BY <1>1 DEF Ownership
<1> QED
  BY <1>1, <1>2, <1>3 DEF Ownership

LEMMA RemoveOwner ==
    ASSUME IInv, Ownership, NEW k \in Keys, ht_freePairEntry(k)
    PROVE  Ownership'
<1>1. IInv' /\ KM!Remove(k)
  BY RemoveStep
<1>2. mapOf' = [mapOf EXCEPT ![k] = "absent"]
      /\ ret' = IF mapOf[k] = "absent" THEN NULL ELSE mapOf[k]
  BY <1>1 DEF KM!Remove, KM!Read, KM!Absent
<1>3. KeysIn \in SUBSET Keys
  BY DEF KeysIn
<1>4. k \in KeysIn <=> \E b \in Bins : Matches(table[b], k) # {}
  BY DEF KeysIn
<1>5. CASE k \in KeysIn
  <2>1. live' = live /\ held' = (held \cup {ret'}) \ {NULL}
    BY <1>4, <1>5 DEF ht_freePairEntry
  <2>2. ret' = mapOf[k] /\ KeysIn' = KeysIn \ {k}
    BY <1>1, <1>2, <1>5, Before, After
  <2>3. Owned(mapOf', KeysIn', live', held')
    BY <1>2, <1>3, <1>5, <2>1, <2>2, Before, RemoveOwned
  <2> QED
    BY <1>1, <2>3, After
<1>6. CASE k \notin KeysIn
  <2>1. UNCHANGED <<table, count, live, held>>
    BY <1>4, <1>6 DEF ht_freePairEntry
  <2> QED
    BY <2>1, SameOwner
<1> QED
  BY <1>5, <1>6

(* The client frees a block, or ZC_Finalize frees what the keys listed     *)
(* hold: the clients still hold theirs.                                    *)
LEMMA FreeOwned ==
    ASSUME IInv, Ownership, FreeReturned
    PROVE  Ownership'
<1>1. PICK v \in held : held' = held \ {v} /\ live' = live \ {v}
  BY DEF FreeReturned
<1>2. UNCHANGED <<table, count, ret>>
  BY DEF FreeReturned
<1>3. /\ StoredValues' = StoredValues /\ KeysIn' = KeysIn
      /\ \A k \in KeysIn : Lookup(k)' = Lookup(k)
  BY <1>2, SameTable
<1>4. \A k, l \in KeysIn : k # l /\ Lookup(k)' # NULL => Lookup(k)' # Lookup(l)'
  BY <1>3 DEF Ownership
<1>5. live' = (StoredValues' \ {NULL}) \cup held' /\ StoredValues' \cap held' = {}
  BY <1>1, <1>3 DEF Ownership
<1> QED
  BY <1>3, <1>4, <1>5 DEF Ownership

LEMMA DestroyOwned ==
    ASSUME IInv, Ownership, Destroy
    PROVE  Ownership'
<1>1. ToSet(AllKeys) = KeysIn
  BY ListsAll DEF KeyArray
<1>2. live' = live \ {Lookup(k) : k \in KeysIn} /\ held' = held
  BY <1>1 DEF Destroy
<1>3. StoredValues = {Lookup(k) : k \in KeysIn}
  BY Before, StoredIs, LookupIs
<1>4. held \subseteq Values /\ NULL \notin Values
  BY Before, NullAssumption
<1>5. live' = held'
  BY <1>2, <1>3, <1>4 DEF Ownership
<1>6. KeysIn' = {} /\ StoredValues' = {}
  BY DEF Destroy, KeysIn, StoredValues, Matches
<1> QED
  BY <1>5, <1>6 DEF Ownership

LEMMA OwnershipKept ==
    ASSUME IInv, Ownership, [Next]_vars
    PROVE  Ownership'
<1>1. ASSUME NEW k \in Keys, ht_get(k) PROVE Ownership'
  BY <1>1, SameOwner DEF ht_get
<1>2. CASE UNCHANGED vars
  BY <1>2, SameOwner DEF vars
<1> QED
  BY <1>1, <1>2, SetOwned, RemoveOwner, FreeOwned, DestroyOwned DEF Next

(* However the calls interleave, each block that is allocated belongs to   *)
(* one entry or to the client it was handed to, and no entry points to a   *)
(* freed block: ht_set frees what it replaces, freeDataProperty what it    *)
(* took out, and ZC_Finalize the rest, because ht_getAllKeys lists all.    *)
THEOREM OwnershipCorrect == Spec => []Ownership
BY InitOwned, OwnershipKept, Inductive, PTL DEF Spec
=============================================================================
