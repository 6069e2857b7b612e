------------------------------ MODULE HashTable ------------------------------
(***************************************************************************)
(* The chained hash table of zc/src/ZC_Hashtable.c, as ecPropertyTable and *)
(* ecCompareDataTable use it.  One action is one call of an ht_ function;  *)
(* the two clients that free what the table holds, freeDataProperty /      *)
(* freeCompareResult and ZC_Finalize, are the actions FreeReturned and     *)
(* Destroy.                                                                *)
(*                                                                         *)
(* Stored values are heap blocks.  live is the set of blocks allocated and *)
(* not yet freed, so that a leak or a dangling pointer shows in the state. *)
(***************************************************************************)
EXTENDS Integers, Sequences, FiniteSets, SequencesExt

CONSTANTS
    Keys,           \* variable names or case names
    Values,         \* addresses malloc can return
    NULL,
    HASHTABLE_SIZE, \* capacity of the two tables, and the number of bins
                    \* ht_freePairEntry scans
    hash            \* ht_hash: any function from keys to bins

Bins == 0 .. HASHTABLE_SIZE - 1

ASSUME KeysAssumption == IsFiniteSet(Keys)
ASSUME NullAssumption == NULL \notin Values \cup {"absent"} /\ "absent" \notin Values
ASSUME HashAssumption == HASHTABLE_SIZE \in Nat \ {0} /\ hash \in [Keys -> Bins]

VARIABLES
    table,  \* bin -> chain of entries [key, value], the head first
    count,  \* hashtable->count
    live,   \* blocks allocated and not freed
    held,   \* blocks ht_freePairEntry handed back, not freed yet
    ret     \* pointer returned by the last ht_get or ht_freePairEntry

vars == <<table, count, live, held, ret>>

Entry == [key : Keys, value : Values \cup {NULL}]

(* The positions of a chain where strcmp finds k, and the first of them.   *)
Matches(c, k) == {n \in 1 .. Len(c) : c[n].key = k}
FirstMatch(c, k) ==
    CHOOSE n \in Matches(c, k) : \A m \in Matches(c, k) : n <= m

ChainOf(k) == table[hash[k]]

(* What ht_get returns for k. *)
Lookup(k) ==
    IF Matches(ChainOf(k), k) = {} THEN NULL
    ELSE ChainOf(k)[FirstMatch(ChainOf(k), k)].value

KeysIn == {k \in Keys : \E b \in Bins : Matches(table[b], k) # {}}
StoredValues ==
    UNION {{table[b][n].value : n \in 1 .. Len(table[b])} : b \in Bins}

(* ht_getAllKeys: the chains of the bins in order, until count keys are    *)
(* written.  Only the loop over the bins tests the limit.                  *)
AllKeys ==
    LET chainKeys(b) == [n \in 1 .. Len(table[b]) |-> table[b][n].key]
        upTo[b \in -1 .. HASHTABLE_SIZE - 1] ==
            IF b = -1 THEN <<>>
            ELSE IF Len(upTo[b - 1]) < count
                 THEN upTo[b - 1] \o chainKeys(b)
                 ELSE upTo[b - 1]
    IN  upTo[HASHTABLE_SIZE - 1]

----------------------------------------------------------------------------
(* ht_create *)
Init ==
    /\ table = [b \in Bins |-> <<>>]
    /\ count = 0
    /\ live = {} /\ held = {} /\ ret = NULL

(* Mutants of ht_set: the replaced value is not freed; a new entry starts  *)
(* the chain over; only the head of the chain is compared with the key.    *)
ht_set_NoFree(k, v) ==
    LET b == hash[k]
        n == FirstMatch(table[b], k)
    IN  /\ IF Matches(table[b], k) # {}
           THEN /\ table' = [table EXCEPT ![b][n].value = v]
                /\ live' = (live \cup {v}) \ {NULL}
                /\ UNCHANGED count
           ELSE /\ table' = [table EXCEPT ![b] = Append(@, [key |-> k, value |-> v])]
                /\ live' = (live \cup {v}) \ {NULL}
                /\ count' = count + 1
        /\ UNCHANGED <<held, ret>>
ht_set_DropChain(k, v) ==
    LET b == hash[k]
        n == FirstMatch(table[b], k)
    IN  /\ IF Matches(table[b], k) # {}
           THEN /\ table' = [table EXCEPT ![b][n].value = v]
                /\ live' = ((live \ {table[b][n].value}) \cup {v}) \ {NULL}
                /\ UNCHANGED count
           ELSE /\ table' = [table EXCEPT ![b] = <<[key |-> k, value |-> v]>>]
                /\ live' = (live \cup {v}) \ {NULL}
                /\ count' = count + 1
        /\ UNCHANGED <<held, ret>>
ht_set_HeadOnly(k, v) ==
    LET b == hash[k]
    IN  /\ IF 1 \in Matches(table[b], k)
           THEN /\ table' = [table EXCEPT ![b][1].value = v]
                /\ live' = ((live \ {table[b][1].value}) \cup {v}) \ {NULL}
                /\ UNCHANGED count
           ELSE /\ table' = [table EXCEPT ![b] = Append(@, [key |-> k, value |-> v])]
                /\ live' = (live \cup {v}) \ {NULL}
                /\ count' = count + 1
        /\ UNCHANGED <<held, ret>>

(* ht_set with a value fresh from malloc, or NULL: the value of an entry   *)
(* with this key is freed and replaced, else an entry is appended.         *)
ht_set(k, v) ==
    LET b == hash[k]
        n == FirstMatch(table[b], k)
    IN  /\ IF Matches(table[b], k) # {}
           THEN /\ table' = [table EXCEPT ![b][n].value = v]
                /\ live' = ((live \ {table[b][n].value}) \cup {v}) \ {NULL}
                /\ UNCHANGED count
           ELSE /\ table' = [table EXCEPT ![b] = Append(@, [key |-> k, value |-> v])]
                /\ live' = (live \cup {v}) \ {NULL}
                /\ count' = count + 1
        /\ UNCHANGED <<held, ret>>

Set(k) == \E v \in (Values \ live) \cup {NULL} : ht_set(k, v)

ht_get(k) ==
    /\ ret' = Lookup(k)
    /\ UNCHANGED <<table, count, live, held>>

(* Mutant of ht_freePairEntry: the chain is cut after the entry that is    *)
(* removed.                                                                *)
ht_freePairEntry_CutTail(k) ==
    LET found == {b \in Bins : Matches(table[b], k) # {}}
        b == CHOOSE x \in found : \A y \in found : x <= y
        n == FirstMatch(table[b], k)
    IN  IF found = {}
        THEN ret' = NULL /\ UNCHANGED <<table, count, live, held>>
        ELSE /\ ret' = table[b][n].value
             /\ held' = (held \cup {ret'}) \ {NULL}
             /\ table' = [table EXCEPT ![b] = SubSeq(@, 1, n - 1)]
             /\ count' = count - 1
             /\ UNCHANGED live

(* ht_freePairEntry: scans every bin for the first entry with the key,     *)
(* unlinks it and returns its value.                                       *)
ht_freePairEntry(k) ==
    LET found == {b \in Bins : Matches(table[b], k) # {}}
        b == CHOOSE x \in found : \A y \in found : x <= y
        n == FirstMatch(table[b], k)
    IN  IF found = {}
        THEN ret' = NULL /\ UNCHANGED <<table, count, live, held>>
        ELSE /\ ret' = table[b][n].value
             /\ held' = (held \cup {ret'}) \ {NULL}
             /\ table' = [table EXCEPT ![b] = RemoveAt(@, n)]
             /\ count' = count - 1
             /\ UNCHANGED live

(* freeDataProperty / freeCompareResult free what they were handed. *)
FreeReturned ==
    \E v \in held :
        /\ held' = held \ {v} /\ live' = live \ {v}
        /\ UNCHANGED <<table, count, ret>>

(* ZC_Finalize frees the value of each key ht_getAllKeys lists, then calls *)
(* ht_freeTable; ZC_Init creates an empty table again.                     *)
Destroy ==
    /\ live' = live \ {Lookup(k) : k \in ToSet(AllKeys)}
    /\ table' = [b \in Bins |-> <<>>]
    /\ count' = 0
    /\ UNCHANGED <<held, ret>>

Next ==
    \/ \E k \in Keys : Set(k) \/ ht_get(k) \/ ht_freePairEntry(k)
    \/ FreeReturned
    \/ Destroy

Spec == Init /\ [][Next]_vars

----------------------------------------------------------------------------
TypeOK ==
    /\ table \in [Bins -> Seq(Entry)]
    /\ count \in Nat
    /\ live \subseteq Values
    /\ held \subseteq Values
    /\ ret \in Values \cup {NULL}

(* However calls of ht_set and ht_freePairEntry alternate on colliding     *)
(* keys, an entry is in the chain of its own bin, where ht_get looks for   *)
(* it, and no chain holds a key twice.                                     *)
WellFormed ==
    \A b \in Bins :
        /\ \A n \in 1 .. Len(table[b]) : hash[table[b][n].key] = b
        /\ \A m, n \in 1 .. Len(table[b]) :
               table[b][m].key = table[b][n].key => m = n

(* hashtable->count, by which every caller allocates and walks the array   *)
(* of ht_getAllKeys, is the number of keys stored.                         *)
CountMatches == count = Cardinality(KeysIn)

(* Each allocated block has one owner, an entry or the client that removed *)
(* it, and no entry points to a freed block: ht_set and ZC_Finalize free   *)
(* each block once.                                                        *)
Ownership ==
    /\ live = (StoredValues \ {NULL}) \cup held
    /\ StoredValues \cap held = {}
    /\ \A k, l \in KeysIn : k # l /\ Lookup(k) # NULL => Lookup(k) # Lookup(l)

(* ht_getAllKeys fills exactly the count pointers it allocated, each key   *)
(* once, although its inner loop never compares j with count.              *)
KeyArray ==
    /\ Len(AllKeys) = count
    /\ ToSet(AllKeys) = KeysIn

(* The table implements the map it stands for. *)
mapOf == [k \in Keys |-> IF k \in KeysIn THEN Lookup(k) ELSE "absent"]
KM == INSTANCE KeyMap WITH map <- mapOf
ImplementsKeyMap == KM!Spec
=============================================================================
