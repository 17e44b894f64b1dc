--------------------------- MODULE DictionaryProofs ---------------------------
(***************************************************************************)
(* Theorems about Dictionary, for any keys, values and slots and any hash. *)
(***************************************************************************)
EXTENDS Dictionary, FiniteSetTheorems, TLAPS

-----------------------------------------------------------------------------
(* One chain, and what a search in it finds after it was changed *)

\* The places where k is found in chain c, the first of them, and the entry.
HitsIn(c, k) == {i \in DOMAIN c : c[i].key = k}
FirstIn(c, k) == CHOOSE i \in HitsIn(c, k) : \A j \in HitsIn(c, k) : i <= j
EntryIn(c, k) == c[FirstIn(c, k)]

\* A key is in the chain at most once.
Once(c) == \A i, j \in DOMAIN c : c[i].key = c[j].key => i = j

\* A search finds an entry where it looked.
LEMMA FirstIsHit ==
    ASSUME NEW c \in Seq(Entry), NEW k, Once(c), HitsIn(c, k) # {}
    PROVE  /\ FirstIn(c, k) \in 1 .. Len(c)
           /\ c[FirstIn(c, k)].key = k
           /\ HitsIn(c, k) = {FirstIn(c, k)}
<1>1. PICK p \in HitsIn(c, k) : TRUE
    OBVIOUS
<1>2. HitsIn(c, k) = {p}
    BY <1>1 DEF HitsIn, Once
<1>3. p \in Nat
    BY <1>1 DEF HitsIn
<1>4. FirstIn(c, k) = p
    BY <1>2, <1>3 DEF FirstIn
<1> QED
    BY <1>1, <1>2, <1>4 DEF HitsIn

\* The only place with the key is the first.
LEMMA OnlyHit ==
    ASSUME NEW c \in Seq(Entry), NEW i \in 1 .. Len(c), Once(c)
    PROVE  HitsIn(c, c[i].key) = {i} /\ FirstIn(c, c[i].key) = i
<1>1. HitsIn(c, c[i].key) = {i}
    BY DEF HitsIn, Once
<1> QED
    BY <1>1, FirstIsHit

\* dictionary_set on a chain.
Stored(c, k, e) ==
    IF HitsIn(c, k) # {} THEN [c EXCEPT ![FirstIn(c, k)] = e] ELSE Append(c, e)

\* It adds or changes the entry of its key and no other.
LEMMA StoredFinds ==
    ASSUME NEW c \in Seq(Entry), NEW k \in Keys, NEW e \in Entry, e.key = k,
           Once(c)
    PROVE  /\ Stored(c, k, e) \in Seq(Entry) /\ Once(Stored(c, k, e))
           /\ HitsIn(Stored(c, k, e), k) # {}
           /\ EntryIn(Stored(c, k, e), k) = e
           /\ \A j \in Keys \ {k} :
                 /\ HitsIn(Stored(c, k, e), j) # {} <=> HitsIn(c, j) # {}
                 /\ HitsIn(c, j) # {}
                       => EntryIn(Stored(c, k, e), j) = EntryIn(c, j)
<1> DEFINE d == Stored(c, k, e)
           p == FirstIn(c, k)
<1>1. CASE HitsIn(c, k) # {}
    <2>1. p \in 1 .. Len(c) /\ c[p].key = k /\ HitsIn(c, k) = {p}
        BY <1>1, FirstIsHit
    <2>2. d = [c EXCEPT ![p] = e]
        BY <1>1 DEF Stored
    <2> HIDE DEF d, p
    <2>3. d \in Seq(Entry) /\ Len(d) = Len(c) /\ d[p] = e
          /\ \A i \in 1 .. Len(c) : i # p => d[i] = c[i]
        BY <2>1, <2>2
    <2>4. \A i \in 1 .. Len(c) : d[i].key = c[i].key
        BY <2>1, <2>3
    <2>5. Once(d)
        BY <2>3, <2>4 DEF Once
    <2>6. \A j : HitsIn(d, j) = HitsIn(c, j)
        BY <2>3, <2>4 DEF HitsIn
    <2>7. \A j : FirstIn(d, j) = FirstIn(c, j)
        BY <2>6 DEF FirstIn
    <2>8. EntryIn(d, k) = e
        BY <2>7, <2>3 DEF EntryIn, p
    <2>9. ASSUME NEW j \in Keys \ {k}, HitsIn(c, j) # {}
          PROVE  EntryIn(d, j) = EntryIn(c, j)
        <3>1. FirstIn(c, j) \in 1 .. Len(c) /\ c[FirstIn(c, j)].key = j
            BY <2>9, FirstIsHit
        <3> QED
            BY <3>1, <2>1, <2>3, <2>7 DEF EntryIn
    <2> QED
        BY <1>1, <2>3, <2>5, <2>6, <2>8, <2>9 DEF d
<1>2. CASE HitsIn(c, k) = {}
    <2>1. d = Append(c, e)
        BY <1>2 DEF Stored
    <2> HIDE DEF d, p
    <2>2. d \in Seq(Entry) /\ Len(d) = Len(c) + 1 /\ d[Len(c) + 1] = e
          /\ \A i \in 1 .. Len(c) : d[i] = c[i]
        BY <2>1
    <2>3. \A i \in 1 .. Len(c) : c[i].key # k
        BY <1>2 DEF HitsIn
    <2>4. Once(d)
        BY <2>2, <2>3 DEF Once
    <2>5. HitsIn(d, k) # {} /\ EntryIn(d, k) = e
        <3>1. Len(c) + 1 \in 1 .. Len(d)
            BY <2>2
        <3>2. FirstIn(d, d[Len(c) + 1].key) = Len(c) + 1
              /\ HitsIn(d, d[Len(c) + 1].key) = {Len(c) + 1}
            BY <3>1, <2>2, <2>4, OnlyHit
        <3> QED
            BY <3>2, <2>2 DEF EntryIn
    <2>6. ASSUME NEW j \in Keys \ {k}
          PROVE  HitsIn(d, j) = HitsIn(c, j)
        BY <2>2 DEF HitsIn
    <2>7. ASSUME NEW j \in Keys \ {k}, HitsIn(c, j) # {}
          PROVE  EntryIn(d, j) = EntryIn(c, j)
        <3>1. FirstIn(c, j) \in 1 .. Len(c)
            BY <2>7, FirstIsHit
        <3>2. FirstIn(d, j) = FirstIn(c, j)
            BY <2>6 DEF FirstIn
        <3> QED
            BY <3>1, <3>2, <2>2 DEF EntryIn
    <2> QED
        BY <2>2, <2>4, <2>5, <2>6, <2>7 DEF d
<1> QED
    BY <1>1, <1>2

\* dictionary_remove on a chain.
Cut(c, k) ==
    [i \in 1 .. Len(c) - 1 |-> IF i < FirstIn(c, k) THEN c[i] ELSE c[i + 1]]

\* It takes the entry of its key away and no other.
LEMMA CutFinds ==
    ASSUME NEW c \in Seq(Entry), NEW k \in Keys, HitsIn(c, k) # {}, Once(c)
    PROVE  /\ Cut(c, k) \in Seq(Entry) /\ Once(Cut(c, k))
           /\ HitsIn(Cut(c, k), k) = {}
           /\ \A j \in Keys \ {k} :
                 /\ HitsIn(Cut(c, k), j) # {} <=> HitsIn(c, j) # {}
                 /\ HitsIn(c, j) # {}
                       => EntryIn(Cut(c, k), j) = EntryIn(c, j)
<1> DEFINE d == Cut(c, k)
           p == FirstIn(c, k)
<1>1. p \in 1 .. Len(c) /\ c[p].key = k /\ HitsIn(c, k) = {p}
    BY FirstIsHit
<1>2. d = [i \in 1 .. Len(c) - 1 |-> IF i < p THEN c[i] ELSE c[i + 1]]
    BY DEF Cut
<1> HIDE DEF d, p
<1>3. d \in Seq(Entry) /\ Len(d) = Len(c) - 1
    <2>1. \A i \in 1 .. Len(c) - 1 :
             (IF i < p THEN c[i] ELSE c[i + 1]) \in Entry
        BY <1>1
    <2> QED
        BY <1>1, <1>2, <2>1
<1> DEFINE From(i) == IF i < p THEN i ELSE i + 1
<1>4. \A i \in 1 .. Len(d) :
         From(i) \in 1 .. Len(c) /\ From(i) # p /\ d[i] = c[From(i)]
    BY <1>1, <1>2, <1>3
<1>5. Once(d)
    <2>1. \A i, j \in 1 .. Len(d) : From(i) = From(j) => i = j
        BY <1>1, <1>3
    <2> HIDE DEF From
    <2>2. SUFFICES ASSUME NEW i \in 1 .. Len(d), NEW j \in 1 .. Len(d),
                          d[i].key = d[j].key
                   PROVE  i = j
        BY <1>3 DEF Once
    <2>3. /\ From(i) \in DOMAIN c /\ From(j) \in DOMAIN c
          /\ c[From(i)].key = c[From(j)].key
        BY <1>4, <2>2
    <2>4. From(i) = From(j)
        BY <2>3 DEF Once
    <2> QED
        BY <2>1, <2>4
<1>6. HitsIn(d, k) = {}
    <2> HIDE DEF From
    <2>1. \A i \in 1 .. Len(d) : From(i) \notin HitsIn(c, k)
        BY <1>1, <1>4
    <2>2. \A i \in 1 .. Len(d) : d[i].key # k
        BY <1>4, <2>1 DEF HitsIn
    <2> QED
        BY <1>3, <2>2 DEF HitsIn
<1>7. ASSUME NEW j \in Keys \ {k}, HitsIn(c, j) # {}
      PROVE  HitsIn(d, j) # {} /\ EntryIn(d, j) = EntryIn(c, j)
    <2> DEFINE q == FirstIn(c, j)
               r == IF q < p THEN q ELSE q - 1
    <2>1. q \in 1 .. Len(c) /\ c[q].key = j
        BY <1>7, FirstIsHit
    <2> HIDE DEF q
    <2>2. q # p
        BY <2>1, <1>1
    <2>3. r \in 1 .. Len(d) /\ From(r) = q
        BY <2>1, <2>2, <1>1, <1>3
    <2>4. d[r] = c[q] /\ d[r].key = j
        BY <2>1, <2>3, <1>4
    <2> HIDE DEF r
    <2>5. HitsIn(d, j) = {r} /\ FirstIn(d, j) = r
        BY <2>3, <2>4, <1>3, <1>5, OnlyHit
    <2> QED
        BY <2>4, <2>5 DEF EntryIn, q
<1>8. ASSUME NEW j \in Keys \ {k}, HitsIn(d, j) # {}
      PROVE  HitsIn(c, j) # {}
    BY <1>8, <1>3, <1>4 DEF HitsIn
<1> QED
    BY <1>3, <1>5, <1>6, <1>7, <1>8 DEF d

-----------------------------------------------------------------------------
(* What an operation does to the dictionary *)

ChainsTyped == chains \in [Slots -> Seq(Entry)]

\* The chains as the operations need them.
ChainsInv == ChainsTyped /\ OneEntryPerKey

\* Entries are in the slots of their keys.
InPlace(c, s) == \A i \in DOMAIN c : SlotOf[c[i].key] = s

\* One entry per key, chain by chain.
LEMMA ChainByChain ==
    OneEntryPerKey <=> \A s \in Slots : InPlace(chains[s], s) /\ Once(chains[s])
<1>1. OneEntryPerKey => \A s \in Slots : InPlace(chains[s], s) /\ Once(chains[s])
    BY DEF OneEntryPerKey, InPlace, Once
<1>2. (\A s \in Slots : InPlace(chains[s], s) /\ Once(chains[s]))
         => OneEntryPerKey
    BY DEF OneEntryPerKey, InPlace, Once
<1> QED
    BY <1>1, <1>2

\* Look-ups as searches in the chain of the slot.
LEMMA LookUp ==
    /\ \A k : Found(k) <=> HitsIn(chains[SlotOf[k]], k) # {}
    /\ \A k : Place(k) = FirstIn(chains[SlotOf[k]], k)
    /\ \A k : At(k) = EntryIn(chains[SlotOf[k]], k)
BY DEF Found, Hits, Place, At, HitsIn, FirstIn, EntryIn

\* The entry that is found is an entry of its key.
LEMMA FoundEntry ==
    ASSUME ChainsInv, NEW k \in Keys, Found(k)
    PROVE  At(k) \in Entry /\ At(k).key = k /\ Place(k) \in Nat
<1> DEFINE c == chains[SlotOf[k]]
<1>1. SlotOf[k] \in Slots /\ c \in Seq(Entry)
    BY DictionaryAssumption DEF ChainsInv, ChainsTyped
<1>2. Once(c) /\ HitsIn(c, k) # {}
    BY <1>1, ChainByChain, LookUp DEF ChainsInv
<1> HIDE DEF c
<1>3. FirstIn(c, k) \in 1 .. Len(c) /\ c[FirstIn(c, k)].key = k
    BY <1>1, <1>2, FirstIsHit
<1> QED
    BY <1>1, <1>3, LookUp DEF c, EntryIn

\* The same of the chains after a step.
LEMMA LookUpNext ==
    /\ \A k : Found(k)' <=> HitsIn(chains'[SlotOf[k]], k) # {}
    /\ \A k : At(k)' = EntryIn(chains'[SlotOf[k]], k)
    /\ (\A s \in Slots : InPlace(chains'[s], s) /\ Once(chains'[s]))
          => OneEntryPerKey'
<1>1. \A k : Found(k)' <=> HitsIn(chains'[SlotOf[k]], k) # {}
    BY DEF Found, Hits, HitsIn
<1>2. \A k : At(k)' = EntryIn(chains'[SlotOf[k]], k)
    BY DEF Hits, Place, At, HitsIn, FirstIn, EntryIn
<1>3. (\A s \in Slots : InPlace(chains'[s], s) /\ Once(chains'[s]))
          => OneEntryPerKey'
    BY DEF OneEntryPerKey, InPlace, Once
<1> QED
    BY <1>1, <1>2, <1>3

\* Changing the chain of k changes what is found of k and of no other key.
LEMMA ChainChanged ==
    ASSUME ChainsInv, NEW k \in Keys, NEW d \in Seq(Entry),
           Once(d), InPlace(d, SlotOf[k]),
           chains' = [chains EXCEPT ![SlotOf[k]] = d],
           \A j \in Keys \ {k} :
              /\ HitsIn(d, j) # {} <=> HitsIn(chains[SlotOf[k]], j) # {}
              /\ HitsIn(chains[SlotOf[k]], j) # {}
                    => EntryIn(d, j) = EntryIn(chains[SlotOf[k]], j)
    PROVE  /\ ChainsInv'
           /\ Found(k)' <=> HitsIn(d, k) # {}
           /\ At(k)' = EntryIn(d, k)
           /\ \A j \in Keys \ {k} : /\ Found(j)' <=> Found(j)
                                    /\ Found(j) => At(j)' = At(j)
<1>1. SlotOf \in [Keys -> Slots]
    BY DictionaryAssumption
<1>2. chains \in [Slots -> Seq(Entry)]
    BY DEF ChainsInv, ChainsTyped
<1>3. chains' \in [Slots -> Seq(Entry)] /\ chains'[SlotOf[k]] = d
      /\ \A s \in Slots : s # SlotOf[k] => chains'[s] = chains[s]
    BY <1>1, <1>2
<1>4. \A s \in Slots : InPlace(chains'[s], s) /\ Once(chains'[s])
    BY <1>3, ChainByChain DEF ChainsInv
<1>5. ChainsInv'
    BY <1>3, <1>4, LookUpNext DEF ChainsInv, ChainsTyped
<1>6. (Found(k)' <=> HitsIn(d, k) # {}) /\ At(k)' = EntryIn(d, k)
    BY <1>3, LookUpNext
<1>7. ASSUME NEW j \in Keys \ {k}
      PROVE  (Found(j)' <=> Found(j)) /\ (Found(j) => At(j)' = At(j))
    <2>1. CASE SlotOf[j] = SlotOf[k]
        BY <2>1, <1>3, LookUp, LookUpNext
    <2>2. CASE SlotOf[j] # SlotOf[k]
        <3>1. chains'[SlotOf[j]] = chains[SlotOf[j]]
            BY <2>2, <1>1, <1>3
        <3> QED
            BY <3>1, LookUp, LookUpNext
    <2> QED
        BY <2>1, <2>2
<1> QED
    BY <1>5, <1>6, <1>7

\* dictionary_set: k leads to its new entry, every other key to its old one.
LEMMA StoreFinds ==
    ASSUME ChainsInv, NEW k \in Keys, NEW e \in Entry, e.key = k,
           chains' = [chains EXCEPT ![SlotOf[k]] = Stored(@, k, e)]
    PROVE  /\ ChainsInv'
           /\ Found(k)' /\ At(k)' = e
           /\ \A j \in Keys \ {k} : /\ Found(j)' <=> Found(j)
                                    /\ Found(j) => At(j)' = At(j)
<1> DEFINE c == chains[SlotOf[k]]
           d == Stored(c, k, e)
<1>1. SlotOf[k] \in Slots /\ c \in Seq(Entry)
    BY DictionaryAssumption DEF ChainsInv, ChainsTyped
<1>2. Once(c) /\ InPlace(c, SlotOf[k])
    BY <1>1, ChainByChain DEF ChainsInv
<1>3. chains' = [chains EXCEPT ![SlotOf[k]] = d]
    OBVIOUS
<1> HIDE DEF c
<1>4. /\ d \in Seq(Entry) /\ Once(d) /\ HitsIn(d, k) # {} /\ EntryIn(d, k) = e
      /\ \A j \in Keys \ {k} :
            /\ HitsIn(d, j) # {} <=> HitsIn(c, j) # {}
            /\ HitsIn(c, j) # {} => EntryIn(d, j) = EntryIn(c, j)
    BY ONLY <1>1, <1>2, StoredFinds, k \in Keys, e \in Entry, e.key = k
<1>5. InPlace(d, SlotOf[k])
    <2>1. CASE HitsIn(c, k) # {}
        <3>1. d = [c EXCEPT ![FirstIn(c, k)] = e]
            BY <2>1 DEF Stored
        <3> QED
            BY <3>1, <1>1, <1>2 DEF InPlace
    <2>2. CASE HitsIn(c, k) = {}
        <3>1. d = Append(c, e)
            BY <2>2 DEF Stored
        <3> QED
            BY <3>1, <1>1, <1>2 DEF InPlace
    <2> QED
        BY <2>1, <2>2
<1> HIDE DEF d
<1> QED
    BY <1>3, <1>4, <1>5, ChainChanged DEF c

\* dictionary_remove: k is gone, every other key leads to its old entry.
LEMMA CutForgets ==
    ASSUME ChainsInv, NEW k \in Keys, Found(k),
           chains' = [chains EXCEPT ![SlotOf[k]] = Cut(@, k)]
    PROVE  /\ ChainsInv'
           /\ ~Found(k)'
           /\ \A j \in Keys \ {k} : /\ Found(j)' <=> Found(j)
                                    /\ Found(j) => At(j)' = At(j)
<1> DEFINE c == chains[SlotOf[k]]
           d == Cut(c, k)
<1>1. SlotOf[k] \in Slots /\ c \in Seq(Entry)
    BY DictionaryAssumption DEF ChainsInv, ChainsTyped
<1>2. Once(c) /\ InPlace(c, SlotOf[k]) /\ HitsIn(c, k) # {}
    BY <1>1, ChainByChain, LookUp DEF ChainsInv
<1>3. chains' = [chains EXCEPT ![SlotOf[k]] = d]
    OBVIOUS
<1> HIDE DEF c
<1>4. /\ d \in Seq(Entry) /\ Once(d) /\ HitsIn(d, k) = {}
      /\ \A j \in Keys \ {k} :
            /\ HitsIn(d, j) # {} <=> HitsIn(c, j) # {}
            /\ HitsIn(c, j) # {} => EntryIn(d, j) = EntryIn(c, j)
    BY <1>1, <1>2, CutFinds
<1>5. InPlace(d, SlotOf[k])
    <2>1. DOMAIN d = 1 .. Len(c) - 1
        BY DEF Cut
    <2>2. \A i \in 1 .. Len(c) - 1 : d[i] \in {c[i], c[i + 1]}
        BY DEF Cut
    <2>3. \A i \in 1 .. Len(c) - 1 : i \in DOMAIN c /\ i + 1 \in DOMAIN c
        BY <1>1
    <2> HIDE DEF d
    <2> QED
        BY <1>2, <2>1, <2>2, <2>3 DEF InPlace
<1> HIDE DEF d
<1> QED
    BY <1>3, <1>4, <1>5, ChainChanged DEF c

-----------------------------------------------------------------------------
(* The operations *)

\* k leads to entry e afterwards, or to nothing, and nothing else changed.
Sets(k, e) ==
    /\ Found(k)' /\ At(k)' = e
    /\ \A j \in Keys \ {k} : /\ Found(j)' <=> Found(j)
                             /\ Found(j) => At(j)' = At(j)

Drops(k) ==
    /\ ~Found(k)'
    /\ \A j \in Keys \ {k} : /\ Found(j)' <=> Found(j)
                             /\ Found(j) => At(j)' = At(j)

\* Storing an entry sets its key, and counts it if it is new.
LEMMA StoreStep ==
    ASSUME ChainsInv, NEW k \in Keys, NEW e \in Entry, e.key = k, Store(k, e)
    PROVE  /\ ChainsInv' /\ Sets(k, e)
           /\ len' = IF Found(k) THEN len ELSE len + 1
<1>1. chains' = [chains EXCEPT ![SlotOf[k]] = Stored(@, k, e)]
    BY LookUp DEF Store, Stored
<1>2. len' = IF Found(k) THEN len ELSE len + 1
    BY DEF Store
<1> QED
    BY <1>1, <1>2, StoreFinds DEF Sets

\* An owned entry that is given another value is a new owned entry.
LEMMA NewValue ==
    ASSUME NEW x \in Entry, NEW v \in Values, x.owned = TRUE
    PROVE  [x EXCEPT !.value = v] = [key |-> x.key, value |-> v, owned |-> TRUE]
<1> DEFINE y == [x EXCEPT !.value = v]
           z == [key |-> x.key, value |-> v, owned |-> TRUE]
<1>1. y \in Entry /\ z \in Entry
    BY DEF Entry
<1>2. y.key = x.key /\ y.value = v
    BY DEF Entry
<1>3. y.owned = z.owned
    BY DEF Entry
<1> HIDE DEF y, z
<1>4. y.key = z.key /\ y.value = z.value
    BY <1>2 DEF z
<1>5. \A a, b \in Entry :
         a.key = b.key /\ a.value = b.value /\ a.owned = b.owned => a = b
    BY DEF Entry
<1>6. y = z
    BY <1>1, <1>3, <1>4, <1>5
<1> QED
    BY <1>6 DEF y, z

\* dictionary_replace gives a key a new value that its entry owns.
LEMMA ReplaceStep ==
    ASSUME ChainsInv, NEW k \in Keys, NEW v \in Values, Replace(k, v)
    PROVE  /\ ChainsInv'
           /\ Sets(k, [key |-> k, value |-> v, owned |-> TRUE])
           /\ len' = IF Found(k) THEN len ELSE len + 1
<1> DEFINE c == chains[SlotOf[k]]
           p == FirstIn(c, k)
           e == [key |-> k, value |-> v, owned |-> TRUE]
<1>1. Found(k) /\ At(k).owned /\ len' = len
    BY DEF Replace
<1>2. SlotOf[k] \in Slots /\ c \in Seq(Entry)
    BY DictionaryAssumption DEF ChainsInv, ChainsTyped
<1>3. At(k) = c[p] /\ Place(k) = p /\ HitsIn(c, k) # {}
    BY <1>1, LookUp DEF EntryIn
<1>4. c[p] \in Entry /\ c[p].key = k /\ c[p].owned
    BY <1>1, <1>3, FoundEntry
<1>5. [c[p] EXCEPT !.value = v] = e
    <2> DEFINE x == c[p]
    <2>1. x \in Entry /\ x.key = k /\ x.owned \in BOOLEAN
        BY <1>4 DEF Entry
    <2>2. x.owned = TRUE
        BY <1>4, <2>1
    <2> HIDE DEF x
    <2> QED
        BY <2>1, <2>2, NewValue DEF x
<1>6. chains' = [chains EXCEPT ![SlotOf[k]] = [c EXCEPT ![p] = e]]
    BY <1>2, <1>3, <1>5 DEF Replace
<1>7. chains' = [chains EXCEPT ![SlotOf[k]] = Stored(@, k, e)]
    BY <1>3, <1>6 DEF Stored
<1>8. e \in Entry /\ e.key = k
    BY DEF Entry
<1> HIDE DEF e
<1>9. ChainsInv' /\ Sets(k, e)
    BY <1>7, <1>8, StoreFinds DEF Sets
<1> QED
    BY <1>1, <1>9 DEF e

\* dictionary_remove drops a key that was found.
LEMMA RemoveStep ==
    ASSUME ChainsInv, NEW k \in Keys, Remove(k)
    PROVE  ChainsInv' /\ Drops(k) /\ Found(k) /\ len' = len - 1
<1>1. Found(k) /\ len' = len - 1
    BY DEF Remove
<1>2. chains' = [chains EXCEPT ![SlotOf[k]] = Cut(@, k)]
    BY LookUp DEF Remove, Cut
<1> QED
    BY <1>1, <1>2, CutForgets DEF Drops

\* dictionary_set with a destructor: the entry owns the value.
LEMMA SetOwnedStep ==
    ASSUME ChainsInv, NEW k \in Keys, NEW v \in Values, SetOwned(k, v)
    PROVE  /\ ChainsInv'
           /\ Sets(k, [key |-> k, value |-> v, owned |-> TRUE])
           /\ len' = IF Found(k) THEN len ELSE len + 1
<1> DEFINE e == [key |-> k, value |-> v, owned |-> TRUE]
<1>1. e \in Entry /\ e.key = k
    BY DEF Entry
<1>2. Store(k, e)
    BY DEF SetOwned
<1> HIDE DEF e
<1>3. ChainsInv' /\ Sets(k, e) /\ len' = IF Found(k) THEN len ELSE len + 1
    BY <1>1, <1>2, StoreStep
<1> QED
    BY <1>3 DEF e

\* dictionary_set without one: the value stays with its owner.
LEMMA LinkStep ==
    ASSUME ChainsInv, NEW k \in Keys, NEW h \in Keys, Link(k, h)
    PROVE  /\ ChainsInv'
           /\ Sets(k, [key |-> k, value |-> Get(h), owned |-> FALSE])
           /\ len' = IF Found(k) THEN len ELSE len + 1
<1> DEFINE e == [key |-> k, value |-> Get(h), owned |-> FALSE]
<1>1. Found(h) /\ Store(k, e)
    BY DEF Link
<1>2. Get(h) \in Values
    BY <1>1, FoundEntry DEF Get, Entry
<1>3. e \in Entry /\ e.key = k
    BY <1>2 DEF Entry
<1> HIDE DEF e
<1>4. ChainsInv' /\ Sets(k, e) /\ len' = IF Found(k) THEN len ELSE len + 1
    BY <1>1, <1>3, StoreStep
<1> QED
    BY <1>4 DEF e

\* An empty table has nothing to find.
LEMMA EmptyTable ==
    ASSUME chains = [s \in Slots |-> << >>]
    PROVE  ChainsInv /\ \A k \in Keys : ~Found(k)
<1>1. \A s \in Slots : chains[s] = << >>
    OBVIOUS
<1> QED
    BY <1>1, DictionaryAssumption
    DEF ChainsInv, ChainsTyped, OneEntryPerKey, Found, Hits

\* A destroyed table finds nothing.
LEMMA DestroyStep ==
    ASSUME Destroy
    PROVE  ChainsInv' /\ \A k \in Keys : ~Found(k)'
<1>1. chains' = [s \in Slots |-> << >>]
    BY DEF Destroy
<1>2. \A s \in Slots : chains'[s] = << >>
    BY <1>1
<1> QED
    BY <1>1, <1>2, DictionaryAssumption
    DEF ChainsInv, ChainsTyped, OneEntryPerKey, Found, Hits

\* With the table as it is, everything is found as it was.
LEMMA SameTable ==
    ASSUME ChainsInv, UNCHANGED chains
    PROVE  /\ ChainsInv'
           /\ \A k : (Found(k)' <=> Found(k)) /\ At(k)' = At(k)
<1>1. ChainsInv'
    BY DEF ChainsInv, ChainsTyped, OneEntryPerKey
<1> QED
    BY <1>1 DEF Found, At, Place, Hits

-----------------------------------------------------------------------------
(* The inductive invariants, each inductive once the ones before it are known *)

\* The types but for len, and one entry per key.
TableInv ==
    /\ built \in BOOLEAN
    /\ ChainsInv
    /\ live \subseteq Values
    /\ ~built => chains = [s \in Slots |-> << >>]

\* len is the size of a finite set of keys.
CountInv == IsFiniteSet({k \in Keys : Found(k)}) /\ LenIsKeys

Owns(k) == Found(k) /\ At(k).owned

\* Live values have owners, and no value has two.
OwnersInv ==
    /\ \A v \in live : \E k \in Keys : Owns(k) /\ Get(k) = v
    /\ \A j, k \in Keys : Owns(j) /\ Owns(k) /\ Get(j) = Get(k) => j = k

\* The table is well formed before it is built,
LEMMA TableInit == Init => TableInv
BY EmptyTable DEF Init, TableInv

\* stays so in every step,
LEMMA TableStep == TableInv /\ [Next]_vars => TableInv'
<1> SUFFICES ASSUME TableInv, [Next]_vars PROVE TableInv'
    OBVIOUS
<1> USE DEF TableInv
<1>1. CASE Build
    BY <1>1, SameTable DEF Build
<1>2. ASSUME NEW k \in Keys, NEW v \in Values, SetOwned(k, v)
      PROVE  TableInv'
    BY <1>2, SetOwnedStep DEF SetOwned
<1>3. ASSUME NEW k \in Keys, NEW h \in Keys, Link(k, h)
      PROVE  TableInv'
    BY <1>3, LinkStep DEF Link
<1>4. ASSUME NEW k \in Keys, NEW v \in Values, Replace(k, v)
      PROVE  TableInv'
    BY <1>4, ReplaceStep DEF Replace
<1>5. ASSUME NEW k \in Keys, Remove(k)
      PROVE  TableInv'
    BY <1>5, RemoveStep DEF Remove
<1>6. CASE Destroy
    BY <1>6, DestroyStep DEF Destroy
<1>7. CASE UNCHANGED vars
    BY <1>7, SameTable DEF vars
<1> QED
    BY <1>1, <1>2, <1>3, <1>4, <1>5, <1>6, <1>7 DEF Next

\* and is so in every state.
LEMMA TableAlways == Spec => []TableInv
BY TableInit, TableStep, PTL DEF Spec

\* Whatever was set, linked, replaced and removed, a key has one entry, in the
\* slot of its hash.
THEOREM OneEntryPerKeyCorrect == Spec => []OneEntryPerKey
<1>1. TableInv => OneEntryPerKey
    BY DEF TableInv, ChainsInv
<1> QED
    BY <1>1, TableAlways, PTL

\* An operation that sets k adds it to the keys that are found; one that drops
\* it takes it away.
LEMMA SetsCounted ==
    ASSUME CountInv, NEW k \in Keys, NEW e, Sets(k, e),
           len' = IF Found(k) THEN len ELSE len + 1
    PROVE  CountInv'
<1> DEFINE S == {j \in Keys : Found(j)}
<1>1. IsFiniteSet(S) /\ len = Cardinality(S)
    BY DEF CountInv, LenIsKeys
<1>2. {j \in Keys : Found(j)}' = S \cup {k}
    BY DEF Sets
<1>3. k \in S <=> Found(k)
    OBVIOUS
<1> HIDE DEF S
<1>4. IsFiniteSet(S \cup {k}) /\ Cardinality(S \cup {k}) = len'
    BY <1>1, <1>3, FS_AddElement
<1> QED
    BY <1>2, <1>4 DEF CountInv, LenIsKeys

\* Removing a key that is found takes one from len.
LEMMA DropsCounted ==
    ASSUME CountInv, NEW k \in Keys, Drops(k), Found(k), len' = len - 1
    PROVE  CountInv'
<1> DEFINE S == {j \in Keys : Found(j)}
<1>1. IsFiniteSet(S) /\ len = Cardinality(S)
    BY DEF CountInv, LenIsKeys
<1>2. {j \in Keys : Found(j)}' = S \ {k}
    BY DEF Drops
<1>3. k \in S
    OBVIOUS
<1> HIDE DEF S
<1>4. IsFiniteSet(S \ {k}) /\ Cardinality(S \ {k}) = len'
    BY <1>1, <1>3, FS_RemoveElement
<1> QED
    BY <1>2, <1>4 DEF CountInv, LenIsKeys

\* An empty table has length zero.
LEMMA NothingCounted ==
    ASSUME \A k \in Keys : ~Found(k), len = 0
    PROVE  CountInv
<1>1. {k \in Keys : Found(k)} = {}
    OBVIOUS
<1> QED
    BY <1>1, FS_EmptySet DEF CountInv, LenIsKeys

\* Every step keeps len in step with the keys,
LEMMA CountStep == TableInv /\ CountInv /\ [Next]_vars => CountInv'
<1> SUFFICES ASSUME TableInv, CountInv, [Next]_vars PROVE CountInv'
    OBVIOUS
<1> USE DEF TableInv
<1>1. CASE UNCHANGED <<chains, len>>
    <2>1. {k \in Keys : Found(k)}' = {k \in Keys : Found(k)}
        BY <1>1, SameTable
    <2> QED
        BY <1>1, <2>1 DEF CountInv, LenIsKeys
<1>2. ASSUME NEW k \in Keys, NEW v \in Values, SetOwned(k, v)
      PROVE  CountInv'
    BY <1>2, SetOwnedStep, SetsCounted
<1>3. ASSUME NEW k \in Keys, NEW h \in Keys, Link(k, h)
      PROVE  CountInv'
    BY <1>3, LinkStep, SetsCounted
<1>4. ASSUME NEW k \in Keys, NEW v \in Values, Replace(k, v)
      PROVE  CountInv'
    BY <1>4, ReplaceStep, SetsCounted
<1>5. ASSUME NEW k \in Keys, Remove(k)
      PROVE  CountInv'
    BY <1>5, RemoveStep, DropsCounted
<1>6. CASE Destroy
    <2>1. {k \in Keys : Found(k)}' = {}
        BY <1>6, DestroyStep
    <2>2. len' = 0
        BY <1>6 DEF Destroy
    <2> QED
        BY <2>1, <2>2, FS_EmptySet DEF CountInv, LenIsKeys
<1> QED
    BY <1>1, <1>2, <1>3, <1>4, <1>5, <1>6 DEF Next, Build, vars

\* so that it always is.
LEMMA CountAlways == Spec => []CountInv
<1>1. Init => CountInv
    BY EmptyTable, NothingCounted DEF Init
<1> QED
    BY <1>1, CountStep, TableAlways, PTL DEF Spec

\* len is the number of keys that dictionary_get finds, however setting,
\* linking and removing are mixed.
THEOREM LenIsKeysCorrect == Spec => []LenIsKeys
<1>1. CountInv => LenIsKeys
    BY DEF CountInv
<1> QED
    BY <1>1, CountAlways, PTL

\* The variables keep their types; len, which is only counted up and down, is
\* never negative.
THEOREM TypeCorrect == Spec => []TypeOK
<1>1. TableInv /\ CountInv => TypeOK
    BY FS_CardinalityType
    DEF TableInv, ChainsInv, ChainsTyped, CountInv, LenIsKeys, TypeOK
<1> QED
    BY <1>1, TableAlways, CountAlways, PTL

-----------------------------------------------------------------------------
(* Who owns what *)

\* An operation on k that frees what k owned, puts an entry with a live value
\* there and leaves the values of other keys alone keeps found values alive.
LEMMA AliveKept ==
    ASSUME ValuesAlive, NEW k \in Keys, Unshared(k),
           live \ Freed(k) \subseteq live',
           \A j \in Keys \ {k} : /\ Found(j)' <=> Found(j)
                                 /\ Found(j) => At(j)' = At(j),
           Found(k)' => Get(k)' \in live'
    PROVE  ValuesAlive'
<1>1. ASSUME NEW j \in Keys \ {k}, Found(j)'
      PROVE  Get(j)' \in live'
    <2>1. Found(j) /\ Get(j)' = Get(j)
        BY <1>1 DEF Get
    <2>2. Get(j) \in live /\ Get(j) \notin Freed(k)
        BY <2>1 DEF ValuesAlive, Unshared
    <2> QED
        BY <2>1, <2>2
<1> QED
    BY <1>1 DEF ValuesAlive

\* Every step keeps what a look-up finds alive.
LEMMA AliveStep == TableInv /\ ValuesAlive /\ [Next]_vars => ValuesAlive'
<1> SUFFICES ASSUME TableInv, ValuesAlive, [Next]_vars PROVE ValuesAlive'
    OBVIOUS
<1> USE DEF TableInv
<1>1. CASE UNCHANGED <<chains, live>>
    <2>1. \A k \in Keys : (Found(k)' <=> Found(k)) /\ Get(k)' = Get(k)
        BY <1>1, SameTable DEF Get
    <2> QED
        BY <1>1, <2>1 DEF ValuesAlive
<1>2. ASSUME NEW k \in Keys, NEW v \in Values, SetOwned(k, v)
      PROVE  ValuesAlive'
    <2>1. Sets(k, [key |-> k, value |-> v, owned |-> TRUE])
        BY <1>2, SetOwnedStep
    <2>2. Get(k)' = v
        BY <2>1 DEF Sets, Get
    <2> QED
        BY <1>2, <2>1, <2>2, AliveKept DEF SetOwned, Sets
<1>3. ASSUME NEW k \in Keys, NEW h \in Keys, Link(k, h)
      PROVE  ValuesAlive'
    <2>1. Sets(k, [key |-> k, value |-> Get(h), owned |-> FALSE])
        BY <1>3, LinkStep
    <2>2. Get(k)' = Get(h)
        BY <2>1 DEF Sets, Get
    <2>3. Get(h) \in live /\ Get(h) \notin Freed(k)
        BY <1>3 DEF Link, ValuesAlive, Unshared
    <2> QED
        BY <1>3, <2>1, <2>2, <2>3, AliveKept DEF Link, Sets
<1>4. ASSUME NEW k \in Keys, NEW v \in Values, Replace(k, v)
      PROVE  ValuesAlive'
    <2>1. Sets(k, [key |-> k, value |-> v, owned |-> TRUE])
        BY <1>4, ReplaceStep
    <2>2. Get(k)' = v
        BY <2>1 DEF Sets, Get
    <2> QED
        BY <1>4, <2>1, <2>2, AliveKept DEF Replace, Sets
<1>5. ASSUME NEW k \in Keys, Remove(k)
      PROVE  ValuesAlive'
    BY <1>5, RemoveStep, AliveKept DEF Remove, Drops
<1>6. CASE Destroy
    BY <1>6, DestroyStep DEF ValuesAlive
<1> QED
    BY <1>1, <1>2, <1>3, <1>4, <1>5, <1>6 DEF Next, Build, vars

\* dictionary_get never returns a value that was freed: a bucket outlives
\* every bucket key that leads to it.
THEOREM ValuesAliveCorrect == Spec => []ValuesAlive
<1>1. Init => ValuesAlive
    BY EmptyTable DEF Init, ValuesAlive
<1> QED
    BY <1>1, AliveStep, TableAlways, PTL DEF Spec

\* k gets a value that nobody owned.
LEMMA OwnedBySetting ==
    ASSUME ValuesAlive, OwnersInv, NEW k \in Keys, NEW v, v \notin live,
           Sets(k, [key |-> k, value |-> v, owned |-> TRUE]),
           live' = (live \ Freed(k)) \cup {v}
    PROVE  OwnersInv'
<1>1. Owns(k)' /\ Get(k)' = v
    BY DEF Sets, Owns, Get
<1>2. \A j \in Keys \ {k} :
         (Owns(j)' <=> Owns(j)) /\ (Owns(j) => Get(j)' = Get(j))
    BY DEF Sets, Owns, Get
<1>3. \A j \in Keys : Owns(j) => Get(j) \in live
    BY DEF ValuesAlive, Owns
<1>4. Owns(k) => Freed(k) = {Get(k)}
    BY DEF Owns, Freed, Get
<1>5. \A w \in live' : \E j \in Keys : Owns(j)' /\ Get(j)' = w
    BY <1>1, <1>2, <1>4 DEF OwnersInv
<1>6. \A i, j \in Keys : Owns(i)' /\ Owns(j)' /\ Get(i)' = Get(j)' => i = j
    BY <1>1, <1>2, <1>3 DEF OwnersInv
<1> QED
    BY <1>5, <1>6 DEF OwnersInv

\* k no longer owns a value, and the one it owned is freed.
LEMMA OwnedByOthers ==
    ASSUME OwnersInv, NEW k \in Keys, ~Owns(k)', live' = live \ Freed(k),
           \A j \in Keys \ {k} : /\ Found(j)' <=> Found(j)
                                 /\ Found(j) => At(j)' = At(j)
    PROVE  OwnersInv'
<1>1. \A j \in Keys \ {k} :
         (Owns(j)' <=> Owns(j)) /\ (Owns(j) => Get(j)' = Get(j))
    BY DEF Owns, Get
<1>2. Owns(k) => Freed(k) = {Get(k)}
    BY DEF Owns, Freed, Get
<1>3. \A w \in live' : \E j \in Keys : Owns(j)' /\ Get(j)' = w
    BY <1>1, <1>2 DEF OwnersInv
<1>4. \A i, j \in Keys : Owns(i)' /\ Owns(j)' /\ Get(i)' = Get(j)' => i = j
    BY <1>1 DEF OwnersInv
<1> QED
    BY <1>3, <1>4 DEF OwnersInv

\* Every step leaves each live value one owner,
LEMMA OwnersStep ==
    TableInv /\ ValuesAlive /\ OwnersInv /\ [Next]_vars => OwnersInv'
<1> SUFFICES ASSUME TableInv, ValuesAlive, OwnersInv, [Next]_vars
             PROVE  OwnersInv'
    OBVIOUS
<1> USE DEF TableInv
<1>1. CASE UNCHANGED <<chains, live>>
    <2>1. \A k \in Keys : (Owns(k)' <=> Owns(k)) /\ Get(k)' = Get(k)
        BY <1>1, SameTable DEF Get, Owns
    <2> QED
        BY <1>1, <2>1 DEF OwnersInv
<1>2. ASSUME NEW k \in Keys, NEW v \in Values, SetOwned(k, v)
      PROVE  OwnersInv'
    BY <1>2, SetOwnedStep, OwnedBySetting DEF SetOwned
<1>3. ASSUME NEW k \in Keys, NEW h \in Keys, Link(k, h)
      PROVE  OwnersInv'
    <2>1. Sets(k, [key |-> k, value |-> Get(h), owned |-> FALSE])
        BY <1>3, LinkStep
    <2>2. ~Owns(k)'
        BY <2>1 DEF Sets, Owns
    <2> QED
        BY <1>3, <2>1, <2>2, OwnedByOthers DEF Link, Sets
<1>4. ASSUME NEW k \in Keys, NEW v \in Values, Replace(k, v)
      PROVE  OwnersInv'
    BY <1>4, ReplaceStep, OwnedBySetting DEF Replace
<1>5. ASSUME NEW k \in Keys, Remove(k)
      PROVE  OwnersInv'
    BY <1>5, RemoveStep, OwnedByOthers DEF Remove, Drops, Owns
<1>6. CASE Destroy
    <2>1. \A k \in Keys : ~Owns(k)'
        BY <1>6, DestroyStep DEF Owns
    <2>2. live' = {}
        <3>1. \A v \in live : \E k \in Keys : v \in Freed(k)
            BY DEF OwnersInv, Owns, Freed, Get
        <3> QED
            BY <1>6, <3>1 DEF Destroy
    <2> QED
        BY <2>1, <2>2 DEF OwnersInv
<1> QED
    BY <1>1, <1>2, <1>3, <1>4, <1>5, <1>6 DEF Next, Build, vars

\* so that it always has one.
LEMMA OwnersAlways == Spec => []OwnersInv
<1>1. Init => OwnersInv
    BY EmptyTable DEF Init, OwnersInv, Owns
<1> QED
    BY <1>1, OwnersStep, TableAlways, ValuesAliveCorrect, PTL DEF Spec

\* Every allocated value is owned by exactly one entry: none leaks, and none
\* is freed twice.
THEOREM OwnedOnceCorrect == Spec => []OwnedOnce
<1>1. TableInv /\ ValuesAlive /\ OwnersInv => OwnedOnce
    <2> SUFFICES ASSUME TableInv, ValuesAlive, OwnersInv, NEW v \in Values
                 PROVE  v \in live <=>
                            Cardinality({k \in Keys : Freed(k) = {v}}) = 1
        BY DEF OwnedOnce
    <2> DEFINE S == {k \in Keys : Freed(k) = {v}}
    <2>1. \A k \in Keys : k \in S <=> Owns(k) /\ Get(k) = v
        BY DEF Freed, Owns, Get
    <2>2. CASE v \in live
        <3>1. PICK k \in Keys : Owns(k) /\ Get(k) = v
            BY <2>2 DEF OwnersInv
        <3>2. S = {k}
            BY <2>1, <3>1 DEF OwnersInv
        <3> QED
            BY <2>2, <3>2, FS_Singleton
    <2>3. CASE v \notin live
        <3>1. S = {}
            BY <2>1, <2>3 DEF ValuesAlive, Owns
        <3> QED
            BY <2>3, <3>1, FS_EmptySet
    <2> QED
        BY <2>2, <2>3
<1> QED
    BY <1>1, TableAlways, ValuesAliveCorrect, OwnersAlways, PTL

-----------------------------------------------------------------------------
(* The chains implement a map that frees what it owns *)

MapOf == [k \in Keys |-> Get(k)]
OwnedOf == {k \in Keys : Freed(k) # {}}

\* What the abstract map frees with a key is what its entry frees.
LEMMA SameFreed ==
    /\ \A k \in Keys : Map!OwnedBy({k}) = Freed(k)
    /\ Map!OwnedBy(Keys) = UNION {Freed(k) : k \in Keys}
<1>1. \A k \in Keys : k \in OwnedOf => Freed(k) = {MapOf[k]}
    BY DEF OwnedOf, MapOf, Freed, Get
<1>2. \A k \in Keys : k \notin OwnedOf => Freed(k) = {}
    BY DEF OwnedOf
<1>3. \A keys : Map!OwnedBy(keys) = {MapOf[k] : k \in keys \cap OwnedOf}
    BY DEF Map!OwnedBy, MapOf, OwnedOf
<1> HIDE DEF MapOf, OwnedOf
<1>4. \A k \in Keys : Map!OwnedBy({k}) = Freed(k)
    BY <1>1, <1>2, <1>3
<1>5. Map!OwnedBy(Keys) = UNION {Freed(k) : k \in Keys}
    BY <1>1, <1>2, <1>3
<1> QED
    BY <1>4, <1>5

\* What setting and dropping mean for the map.
LEMMA SetsMap ==
    ASSUME NEW k \in Keys, NEW v, NEW o \in BOOLEAN,
           Sets(k, [key |-> k, value |-> v, owned |-> o])
    PROVE  /\ MapOf' = [MapOf EXCEPT ![k] = v]
           /\ OwnedOf' = IF o THEN OwnedOf \cup {k} ELSE OwnedOf \ {k}
<1>1. Get(k)' = v /\ (Freed(k)' # {} <=> o)
    BY DEF Sets, Get, Freed
<1>2. \A j \in Keys \ {k} : Get(j)' = Get(j) /\ (Freed(j)' # {} <=> Freed(j) # {})
    BY DEF Sets, Get, Freed
<1>3. MapOf' = [MapOf EXCEPT ![k] = v]
    BY <1>1, <1>2 DEF MapOf
<1>4. OwnedOf' = IF o THEN OwnedOf \cup {k} ELSE OwnedOf \ {k}
    BY <1>1, <1>2 DEF OwnedOf
<1> QED
    BY <1>3, <1>4

\* A removed key has no value in the abstract map, and owns nothing there.
LEMMA DropsMap ==
    ASSUME NEW k \in Keys, Drops(k)
    PROVE  MapOf' = [MapOf EXCEPT ![k] = NULL] /\ OwnedOf' = OwnedOf \ {k}
<1>1. Get(k)' = NULL /\ Freed(k)' = {}
    BY DEF Drops, Get, Freed
<1>2. \A j \in Keys \ {k} : Get(j)' = Get(j) /\ (Freed(j)' # {} <=> Freed(j) # {})
    BY DEF Drops, Get, Freed
<1>3. MapOf' = [MapOf EXCEPT ![k] = NULL]
    BY <1>1, <1>2 DEF MapOf
<1>4. OwnedOf' = OwnedOf \ {k}
    BY <1>1, <1>2 DEF OwnedOf
<1> QED
    BY <1>3, <1>4

\* Every step of the table is one of the abstract map, or not seen by it.
LEMMA MapStep == TableInv /\ ValuesAlive /\ [Next]_vars => [Map!Next]_(Map!vars)
<1> SUFFICES ASSUME TableInv, ValuesAlive, [Next]_vars
             PROVE  [Map!Next]_(Map!vars)
    OBVIOUS
<1> USE DEF TableInv
<1>1. CASE UNCHANGED <<chains, live>>
    <2>1. \A k \in Keys : Get(k)' = Get(k) /\ Freed(k)' = Freed(k)
        <3>1. \A k : (Found(k)' <=> Found(k)) /\ At(k)' = At(k)
            BY <1>1, SameTable
        <3>2. \A k : At(k)'.owned = At(k).owned /\ At(k)'.value = At(k).value
            BY <3>1
        <3> QED
            BY ONLY <3>1, <3>2 DEF Get, Freed
    <2> QED
        BY <1>1, <2>1 DEF Map!vars
<1>2. ASSUME NEW k \in Keys, NEW v \in Values, SetOwned(k, v)
      PROVE  Map!Put(k, v)
    <2>1. Sets(k, [key |-> k, value |-> v, owned |-> TRUE])
        BY <1>2, SetOwnedStep
    <2>2. MapOf' = [MapOf EXCEPT ![k] = v] /\ OwnedOf' = OwnedOf \cup {k}
        BY <2>1, SetsMap
    <2> QED
        BY <1>2, <2>2, SameFreed DEF SetOwned, Map!Put, MapOf, OwnedOf
<1>3. ASSUME NEW k \in Keys, NEW h \in Keys, Link(k, h)
      PROVE  Map!Link(k, Get(h)) /\ Get(h) \in Values
    <2>1. Sets(k, [key |-> k, value |-> Get(h), owned |-> FALSE])
        BY <1>3, LinkStep
    <2>2. MapOf' = [MapOf EXCEPT ![k] = Get(h)] /\ OwnedOf' = OwnedOf \ {k}
        BY <2>1, SetsMap
    <2>3. Get(h) \in live /\ live \subseteq Values
        BY <1>3 DEF Link, ValuesAlive
    <2> QED
        BY <1>3, <2>2, <2>3, SameFreed DEF Link, Map!Link, MapOf, OwnedOf
<1>4. ASSUME NEW k \in Keys, NEW v \in Values, Replace(k, v)
      PROVE  Map!Put(k, v)
    <2>1. Sets(k, [key |-> k, value |-> v, owned |-> TRUE])
        BY <1>4, ReplaceStep
    <2>2. MapOf' = [MapOf EXCEPT ![k] = v] /\ OwnedOf' = OwnedOf \cup {k}
        BY <2>1, SetsMap
    <2> QED
        BY <1>4, <2>2, SameFreed DEF Replace, Map!Put, MapOf, OwnedOf
<1>5. ASSUME NEW k \in Keys, Remove(k)
      PROVE  Map!Remove(k)
    <2>1. MapOf' = [MapOf EXCEPT ![k] = NULL] /\ OwnedOf' = OwnedOf \ {k}
        BY <1>5, RemoveStep, DropsMap
    <2> QED
        BY <1>5, <2>1, SameFreed DEF Remove, Map!Remove, MapOf, OwnedOf
<1>6. ASSUME Destroy
      PROVE  Map!Destroy
    <2>1. \A k \in Keys : Get(k)' = NULL /\ Freed(k)' = {}
        BY <1>6, DestroyStep DEF Get, Freed
    <2> QED
        BY <1>6, <2>1, SameFreed DEF Destroy, Map!Destroy
<1> QED
    BY <1>1, <1>2, <1>3, <1>4, <1>5, <1>6 DEF Next, Build, vars, Map!Next

\* The chains are a map from keys to values that frees what it owns, once and
\* when its entry goes: every behaviour of the table is one of OwningMap.
THEOREM DictionaryIsOwningMap == Spec => ImplementsOwningMap
<1>1. Init => Map!Init
    BY EmptyTable DEF Init, Map!Init, Get, Freed
<1> QED
    BY <1>1, MapStep, TableAlways, ValuesAliveCorrect, PTL
    DEF Spec, Map!Spec, ImplementsOwningMap
=============================================================================
