------------------------------ MODULE Dictionary ------------------------------
(***************************************************************************)
(* dictionary_t of hashtable.c: a table of chains of entries.  An entry    *)
(* owns its key and, if it has a free_cb, its value.  libconcord keeps two:*)
(* api->header, whose values are all owned and often set again, and        *)
(* api->bucket_dict, where a bucket is owned by the entry of its hash and  *)
(* linked, unowned, from the entries of the bucket keys.                   *)
(*                                                                         *)
(* A chain of next pointers is a sequence.  A value is its address; live   *)
(* holds those that were allocated and not freed.                          *)
(***************************************************************************)
EXTENDS Integers, Sequences, FiniteSets

CONSTANTS
    Keys,     \* strings
    Values,   \* addresses
    NULL,
    Slots,    \* 0 .. num_bucket - 1
    SlotOf    \* _hashtable_genhash

ASSUME DictionaryAssumption ==
    /\ SlotOf \in [Keys -> Slots]
    /\ NULL \notin Values

VARIABLES
    built,    \* the table was allocated
    chains,   \* dictionary->bucket
    len,      \* dictionary->len
    live      \* the values that are allocated

vars == <<built, chains, len, live>>

Entry == [key : Keys, value : Values, owned : BOOLEAN]

Init ==
    /\ built = FALSE
    /\ chains = [s \in Slots |-> << >>]
    /\ len = 0
    /\ live = {}

\* dictionary_build
Build ==
    /\ ~built
    /\ built' = TRUE
    /\ UNCHANGED <<chains, len, live>>

-----------------------------------------------------------------------------
(* Lookup *)

\* Mutant: the search looks at the head of the chain only.
HitsHead(k) == {i \in DOMAIN chains[SlotOf[k]] :
                    i = 1 /\ chains[SlotOf[k]][i].key = k}

\* The places in the chain of its slot where k is found.
Hits(k) == {i \in DOMAIN chains[SlotOf[k]] : chains[SlotOf[k]][i].key = k}

Found(k) == Hits(k) # {}

\* _hashtable_get_entry: the first of them.
Place(k) == CHOOSE i \in Hits(k) : \A j \in Hits(k) : i <= j

At(k) == chains[SlotOf[k]][Place(k)]

\* dictionary_get
Get(k) == IF Found(k) THEN At(k).value ELSE NULL

\* What goes with the entry of k: its value, if it is tagged for freeing.
Freed(k) == IF Found(k) /\ At(k).owned THEN {At(k).value} ELSE {}

\* Mutant: the caller does not look whether the key is there already.
UnsharedNot(k) == TRUE

\* Nobody else has the value that goes with k.  api->header holds no links,
\* and a bucket is created only where dictionary_get found none.  Of Replace
\* and Remove, which nobody calls, it is a precondition.
Unshared(k) ==
    \A j \in Keys \ {k} : Found(j) => {Get(j)} \cap Freed(k) = {}

-----------------------------------------------------------------------------
(* Operations *)

\* Mutant: an entry that is there is counted again.
StoreCounts(k, e) ==
    /\ chains' = [chains EXCEPT ![SlotOf[k]] =
                     IF Found(k) THEN [@ EXCEPT ![Place(k)] = e]
                                 ELSE Append(@, e)]
    /\ len' = len + 1

\* dictionary_set: write over the entry of k or append one.
Store(k, e) ==
    /\ chains' = [chains EXCEPT ![SlotOf[k]] =
                     IF Found(k) THEN [@ EXCEPT ![Place(k)] = e]
                                 ELSE Append(@, e)]
    /\ len' = IF Found(k) THEN len ELSE len + 1

\* Mutant: the old value is not freed.
SetOwnedLeaks(k, v) ==
    /\ built
    /\ Unshared(k)
    /\ v \notin live
    /\ Store(k, [key |-> k, value |-> v, owned |-> TRUE])
    /\ live' = live \cup {v}
    /\ UNCHANGED built

\* _curl_header_cb with a copy of the field, _concord_bucket_init with a new
\* bucket: allocated before dictionary_set frees what it replaces.
SetOwned(k, v) ==
    /\ built
    /\ Unshared(k)
    /\ v \notin live
    /\ Store(k, [key |-> k, value |-> v, owned |-> TRUE])
    /\ live' = (live \ Freed(k)) \cup {v}
    /\ UNCHANGED built

\* _concord_200sync_getbucket: a bucket key is linked to the bucket that the
\* hash h owns.
Link(k, h) ==
    /\ built
    /\ Unshared(k)
    /\ k # h /\ Found(h) /\ At(h).owned
    /\ Store(k, [key |-> k, value |-> Get(h), owned |-> FALSE])
    /\ live' = live \ Freed(k)
    /\ UNCHANGED built

\* dictionary_replace keeps free_cb.
Replace(k, v) ==
    /\ built
    /\ Unshared(k)
    /\ Found(k) /\ At(k).owned
    /\ v \notin live
    /\ chains' = [chains EXCEPT ![SlotOf[k]][Place(k)].value = v]
    /\ live' = (live \ Freed(k)) \cup {v}
    /\ UNCHANGED <<built, len>>

\* Mutant: the chain ends where the entry was.
RemoveCuts(k) ==
    /\ built
    /\ Unshared(k)
    /\ Found(k)
    /\ chains' = [chains EXCEPT ![SlotOf[k]] = SubSeq(@, 1, Place(k) - 1)]
    /\ len' = len - 1
    /\ live' = live \ Freed(k)
    /\ UNCHANGED built

\* dictionary_remove; without the key it does nothing.
Remove(k) ==
    /\ built
    /\ Unshared(k)
    /\ Found(k)
    /\ chains' = [chains EXCEPT ![SlotOf[k]] =
                     [i \in 1 .. Len(@) - 1 |->
                         IF i < Place(k) THEN @[i] ELSE @[i + 1]]]
    /\ len' = len - 1
    /\ live' = live \ Freed(k)
    /\ UNCHANGED built

\* Mutant: the pointer to the freed table stays.
DestroyKeepsTable ==
    /\ built
    /\ built' = FALSE
    /\ len' = 0
    /\ live' = live \ UNION {Freed(k) : k \in Keys}
    /\ UNCHANGED chains

\* dictionary_destroy frees every entry, and every value that is owned.
Destroy ==
    /\ built
    /\ built' = FALSE
    /\ chains' = [s \in Slots |-> << >>]
    /\ len' = 0
    /\ live' = live \ UNION {Freed(k) : k \in Keys}

Next == \/ Build
        \/ \E k \in Keys : Remove(k)
        \/ \E k \in Keys, v \in Values : SetOwned(k, v) \/ Replace(k, v)
        \/ \E k, h \in Keys : Link(k, h)
        \/ Destroy

Spec == Init /\ [][Next]_vars

-----------------------------------------------------------------------------
(* Properties *)

\* The variables keep their types, and there is nothing before the table is.
TypeOK ==
    /\ built \in BOOLEAN
    /\ chains \in [Slots -> Seq(Entry)]
    /\ len \in Nat
    /\ live \subseteq Values
    /\ ~built => \A s \in Slots : chains[s] = << >>

\* Whatever was set, replaced and removed, a key has one entry, in its slot.
OneEntryPerKey ==
    \A s \in Slots : \A i, j \in DOMAIN chains[s] :
        /\ SlotOf[chains[s][i].key] = s
        /\ chains[s][i].key = chains[s][j].key => i = j

\* dictionary->len is the number of keys that dictionary_get finds.
LenIsKeys == len = Cardinality({k \in Keys : Found(k)})

\* dictionary_get never returns a value that was freed, owned or linked: a
\* bucket outlives the bucket keys that lead to it.
ValuesAlive == \A k \in Keys : Found(k) => Get(k) \in live

\* Every allocated value is owned by exactly one entry: none leaks, and none
\* is freed twice.
OwnedOnce ==
    \A v \in Values :
        v \in live <=> Cardinality({k \in Keys : Freed(k) = {v}}) = 1

Map == INSTANCE OwningMap WITH
    map <- [k \in Keys |-> Get(k)],
    owned <- {k \in Keys : Freed(k) # {}}

\* The chains are a map from keys to values that frees what it owns.
ImplementsOwningMap == Map!Spec
=============================================================================
