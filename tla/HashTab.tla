------------------------------ MODULE HashTab ------------------------------
(***************************************************************************)
(* The hash table of utils/uhashtab.c, which holds the elements of every   *)
(* deduplication mode and the places of the blocks of the simulated disk.  *)
(* A bucket is a chain of nodes.  Insert, remove and search walk it while  *)
(* the comparison says that their key is larger than the node's, so a      *)
(* chain has to be sorted for an entry to be found again.                  *)
(*                                                                         *)
(* The comparison need not be an order: blkidcmp (blkID-hashtab/blkidtab.c)*)
(* says of two keys of different lengths that each is larger than the      *)
(* other.  The bound HASHTAB_MAX_NODES of 2^32 - 1 nodes and the failure   *)
(* of malloc are left out.                                                 *)
(***************************************************************************)
EXTENDS Integers, SequencesExt

CONSTANTS
  TableKeys,      \* the keys
  Data,           \* what is stored under them
  Buckets,        \* 0 .. size - 1
  HashValue(_),   \* hash_value: the bucket of a key
  After(_, _)     \* keycmp(key1, key2) > 0

\* What the walk needs of hash_value and keycmp: different keys are told
\* apart, and a node that a key walks past stays before the key that was put
\* in front of another node because of that one.
ASSUME HashTabAssumption ==
  /\ \A k \in TableKeys : HashValue(k) \in Buckets
  /\ \A k \in TableKeys : ~After(k, k)
  /\ \A k, l \in TableKeys : k # l => After(k, l) \/ After(l, k)
  /\ \A k, l, m \in TableKeys :
       ~After(k, l) /\ k # l /\ After(m, l) => After(m, k)

VARIABLE chains   \* htable: the nodes of each bucket

Node(k, d) == [key |-> k, datum |-> d]

\* The node at which the walk with key k ends; one more than there are if it
\* ends with NULL.
Stop(c, k) ==
  CHOOSE i \in 1..(Len(c) + 1) :
    /\ i <= Len(c) => ~After(k, c[i].key)
    /\ \A j \in 1..(i - 1) : After(k, c[j].key)

\* keycmp is 0 at the end of the walk.
Meets(c, k) == Stop(c, k) <= Len(c) /\ c[Stop(c, k)].key = k

\* hashtab_search finds k, and returns this datum.
Finds(k) == Meets(chains[HashValue(k)], k)
Search(k) == chains[HashValue(k)][Stop(chains[HashValue(k)], k)].datum

HashtabCreate == chains = [b \in Buckets |-> <<>>]

\* Faulty variant: a new node is put behind the node the walk ends at.
InsertedBehind(c, k, d) ==
  InsertAt(c, IF Stop(c, k) <= Len(c) THEN Stop(c, k) + 1 ELSE Stop(c, k), Node(k, d))

\* A node of key k is put in front of the one that the walk ends at.
Inserted(c, k, d) == InsertAt(c, Stop(c, k), Node(k, d))

\* hashtab_insert; -EEXIST is returned of a key that is found.
HashtabInsert(k, d) ==
  chains' = IF Finds(k) THEN chains
            ELSE [chains EXCEPT ![HashValue(k)] = Inserted(@, k, d)]

\* hashtab_remove of a key that is not there: -ENOENT if the walk ends at a
\* node, and a NULL pointer is used if it does not.
RemoveIsSafe(k) == Stop(chains[HashValue(k)], k) <= Len(chains[HashValue(k)])

HashtabRemove(k) ==
  /\ RemoveIsSafe(k)
  /\ chains' = IF Finds(k)
               THEN [chains EXCEPT ![HashValue(k)] = RemoveAt(@, Stop(@, k))]
               ELSE chains

HashtabDestroy == chains' = [b \in Buckets |-> <<>>]

HashTabNext ==
  \/ \E k \in TableKeys, d \in Data : HashtabInsert(k, d)
  \/ \E k \in TableKeys : HashtabRemove(k)
  \/ HashtabDestroy

HashTabSpec == HashtabCreate /\ [][HashTabNext]_chains

-----------------------------------------------------------------------------
Nodes == UNION {ToSet(chains[b]) : b \in Buckets}

\* Every node is met by the walk with its own key, in the bucket of the key:
\* what was inserted is found and can be removed, whatever was inserted or
\* removed around it, and no key has two nodes.
EveryNodeMet ==
  \A b \in Buckets : \A i \in DOMAIN chains[b] :
    /\ HashValue(chains[b][i].key) = b
    /\ Stop(chains[b], chains[b][i].key) = i
=============================================================================
