---------------------------- MODULE DedupTables ----------------------------
(***************************************************************************)
(* The containers that hold the metadata of Iodedup: the vectors p2dmaps   *)
(* and dedupmap_by_did (utils/vector32.c) and the hash table deduptab      *)
(* (iodedup/deduptab.c).  Each step of the metadata is taken with the      *)
(* calls it makes on them, which see nothing but the containers' state.    *)
(***************************************************************************)
EXTENDS Iodedup, HashTab

CONSTANTS
  InitialSize,   \* of dedupmap_by_did (20 000 000)
  WordRange      \* 2^32: sizes and indices are __u32

\* The size of a grown vector is computed in 32 bits: a block number from
\* 2^31 - 1 on, on a device of 8 TB, would shrink the vector.
ASSUME TablesAssumption ==
  /\ InitialSize \in Nat /\ WordRange \in Nat
  /\ \A b \in Blocks : b \in Nat /\ 2 * (b + 1) < WordRange
  /\ 2 * (FirstNum + Cardinality(Blocks) + 1) < WordRange
  /\ Keys \subseteq TableKeys
  /\ (FirstNum + 1)..(FirstNum + Cardinality(Blocks)) \subseteq Data

VARIABLES
  p2dmaps,    \* the vector of p2d_datum by block number
  dedupmap    \* dedupmap_by_did, the vector of elements by identifier

tableVars == <<metaVars, chains, p2dmaps, dedupmap>>

\* Comparison and bucket of the hashes in deduptab, which are read as numbers
\* here, as memcmp does; deduphash keeps the last bits (table of two buckets).
DedupAfter(k, l) == k > l
DedupHash(k) == k % 2

-----------------------------------------------------------------------------
\* A vector: its size, and the entries that are not NULL.
Vector32(n) == [size |-> n, data |-> [i \in {} |-> i]]

Holds(v, i) == i < v.size /\ i \in DOMAIN v.data

\* Faulty variant: the vector grows to twice the index.
GrownToIndex(v, i) ==
  IF i < v.size THEN v
  ELSE [v EXCEPT !.size = (2 * i) % WordRange,
                 !.data = Only(@, {j \in DOMAIN @ : j < (2 * i) % WordRange})]

\* vector32_set makes room, if it has to, for twice as much; entries beyond
\* the new size are lost.
Grown(v, i) ==
  IF i < v.size THEN v
  ELSE [v EXCEPT !.size = (2 * (i + 1)) % WordRange,
                 !.data = Only(@, {j \in DOMAIN @ : j < (2 * (i + 1)) % WordRange})]

Vector32Set(v, i, e) == [Grown(v, i) EXCEPT !.data = With(@, i, e)]
Vector32Clear(v, i) == [Grown(v, i) EXCEPT !.data = Only(@, DOMAIN @ \ {i})]

\* vector32_get, and an assignment through the pointer it returns.
At(v, i) == v.data[i]
Through(v, i, e) == [v EXCEPT !.data[i] = e]

-----------------------------------------------------------------------------
CreateP2dMappingSpace == p2dmaps = Vector32(0)
DeduptabInit == HashtabCreate
CreateDedupmapMappingSpace == dedupmap = Vector32(InitialSize) /\ DeduptabInit

TablesInit == MetaInit /\ CreateP2dMappingSpace /\ CreateDedupmapMappingSpace

\* note_p2d_map fills in an entry of the block map, note_dedup_attrs and
\* note_d2p_tuple an element with its first block.
NoteP2dMap(i) == [iodedupID |-> i, pdirty |-> FALSE]
NoteDedupAttrs(k, b, leader) == [dhashkey |-> k, d2pmaps |-> {b}, ioblkID |-> leader]

\* The tuple of a block is added to an element (get_nondeduped_d2p), or
\* removed from it (del_d2p_from_d2pmaps).
AddD2P(e, b) == [e EXCEPT !.d2pmaps = @ \cup {b}]
DelD2P(e, b) == [e EXCEPT !.d2pmaps = @ \ {b}]

\* A last block takes its element out of the hash table and the vector.
TableRecycle(i, b) ==
  IF At(dedupmap, i).d2pmaps = {b}
  THEN /\ HashtabRemove(At(dedupmap, i).dhashkey)
       /\ dedupmap' = Vector32Clear(dedupmap, i)
  ELSE /\ dedupmap' = Through(dedupmap, i, DelD2P(At(dedupmap, i), b))
       /\ UNCHANGED chains

TableTrim(b) ==
  IF ~Holds(p2dmaps, b)
  THEN /\ p2dmaps' = Vector32Set(p2dmaps, b, [iodedupID |-> DummyId, pdirty |-> TRUE])
       /\ UNCHANGED <<chains, dedupmap>>
  ELSE IF At(p2dmaps, b).pdirty
  THEN UNCHANGED <<chains, p2dmaps, dedupmap>>
  ELSE /\ p2dmaps' = Through(p2dmaps, b, [At(p2dmaps, b) EXCEPT !.pdirty = TRUE])
       /\ TableRecycle(At(p2dmaps, b).iodedupID, b)

\* updateBlockio, which allocates an entry for a block that has none.
TableUpdateBlockio(b, i) ==
  p2dmaps' = Vector32Set(p2dmaps, b, NoteP2dMap(i))

\* cmaphit_flag was set by the lookup of a clean entry.
CmapHit(b) == Holds(p2dmaps, b) /\ ~At(p2dmaps, b).pdirty

TableConfirm(b, k, leader) ==
  /\ dedupmap' = Through(dedupmap, Search(k), [At(dedupmap, Search(k)) EXCEPT !.ioblkID = leader])
  /\ UNCHANGED <<chains, p2dmaps>>

TableJoin(b, k, leader) ==
  /\ dedupmap' = Through(dedupmap, Search(k),
                   [AddD2P(At(dedupmap, Search(k)), b) EXCEPT !.ioblkID = leader])
  /\ TableUpdateBlockio(b, Search(k))
  /\ UNCHANGED chains

TableNew(b, k, leader) ==
  /\ HashtabInsert(k, NextDedupNum)
  /\ dedupmap' = Vector32Set(dedupmap, NextDedupNum, NoteDedupAttrs(k, b, leader))
  /\ TableUpdateBlockio(b, NextDedupNum)

\* A key that the table has not got is one of a mapping that was not hit, or
\* the program stops in an assertion.
TableResume(b, k, leader) ==
  IF CmapHit(b) THEN Finds(k) /\ TableConfirm(b, k, leader)
  ELSE IF Finds(k) THEN TableJoin(b, k, leader)
  ELSE TableNew(b, k, leader)

TablesNext ==
  \E b \in Blocks :
    \/ Trim(b) /\ TableTrim(b)
    \/ \E k \in Keys, leader \in Blocks :
         ResumeDeduping(b, k, leader, CmapHitID(b)) /\ TableResume(b, k, leader)

TablesSpec == TablesInit /\ [][TablesNext]_tableVars

-----------------------------------------------------------------------------
\* No step of the metadata is held up by its containers: the walk of
\* hashtab_remove never runs off the end of a chain, where it would use NULL,
\* and the assertion on the search of a confirmed key holds.
RemovesOnlyPresent ==
  \A b \in Blocks : Clean(b) => RemoveIsSafe(KeyOf(b)) /\ Finds(KeyOf(b))

\* The containers return what was last put into them, for every block,
\* identifier and key, and NULL for what was never put in or was taken out:
\* vectors that grow lose nothing, and nothing hides a node of the hash table.
\* So an element that is removed is there.
ContainersFaithful ==
  /\ \A b \in Blocks : IF Mapped(b) THEN Holds(p2dmaps, b) /\ At(p2dmaps, b) = p2d[b]
                       ELSE ~Holds(p2dmaps, b)
  /\ \A i \in 0..dedupNum : IF i \in Ids THEN Holds(dedupmap, i) /\ At(dedupmap, i) = d2pv[i]
                            ELSE ~Holds(dedupmap, i)
  /\ \A k \in Keys : IF k \in DOMAIN deduptab THEN Finds(k) /\ Search(k) = deduptab[k]
                     ELSE ~Finds(k)
  /\ RemovesOnlyPresent
=============================================================================
