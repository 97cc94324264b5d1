----------------------------- MODULE ContentMap -----------------------------
(***************************************************************************)
(* What the metadata of I/O deduplication promises to the replay: for each *)
(* block it knows, the key of the block's content.  A write makes one      *)
(* block unknown, an update makes one block known; no other block is ever  *)
(* affected, whatever identifiers, lists and tables represent the map.     *)
(***************************************************************************)
CONSTANTS Blocks, Keys

VARIABLE keyOf   \* the key of each known block

MapInit == keyOf = [b \in {} |-> b]

\* Nothing is left known of b, which may have been unknown before.
Invalidate(b) == keyOf' = [c \in DOMAIN keyOf \ {b} |-> keyOf[c]]

\* The key of b, unknown until now, is k.
Learn(b, k) ==
  /\ b \notin DOMAIN keyOf
  /\ keyOf' = [c \in DOMAIN keyOf \cup {b} |-> IF c = b THEN k ELSE keyOf[c]]

\* The key of b is confirmed.
Confirm(b, k) ==
  /\ b \in DOMAIN keyOf
  /\ keyOf[b] = k
  /\ UNCHANGED keyOf

MapNext ==
  \E b \in Blocks :
    \/ Invalidate(b)
    \/ \E k \in Keys : Learn(b, k) \/ Confirm(b, k)

MapSpec == MapInit /\ [][MapNext]_keyOf
=============================================================================
