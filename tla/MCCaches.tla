------------------------------ MODULE MCCaches ------------------------------
(***************************************************************************)
(* The two caches of the replay, the content cache and the sector cache.   *)
(* They share nothing, so a behaviour exercises one of them.               *)
(***************************************************************************)
EXTENDS MCArcCache, MCLruCache

VARIABLE exercised

cacheVars == <<exercised, arcVars, usedVars>>

CachesInit == exercised \in {"arc", "lru"} /\ ArcInit /\ UsedInit

CachesNext ==
  \/ exercised = "arc" /\ ArcNext /\ UNCHANGED <<exercised, usedVars>>
  \/ exercised = "lru" /\ UsedNext /\ UNCHANGED <<exercised, arcVars>>

CachesSpec == CachesInit /\ [][CachesNext]_cacheVars

\* No key and no block number of the content cache is special.
Symmetry == Permutations(Keys) \cup Permutations(IoBlocks)
=============================================================================
