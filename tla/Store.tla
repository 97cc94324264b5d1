------------------------------- MODULE Store -------------------------------
(***************************************************************************)
(* What the replay expects of a cache, whatever its replacement policy: a  *)
(* partial function from names to values.  A value that is put under a new *)
(* name may push out any others, but not itself; a value that is put under *)
(* a name already there replaces the old one where the cache allows it and *)
(* pushes out nothing.  ArcCache and LruCache implement this module.       *)
(***************************************************************************)
CONSTANTS
  Names,      \* what an entry is found by
  Values,     \* what it is found for
  Updatable   \* does putting a value under a present name replace the value?

VARIABLE store

StoreInit == store = [n \in {} |-> n]

\* A new name comes in; the entries outside "kept" are evicted.
Insert(n, v) ==
  /\ n \notin DOMAIN store
  /\ \E kept \in SUBSET DOMAIN store :
       store' = [m \in kept \cup {n} |-> IF m = n THEN v ELSE store[m]]

\* A present name gets a new value.
Update(n, v) ==
  /\ Updatable
  /\ n \in DOMAIN store
  /\ store' = [store EXCEPT ![n] = v]

\* A present name is put again; the cache keeps the value it has.
Touch(n) ==
  /\ ~Updatable
  /\ n \in DOMAIN store
  /\ UNCHANGED store

Put(n, v) == Insert(n, v) \/ Update(n, v) \/ Touch(n)

Clear == store' = [n \in {} |-> n]

StoreNext == Clear \/ \E n \in Names, v \in Values : Put(n, v)

StoreSpec == StoreInit /\ [][StoreNext]_store
=============================================================================
