----------------------------- MODULE MCArcCache -----------------------------
EXTENDS ArcCache

\* A turn of each of the loops of __arc_balance: it takes one object out of a
\* list, or it is the loop's end and takes none.
Shift(L, from, to) ==
  LET k == Last(L[from]) IN Prepend([L EXCEPT ![from] = Front(@)], to, k)

EvictOne(L, q) ==
  IF Bytes(L.mru) + Bytes(L.mfu) + ObjectSize <= Capacity THEN L
  ELSE IF Bytes(L.mru) > q THEN Shift(L, "mru", "mrug")
  ELSE IF Bytes(L.mfu) > 0 THEN Shift(L, "mfu", "mfug")
  ELSE L

ForgetOne(L, q) ==
  IF Bytes(L.mrug) + Bytes(L.mfug) <= Capacity THEN L
  ELSE IF Bytes(L.mfug) > q THEN [L EXCEPT !.mfug = Front(@)]
  ELSE IF Bytes(L.mrug) > 0 THEN [L EXCEPT !.mrug = Front(@)]
  ELSE L

\* The loops.  They have come to their end once they have taken a turn for
\* every object there is.
EvictByLoop(L, q) ==
  LET turns == Len(L.mru) + Len(L.mfu)
      after[n \in 0..turns] == IF n = 0 THEN L ELSE EvictOne(after[n - 1], q)
  IN  after[turns]

ForgetByLoop(L, q) ==
  LET turns == Len(L.mrug) + Len(L.mfug)
      after[n \in 0..turns] == IF n = 0 THEN L ELSE ForgetOne(after[n - 1], q)
  IN  after[turns]

BalanceByLoops(L, q) == ForgetByLoop(EvictByLoop(L, q), q)

\* __arc_balance, as modelled, does what its two while loops do, on every
\* reachable set of lists and for every target p may take.
BalanceIsLoops ==
  \A q \in 0..Capacity : Balance(lists, q) = BalanceByLoops(lists, q)
=============================================================================
