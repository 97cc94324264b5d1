------------------------------ MODULE MCProvided ------------------------------
EXTENDS ProvidedReplay

\* Blocks of three letters, of which b ends a chunk: <<b, b, a>> is cut into
\* three chunks, one of them twice, and <<a, b, b>> into two, one of which it
\* shares with the other content at another offset.
CONSTANTS a, b
MCBlockSize == 3
MCLetters == {a, b}
MCContents == {<<b, b, a>>, <<a, b, b>>}

Ends(k) == SetToSortSeq({i \in DOMAIN k : i = Len(k) \/ k[i] = b}, <)
Chunks(k) ==
  LET end == Ends(k)
      start(j) == IF j = 1 THEN 0 ELSE end[j - 1]
  IN  [j \in DOMAIN end |-> [offset |-> start(j),
                             key |-> SubSeq(k, start(j) + 1, end[j])]]
MCChunksOf == [k \in MCContents |-> Chunks(k)]

\* No block is special.
Symmetry == Permutations(Blocks)
=============================================================================
