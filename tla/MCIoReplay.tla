----------------------------- MODULE MCIoReplay -----------------------------
EXTENDS IoReplayStats

\* No block and no content is special: the runs take states that differ in
\* the names of blocks or of contents for one.
Symmetry == Permutations(Blocks) \cup Permutations(Keys)
=============================================================================
