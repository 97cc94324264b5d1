----------------------------- MODULE MCConfided -----------------------------
EXTENDS ConfidedReplay

\* No block and no content is special.
Symmetry == Permutations(Blocks) \cup Permutations(Keys)
=============================================================================
