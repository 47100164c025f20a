--------------------------- MODULE MCSupervision ---------------------------
EXTENDS Supervision, TLC

Symmetry == Permutations(Workers) \cup Permutations(Requests)
=============================================================================
