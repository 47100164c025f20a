----------------------------- MODULE MCJournal -----------------------------
EXTENDS SessionJournal, TLC
OneIdentity == [o \in Operations |-> CHOOSE k \in Identities : TRUE]
Symmetry == Permutations(Handlers) \cup Permutations(Operations)
=============================================================================
