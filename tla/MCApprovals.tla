---------------------------- MODULE MCApprovals ----------------------------
EXTENDS Approvals, TLC

CONSTANTS task, session

\* Every worker is a lease of the same task and every caller uses one session.
OneTask == [w \in Workers |-> task]
OneSession == [e \in Executions |-> session]

Symmetry ==
    Permutations(Actors) \cup Permutations(Requests) \cup Permutations(Workers)
=============================================================================
