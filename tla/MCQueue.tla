------------------------------ MODULE MCQueue ------------------------------
EXTENDS QueueOrder
ThreeJobs == 1..3
=============================================================================
