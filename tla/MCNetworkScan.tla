--------------------------- MODULE MCNetworkScan ---------------------------
EXTENDS NetworkScan, TLC

CONSTANTS b1, b2, q1, q2

EveryPlan   == AllPlans
TwoBlocks   == {b1, b2}
TwoRequests == {q1, q2}

=============================================================================
