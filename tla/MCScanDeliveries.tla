-------------------------- MODULE MCScanDeliveries --------------------------
EXTENDS ScanDeliveries, TLC

CONSTANTS b1, b2, q1, q2

EveryPlan   == AllPlans
SinglePass  == {"single"}
TwoBlocks   == {b1, b2}
TwoRequests == {q1, q2}
Alike       == Permutations(TwoBlocks) \cup Permutations(TwoRequests)

=============================================================================
