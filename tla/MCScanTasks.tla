----------------------------- MODULE MCScanTasks -----------------------------
EXTENDS ScanTasks

CONSTANTS s1, q1, q2

OneScan     == {s1}
TwoRequests == {q1, q2}

=============================================================================
