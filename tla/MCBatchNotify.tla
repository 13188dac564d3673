--------------------------- MODULE MCBatchNotify ---------------------------
EXTENDS BatchNotify

CONSTANTS m1, m2, m3

Three == {m1, m2, m3}
Two   == {m1, m2}

=============================================================================
