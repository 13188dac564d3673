----------------------------- MODULE MCVulnSync -----------------------------
EXTENDS VulnSync, TLC

CONSTANTS s1, s2, a1

TwoScans   == {s1, s2}
OneAnalyst == {a1}

\* The two scans start alike and nothing tells one from the other.
Alike == Permutations(TwoScans)

=============================================================================
