----------------------------- MODULE CveProbe -----------------------------
(***************************************************************************)
(* One question put to the arithmetic of CveMatch, and what its answer     *)
(* must be.  The question never changes: the runs put some, the theorems   *)
(* speak of all.                                                           *)
(***************************************************************************)
EXTENDS CveMatch

VARIABLE probe

\* A version or none; a criterion about redis; a service that may or may not be one.
SomeVersion == Dotted \cup {NoVersion}
Redis       == "redis:redis"
IsCriterion(m) ==
  m.product = Redis /\ {m.version, m.si, m.se, m.ei, m.ee} \subseteq SomeVersion
IsService(s) == s.cpe \in STRING /\ s.names \subseteq STRING /\ s.text \in BOOLEAN

\* A question about a version, a criterion and some services, about a score, or about windows.
IsProbe(p) ==
  /\ p.kind \in {"version", "risk", "pages", "none"}
  /\ p.kind = "version" => /\ p.v \in SomeVersion /\ IsCriterion(p.m)
                           /\ \A s \in p.services : IsService(s)
  /\ p.kind = "risk"    => /\ p.cvss \in Scores /\ p.epss \in Chances /\ p.kev \in BOOLEAN
                           /\ p.level \in Levels /\ p.severity \in Severities
  /\ p.kind = "pages"   => p.days \in Nat \ {0} /\ p.counts \in Seq(Nat)

ProbeInit == IsProbe(probe)
ProbeSpec == ProbeInit /\ [][UNCHANGED probe]_probe

----------------------------------------------------------------------------
(* Properties *)

\* A criterion applies to a version exactly when the version lies in it, except where a letter
\* meets a written-out zero; a service of unknown version gets only CVEs of a whole product; and
\* the stored index gives a service the CVEs of its own product, none whose row is gone, and where
\* its banner is clean the same ones as NVD's live answer for that product
\* (intel/cpe.py:90-184, core/cpe.py:119-173).
MatchTrue ==
  probe.kind = "version" =>
    LET m == probe.m
    IN /\ AppliesRight(probe.v, m)
       /\ \A s \in probe.services :
             LET own == s.cpe = Redis \/ "redis" \in s.names IN
             /\ m.cve \in Offline(s, {m}, {m.cve}) <=> own /\ Applies(VersionOf(s), m)
             /\ own /\ VersionOf(s) = s.banner => Online(s, {m}) = Offline(s, {m}, {m.cve})
             /\ Offline(s, {m}, {}) = {}

\* More evidence never lowers a risk score, the score stays within 0 and 10, and a CVE known to be
\* exploited has at least 7 (core/risk.py:24-57).
RiskMonotone ==
  probe.kind = "risk" => RiskGrows(probe.cvss, probe.epss, probe.kev, probe.level, probe.severity)

\* The windows of a fetch tile its days, none longer than NVD takes, newest first in a backfill;
\* and a window is left incomplete only when it, or in a shared budget an older one, is larger
\* than its own eight pages (intel/nvd.py:164-326).
PagesTrue ==
  probe.kind = "pages" =>
    /\ Tiled(probe.days) /\ SharedRight(probe.counts)
    /\ \A i \in DOMAIN probe.counts : CutWhenLarge(probe.counts[i])

\* Matching, risk and pages are as above, whatever is asked.
ArithmeticTrue == MatchTrue /\ RiskMonotone /\ PagesTrue

=============================================================================
