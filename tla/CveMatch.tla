----------------------------- MODULE CveMatch -----------------------------
(***************************************************************************)
(* The arithmetic of the CVE store, without state: how versions compare,   *)
(* which criteria apply to a service, which CVEs a service is given, the   *)
(* risk score, and the windows and pages of a fetch from NVD.              *)
(*                                                                         *)
(* A version is the sequence of its tokens, as _version_tokens cuts them:  *)
(* a number n is <<1, n>>, a run of letters <<0, r>> with r its rank, so   *)
(* that tokens compare as the tuples of the code do.                       *)
(***************************************************************************)
EXTENDS Integers, Sequences, FiniteSets, FiniteSetsExt, SequencesExt, Functions

Num(n)    == <<1, n>>
Letter(r) == <<0, r>>
Zero      == Num(0)

NoVersion == <<>>               \* "", "*" or "-": no version
NoBound   == <<>>               \* a bound the criterion does not have

Below(x, y) == x[1] < y[1] \/ (x[1] = y[1] /\ x[2] < y[2])

\* A mistake to catch: a missing part is smaller than a zero written out.
CompareShort(a, b, i) ==
  IF i > Len(a) THEN -1
  ELSE IF i > Len(b) THEN 1
  ELSE IF a[i] = b[i] THEN 0 ELSE IF Below(a[i], b[i]) THEN -1 ELSE 1

\* compare_versions at one position: a part that is missing equals a numeric zero and is smaller
\* than anything else.
CompareAt(a, b, i) ==
  IF i > Len(a) THEN IF b[i] = Zero THEN 0 ELSE -1
  ELSE IF i > Len(b) THEN IF a[i] = Zero THEN 0 ELSE 1
  ELSE IF a[i] = b[i] THEN 0 ELSE IF Below(a[i], b[i]) THEN -1 ELSE 1

\* The first position that differs decides.
Compare(a, b) ==
  LET longest == IF Len(a) > Len(b) THEN Len(a) ELSE Len(b)
      apart   == {i \in 1..longest : CompareAt(a, b, i) # 0}
  IN IF apart = {} THEN 0 ELSE CompareAt(a, b, Min(apart))

\* A criterion: its CVE, product, version, and four bounds.
Bounded(m) == \E b \in {"si", "se", "ei", "ee"} : m[b] # NoBound

Applies(sv, m) ==
  IF sv = NoVersion THEN m.version = NoVersion /\ ~Bounded(m)
  ELSE IF m.version # NoVersion THEN Compare(sv, m.version) = 0
  ELSE /\ m.si # NoBound => Compare(sv, m.si) >= 0
       /\ m.se # NoBound => Compare(sv, m.se) > 0
       /\ m.ei # NoBound => Compare(sv, m.ei) <= 0
       /\ m.ee # NoBound => Compare(sv, m.ee) < 0

----------------------------------------------------------------------------
(* Services *)

\* The curated table from the name of a product or service to the products it may be in a CPE.
Aliases == [redis |-> {"redislabs:redis", "redis:redis"}, openssh |-> {"openbsd:openssh"}]
Curated(name) == IF name \in DOMAIN Aliases THEN Aliases[name] ELSE {}

\* The CPE's own product and those of the names the CPE and the banner carry.
Candidates(s) == (IF s.cpe = "" THEN {} ELSE {s.cpe}) \cup UNION {Curated(name) : name \in s.names}

\* A banner's version may be followed by text, which reads as one more run of letters.
RawBanner(s) == IF s.text THEN Append(s.banner, Letter(9)) ELSE s.banner

\* A CPE without a version falls back on the banner's, a service without a CPE has only that.
VersionOf(s) == IF s.cpe # "" /\ s.version # NoVersion THEN s.version ELSE RawBanner(s)

\* find_matching_cves over every candidate; a CVE whose row is gone is passed over.
Offline(s, criteria, stored) ==
  {m.cve : m \in {n \in criteria : n.product \in Candidates(s) /\ Applies(VersionOf(s), n)}} \cap stored

\* _clean_version: the numbers and the letter right behind them, without the text.
Cleaned(s) == s.banner

\* The live path: what NVD's keyword search found, where any criterion takes the cleaned version.
Online(s, found) == {m.cve : m \in {n \in found : Applies(Cleaned(s), n)}}

----------------------------------------------------------------------------
(* Risk, in hundredths *)

NoScore == -1
SeverityBase == [critical |-> 900, high |-> 700, medium |-> 500, low |-> 300, info |-> 100, none |-> 0]
ExploitLevel(count, weapon) == IF count <= 0 THEN 0 ELSE IF weapon THEN 2 ELSE 1
ExploitBonus == <<50, 150>>

AtMost(a, b) == IF a < b THEN a ELSE b
AtLeast(a, b) == IF a > b THEN a ELSE b

Priority(cvss, epss, kev, level, severity) ==
  LET base   == IF cvss # NoScore THEN cvss ELSE SeverityBase[severity]
      chance == IF epss = NoScore THEN base ELSE base + 2 * epss
      known  == IF kev THEN chance + 300 ELSE chance
      armed  == IF level = 0 THEN known ELSE known + ExploitBonus[level]
  IN AtMost(IF kev THEN AtLeast(armed, 700) ELSE armed, 1000)

----------------------------------------------------------------------------
(* Fetching from NVD *)

Span           == 120      \* days in a window at most
PagesPerWindow == 8
PageSize       == 2000

\* _date_windows: one after the other from the start, the last one cut at the end.
WindowCount(days) == AtLeast(1, (days + Span - 1) \div Span)
DateWindows(days) ==
  [i \in 1..WindowCount(days) |-> [from |-> (i - 1) * Span, to |-> AtMost(i * Span, days)]]

\* backfill_windows: the newest first.
BackfillWindows(days) == Reverse(DateWindows(days))

\* A window asks for pages until it has them all; an empty one still costs a request.
Need(cves) == AtLeast(1, (cves + PageSize - 1) \div PageSize)

\* _fetch_window_pages: a budget of its own.
WindowPages(cves) == AtMost(Need(cves), PagesPerWindow)

\* _fetch_nvd_pages: one budget for all windows, spent from the oldest on; left[i] is what the
\* first i windows leave of it.
BudgetLeft(counts) ==
  LET left[i \in 0..Len(counts)] ==
        IF i = 0 THEN Len(counts) * PagesPerWindow ELSE AtLeast(0, left[i - 1] - Need(counts[i]))
  IN left
SharedPages(counts) == [i \in DOMAIN counts |-> AtMost(Need(counts[i]), BudgetLeft(counts)[i - 1])]

----------------------------------------------------------------------------
(* What the code is after *)

\* Versions of the form 1.2.3 or 1.2.3a, of any length, and their order: number by number, a
\* missing one as zero, and the letter as a later patch of the same release.
Plain(v)    == v # NoVersion /\ v[1][1] = 1 /\ \A i \in 1..(Len(v) - 1) : v[i][1] = 1
Numbers(v)  == IF v[Len(v)][1] = 0 THEN Front(v) ELSE v
Patch(v)    == IF v[Len(v)][1] = 0 THEN v[Len(v)][2] ELSE 0
Part(v, i)  == IF i > Len(Numbers(v)) THEN 0 ELSE Numbers(v)[i][2]
Depth(a, b) == AtLeast(Len(Numbers(a)), Len(Numbers(b)))
Alike(a, b, n) == \A k \in 1..n : Part(a, k) = Part(b, k)
Precedes(a, b) ==
  \/ \E i \in 1..Depth(a, b) : Part(a, i) < Part(b, i) /\ Alike(a, b, i - 1)
  \/ Alike(a, b, Depth(a, b)) /\ Patch(a) < Patch(b)
Same(a, b) == Alike(a, b, Depth(a, b)) /\ Patch(a) = Patch(b)

\* The one case the code orders the other way: a letter where the other writes out a zero (1.0a
\* against 1.0.0).
Misaligned(a, b) ==
  \E i \in DOMAIN a \cap DOMAIN b : {a[i][1], b[i][1]} = {0, 1} /\ Zero \in {a[i], b[i]}
Aligned(sv, m) == \A w \in {m.version, m.si, m.se, m.ei, m.ee} \ {NoVersion} : ~Misaligned(sv, w)

Within(sv, m) ==
  IF m.version # NoVersion THEN Same(sv, m.version)
  ELSE /\ m.si # NoBound => ~Precedes(sv, m.si)
       /\ m.se # NoBound => Precedes(m.se, sv)
       /\ m.ei # NoBound => ~Precedes(m.ei, sv)
       /\ m.ee # NoBound => Precedes(sv, m.ee)

\* Versions as feeds and banners write them: numbers, and a letter behind.
Token  == ({1} \X Nat) \cup ({0} \X (Nat \ {0}))
Dotted == {v \in Seq(Token) : Plain(v)}

\* compare_versions is the order of these versions.
Orders(a, b) ==
  ~ Misaligned(a, b) =>
    /\ Compare(a, b) = 0 <=> Same(a, b)
    /\ Compare(a, b) = -1 <=> Precedes(a, b)
    /\ Compare(a, b) = 1 <=> Precedes(b, a)

\* A criterion applies exactly to the versions it contains, and to an unknown version only when
\* it is about every version.
AppliesRight(sv, m) ==
  /\ sv # NoVersion /\ Aligned(sv, m) => (Applies(sv, m) <=> Within(sv, m))
  /\ sv = NoVersion => (Applies(sv, m) <=> m.version = NoVersion /\ ~Bounded(m))

\* What the score is made of.
Scores     == {NoScore} \cup 0..1000
Chances    == {NoScore} \cup 0..100
Levels     == 0..2
Severities == DOMAIN SeverityBase

\* A score lies within 0 and 10, with at least 7 for a CVE known to be exploited, and no evidence
\* lowers it.
RiskGrows(cvss, epss, kev, level, severity) ==
  LET score == Priority(cvss, epss, kev, level, severity)
  IN /\ score \in 0..1000 /\ (kev => score >= 700)
     /\ score <= Priority(cvss, 100, kev, level, severity)
     /\ score <= Priority(cvss, epss, TRUE, level, severity)
     /\ \A more \in level..2 : score <= Priority(cvss, epss, kev, more, severity)

\* The windows tile the days, none longer than NVD takes, and a backfill begins with the newest.
Tiled(days) ==
  LET w == DateWindows(days)
  IN /\ w[1].from = 0 /\ w[Len(w)].to = days
     /\ \A i \in DOMAIN w : w[i].to - w[i].from \in 1..Span /\ (i > 1 => w[i].from = w[i - 1].to)
     /\ BackfillWindows(days)[1].to = days

\* Windows that share a budget: one is cut short only when it or an older one holds more than eight
\* pages.
SharedRight(counts) ==
  \A i \in DOMAIN counts :
    SharedPages(counts)[i] < Need(counts[i]) => \E k \in 1..i : Need(counts[k]) > PagesPerWindow

\* A window with a budget of its own is cut short only when it holds more than eight pages.
CutWhenLarge(cves) == WindowPages(cves) < Need(cves) <=> cves > PagesPerWindow * PageSize

=============================================================================
