------------------------------ MODULE MCFeeds ------------------------------
(***************************************************************************)
(* The feeds and the jobs around them.  The parts share no state, so each  *)
(* behaviour stays in one play and TLC adds the plays up.                  *)
(***************************************************************************)
EXTENDS Feeds, CveProbe, TLC

CONSTANTS c1, c2, f1, f2, u1, u2, u3, w1, w2

TwoCves    == {c1, c2}
TwoFills   == {f1, f2}
ThreeClicks == {u1, u2, u3}
TwoWriters == {w1, w2}
LastBare   == {2}

\* Every form once or twice, with values inside and outside the code's limits.
SomeForms == {
  RatelimitForm(TRUE, 0), SmtpForm(TRUE, "a", 25, "s1"), SmtpForm(TRUE, "b", 70000, "blank"),
  SyslogForm(TRUE, "a", 0, "tcp", "bad"), HardeningForm(3, TRUE, "pem"), NetworkForm("bad", TRUE),
  ScanForm("insane", FALSE, 99), AiForm(TRUE, "local", 1), AssetScopeForm("cidr"),
  NvdForm(0, "k1"), NvdForm(9, "blank"), TimezoneForm("UTC"), LdapSyncForm(TRUE, "bad", 99),
  LicenseForm("pub", "key"), UpdateForm(FALSE, "bad", TRUE), CveSynced(1), ExploitSynced(1),
  Freshness(0, 1), Freshness(2, 2), UpdateCheck(TRUE, "ok"), UpdateCheck(FALSE, "unreachable")}

VARIABLE play

----------------------------------------------------------------------------
(* Questions *)

Nums      == {Num(0), Num(1)}
Releases  == UNION {[1..k -> Nums] : k \in 1..3}
Lettered  == {Append(v, Letter(1)) : v \in Releases}
Versions  == Releases \cup Lettered
Ends      == {<<Num(1)>>, <<Num(1), Num(0)>>, <<Num(1), Num(0), Letter(1)>>, <<Num(0), Num(1)>>}

Criterion(v, si, se, ei, ee) ==
  [cve |-> c1, product |-> Redis, version |-> v, si |-> si, se |-> se, ei |-> ei, ee |-> ee]
Criteria ==
  {Criterion(v, NoBound, NoBound, NoBound, NoBound) : v \in Versions \cup {NoVersion}}
    \cup {Criterion(NoVersion, si, se, ei, ee) : si \in Ends \cup {NoBound}, se \in Ends \cup {NoBound},
                                                 ei \in Ends \cup {NoBound}, ee \in Ends \cup {NoBound}}

Service(cpe, v, banner, text, names) ==
  [cpe |-> cpe, version |-> v, banner |-> banner, text |-> text, names |-> names]
Services(v) ==
  {Service(Redis, v, NoVersion, FALSE, {}), Service("", NoVersion, v, FALSE, {"redis"}),
   Service(Redis, NoVersion, v, TRUE, {}), Service("openbsd:openssh", v, v, FALSE, {"openssh"})}

VersionProbes ==
  UNION {[kind : {"version"}, v : {v}, m : Criteria, services : {Services(v)}] : v \in Versions \cup {NoVersion}}
RiskProbes    == [kind : {"risk"}, cvss : {NoScore, 0, 400, 980}, epss : {NoScore, 0, 60, 100},
                  kev : BOOLEAN, level : 0..2, severity : {"critical", "low", "none"}]
PageProbes    == [kind : {"pages"}, days : {1, 119, 120, 121, 300, 730},
                  counts : [1..3 -> {0, 1, 2000, 2001, 16000, 16001, 40000}]]
NoProbe       == [kind |-> "none"]

\* They are among those the theorems answer.
ASSUME ProperProbes == \A p \in VersionProbes \cup RiskProbes \cup PageProbes \cup {NoProbe} : IsProbe(p)

----------------------------------------------------------------------------
(* The plays *)

QuietUpdate   == UpdateInit
QuietSettings == row = Defaults /\ tzCache = "Istanbul" /\ aiCache = FALSE /\ behind = FALSE
                 /\ calls = 0 /\ job = [w \in Writers |-> Idle]

\* The store before the first load, and the Redis of a backfill that has come to its last window.
EmptyStore == nvd = [c \in Cves |-> 1] /\ fresh = {} /\ cve = Nothing /\ rows = [c \in Cves |-> {}]
              /\ risk = Nothing
LastWindow(f) ==
  /\ fill = [g \in Fills |-> IF g = f THEN [NewFill EXCEPT !.at = "fetch", !.win = Windows - 1] ELSE NewFill]
  /\ kg = [there |-> TRUE, status |-> "running", cancel |-> FALSE] /\ lock = f
  /\ asking = FALSE /\ owed = {} /\ mishap = {} /\ daily = NewDaily /\ epss = NewEpss

\* store: a backfill in its last window next to the daily sync, over the one CVE NVD has published.
\* epss: the daily sync and the EPSS refresh over two stored CVEs.
MCInit ==
  \/ play = "fill" /\ probe = NoProbe /\ EmptyStore /\ FeedsInit /\ QuietUpdate /\ QuietSettings
  \/ /\ play = "store" /\ probe = NoProbe /\ QuietUpdate /\ QuietSettings
     /\ nvd = [c \in Cves |-> IF c = c1 THEN 1 ELSE 0] /\ fresh = {}
     /\ cve = Nothing /\ rows = [c \in Cves |-> {}] /\ risk = Nothing
     /\ \E f \in Fills : LastWindow(f)
  \/ /\ play = "epss" /\ probe = NoProbe /\ QuietUpdate /\ QuietSettings
     /\ nvd = [c \in Cves |-> 1] /\ fresh = {} /\ cve = nvd /\ risk = nvd
     /\ rows = [c \in Cves |-> {}] /\ FeedsInit
  \/ play = "update" /\ probe = NoProbe /\ EmptyStore /\ FeedsInit /\ UpdateInit /\ QuietSettings
  \/ play = "settings" /\ probe = NoProbe /\ EmptyStore /\ FeedsInit /\ QuietUpdate /\ SettingsInit
  \/ /\ play = "match" /\ EmptyStore /\ FeedsInit /\ QuietUpdate /\ QuietSettings
     /\ probe \in VersionProbes \cup RiskProbes \cup PageProbes

\* Bounds of the fill play: at most two mishaps, of which a failing call of Redis, the cause that
\* each of its properties allows for, is the last; and windows without CVEs.
FillNext ==
  /\ Cardinality(mishap) <= 1 /\ "redis" \notin mishap
  /\ \/ \E f \in Fills : FillStep(f) \/ Crash(f) \/ (Fetch(f) /\ fill'[f].at = "note")
     \/ CancelAsk \/ CancelSet \/ LockExpires \/ HashExpires

\* Bound of the store play: a scan writes the one CVE, where nobody has written it beside the sync yet.
StoreNext ==
  \/ \E f \in Fills : WriteStep(f)
  \/ DailyStep \/ (daily.at # "idle" /\ c1 \notin daily.crossed /\ (LookupPut(c1) \/ LookupKeep(c1)))
  \/ \E c \in Cves : Edit(c) \/ Reject(c) \/ Age(c)

EpssNext == DailyStep \/ EpssStep \/ Edit(c1) \/ Reject(c1)

MCNext ==
  /\ UNCHANGED <<play, probe>>
  /\ \/ play = "fill"     /\ FillNext     /\ UNCHANGED <<updateVars, settingsVars>>
     \/ play = "store"    /\ StoreNext    /\ UNCHANGED <<updateVars, settingsVars>>
     \/ play = "epss"     /\ EpssNext     /\ UNCHANGED <<updateVars, settingsVars>>
     \/ play = "update"   /\ UpdateNext   /\ UNCHANGED <<feedVars, settingsVars>>
     \/ play = "settings" /\ SettingsNext /\ UNCHANGED <<feedVars, updateVars>>

MCSpec == MCInit /\ [][MCNext]_<<feedVars, updateVars, settingsVars, play, probe>>

Sym == Permutations(TwoFills) \cup Permutations(ThreeClicks) \cup Permutations(TwoWriters)

=============================================================================
