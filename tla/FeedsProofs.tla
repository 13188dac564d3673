---------------------------- MODULE FeedsProofs ----------------------------
(***************************************************************************)
(* What the CVE feeds, the update button and the settings row guarantee    *)
(* for any number of backfills, clicks and writers, and for any store they *)
(* find.  The three share no variable, and so no lemma either.  The        *)
(* arithmetic of risk, windows and versions follows.                       *)
(***************************************************************************)
EXTENDS Feeds, CveProbe, FiniteSetTheorems, WellFoundedInduction, TLAPS

----------------------------------------------------------------------------
(* The update button *)

Steps == {"idle", "look", "rmold", "rmname", "image", "create", "start"}
AClick == [at : Steps, old : 0..MaxMade, own : 0..MaxMade, blind : BOOLEAN]

\* A click on its way to remove a container that now runs saw none running when it looked: the
\* start came later, and wrote the click down, or the look itself had failed.
Looked ==
  box.state = "running" =>
    \A r \in Clicks : click[r].at \in {"rmold", "rmname"} => r \in beside \/ click[r].blind

UpdateInv == UpdateTypeOK /\ click \in [Clicks -> AClick] /\ Looked

\* A click that ends leaves the others where they were.
LEMMA QuitKeeps ==
  ASSUME UpdateInv, NEW r \in Clicks, Quit(r)
  PROVE  /\ click' \in [Clicks -> AClick] /\ click'[r].at = "idle"
         /\ \A s \in Clicks : s # r => click'[s] = click[s]
<1>1. IdleClick \in AClick
  BY UpdateAssumption DEF IdleClick, AClick, Steps
<1> QED
  BY <1>1 DEF Quit, UpdateInv, IdleClick

\* The invariant of the update button under every call to the daemon.
LEMMA UpdateStep == UpdateInv /\ [UpdateNext]_updateVars => UpdateInv'
<1> SUFFICES ASSUME UpdateInv, [UpdateNext]_updateVars PROVE UpdateInv'
  OBVIOUS
<1> USE UpdateAssumption
<1>1. CASE UNCHANGED updateVars
  BY <1>1 DEF updateVars, UpdateInv, UpdateTypeOK, Looked
<1>2. ASSUME NEW on \in BOOLEAN, SaveApply(on) PROVE UpdateInv'
  BY <1>2 DEF SaveApply, UpdateInv, UpdateTypeOK, Looked
<1>3. ASSUME NEW r \in Clicks, Apply(r) PROVE UpdateInv'
  BY <1>3 DEF Apply, Keep, UpdateInv, UpdateTypeOK, Looked, AClick, Steps
<1>4. ASSUME NEW r \in Clicks, Look(r) PROVE UpdateInv'
  <2>1. CASE Quit(r)
    BY <2>1, <1>4, QuitKeeps DEF Look, Keep, UpdateInv, UpdateTypeOK, Looked, AClick, Steps
  <2>2. CASE ~Quit(r)
    BY <2>2, <1>4 DEF Look, Keep, Refused, UpdateInv, UpdateTypeOK, Looked, AClick, Steps
  <2> QED
    BY <2>1, <2>2
<1>5. ASSUME NEW r \in Clicks, RemoveOld(r) PROVE UpdateInv'
  BY <1>5 DEF RemoveOld, Removed, NoBox, UpdateInv, UpdateTypeOK, Looked, AClick, Steps
<1>6. ASSUME NEW r \in Clicks, RemoveName(r) PROVE UpdateInv'
  BY <1>6 DEF RemoveName, Removed, NoBox, UpdateInv, UpdateTypeOK, Looked, AClick, Steps
<1>7. ASSUME NEW r \in Clicks, Image(r) PROVE UpdateInv'
  <2>1. CASE Quit(r)
    BY <2>1, <1>7, QuitKeeps DEF Image, Keep, UpdateInv, UpdateTypeOK, Looked, AClick, Steps
  <2>2. CASE ~Quit(r)
    BY <2>2, <1>7 DEF Image, Keep, UpdateInv, UpdateTypeOK, Looked, AClick, Steps
  <2> QED
    BY <2>1, <2>2
<1>8. ASSUME NEW r \in Clicks, Create(r) PROVE UpdateInv'
  <2>1. CASE Quit(r) /\ UNCHANGED <<box, made>>
    BY <2>1, <1>8, QuitKeeps DEF Create, UpdateInv, UpdateTypeOK, Looked, AClick, Steps
  <2>2. CASE ~(Quit(r) /\ UNCHANGED <<box, made>>)
    BY <2>2, <1>8 DEF Create, UpdateInv, UpdateTypeOK, Looked, AClick, Steps
  <2> QED
    BY <2>1, <2>2
<1>9. ASSUME NEW r \in Clicks, Start(r) PROVE UpdateInv'
  BY <1>9, QuitKeeps DEF Start, InFlight, UpdateInv, UpdateTypeOK, Looked, AClick, Steps
<1>10. CASE Exit
  BY <1>10 DEF Exit, Keep, UpdateInv, UpdateTypeOK, Looked
<1>11. CASE AppRestarts
  <2>1. IdleClick \in AClick
    BY DEF IdleClick, AClick, Steps
  <2> QED
    BY <2>1, <1>11 DEF AppRestarts, Keep, IdleClick, UpdateInv, UpdateTypeOK, Looked, Steps
<1> QED
  BY <1>1, <1>2, <1>3, <1>4, <1>5, <1>6, <1>7, <1>8, <1>9, <1>10, <1>11 DEF UpdateNext

\* The update button's state is what the daemon and the requests can make of it.
THEOREM UpdateInvariant == UpdateSpec => []UpdateInv
<1>1. ASSUME UpdateInit PROVE UpdateInv
  <2>1. IdleClick \in AClick
    BY UpdateAssumption DEF IdleClick, AClick, Steps
  <2>2. click \in [Clicks -> AClick] /\ \A r \in Clicks : click[r].at = "idle"
    BY <2>1, <1>1 DEF UpdateInit, IdleClick
  <2>3. box \in [id : 0..MaxMade, state : {"none", "created", "running", "exited"}]
    BY <1>1, UpdateAssumption DEF UpdateInit, NoBox
  <2>4. made \in 0..MaxMade /\ Looked
    BY <1>1, UpdateAssumption DEF UpdateInit, NoBox, Looked
  <2>5. applyOn \in BOOLEAN
    BY <1>1, Zenon DEF UpdateInit
  <2> QED
    BY <2>2, <2>3, <2>4, <2>5, <1>1 DEF UpdateInit, UpdateInv, UpdateTypeOK
<1> QED
  BY <1>1, UpdateStep, PTL DEF UpdateSpec

\* However many clicks overlap, only one that looked before the update started, or whose look
\* failed, cuts it short (core/self_update.py:199-202).
THEOREM UpdateIsKept == UpdateSpec => RunningKept
<1> DEFINE Kept == \A r \in killed' \ killed : r \in beside \/ click[r].blind
<1>1. ASSUME UpdateInv, UpdateNext PROVE Kept
  <2>1. ASSUME NEW r \in Clicks, RemoveOld(r) \/ RemoveName(r) PROVE Kept
    BY <2>1, <1>1 DEF RemoveOld, RemoveName, Removed, UpdateInv, Looked
  <2> QED
    BY <2>1, <1>1 DEF UpdateNext, SaveApply, Apply, Look, Image, Create, Start, Exit, AppRestarts, Keep
<1>2. UpdateInv /\ [UpdateNext]_updateVars => [Kept]_updateVars
  BY <1>1
<1> QED
  BY <1>2, UpdateInvariant, PTL DEF UpdateSpec, RunningKept

----------------------------------------------------------------------------
(* The settings row *)

\* Writing some columns over others.
LEMMA OverLaw ==
  ASSUME NEW set, NEW cols
  PROVE  /\ DOMAIN Over(set, cols) = DOMAIN set \cup DOMAIN cols
         /\ \A c \in DOMAIN set : Over(set, cols)[c] = set[c]
         /\ \A c \in DOMAIN cols \ DOMAIN set : Over(set, cols)[c] = cols[c]
BY DEF Over

LEMMA ClampLaw ==
  ASSUME NEW n \in Int, NEW low \in Int, NEW high \in Int, low <= high
  PROVE  Between(Clamp(n, low, high), low, high)
BY DEF Clamp, Between

\* The first row fits its columns.
LEMMA DefaultRow ==
  /\ \A c \in Columns : Fits(c, Defaults[c])
  /\ DOMAIN Defaults = Columns
  /\ {"timezone", "ai_enabled", "check_enabled"} \subseteq Columns
  /\ Defaults.timezone = "Istanbul" /\ Defaults.ai_enabled = FALSE
<1>1. /\ Between(Defaults.ratelimit_max_attempts, 1, 100)
      /\ Between(Defaults.ratelimit_window_sec, 10, 86400)
      /\ Between(Defaults.ratelimit_lockout_sec, 10, 86400)
      /\ Between(Defaults.smtp_port, 1, 65535) /\ Between(Defaults.syslog_port, 1, 65535)
      /\ Between(Defaults.session_timeout_min, 0, 10080)
      /\ Between(Defaults.password_min_length, 4, 128) /\ Between(Defaults.fanout_workers, 1, 32)
      /\ Between(Defaults.ai_timeout, 5, 600) /\ Between(Defaults.nvd_sync_days, 1, 730)
      /\ Between(Defaults.ldap_hour, 0, 23)
  BY DEF Defaults, Between
<1>2. /\ Defaults.syslog_protocol = "udp" /\ Defaults.dns_servers = "blank"
      /\ Defaults.syslog_format = "rfc5424" /\ Defaults.scan_speed = "fast"
      /\ Defaults.asset_scope = "default" /\ Defaults.timezone = "Istanbul"
      /\ Defaults.ldap_period = "daily" /\ Defaults.check_url = "default"
  BY DEF Defaults
<1>3. Defaults.ai_enabled = FALSE /\ Defaults.check_enabled = TRUE
  BY DEF Defaults
<1>4. IsSwitch(Defaults.ai_enabled) /\ IsSwitch(Defaults.check_enabled)
  BY <1>3, Zenon DEF IsSwitch
<1>5. ASSUME NEW c \in Columns PROVE Fits(c, Defaults[c])
  BY <1>1, <1>2, <1>4, SMTT(60) DEF Fits
<1>6. {"timezone", "ai_enabled", "check_enabled"} \subseteq Columns
  BY DEF Columns, Defaults
<1> QED
  BY <1>2, <1>3, <1>5, <1>6 DEF Columns

\* What the forms ask for.
LEMMA NothingAsked == Allowed(<<>>)
BY DEF Allowed

LEMMA AskProper == ASSUME NEW set, Allowed(set) PROVE Proper(Ask(set))
BY NothingAsked DEF Ask, Proper

LEMMA OneOfLaw == ASSUME NEW x, NEW S, NEW else PROVE OneOf(x, S, else) \in S \cup {else}
BY DEF OneOf

\* A secret that is left blank asks for nothing, and a column without limits takes anything.
LEMMA SecretAllowed ==
  ASSUME NEW set, Allowed(set), NEW column \in {"smtp_password", "nvd_key"}, NEW x
  PROVE  Allowed(Over(set, Secret(column, x)))
<1>1. DOMAIN Secret(column, x) \subseteq {column}
  BY DEF Secret
<1>2. column \in Columns /\ column \notin {"timezone", "ai_enabled"}
  BY DEF Columns, Defaults
<1>3. ASSUME NEW y PROVE Fits(column, y)
  BY DEF Fits
<1>4. ASSUME NEW c \in DOMAIN Over(set, Secret(column, x))
      PROVE  Fits(c, Over(set, Secret(column, x))[c])
  <2>1. CASE c \in DOMAIN set
    <3>1. Over(set, Secret(column, x))[c] = set[c]
      BY <2>1, OverLaw
    <3>2. Fits(c, set[c])
      BY <2>1 DEF Allowed
    <3> QED
      BY <3>1, <3>2, Zenon
  <2>2. CASE c \notin DOMAIN set
    <3>1. c = column
      BY <2>2, <1>1, <1>4, OverLaw
    <3> QED
      BY <3>1, <1>3, Zenon
  <2> QED
    BY <2>1, <2>2
<1> QED
  BY <1>1, <1>2, <1>4, OverLaw DEF Allowed

\* Whatever numbers, texts and switches a request carries, what its form writes fits the columns.
LEMMA NumbersFit ==
  ASSUME NEW n \in Int, NEW on \in BOOLEAN, NEW text, NEW other
  PROVE  /\ Proper(RatelimitForm(on, n)) /\ Proper(SmtpForm(on, text, n, other))
         /\ Proper(HardeningForm(n, on, text)) /\ Proper(NvdForm(n, other))
<1>1. Allowed([ratelimit_enabled |-> on, ratelimit_max_attempts |-> Clamp(n, 1, 100),
               ratelimit_window_sec |-> Clamp(n, 10, 86400), ratelimit_lockout_sec |-> Clamp(n, 10, 86400)])
  BY ClampLaw DEF Allowed, Fits, Columns, Defaults
<1>2. Allowed([smtp_enabled |-> on, smtp_host |-> text, smtp_port |-> Clamp(n, 1, 65535)])
  BY ClampLaw DEF Allowed, Fits, Columns, Defaults
<1>3. Allowed([session_timeout_min |-> Clamp(n, 0, 10080), password_min_length |-> Clamp(n, 4, 128),
               password_complex |-> on, ldaps_verify_cert |-> on, ldaps_ca_cert |-> text])
  BY ClampLaw DEF Allowed, Fits, Columns, Defaults
<1>4. Allowed([nvd_sync_days |-> Clamp(n, 1, 730)])
  BY ClampLaw DEF Allowed, Fits, Columns, Defaults
<1> QED
  BY <1>1, <1>2, <1>3, <1>4, SecretAllowed, AskProper
  DEF RatelimitForm, SmtpForm, HardeningForm, NvdForm

LEMMA TextsFit ==
  ASSUME NEW n \in Int, NEW on \in BOOLEAN, NEW text, NEW other, NEW third
  PROVE  /\ Proper(NetworkForm(text, on)) /\ Proper(ScanForm(text, on, n))
         /\ Proper(AssetScopeForm(text)) /\ Proper(TimezoneForm(text))
         /\ Proper(LdapSyncForm(on, text, n)) /\ Proper(SyslogForm(on, third, n, other, text))
<1>1. Allowed([dns_servers |-> OneOf(text, {"resolver"}, "blank"), reverse_dns |-> on])
  BY OneOfLaw DEF Allowed, Fits, Columns, Defaults
<1>2. Allowed([scan_speed |-> OneOf(text, {"normal", "fast", "insane"}, "fast"), scan_fanout |-> on,
               fanout_workers |-> Clamp(n, 1, 32)])
  BY OneOfLaw, ClampLaw DEF Allowed, Fits, Columns, Defaults
<1>3. Allowed([asset_scope |-> OneOf(text, {"cidr"}, "blank")])
  BY OneOfLaw DEF Allowed, Fits, Columns, Defaults
<1>4. Allowed([timezone |-> OneOf(text, {"UTC", "Istanbul"}, "Istanbul")])
  BY OneOfLaw DEF Allowed, Fits, Columns, Defaults
<1>5. Allowed([ldap_enabled |-> on, ldap_period |-> OneOf(text, {"hourly", "daily", "weekly"}, "daily"),
               ldap_hour |-> Clamp(n, 0, 23)])
  BY OneOfLaw, ClampLaw DEF Allowed, Fits, Columns, Defaults
<1>6. Allowed([syslog_enabled |-> on, syslog_host |-> third, syslog_port |-> Clamp(n, 1, 65535),
               syslog_protocol |-> OneOf(other, {"udp", "tcp"}, "udp"),
               syslog_format |-> OneOf(text, {"rfc5424", "rfc3164", "cef", "json"}, "rfc5424")])
  BY OneOfLaw, ClampLaw DEF Allowed, Fits, Columns, Defaults
<1> QED
  BY <1>1, <1>2, <1>3, <1>4, <1>5, <1>6, AskProper
  DEF SyslogForm, NetworkForm, ScanForm, AssetScopeForm, TimezoneForm, LdapSyncForm

LEMMA JobsFit ==
  ASSUME NEW n \in Int, NEW on \in BOOLEAN, NEW other \in BOOLEAN, NEW text, NEW key
  PROVE  /\ Proper(AiForm(on, text, n)) /\ Proper(LicenseForm(text, key))
         /\ Proper(UpdateForm(on, text, other)) /\ Proper(CveSynced(n)) /\ Proper(ExploitSynced(n))
         /\ Proper(Freshness(n, n)) /\ Proper(UpdateCheck(on, text))
<1>1. Proper(AiForm(on, text, n))
  <2>1. Between(IF n < 5 THEN 300 ELSE Clamp(n, 5, 600), 5, 600)
    BY ClampLaw DEF Between
  <2>2. IsSwitch(on)
    BY DEF IsSwitch
  <2>3. Allowed([ai_enabled |-> on, ai_endpoint |-> text,
                 ai_timeout |-> IF n < 5 THEN 300 ELSE Clamp(n, 5, 600)])
    BY <2>1, <2>2 DEF Allowed, Fits, Columns, Defaults
  <2> QED
    BY <2>3, AskProper DEF AiForm
<1>2. Proper(UpdateForm(on, text, other))
  <2>1. IsSwitch(on)
    BY DEF IsSwitch
  <2>2. Allowed([check_enabled |-> on, check_url |-> OneOf(text, {"mirror"}, "default"),
                 apply_enabled |-> other])
    BY <2>1, OneOfLaw DEF Allowed, Fits, Columns, Defaults
  <2> QED
    BY <2>2, AskProper DEF UpdateForm
<1>3. Allowed([license_public_key |-> text]) /\ Allowed([license_key |-> key])
  BY DEF Allowed, Fits, Columns, Defaults
<1>4. Proper(LicenseForm(text, key))
  BY <1>3 DEF LicenseForm, Ask, Proper
<1>5. Allowed([cve_last_sync |-> n])
  BY DEF Allowed, Fits, Columns, Defaults
<1>6. Allowed([exploit_last_sync |-> n, exploit_last_check |-> n, exploit_up_to_date |-> TRUE])
  BY DEF Allowed, Fits, Columns, Defaults
<1>7. /\ Proper(CveSynced(n)) /\ Proper(ExploitSynced(n))
      /\ Proper(Freshness(n, n)) /\ Proper(UpdateCheck(on, text))
  BY <1>5, <1>6, NothingAsked DEF CveSynced, ExploitSynced, Freshness, UpdateCheck, Ask, Proper
<1> QED
  BY <1>1, <1>2, <1>4, <1>7

\* What a writer assigns once it has the loaded row is allowed as well.
LEMMA AskedAllowed ==
  ASSUME NEW form, Proper(form), NEW load
  PROVE  Allowed(Asked(form, load))
<1>1. CASE form.kind \in {"form", "job"}
  BY <1>1 DEF Proper, Asked
<1>2. CASE form.kind = "freshness"
  <2>1. ASSUME NEW x, NEW y PROVE Allowed([exploit_last_check |-> x, exploit_up_to_date |-> y])
    BY DEF Allowed, Fits, Columns, Defaults
  <2> QED
    BY <1>2, <2>1 DEF Asked
<1>3. CASE form.kind = "check"
  <2>1. ASSUME NEW x PROVE Allowed(Over([check_status |-> x], [latest_version |-> "v2"]))
    BY DEF Over, Allowed, Fits, Columns, Defaults
  <2>2. ASSUME NEW x PROVE Allowed(Over([check_status |-> x], <<>>))
    BY DEF Over, Allowed, Fits, Columns, Defaults
  <2> QED
    BY <1>3, <2>1, <2>2 DEF Asked
<1> QED
  BY <1>1, <1>2, <1>3 DEF Proper

\* The table of writers, and what a writer that holds a loaded row knows: every column it was not
\* overtaken on is still as loaded, and with none overtaken the row is the loaded one.
IsWriter(j) ==
  j = [at |-> j.at, form |-> j.form, set |-> j.set, load |-> j.load, raced |-> j.raced, old |-> j.old]

JobTable == job = [w \in Writers |-> job[w]] /\ \A w \in Writers : IsWriter(job[w])

Holding(w) ==
  /\ There /\ Allowed(job[w].set) /\ job[w].old \in BOOLEAN
  /\ DOMAIN job[w].load = Columns /\ \A c \in Columns : Fits(c, job[w].load[c])
  /\ \A c \in Columns \ job[w].raced : row[c] = job[w].load[c]
  /\ ~job[w].old => job[w].load = row

Copied == tzCache = row.timezone /\ aiCache = row.ai_enabled

SettingsInv ==
  /\ SettingsTypeOK /\ JobTable
  /\ \A w \in Writers : job[w].at # "idle" => Proper(job[w].form)
  /\ \A w \in Writers : job[w].at \in {"resume", "commit"} => Holding(w)
  /\ ~There => tzCache = Defaults.timezone /\ aiCache = Defaults.ai_enabled
  /\ There /\ ~behind => Copied

\* The copies fit their columns when the row they come from does.
LEMMA CopyFits ==
  ASSUME NEW cols, \A c \in Columns : Fits(c, cols[c])
  PROVE  cols.timezone \in {"UTC", "Istanbul"} /\ cols.ai_enabled \in BOOLEAN
<1>1. Fits("timezone", cols["timezone"]) /\ Fits("ai_enabled", cols["ai_enabled"])
  BY DefaultRow
<1>2. cols["timezone"] \in {"UTC", "Istanbul"}
  BY <1>1 DEF Fits
<1>3. IsSwitch(cols["ai_enabled"])
  BY <1>1 DEF Fits
<1> QED
  BY <1>2, <1>3, Zenon DEF IsSwitch

\* The record of a writer that has arrived.
LEMMA ArriveLaw ==
  ASSUME NEW f, NEW k, k = [Idle EXCEPT !.at = "select", !.form = f]
  PROVE  IsWriter(k) /\ k.at = "select" /\ k.form = f
BY DEF IsWriter, Idle

\* A step that changes one writer leaves the table a table.
LEMMA OneWriter ==
  ASSUME JobTable, NEW w \in Writers, NEW j, IsWriter(j), job' = [job EXCEPT ![w] = j]
  PROVE  JobTable' /\ job'[w] = j /\ \A v \in Writers \ {w} : job'[v] = job[v]
<1>1. job'[w] = j /\ \A v \in Writers \ {w} : job'[v] = job[v]
  BY DEF JobTable
<1>2. job' = [v \in Writers |-> job'[v]]
  BY DEF JobTable
<1> QED
  BY <1>1, <1>2 DEF JobTable

LEMMA ArriveKeeps ==
  ASSUME SettingsInv, NEW w \in Writers, NEW form \in Forms, Arrive(w, form)
  PROVE  SettingsInv'
<1>1. Proper(form)
  BY SettingsAssumption
<1>2. JobTable' /\ job'[w].at = "select" /\ job'[w].form = form /\ \A v \in Writers \ {w} : job'[v] = job[v]
  <2> DEFINE k == [Idle EXCEPT !.at = "select", !.form = form]
  <2>1. IsWriter(k) /\ k.at = "select" /\ k.form = form
    BY ArriveLaw
  <2>2. job' = [job EXCEPT ![w] = k]
    BY DEF Arrive
  <2> HIDE DEF k
  <2> QED
    BY <2>1, <2>2, OneWriter DEF SettingsInv
<1>3. UNCHANGED <<row, tzCache, aiCache, behind>>
  BY DEF Arrive
<1> QED
  BY <1>1, <1>2, <1>3 DEF SettingsInv, SettingsTypeOK, Holding, There, InRange, Copied

\* A writer that has just loaded the row holds it.
LEMMA LoadKeeps ==
  ASSUME SettingsInv, NEW w \in Writers, job[w].at # "idle", NEW cols,
         DOMAIN cols = Columns, \A c \in Columns : Fits(c, cols[c]),
         row' = cols, There', job' = [job EXCEPT ![w] = Loaded(w, cols)]
  PROVE  /\ JobTable' /\ Holding(w)' /\ job'[w].at = "resume" /\ job'[w].form = job[w].form
         /\ \A v \in Writers \ {w} : job'[v] = job[v]
<1> DEFINE k == Loaded(w, cols)
<1>1. IsWriter(job[w])
  BY DEF SettingsInv, JobTable
<1>2. /\ IsWriter(k) /\ k.at = "resume" /\ k.form = job[w].form /\ k.load = cols /\ k.raced = {}
      /\ k.set = Asked(job[w].form, cols) /\ k.old = FALSE
  <2> SUFFICES ASSUME NEW j, NEW i, j = job[w], i = k
               PROVE  /\ IsWriter(i) /\ i.at = "resume" /\ i.form = j.form /\ i.load = cols
                      /\ i.raced = {} /\ i.set = Asked(j.form, cols) /\ i.old = FALSE
    BY Zenon
  <2>1. IsWriter(j)
    BY <1>1, Zenon
  <2>2. i = [j EXCEPT !.at = "resume", !.load = cols, !.set = Asked(j.form, cols), !.raced = {}, !.old = FALSE]
    BY Zenon DEF Loaded
  <2> QED
    BY <2>1, <2>2 DEF IsWriter
<1>3. Allowed(Asked(job[w].form, cols))
  BY AskedAllowed DEF SettingsInv
<1>4. job' = [job EXCEPT ![w] = k]
  OBVIOUS
<1> HIDE DEF k
<1>5. JobTable' /\ job'[w] = k /\ \A v \in Writers \ {w} : job'[v] = job[v]
  BY <1>2, <1>4, OneWriter DEF SettingsInv
<1>6. k.old \in BOOLEAN
  BY <1>2, Zenon
<1>7. Holding(w)'
  BY <1>2, <1>3, <1>5, <1>6 DEF Holding
<1> QED
  BY <1>2, <1>5, <1>7

LEMMA SelectKeeps == ASSUME SettingsInv, NEW w \in Writers, Select(w) PROVE SettingsInv'
<1>1. UNCHANGED <<row, tzCache, aiCache, behind>> /\ job[w].at = "select"
  BY DEF Select
<1>2. CASE There
  <2>1. DOMAIN row = Columns /\ \A c \in Columns : Fits(c, row[c])
    BY <1>2 DEF SettingsInv, SettingsTypeOK, InRange
  <2>2. There'
    BY <1>1, <1>2 DEF There
  <2>3. job' = [job EXCEPT ![w] = Loaded(w, row)]
    BY <1>2 DEF Select
  <2>4. /\ JobTable' /\ Holding(w)' /\ job'[w].at = "resume" /\ job'[w].form = job[w].form
        /\ \A v \in Writers \ {w} : job'[v] = job[v]
    BY <1>1, <2>1, <2>2, <2>3, LoadKeeps
  <2>5. \A v \in Writers \ {w} : Holding(v) => Holding(v)'
    BY <1>1, <2>4 DEF Holding, There
  <2> QED
    BY <1>1, <1>2, <2>4, <2>5 DEF SettingsInv, SettingsTypeOK, There, InRange, Copied
<1>3. CASE ~There
  <2> DEFINE k == [job[w] EXCEPT !.at = "insert"]
  <2>1. IsWriter(k) /\ k.at = "insert" /\ k.form = job[w].form
    BY DEF SettingsInv, JobTable, IsWriter
  <2>2. job' = [job EXCEPT ![w] = k]
    BY <1>3 DEF Select
  <2> HIDE DEF k
  <2>3. JobTable' /\ job'[w] = k /\ \A v \in Writers \ {w} : job'[v] = job[v]
    BY <2>1, <2>2, OneWriter DEF SettingsInv
  <2> QED
    BY <1>1, <1>3, <2>1, <2>3 DEF SettingsInv, SettingsTypeOK, Holding, There, InRange, Copied
<1> QED
  BY <1>2, <1>3

LEMMA InsertKeeps == ASSUME SettingsInv, NEW w \in Writers, Insert(w) PROVE SettingsInv'
<1>1. UNCHANGED <<tzCache, aiCache, behind>> /\ job[w].at = "insert"
  BY DEF Insert
<1>2. CASE There /\ job' = [job EXCEPT ![w] = Idle] /\ UNCHANGED row
  <2>1. IsWriter(Idle) /\ Idle.at = "idle"
    BY DEF IsWriter, Idle
  <2>2. JobTable' /\ job'[w] = Idle /\ \A v \in Writers \ {w} : job'[v] = job[v]
    BY <1>2, <2>1, OneWriter DEF SettingsInv
  <2> QED
    BY <1>1, <1>2, <2>1, <2>2 DEF SettingsInv, SettingsTypeOK, Holding, There, InRange, Copied
<1>3. CASE ~There /\ row' = Defaults /\ job' = [job EXCEPT ![w] = Loaded(w, Defaults)]
  <2>1. There'
    <3>1. DOMAIN Defaults # {}
      BY DefaultRow
    <3>2. DOMAIN <<>> = {}
      OBVIOUS
    <3> QED
      BY <1>3, <3>1, <3>2, Zenon DEF There
  <2>2. /\ JobTable' /\ Holding(w)' /\ job'[w].at = "resume" /\ job'[w].form = job[w].form
        /\ \A v \in Writers \ {w} : job'[v] = job[v]
    BY <1>1, <1>3, <2>1, DefaultRow, LoadKeeps
  <2>3. \A v \in Writers \ {w} : job[v].at \notin {"resume", "commit"}
    BY <1>3 DEF SettingsInv, Holding
  <2>4. Copied'
    BY <1>1, <1>3 DEF SettingsInv, Copied
  <2>5. SettingsTypeOK'
    BY <1>1, <1>3, <2>2, DefaultRow DEF SettingsInv, SettingsTypeOK, InRange
  <2> QED
    BY <1>1, <2>1, <2>2, <2>3, <2>4, <2>5 DEF SettingsInv
<1> QED
  BY <1>1, <1>2, <1>3 DEF Insert

LEMMA ResumeKeeps == ASSUME SettingsInv, NEW w \in Writers, Resume(w) PROVE SettingsInv'
<1>1. UNCHANGED row /\ job[w].at = "resume" /\ Holding(w) /\ Proper(job[w].form)
  BY DEF Resume, SettingsInv
<1>2. /\ tzCache' \in {"UTC", "Istanbul"} /\ aiCache' \in BOOLEAN /\ behind' \in BOOLEAN
      /\ ~behind' => Copied'
  <2>1. CASE Web(w)
    <3>1. tzCache' = job[w].load.timezone /\ aiCache' = job[w].load.ai_enabled /\ behind' = job[w].old
      BY <2>1 DEF Resume, CacheFrom
    <3>2. tzCache' \in {"UTC", "Istanbul"} /\ aiCache' \in BOOLEAN
      BY <1>1, <3>1, CopyFits, Zenon DEF Holding
    <3>3. behind' \in BOOLEAN
      BY <1>1, <3>1, Zenon DEF Holding
    <3>4. ~behind' => Copied'
      BY <1>1, <3>1, Zenon DEF Holding, Copied
    <3> QED
      BY <3>2, <3>3, <3>4
  <2>2. CASE ~Web(w)
    <3>1. UNCHANGED <<tzCache, aiCache, behind>>
      BY <2>2 DEF Resume, CacheFrom
    <3> QED
      BY <1>1, <3>1 DEF SettingsInv, SettingsTypeOK, Holding, Copied
  <2> QED
    BY <2>1, <2>2
<1>3. JobTable' /\ \A v \in Writers \ {w} : job'[v] = job[v]
  <2>1. CASE SwitchedOff(w)
    <3>1. IsWriter(Idle)
      BY DEF IsWriter, Idle
    <3>2. job' = [job EXCEPT ![w] = Idle]
      BY <2>1 DEF Resume
    <3> QED
      BY <3>1, <3>2, OneWriter DEF SettingsInv
  <2>2. CASE ~SwitchedOff(w)
    <3> DEFINE k == [job[w] EXCEPT !.at = "commit"]
    <3>1. IsWriter(k)
      BY DEF SettingsInv, JobTable, IsWriter
    <3>2. job' = [job EXCEPT ![w] = k]
      BY <2>2 DEF Resume, SettingsInv, JobTable
    <3> HIDE DEF k
    <3> QED
      BY <3>1, <3>2, OneWriter DEF SettingsInv
  <2> QED
    BY <2>1, <2>2
<1>4. /\ job'[w].at \in {"idle", "commit"}
      /\ job'[w].at = "commit" => Proper(job'[w].form) /\ Holding(w)'
  <2>1. CASE SwitchedOff(w)
    BY <2>1 DEF Resume, SettingsInv, JobTable, Idle
  <2>2. CASE ~SwitchedOff(w)
    <3> DEFINE k == [job[w] EXCEPT !.at = "commit"]
    <3>1. /\ k.at = "commit" /\ k.form = job[w].form /\ k.set = job[w].set /\ k.load = job[w].load
          /\ k.raced = job[w].raced /\ k.old = job[w].old
      BY DEF SettingsInv, JobTable, IsWriter
    <3>2. job'[w] = k
      BY <2>2 DEF Resume, SettingsInv, JobTable
    <3> HIDE DEF k
    <3> QED
      BY <1>1, <3>1, <3>2 DEF Holding, There
  <2> QED
    BY <2>1, <2>2
<1> QED
  BY <1>1, <1>2, <1>3, <1>4 DEF SettingsInv, SettingsTypeOK, Holding, There, InRange

\* What the UPDATE of a commit does to the row.
LEMMA CommitRow ==
  ASSUME SettingsInv, NEW w \in Writers, Commit(w)
  PROVE  /\ There' /\ DOMAIN row' = Columns /\ InRange'
         /\ \A c \in Columns \ DOMAIN job[w].set : row'[c] = row[c]
         /\ \A c \in DOMAIN job[w].set \ job[w].raced : row'[c] = job[w].set[c]
<1> DEFINE s == job[w].set
           d == Changed(s, job[w].load)
<1>1. Holding(w) /\ DOMAIN row = Columns /\ \A c \in Columns : Fits(c, row[c])
  BY DEF Commit, SettingsInv, SettingsTypeOK, InRange, Holding
<1>2. DOMAIN d \subseteq DOMAIN s /\ \A c \in DOMAIN d : d[c] = s[c]
  BY DEF Changed
<1>3. DOMAIN s \subseteq Columns /\ \A c \in DOMAIN s : Fits(c, s[c])
  BY <1>1 DEF Holding, Allowed
<1>4. row' = Over(d, row)
  BY DEF Commit
<1>5. \A c \in DOMAIN s \ DOMAIN d : s[c] = job[w].load[c]
  BY DEF Changed
<1> HIDE DEF d
<1>6. DOMAIN row' = DOMAIN d \cup Columns
  BY <1>1, <1>4, OverLaw
<1>7. DOMAIN row' = Columns
  BY <1>2, <1>3, <1>6
<1>8. \A c \in DOMAIN d : row'[c] = s[c]
  BY <1>2, <1>4, OverLaw
<1>9. \A c \in Columns \ DOMAIN d : row'[c] = row[c]
  <2>1. \A c \in DOMAIN row \ DOMAIN d : Over(d, row)[c] = row[c]
    BY OverLaw
  <2> QED
    BY <2>1, <1>1, <1>4
<1>10. There'
  <2>1. DOMAIN row' # {}
    BY <1>7, DefaultRow
  <2>2. DOMAIN <<>> = {}
    OBVIOUS
  <2> QED
    BY <2>1, <2>2, Zenon DEF There
<1>11. InRange'
  <2>1. ASSUME NEW c \in Columns, c \in DOMAIN d PROVE Fits(c, row'[c])
    BY <2>1, <1>2, <1>3, <1>8
  <2>2. ASSUME NEW c \in Columns, c \notin DOMAIN d PROVE Fits(c, row'[c])
    BY <2>2, <1>1, <1>9
  <2> QED
    BY <2>1, <2>2 DEF InRange
<1>12. \A c \in Columns \ DOMAIN s : row'[c] = row[c]
  BY <1>2, <1>9
<1>13. \A c \in DOMAIN s \ job[w].raced : row'[c] = s[c]
  BY <1>1, <1>3, <1>5, <1>8, <1>9 DEF Holding
<1> QED
  BY <1>7, <1>10, <1>11, <1>12, <1>13

\* A commit tells the other writers that hold a row, and touches nothing else of theirs.
LEMMA CommitOthers ==
  ASSUME SettingsInv, NEW w \in Writers, Commit(w), NEW v \in Writers, v # w
  PROVE  /\ IsWriter(job'[v]) /\ job'[v].at = job[v].at /\ job'[v].form = job[v].form
         /\ job[v].at \in {"resume", "commit"} =>
              /\ job'[v].set = job[v].set /\ job'[v].load = job[v].load
              /\ job'[v].raced = job[v].raced \cup DOMAIN job[w].set
              /\ job'[v].old = (job[v].old \/ row' # row)
<1>1. IsWriter(job[v])
  BY DEF SettingsInv, JobTable
<1>2. job'[v] = Overtake(w, row')[v]
  BY DEF Commit, Overtake
<1>3. CASE job[v].at \in {"resume", "commit"}
  <2> DEFINE r == job[v].raced \cup DOMAIN job[w].set
             o == job[v].old \/ row' # row
             j == job[v]
             i == job'[v]
  <2>1. i = [j EXCEPT !.raced = r, !.old = o] /\ IsWriter(j)
    BY <1>1, <1>2, <1>3 DEF Overtake
  <2>2. r = job[v].raced \cup DOMAIN job[w].set /\ o = (job[v].old \/ row' # row)
    OBVIOUS
  <2> HIDE DEF r, o, j, i
  <2>3. /\ IsWriter(i) /\ i.at = j.at /\ i.form = j.form /\ i.set = j.set /\ i.load = j.load
        /\ i.raced = r /\ i.old = o
    BY <2>1 DEF IsWriter
  <2> QED
    BY <2>2, <2>3, Zenon DEF i, j
<1>4. CASE job[v].at \notin {"resume", "commit"}
  BY <1>1, <1>2, <1>4 DEF Overtake
<1> QED
  BY <1>3, <1>4

\* The writer itself goes to rest, or on to its second save.
LEMMA CommitSelf ==
  ASSUME SettingsInv, NEW w \in Writers, Commit(w)
  PROVE  /\ IsWriter(job'[w]) /\ job'[w].at \in {"idle", "select"}
         /\ job'[w].at # "idle" => Proper(job'[w].form)
<1>1. Proper(job[w].form)
  BY DEF Commit, SettingsInv
<1>2. Proper(Ask(job[w].form.then))
  BY <1>1, AskProper DEF Proper
<1> DEFINE k == [Idle EXCEPT !.at = "select", !.form = Ask(job[w].form.then)]
<1>3. IsWriter(k) /\ k.at = "select" /\ k.form = Ask(job[w].form.then)
  BY ArriveLaw
<1>4. IsWriter(Idle) /\ Idle.at = "idle"
  BY DEF IsWriter, Idle
<1>5. job'[w] = IF job[w].form.then = <<>> THEN Idle ELSE k
  BY DEF Commit, Overtake
<1> HIDE DEF k
<1> QED
  BY <1>2, <1>3, <1>4, <1>5

LEMMA CommitKeeps == ASSUME SettingsInv, NEW w \in Writers, Commit(w) PROVE SettingsInv'
<1>1. /\ There' /\ DOMAIN row' = Columns /\ InRange'
      /\ \A c \in Columns \ DOMAIN job[w].set : row'[c] = row[c]
  BY CommitRow
<1>2. Holding(w)
  BY DEF Commit, SettingsInv
<1>3. JobTable'
  <2>1. \A v \in Writers : IsWriter(job'[v])
    BY CommitOthers, CommitSelf
  <2>2. job' = [v \in Writers |-> job'[v]]
    BY DEF Commit, Overtake
  <2> QED
    BY <2>1, <2>2 DEF JobTable
<1>4. \A v \in Writers : job'[v].at # "idle" => Proper(job'[v].form)
  BY CommitOthers, CommitSelf DEF SettingsInv
<1>5. ASSUME NEW v \in Writers, job'[v].at \in {"resume", "commit"} PROVE Holding(v)'
  <2>1. v # w /\ job[v].at \in {"resume", "commit"} /\ Holding(v)
    BY <1>5, CommitSelf, CommitOthers DEF SettingsInv
  <2>2. /\ job'[v].set = job[v].set /\ job'[v].load = job[v].load
        /\ job'[v].raced = job[v].raced \cup DOMAIN job[w].set
        /\ job'[v].old = (job[v].old \/ row' # row)
    BY <2>1, CommitOthers
  <2>3. job'[v].old \in BOOLEAN
    BY <2>2, Zenon
  <2>4. \A c \in Columns \ job'[v].raced : row'[c] = job'[v].load[c]
    BY <1>1, <2>1, <2>2 DEF Holding
  <2>5. ~job'[v].old => job'[v].load = row'
    BY <2>1, <2>2, Zenon DEF Holding
  <2> QED
    BY <1>1, <2>1, <2>2, <2>3, <2>4, <2>5 DEF Holding
<1>6. row'.timezone \in {"UTC", "Istanbul"} /\ row'.ai_enabled \in BOOLEAN
  BY <1>1, CopyFits DEF InRange
<1>7. behind' = behind
  BY DEF Commit
<1>8. There
  BY <1>2 DEF Holding
<1>9. ~("timezone" \in DOMAIN job[w].set /\ "ai_enabled" \in DOMAIN job[w].set)
  BY <1>2 DEF Holding, Allowed
<1>10. /\ tzCache' \in {"UTC", "Istanbul"} /\ aiCache' \in BOOLEAN
       /\ ~behind' => Copied'
  <2>1. CASE "timezone" \in DOMAIN job[w].set
    <3>1. tzCache' = row'.timezone /\ aiCache' = aiCache
      BY <2>1 DEF Commit
    <3>2. row'.ai_enabled = row.ai_enabled
      BY <1>1, <1>9, <2>1, DefaultRow
    <3> QED
      BY <1>6, <1>7, <1>8, <3>1, <3>2, Zenon DEF SettingsInv, SettingsTypeOK, Copied
  <2>2. CASE "timezone" \notin DOMAIN job[w].set /\ "ai_enabled" \in DOMAIN job[w].set
    <3>1. aiCache' = row'.ai_enabled /\ tzCache' = tzCache
      BY <2>2 DEF Commit
    <3>2. row'.timezone = row.timezone
      BY <1>1, <2>2, DefaultRow
    <3> QED
      BY <1>6, <1>7, <1>8, <3>1, <3>2, Zenon DEF SettingsInv, SettingsTypeOK, Copied
  <2>3. CASE "timezone" \notin DOMAIN job[w].set /\ "ai_enabled" \notin DOMAIN job[w].set
    <3>1. aiCache' = aiCache /\ tzCache' = tzCache
      BY <2>3 DEF Commit
    <3>2. row'.timezone = row.timezone /\ row'.ai_enabled = row.ai_enabled
      BY <1>1, <2>3, DefaultRow
    <3> QED
      BY <1>7, <1>8, <3>1, <3>2, Zenon DEF SettingsInv, SettingsTypeOK, Copied
  <2> QED
    BY <2>1, <2>2, <2>3
<1>11. behind' \in BOOLEAN
  BY <1>7 DEF SettingsInv, SettingsTypeOK
<1>12. \A v \in Writers : job'[v].at \in {"idle", "select", "insert", "resume", "commit"}
  BY CommitOthers, CommitSelf DEF SettingsInv, SettingsTypeOK
<1> QED
  BY <1>1, <1>3, <1>4, <1>5, <1>10, <1>11, <1>12 DEF SettingsInv, SettingsTypeOK

LEMMA SettingsStep == SettingsInv /\ [SettingsNext]_settingsVars => SettingsInv'
<1> SUFFICES ASSUME SettingsInv, [SettingsNext]_settingsVars PROVE SettingsInv'
  OBVIOUS
<1>1. CASE UNCHANGED settingsVars
  BY <1>1 DEF settingsVars, SettingsInv, SettingsTypeOK, JobTable, Holding, There, InRange, Copied
<1> QED
  BY <1>1, ArriveKeeps, SelectKeeps, InsertKeeps, ResumeKeeps, CommitKeeps DEF SettingsNext

\* The settings row stays within its limits and the copies of it follow it, however many requests
\* and jobs overlap (core/app_settings.py).
THEOREM SettingsInvariant == SettingsSpec => []SettingsInv
<1>1. ASSUME SettingsInit PROVE SettingsInv
  <2>1. JobTable /\ \A w \in Writers : job[w].at = "idle"
    BY <1>1 DEF SettingsInit, JobTable, IsWriter, Idle
  <2>2. There => row = Defaults
    BY <1>1 DEF SettingsInit, There
  <2>3. There => DOMAIN row = Columns /\ InRange
    BY <2>2, DefaultRow DEF InRange
  <2>4. /\ tzCache = "Istanbul" /\ aiCache = FALSE /\ behind = FALSE
    BY <1>1 DEF SettingsInit
  <2>5. aiCache \in BOOLEAN /\ behind \in BOOLEAN
    BY <2>4, Zenon
  <2>6. tzCache = Defaults.timezone /\ aiCache = Defaults.ai_enabled
    BY <2>4, DefaultRow
  <2> QED
    BY <2>1, <2>2, <2>3, <2>4, <2>5, <2>6 DEF SettingsInv, SettingsTypeOK, Copied
<1> QED
  BY <1>1, SettingsStep, PTL DEF SettingsSpec

\* A save changes its own columns and no others, and leaves each as its form asked unless another
\* save of that column came between its load and its commit (core/app_settings.py).
THEOREM SavesAreKept == SettingsSpec => SavesKept
<1> DEFINE Saved == \A w \in Writers : job[w].at = "commit" /\ job'[w].at # "commit" =>
                      /\ \A c \in Columns \ DOMAIN job[w].set : row'[c] = row[c]
                      /\ \A c \in DOMAIN job[w].set \ job[w].raced : row'[c] = job[w].set[c]
<1>1. ASSUME SettingsInv, SettingsNext, NEW w \in Writers, job[w].at = "commit", job'[w].at # "commit"
      PROVE  Commit(w)
  <2>1. PICK v \in Writers : (\E form \in Forms : Arrive(v, form)) \/ Select(v) \/ Insert(v) \/ Resume(v) \/ Commit(v)
    BY <1>1 DEF SettingsNext
  <2>2. CASE v = w
    BY <1>1, <2>1, <2>2 DEF Arrive, Select, Insert, Resume
  <2>3. CASE v # w /\ Commit(v)
    BY <1>1, <2>3, CommitOthers
  <2>4. CASE v # w /\ ~Commit(v)
    <3>1. job'[w] = job[w]
      BY <1>1, <2>1, <2>4 DEF SettingsInv, JobTable, Arrive, Select, Insert, Resume
    <3> QED
      BY <1>1, <3>1
  <2> QED
    BY <2>2, <2>3, <2>4
<1>2. SettingsInv /\ [SettingsNext]_settingsVars => [Saved]_settingsVars
  BY <1>1, CommitRow
<1> QED
  BY <1>2, SettingsInvariant, PTL DEF SettingsSpec, SavesKept

----------------------------------------------------------------------------
(* The feeds: what a state is made of *)

Writing  == {"put", "drop", "keep"}
Fetching == {"fetch", "get", "note"} \cup Writing
Opening  == {"none", "mark", "markset", "send", "sent", "open", "key", "clear", "set"}
AHand  == [got : [Cves -> Vers], on : Cves \cup {Hand.on}, base : Vers, seen : SUBSET CriteriaRows]
AFill  == [at : Live \cup {"none", "end"}, win : 0..Windows, pend : BOOLEAN,
           final : {"none", "done", "cancelled", "error", "killed"}, hand : AHand]
ADaily == [at : {"idle", "mod", "get", "purge", "record", "done", "failed"} \cup Writing,
           pub : [Cves -> Vers], mod : [Cves -> Vers], rej : SUBSET Cves, hand : AHand, crossed : SUBSET Cves]
AnEpss == [at : {"idle", "fetch", "commit", "apply", "done", "failed"},
           ids : SUBSET Cves, hit : SUBSET Cves, crossed : SUBSET Cves]

\* A writer that has picked a CVE has it in its hand.
Full(hand) == hand.on \in Cves /\ hand.got[hand.on] # 0

FillOK(x) ==
  /\ x \in AFill
  /\ x.at \in Writing => Full(x.hand)
  /\ x.at \in Fetching => x.win < Windows
  /\ x.at \in Opening => x.win = 0 /\ x.final = "none"
  /\ x.at \in {"close", "finish"} => x.final \in {"done", "cancelled"}

StoreShape ==
  /\ nvd \in [Cves -> Vers] /\ cve \in [Cves -> Vers] /\ risk \in [Cves -> Vers]
  /\ fresh \subseteq Cves /\ rows \in [Cves -> SUBSET CriteriaRows]
  /\ daily \in ADaily /\ epss \in AnEpss /\ (daily.at \in Writing => Full(daily.hand))

RedisShape ==
  kg \in Hash /\ lock \in Fills \cup {Nobody} /\ asking \in BOOLEAN /\ owed \subseteq Fills

FillShape == fill \in [Fills -> AFill] /\ \A f \in Fills : FillOK(fill[f])

\* The stages in which a backfill owns the lock, and those in which it will yet speak for the hash.
Owning   == Walking \cup {"close", "finish", "fail", "release"}
Speaking == Live \ {"release"}

LockInv ==
  /\ mishap \cap {"redis", "lapse"} = {} => \A f \in Fills : fill[f].at \in Owning => lock = f
  /\ mishap \cap {"redis", "crash"} = {} /\ lock # Nobody => fill[lock].at \in Owning
  /\ IsActive /\ mishap \cap {"broker", "redis", "web", "crash", "late"} = {}
       => \E f \in Fills : fill[f].at \in Speaking

Flagged  == kg.there /\ kg.cancel
Standing == Flagged \/ \E g \in Fills : fill[g].at = "set" /\ fill[g].pend

\* Some backfill that was promised a stop is still to poll.
Waiting == \E f \in owed : WillPoll(f)

\* A backfill that owes a stop: the flag stands for its next poll, or it is past its last one
\* without "done".
Stops(f) ==
  \/ WillPoll(f) /\ Standing
  \/ fill[f].at = "fail"
  \/ fill[f].at \in {"close", "finish", "release", "end"} /\ fill[f].final # "done"

CancelInv ==
  mishap \cap {"redis", "lapse"} = {} =>
    /\ \A f \in owed : Stops(f)
    /\ Waiting => \A g \in Fills : fill[g].at \in {"clear", "set"} /\ Flagged => fill[g].pend

\* Row and criteria of a CVE of the modified window are as that window had them.
AsModified(c) ==
  /\ cve[c] = daily.mod[c]
  /\ daily.mod[c] \notin Bare => {x.ver : x \in rows[c]} = {daily.mod[c]}

DailyInv ==
  /\ daily.at \in {"get", "purge", "record"} \cup Writing => \A c \in daily.rej : daily.mod[c] = 0
  /\ daily.at \in {"get"} \cup Writing =>
       \A c \in Cves : daily.mod[c] # 0 =>
          IF daily.hand.got[c] = 0 THEN c \notin daily.crossed => AsModified(c)
          ELSE daily.hand.got[c] = daily.mod[c]
  /\ daily.hand.on \notin daily.crossed =>
       /\ daily.at = "put" => daily.hand.base = cve[daily.hand.on]
       /\ daily.at \in {"drop", "keep"} => cve[daily.hand.on] = daily.hand.got[daily.hand.on]
       /\ daily.at = "keep" => daily.hand.seen = rows[daily.hand.on]
  /\ daily.at \in {"purge", "record"} =>
       \A c \in Cves \ daily.crossed : daily.mod[c] # 0 => AsModified(c)
  /\ daily.at = "record" => \A c \in daily.rej \ daily.crossed : cve[c] = 0 /\ rows[c] = {}

RiskInv ==
  /\ epss.at \in {"fetch", "commit", "apply"} => \A c \in epss.ids \ epss.crossed : cve[c] # 0
  /\ epss.at = "done" => \A c \in epss.ids \ epss.crossed : risk[c] = cve[c]

----------------------------------------------------------------------------
(* The feeds: shapes *)

LEMMA ShapesType == StoreShape /\ RedisShape /\ FillShape => FeedsTypeOK
BY DEF StoreShape, RedisShape, FillShape, AFill, FeedsTypeOK

\* A backfill that leaves its windows is in shape whatever it ends with.
LEMMA EndShape ==
  ASSUME FillShape, NEW f \in Fills, NEW at \in {"release", "end"},
         NEW final \in {"done", "cancelled", "error", "killed"},
         fill' = [fill EXCEPT ![f].at = at, ![f].final = final]
  PROVE  FillShape' /\ \A g \in Fills \ {f} : fill'[g] = fill[g]
<1>1. \A g \in Fills \ {f} : fill'[g] = fill[g]
  BY DEF FillShape
<1>2. fill[f] \in AFill /\ fill[f].hand \in AHand
  BY DEF FillShape, AFill
<1>3. at \in Live \cup {"none", "end"}
  BY DEF Live
<1>4. fill'[f] \in AFill /\ fill'[f].at = at
  BY <1>2, <1>3 DEF FillShape, AFill
<1>5. at \notin Writing \cup Fetching \cup Opening \cup {"close", "finish"}
  BY DEF Writing, Fetching, Opening
<1>6. FillOK(fill'[f])
  BY <1>4, <1>5 DEF FillOK
<1>7. fill' \in [Fills -> AFill]
  BY <1>1, <1>4 DEF FillShape
<1> QED
  BY <1>1, <1>6, <1>7 DEF FillShape

\* Every step of a backfill outside its writes leaves the other backfills alone and itself in shape.
LEMMA FillStepShape ==
  ASSUME RedisShape, FillShape, NEW f \in Fills, FillStep(f)
  PROVE  FillShape' /\ \A g \in Fills \ {f} : fill'[g] = fill[g]
<1> USE FeedAssumption
<1>1. CASE Click(f)
  BY <1>1 DEF Click, Move, FillShape, FillOK, AFill, Live, Walking, Writing, Fetching, Opening
<1>2. CASE MarkDel(f)
  BY <1>2 DEF MarkDel, Move, FillShape, FillOK, AFill, Live, Walking, Writing, Fetching, Opening
<1>3. CASE MarkSet(f)
  BY <1>3 DEF MarkSet, Move, FillShape, FillOK, AFill, Live, Walking, Writing, Fetching, Opening
<1>4. CASE Send(f)
  BY <1>4 DEF Send, Move, FillShape, FillOK, AFill, Live, Walking, Writing, Fetching, Opening
<1>5. CASE Acquire(f)
  BY <1>5 DEF Acquire, Move, FillShape, FillOK, AFill, Live, Walking, Writing, Fetching, Opening
<1>6. CASE OpenFill(f)
  BY <1>6 DEF OpenFill, Move, FillShape, FillOK, AFill, Live, Walking, Writing, Fetching, Opening
<1>7. CASE BeginGet(f)
  BY <1>7 DEF BeginGet, Move, FillShape, FillOK, AFill, Live, Walking, Writing, Fetching, Opening, RedisShape, Hash
<1>8. CASE BeginDel(f)
  BY <1>8 DEF BeginDel, Move, FillShape, FillOK, AFill, Live, Walking, Writing, Fetching, Opening
<1>9. CASE BeginSet(f)
  BY <1>9 DEF BeginSet, Move, FillShape, FillOK, AFill, Live, Walking, Writing, Fetching, Opening
<1>10. CASE Poll(f)
  BY <1>10 DEF Poll, Move, FillShape, FillOK, AFill, Live, Walking, Writing, Fetching, Opening
<1>11. CASE Note(f)
  BY <1>11 DEF Note, Move, FillShape, FillOK, AFill, Live, Walking, Writing, Fetching, Opening
<1>12. CASE CloseFill(f)
  BY <1>12 DEF CloseFill, Move, FillShape, FillOK, AFill, Live, Walking, Writing, Fetching, Opening
<1>13. CASE Finish(f)
  <2>1. PICK status \in {"done", "cancelled", "error"} :
          fill' = [fill EXCEPT ![f].at = "release", ![f].final = status]
    BY <1>13 DEF Finish, FillShape, FillOK
  <2> QED
    BY <2>1, EndShape
<1>14. CASE Release(f)
  BY <1>14 DEF Release, Move, FillShape, FillOK, AFill, Live, Walking, Writing, Fetching, Opening
<1> QED
  BY <1>1, <1>2, <1>3, <1>4, <1>5, <1>6, <1>7, <1>8, <1>9, <1>10, <1>11, <1>12, <1>13, <1>14 DEF FillStep

\* So does its death.
LEMMA CrashShape ==
  ASSUME FillShape, NEW f \in Fills, Crash(f)
  PROVE  FillShape' /\ \A g \in Fills \ {f} : fill'[g] = fill[g]
BY EndShape DEF Crash

\* What HSET writes is a hash, with whatever flag the old one had.
LEMMA HashLaw ==
  ASSUME RedisShape
  PROVE  /\ kg.cancel \in BOOLEAN /\ kg.status \in Active \cup {"none", "done", "cancelled", "error"}
         /\ NoHash \in Hash
         /\ \A status \in Active \cup {"none", "done", "cancelled", "error"} : \A cancel \in BOOLEAN :
               Hset(status, cancel) => kg' \in Hash
<1>1. NoHash \in Hash
  BY Zenon DEF NoHash, Hash
<1>2. kg.cancel \in BOOLEAN /\ kg.status \in Active \cup {"none", "done", "cancelled", "error"}
  BY DEF RedisShape, Hash
<1>3. ASSUME NEW status \in Active \cup {"none", "done", "cancelled", "error"}, NEW cancel \in BOOLEAN,
             Hset(status, cancel)
      PROVE  kg' \in Hash
  <2>1. TRUE \in BOOLEAN
    BY Zenon
  <2> QED
    BY <1>3, <2>1, Zenon DEF Hset, Hash
<1> QED
  BY <1>1, <1>2, <1>3

\* Redis's own part of the state.
LEMMA RedisStepShape ==
  ASSUME RedisShape, FillShape,
         (\E f \in Fills : FillStep(f) \/ Crash(f)) \/ CancelAsk \/ CancelSet \/ LockExpires \/ HashExpires
  PROVE  RedisShape' /\ UNCHANGED storeVars
<1>1. ASSUME NEW f \in Fills, Click(f) \/ Send(f) \/ OpenFill(f) \/ BeginGet(f) \/ Poll(f) \/ CloseFill(f)
                              \/ Crash(f)
      PROVE  RedisShape' /\ UNCHANGED storeVars
  BY <1>1 DEF Click, Send, OpenFill, BeginGet, Poll, CloseFill, Crash, Forgive, redisVars, RedisShape
<1>2. ASSUME NEW f \in Fills, MarkDel(f) \/ MarkSet(f) \/ BeginDel(f)
      PROVE  RedisShape' /\ UNCHANGED storeVars
  <2>1. kg' \in Hash
    BY <1>2, HashLaw, Zenon DEF MarkDel, MarkSet, BeginDel, Active, RedisShape
  <2>2. owed' \subseteq Fills
    BY <1>2 DEF MarkDel, MarkSet, BeginDel, Forgive, RedisShape
  <2> QED
    BY <1>2, <2>1, <2>2 DEF MarkDel, MarkSet, BeginDel, RedisShape
<1>3. ASSUME NEW f \in Fills, BeginSet(f) PROVE RedisShape' /\ UNCHANGED storeVars
  <2>1. fill[f].pend \in BOOLEAN
    BY Zenon DEF FillShape, AFill
  <2>2. kg' \in Hash
    BY <1>3, <2>1, HashLaw, Zenon DEF BeginSet, Active, RedisShape
  <2> QED
    BY <1>3, <2>2 DEF BeginSet, RedisShape
<1>4. ASSUME NEW f \in Fills, Acquire(f) \/ Release(f) PROVE RedisShape' /\ UNCHANGED storeVars
  BY <1>4 DEF Acquire, Release, RedisShape
<1>5. ASSUME NEW f \in Fills, Note(f) PROVE RedisShape' /\ UNCHANGED storeVars
  <2>1. kg' \in Hash
    BY <1>5, HashLaw, Zenon DEF Note, RedisShape
  <2> QED
    BY <1>5, <2>1 DEF Note, RedisShape
<1>6. ASSUME NEW f \in Fills, Finish(f) PROVE RedisShape' /\ UNCHANGED storeVars
  <2>1. PICK status \in {"done", "cancelled", "error"} : Hset(status, kg.cancel) \/ UNCHANGED kg
    BY <1>6 DEF Finish, FillShape, FillOK
  <2>2. kg' \in Hash
    BY <2>1, HashLaw DEF RedisShape
  <2> QED
    BY <1>6, <2>2 DEF Finish, RedisShape
<1>7. CASE CancelAsk
  BY <1>7 DEF CancelAsk, RedisShape
<1>8. CASE CancelSet
  <2>1. (IF kg.there THEN kg.status ELSE "none") \in Active \cup {"none", "done", "cancelled", "error"}
    BY HashLaw
  <2>2. TRUE \in BOOLEAN /\ FALSE \in BOOLEAN
    BY Zenon
  <2>3. kg' \in Hash /\ asking' \in BOOLEAN
    BY <1>8, <2>1, <2>2, HashLaw, Zenon DEF CancelSet, RedisShape
  <2> QED
    BY <1>8, <2>3 DEF CancelSet, RedisShape
<1>9. CASE LockExpires
  BY <1>9 DEF LockExpires, RedisShape
<1>10. CASE HashExpires
  BY <1>10 DEF HashExpires, NoHash, Hash, RedisShape
<1> QED
  BY <1>1, <1>2, <1>3, <1>4, <1>5, <1>6, <1>7, <1>8, <1>9, <1>10 DEF FillStep

\* Loading, writing and ticking off one CVE keep a hand a hand.
LEMMA HandLaw ==
  ASSUME StoreShape, NEW hand \in AHand
  PROVE  /\ \A c \in Left(hand) : Load(hand, c) \in AHand /\ Full(Load(hand, c))
         /\ Full(hand) => /\ Written(hand) \in [Cves -> Vers] /\ Ticked(hand) \in AHand
                          /\ Seen(hand) \in AHand /\ Full(Seen(hand))
                          /\ \A who \in Fills \cup {"daily", "scan"} : Replaced(hand, who) \in [Cves -> SUBSET CriteriaRows]
<1> USE FeedAssumption
<1>1. ASSUME NEW c \in Left(hand) PROVE Load(hand, c) \in AHand /\ Full(Load(hand, c))
  BY DEF Left, Load, AHand, Full, StoreShape
<1>2. ASSUME Full(hand)
      PROVE  /\ Written(hand) \in [Cves -> Vers] /\ Ticked(hand) \in AHand
             /\ Seen(hand) \in AHand /\ Full(Seen(hand))
  <2>1. Written(hand) \in [Cves -> Vers]
    BY <1>2 DEF Written, Full, StoreShape, AHand
  <2>2. Ticked(hand) \in AHand
    <3>1. 0 \in Vers
      BY DEF Vers
    <3> QED
      BY <1>2, <3>1 DEF Ticked, Full, AHand
  <2>3. Seen(hand) \in AHand /\ Full(Seen(hand))
    BY <1>2 DEF Seen, Full, AHand, StoreShape
  <2> QED
    BY <2>1, <2>2, <2>3
<1>3. ASSUME Full(hand), NEW who \in Fills \cup {"daily", "scan"}
      PROVE  Replaced(hand, who) \in [Cves -> SUBSET CriteriaRows]
  <2>1. hand.got[hand.on] \in 1..MaxVer
    BY <1>3 DEF Full, AHand, Vers
  <2> QED
    BY <1>3, <2>1 DEF Replaced, Full, StoreShape, CriteriaRows
<1> QED
  BY <1>1, <1>2, <1>3

\* Telling a job that CVEs of it were written beside it changes nothing else of it.
LEMMA TellLaw ==
  ASSUME StoreShape, NEW S \in SUBSET Cves
  PROVE  /\ TellDaily(S) => /\ daily' \in ADaily /\ daily'.crossed = daily.crossed \cup S
                            /\ \A part \in {"at", "mod", "rej", "hand"} : daily'[part] = daily[part]
         /\ TellEpss(S) => /\ epss' \in AnEpss /\ epss'.crossed = epss.crossed \cup S
                           /\ epss'.at = epss.at /\ epss'.ids = epss.ids
<1>1. ASSUME TellDaily(S)
      PROVE  /\ daily' \in ADaily /\ daily'.crossed = daily.crossed \cup S
             /\ \A part \in {"at", "mod", "rej", "hand"} : daily'[part] = daily[part]
  BY <1>1 DEF TellDaily, StoreShape, ADaily
<1>2. ASSUME TellEpss(S)
      PROVE  /\ epss' \in AnEpss /\ epss'.crossed = epss.crossed \cup S
             /\ epss'.at = epss.at /\ epss'.ids = epss.ids
  BY <1>2 DEF TellEpss, StoreShape, AnEpss
<1> QED
  BY <1>1, <1>2

\* Another writer of one CVE, and what it tells the jobs.
Beside(c) ==
  /\ TellDaily({c}) /\ TellEpss({c})
  /\ \A d \in Cves \ {c} : cve'[d] = cve[d] /\ rows'[d] = rows[d]

\* It does no harm to what the jobs say of the CVEs nobody crossed.
LEMMA BesideKeeps ==
  ASSUME StoreShape, DailyInv, RiskInv, NEW c \in Cves, Beside(c), UNCHANGED risk
  PROVE  DailyInv' /\ RiskInv'
<1>1. {c} \in SUBSET Cves
  OBVIOUS
<1>2. /\ daily'.crossed = daily.crossed \cup {c} /\ daily'.at = daily.at /\ daily'.mod = daily.mod
      /\ daily'.rej = daily.rej /\ daily'.hand = daily.hand
  BY <1>1, TellLaw DEF Beside
<1>3. epss'.crossed = epss.crossed \cup {c} /\ epss'.at = epss.at /\ epss'.ids = epss.ids
  BY <1>1, TellLaw DEF Beside
<1>4. daily.rej \subseteq Cves /\ epss.ids \subseteq Cves /\ (daily.at \in Writing => daily.hand.on \in Cves)
  BY DEF StoreShape, ADaily, AnEpss, Full
<1>5. \A d \in Cves \ {c} : AsModified(d) => AsModified(d)'
  BY <1>2 DEF Beside, AsModified
<1>6. DailyInv'
  BY <1>2, <1>4, <1>5 DEF DailyInv, Beside, Writing
<1>7. RiskInv'
  BY <1>3, <1>4 DEF RiskInv, Beside
<1> QED
  BY <1>6, <1>7

\* A backfill moves on among the stages of its writes.
LEMMA WriteMoves ==
  ASSUME FillShape, NEW f \in Fills, fill[f].at \in Fetching, NEW at \in Fetching, NEW hand \in AHand,
         at \in Writing => Full(hand),
         fill' = [fill EXCEPT ![f].at = at, ![f].hand = hand]
  PROVE  /\ FillShape' /\ \A g \in Fills \ {f} : fill'[g] = fill[g]
         /\ fill'[f].at = at /\ fill'[f].win = fill[f].win
<1>1. \A g \in Fills \ {f} : fill'[g] = fill[g]
  BY DEF FillShape
<1>2. fill[f] \in AFill /\ fill[f].win < Windows
  BY DEF FillShape, FillOK
<1>3. at \in Live \cup {"none", "end"}
  BY DEF Fetching, Writing, Live, Walking
<1>4. fill'[f] \in AFill /\ fill'[f].at = at /\ fill'[f].hand = hand /\ fill'[f].win = fill[f].win
  BY <1>2, <1>3 DEF FillShape, AFill
<1>5. at \notin Opening \cup {"close", "finish"}
  BY DEF Fetching, Writing, Opening
<1>6. FillOK(fill'[f])
  BY <1>2, <1>4, <1>5 DEF FillOK
<1>7. fill' \in [Fills -> AFill]
  BY <1>1, <1>4 DEF FillShape
<1> QED
  BY <1>1, <1>4, <1>6, <1>7 DEF FillShape

\* Or dies among them.
LEMMA WriteDies ==
  ASSUME FillShape, NEW f \in Fills, fill[f].at \in Fetching, Move(f, "fail")
  PROVE  FillShape' /\ (\A g \in Fills \ {f} : fill'[g] = fill[g]) /\ fill'[f].at = "fail"
BY DEF Move, FillShape, FillOK, AFill, Live, Walking, Writing, Fetching, Opening

\* What the writes of a backfill change: its own stage and hand, two tables, and what the others know.
WriteEffect(f) ==
  /\ StoreShape' /\ FillShape' /\ UNCHANGED <<redisVars, mishap, nvd, fresh, risk>>
  /\ \A g \in Fills \ {f} : fill'[g] = fill[g]
  /\ fill[f].at \in Fetching /\ fill'[f].at \in Fetching \cup {"fail"}
  /\ fill'[f].at \in Fetching => fill'[f].win = fill[f].win
  /\ \/ UNCHANGED <<cve, rows, daily, epss>>
     \/ \E c \in Cves : Beside(c)

LEMMA FetchShape == ASSUME StoreShape, FillShape, NEW f \in Fills, Fetch(f) PROVE WriteEffect(f)
<1> DEFINE hand == fill[f].hand
<1>1. hand \in AHand
  BY DEF FillShape, AFill
<1>2. PICK S \in SUBSET {c \in Cves : nvd[c] # 0} :
          fill' = [fill EXCEPT ![f].at = IF S = {} THEN "note" ELSE "get",
                               ![f].hand.got = [c \in Cves |-> IF c \in S THEN nvd[c] ELSE 0]]
  BY DEF Fetch
<1> DEFINE at == IF S = {} THEN "note" ELSE "get"
           got == [c \in Cves |-> IF c \in S THEN nvd[c] ELSE 0]
           new == [hand EXCEPT !.got = got]
<1>3. 0 \in Vers
  BY FeedAssumption DEF Vers
<1>4. got \in [Cves -> Vers]
  BY <1>3 DEF StoreShape
<1> HIDE DEF got
<1>5. new \in AHand
  BY <1>1, <1>4 DEF AHand
<1>6. fill' = [fill EXCEPT ![f].at = at, ![f].hand = new]
  BY <1>2 DEF FillShape, AFill, got
<1>7. at \in Fetching /\ at \notin Writing
  BY DEF Fetching, Writing
<1>8. fill[f].at \in Fetching
  BY DEF Fetch, Fetching
<1> HIDE DEF at, new
<1>9. FillShape' /\ (\A g \in Fills \ {f} : fill'[g] = fill[g]) /\ fill'[f].at = at /\ fill'[f].win = fill[f].win
  BY <1>5, <1>6, <1>7, <1>8, WriteMoves
<1>10. UNCHANGED <<redisVars, storeVars, mishap>>
  BY DEF Fetch, NoSlip
<1> QED
  BY <1>7, <1>8, <1>9, <1>10 DEF WriteEffect, StoreShape, storeVars

LEMMA FillGetShape == ASSUME StoreShape, FillShape, NEW f \in Fills, FillGet(f) PROVE WriteEffect(f)
<1> DEFINE hand == fill[f].hand
<1>1. hand \in AHand /\ fill[f].at \in Fetching
  BY DEF FillShape, AFill, FillGet, Fetching
<1>2. UNCHANGED <<redisVars, storeVars, mishap>> /\ StoreShape'
  BY DEF FillGet, NoSlip, StoreShape, storeVars
<1>3. CASE Move(f, "note")
  <2>1. "note" \in Fetching /\ "note" \notin Writing
    BY DEF Fetching, Writing
  <2>2. fill' = [fill EXCEPT ![f].at = "note", ![f].hand = hand]
    BY <1>3 DEF Move, FillShape, AFill
  <2>3. FillShape' /\ (\A g \in Fills \ {f} : fill'[g] = fill[g]) /\ fill'[f].at = "note" /\ fill'[f].win = fill[f].win
    BY <1>1, <2>1, <2>2, WriteMoves
  <2> QED
    BY <1>1, <1>2, <2>1, <2>3 DEF WriteEffect, storeVars
<1>4. ASSUME NEW c \in Left(hand), fill' = [fill EXCEPT ![f].at = "put", ![f].hand = Load(@, c)]
      PROVE  WriteEffect(f)
  <2> DEFINE new == Load(hand, c)
  <2>1. new \in AHand /\ Full(new)
    BY <1>1, HandLaw
  <2>2. fill' = [fill EXCEPT ![f].at = "put", ![f].hand = new]
    BY <1>4 DEF FillShape, AFill
  <2>3. "put" \in Fetching
    BY DEF Fetching, Writing
  <2> HIDE DEF new
  <2>4. FillShape' /\ (\A g \in Fills \ {f} : fill'[g] = fill[g]) /\ fill'[f].at = "put" /\ fill'[f].win = fill[f].win
    BY <1>1, <2>1, <2>2, <2>3, WriteMoves
  <2> QED
    BY <1>1, <1>2, <2>3, <2>4 DEF WriteEffect, storeVars
<1> QED
  BY <1>3, <1>4 DEF FillGet

\* Both writes: the table is in shape, and the others are told.
LEMMA TablesShape ==
  ASSUME StoreShape, UNCHANGED <<nvd, fresh, risk>>, NEW c \in Cves, TellDaily({c}), TellEpss({c}),
         cve' \in [Cves -> Vers], rows' \in [Cves -> SUBSET CriteriaRows]
  PROVE  StoreShape'
<1>1. {c} \in SUBSET Cves
  OBVIOUS
<1>2. daily' \in ADaily /\ daily'.at = daily.at /\ daily'.hand = daily.hand /\ epss' \in AnEpss
  BY <1>1, TellLaw
<1> QED
  BY <1>2 DEF StoreShape

LEMMA FillPutShape == ASSUME StoreShape, FillShape, NEW f \in Fills, FillPut(f) PROVE WriteEffect(f)
<1> DEFINE hand == fill[f].hand
<1>1. hand \in AHand /\ fill[f].at \in Fetching /\ Full(hand)
  BY DEF FillShape, FillOK, AFill, FillPut, Fetching, Writing
<1>2. UNCHANGED <<redisVars, nvd, fresh, rows, risk, mishap>>
  BY DEF FillPut, NoSlip
<1>3. CASE Move(f, "fail") /\ UNCHANGED <<cve, daily, epss>>
  <2>1. FillShape' /\ (\A g \in Fills \ {f} : fill'[g] = fill[g]) /\ fill'[f].at = "fail"
    BY <1>1, <1>3, WriteDies
  <2>2. "fail" \notin Fetching
    BY DEF Fetching, Writing
  <2>3. StoreShape'
    BY <1>2, <1>3 DEF StoreShape
  <2> QED
    BY <1>1, <1>2, <1>3, <2>1, <2>2, <2>3 DEF WriteEffect
<1>4. CASE ~(Move(f, "fail") /\ UNCHANGED <<cve, daily, epss>>)
  <2>1. /\ cve' = Written(hand) /\ TellDaily({hand.on}) /\ TellEpss({hand.on})
        /\ hand.on \in Cves /\ Beside(hand.on)
    BY <1>1, <1>2, <1>4 DEF FillPut, Beside, Written, Full, StoreShape
  <2>2. StoreShape'
    BY <1>1, <1>2, <2>1, HandLaw, TablesShape DEF StoreShape
  <2>3. CASE fill' = [fill EXCEPT ![f].at = "drop"]
    <3>1. fill' = [fill EXCEPT ![f].at = "drop", ![f].hand = hand]
      BY <2>3 DEF FillShape, AFill
    <3>2. "drop" \in Fetching
      BY DEF Fetching, Writing
    <3>3. FillShape' /\ (\A g \in Fills \ {f} : fill'[g] = fill[g]) /\ fill'[f].at = "drop" /\ fill'[f].win = fill[f].win
      BY <1>1, <3>1, <3>2, WriteMoves
    <3> QED
      BY <1>1, <1>2, <2>1, <2>2, <3>2, <3>3 DEF WriteEffect
  <2>4. CASE fill' = [fill EXCEPT ![f].at = "get", ![f].hand = Ticked(@)]
    <3> DEFINE new == Ticked(hand)
    <3>1. new \in AHand
      BY <1>1, HandLaw
    <3>2. fill' = [fill EXCEPT ![f].at = "get", ![f].hand = new]
      BY <2>4 DEF FillShape, AFill
    <3>3. "get" \in Fetching /\ "get" \notin Writing
      BY DEF Fetching, Writing
    <3> HIDE DEF new
    <3>4. FillShape' /\ (\A g \in Fills \ {f} : fill'[g] = fill[g]) /\ fill'[f].at = "get" /\ fill'[f].win = fill[f].win
      BY <1>1, <3>1, <3>2, <3>3, WriteMoves
    <3> QED
      BY <1>1, <1>2, <2>1, <2>2, <3>3, <3>4 DEF WriteEffect
  <2> QED
    BY <1>4, <2>3, <2>4 DEF FillPut
<1> QED
  BY <1>3, <1>4

LEMMA FillDropShape == ASSUME StoreShape, FillShape, NEW f \in Fills, FillDrop(f) PROVE WriteEffect(f)
<1> DEFINE hand == fill[f].hand
           new == Seen(hand)
<1>1. hand \in AHand /\ fill[f].at \in Fetching /\ Full(hand)
  BY DEF FillShape, FillOK, AFill, FillDrop, Fetching, Writing
<1>2. UNCHANGED <<redisVars, storeVars, mishap>> /\ StoreShape'
  BY DEF FillDrop, NoSlip, StoreShape, storeVars
<1>3. new \in AHand /\ Full(new)
  BY <1>1, HandLaw
<1>4. fill' = [fill EXCEPT ![f].at = "keep", ![f].hand = new]
  BY DEF FillDrop, FillShape, AFill
<1>5. "keep" \in Fetching
  BY DEF Fetching, Writing
<1> HIDE DEF new
<1>6. FillShape' /\ (\A g \in Fills \ {f} : fill'[g] = fill[g]) /\ fill'[f].at = "keep" /\ fill'[f].win = fill[f].win
  BY <1>1, <1>3, <1>4, <1>5, WriteMoves
<1> QED
  BY <1>1, <1>2, <1>5, <1>6 DEF WriteEffect, storeVars

LEMMA FillKeepShape == ASSUME StoreShape, FillShape, NEW f \in Fills, FillKeep(f) PROVE WriteEffect(f)
<1> DEFINE hand == fill[f].hand
           new == Ticked(hand)
<1>1. hand \in AHand /\ fill[f].at \in Fetching /\ Full(hand)
  BY DEF FillShape, FillOK, AFill, FillKeep, Fetching, Writing
<1>2. /\ UNCHANGED <<redisVars, nvd, fresh, cve, risk, mishap>> /\ rows' = Replaced(hand, f)
      /\ TellDaily({hand.on}) /\ TellEpss({hand.on}) /\ hand.on \in Cves
  BY <1>1 DEF FillKeep, NoSlip, Full
<1>8. Beside(hand.on)
  BY <1>2 DEF Beside, Replaced, StoreShape
<1>3. new \in AHand /\ rows' \in [Cves -> SUBSET CriteriaRows]
  BY <1>1, <1>2, HandLaw
<1>4. fill' = [fill EXCEPT ![f].at = "get", ![f].hand = new]
  BY DEF FillKeep, FillShape, AFill
<1>5. "get" \in Fetching /\ "get" \notin Writing
  BY DEF Fetching, Writing
<1>6. StoreShape'
  BY <1>2, <1>3, TablesShape DEF StoreShape
<1> HIDE DEF new
<1>7. FillShape' /\ (\A g \in Fills \ {f} : fill'[g] = fill[g]) /\ fill'[f].at = "get" /\ fill'[f].win = fill[f].win
  BY <1>1, <1>3, <1>4, <1>5, WriteMoves
<1> QED
  BY <1>1, <1>2, <1>5, <1>6, <1>7, <1>8 DEF WriteEffect

LEMMA WriteStepShape == ASSUME StoreShape, FillShape, NEW f \in Fills, WriteStep(f) PROVE WriteEffect(f)
BY FetchShape, FillGetShape, FillPutShape, FillDropShape, FillKeepShape DEF WriteStep

\* The rest of what writes the store: a snapshot of NVD is a version per CVE, an empty hand is a hand.
LEMMA SnapLaw ==
  ASSUME StoreShape
  PROVE  /\ \A S \in SUBSET Cves : Snap(S) \in [Cves -> Vers]
         /\ \A pub, mod \in [Cves -> Vers] : Merge(pub, mod) \in [Cves -> Vers]
<1>1. 0 \in Vers
  BY FeedAssumption DEF Vers
<1> QED
  BY <1>1 DEF StoreShape, Snap, Merge

LEMMA FreshHand == Hand \in AHand
<1>1. 0 \in Vers /\ Nothing \in [Cves -> Vers]
  BY FeedAssumption DEF Vers, Nothing
<1> DEFINE on == CHOOSE c \in Cves : TRUE
<1>2. Hand = [got |-> Nothing, on |-> on, base |-> 0, seen |-> {}]
  BY DEF Hand
<1>3. Hand.on = on
  BY <1>2
<1> HIDE DEF on
<1> QED
  BY <1>1, <1>2, <1>3 DEF AHand

LEMMA FreshDaily == NewDaily \in ADaily /\ NewDaily.at = "idle" /\ NewDaily.hand = Hand
<1>1. Nothing \in [Cves -> Vers]
  BY FeedAssumption DEF Vers, Nothing
<1> HIDE DEF Nothing, Hand
<1> QED
  BY <1>1, FreshHand DEF NewDaily, ADaily

LEMMA FreshEpss == NewEpss \in AnEpss /\ NewEpss.at = "idle"
BY DEF NewEpss, AnEpss

\* The daily sync moves on with some hand.
DailyStages == {"idle", "mod", "get", "purge", "record", "done", "failed"} \cup Writing

LEMMA DailyMoves ==
  ASSUME StoreShape, NEW at \in DailyStages, NEW hand \in AHand,
         daily' = [daily EXCEPT !.at = at, !.hand = hand]
  PROVE  /\ daily' \in ADaily /\ daily'.at = at /\ daily'.hand = hand
         /\ daily'.mod = daily.mod /\ daily'.rej = daily.rej /\ daily'.crossed = daily.crossed
BY DEF StoreShape, ADaily, DailyStages

LEMMA DailyGetMoves ==
  ASSUME StoreShape, DailyGet
  PROVE  /\ StoreShape' /\ UNCHANGED <<redisVars, fill, mishap, nvd, fresh, cve, rows, risk, epss>>
         /\ daily'.mod = daily.mod /\ daily'.rej = daily.rej
         /\ \/ Left(daily.hand) = {} /\ daily'.at = "purge" /\ daily'.crossed = daily.crossed
            \/ \E c \in Left(daily.hand) :
                  /\ daily'.at = "put" /\ daily'.hand = Load(daily.hand, c)
                  /\ daily'.crossed = daily.crossed \ {c}
<1> DEFINE hand == daily.hand
<1>1. hand \in AHand
  BY DEF StoreShape, ADaily
<1>2. UNCHANGED <<redisVars, fill, mishap, nvd, fresh, cve, rows, risk, epss>>
  BY DEF DailyGet, NoSlip
<1>3. CASE Left(hand) = {} /\ daily' = [daily EXCEPT !.at = "purge"]
  <2>1. daily' = [daily EXCEPT !.at = "purge", !.hand = hand]
    BY <1>3 DEF StoreShape, ADaily
  <2>2. "purge" \in DailyStages /\ "purge" \notin Writing
    BY DEF DailyStages, Writing
  <2> HIDE DEF hand
  <2>3. /\ daily' \in ADaily /\ daily'.at = "purge"
        /\ daily'.mod = daily.mod /\ daily'.rej = daily.rej /\ daily'.crossed = daily.crossed
    BY <1>1, <2>1, <2>2, DailyMoves
  <2> QED
    BY <1>2, <1>3, <2>2, <2>3 DEF StoreShape, hand
<1>4. ASSUME NEW c \in Left(hand),
             daily' = [daily EXCEPT !.at = "put", !.hand = Load(@, c), !.crossed = @ \ {c}]
      PROVE  /\ StoreShape' /\ daily'.at = "put" /\ daily'.hand = Load(hand, c)
             /\ daily'.mod = daily.mod /\ daily'.rej = daily.rej /\ daily'.crossed = daily.crossed \ {c}
  <2> DEFINE new == Load(hand, c)
             rest == daily.crossed \ {c}
  <2>1. new \in AHand /\ Full(new)
    BY <1>1, HandLaw
  <2>2. daily' = [daily EXCEPT !.at = "put", !.hand = new, !.crossed = rest] /\ rest \subseteq Cves
    BY <1>4 DEF StoreShape, ADaily
  <2> HIDE DEF new, rest
  <2>3. /\ daily' \in ADaily /\ daily'.at = "put" /\ daily'.hand = new
        /\ daily'.mod = daily.mod /\ daily'.rej = daily.rej /\ daily'.crossed = rest
    BY <2>1, <2>2 DEF StoreShape, ADaily, Writing
  <2> QED
    BY <1>2, <2>1, <2>3 DEF StoreShape, new, rest
<1> QED
  BY <1>2, <1>3, <1>4 DEF DailyGet

LEMMA DailyPutMoves ==
  ASSUME StoreShape, DailyPut
  PROVE  /\ StoreShape' /\ UNCHANGED <<redisVars, fill, mishap, nvd, fresh, rows, risk>>
         /\ daily'.mod = daily.mod /\ daily'.rej = daily.rej /\ daily'.crossed = daily.crossed
         /\ \/ daily'.at = "failed" /\ UNCHANGED <<cve, epss>>
            \/ /\ cve' = Written(daily.hand) /\ TellEpss({daily.hand.on}) /\ ~WriteFails(daily.hand)
               /\ \/ daily'.at = "drop" /\ daily'.hand = daily.hand
                  \/ daily'.at = "get" /\ daily'.hand = Ticked(daily.hand) /\ ~HasCriteria(daily.hand)
<1> DEFINE hand == daily.hand
<1>1. hand \in AHand /\ Full(hand)
  BY DEF StoreShape, ADaily, DailyPut, Writing
<1>2. UNCHANGED <<redisVars, fill, mishap, nvd, fresh, rows, risk>>
  BY DEF DailyPut, NoSlip
<1>3. CASE daily' = [daily EXCEPT !.at = "failed"] /\ UNCHANGED <<cve, epss>>
  <2>1. daily' = [daily EXCEPT !.at = "failed", !.hand = hand]
    BY <1>3 DEF StoreShape, ADaily
  <2>2. "failed" \in DailyStages /\ "failed" \notin Writing
    BY DEF DailyStages, Writing
  <2> HIDE DEF hand
  <2>3. /\ daily' \in ADaily /\ daily'.at = "failed"
        /\ daily'.mod = daily.mod /\ daily'.rej = daily.rej /\ daily'.crossed = daily.crossed
    BY <1>1, <2>1, <2>2, DailyMoves
  <2> QED
    BY <1>2, <1>3, <2>2, <2>3 DEF StoreShape
<1>4. CASE ~(daily' = [daily EXCEPT !.at = "failed"] /\ UNCHANGED <<cve, epss>>)
  <2>1. cve' = Written(hand) /\ TellEpss({hand.on}) /\ ~WriteFails(hand) /\ {hand.on} \in SUBSET Cves
    BY <1>1, <1>4 DEF DailyPut, Full
  <2>2. cve' \in [Cves -> Vers] /\ epss' \in AnEpss
    BY <1>1, <2>1, HandLaw, TellLaw
  <2>3. CASE daily' = [daily EXCEPT !.at = "drop"]
    <3>1. daily' = [daily EXCEPT !.at = "drop", !.hand = hand]
      BY <2>3 DEF StoreShape, ADaily
    <3>2. "drop" \in DailyStages
      BY DEF DailyStages, Writing
    <3> HIDE DEF hand
    <3>3. /\ daily' \in ADaily /\ daily'.at = "drop" /\ daily'.hand = hand
          /\ daily'.mod = daily.mod /\ daily'.rej = daily.rej /\ daily'.crossed = daily.crossed
      BY <1>1, <3>1, <3>2, DailyMoves
    <3> QED
      BY <1>1, <1>2, <2>1, <2>2, <3>3 DEF StoreShape, hand
  <2>4. CASE daily' = [daily EXCEPT !.at = "get", !.hand = Ticked(@)]
    <3> DEFINE new == Ticked(hand)
    <3>1. new \in AHand
      BY <1>1, HandLaw
    <3>2. daily' = [daily EXCEPT !.at = "get", !.hand = new]
      BY <2>4 DEF StoreShape, ADaily
    <3>3. "get" \in DailyStages /\ "get" \notin Writing
      BY DEF DailyStages, Writing
    <3> HIDE DEF new
    <3>4. /\ daily' \in ADaily /\ daily'.at = "get" /\ daily'.hand = new
          /\ daily'.mod = daily.mod /\ daily'.rej = daily.rej /\ daily'.crossed = daily.crossed
      BY <3>1, <3>2, <3>3, DailyMoves
    <3>5. ~HasCriteria(hand)
      <4>1. HasCriteria(hand) => daily' = [daily EXCEPT !.at = "drop"]
        BY <1>4 DEF DailyPut
      <4>2. [daily EXCEPT !.at = "drop"].at = "drop"
        BY DEF StoreShape, ADaily
      <4> QED
        BY <3>4, <4>1, <4>2
    <3> QED
      BY <1>2, <2>1, <2>2, <3>3, <3>4, <3>5 DEF StoreShape, new
  <2> QED
    BY <1>4, <2>3, <2>4 DEF DailyPut
<1> QED
  BY <1>3, <1>4

LEMMA DailyDropMoves ==
  ASSUME StoreShape, DailyDrop
  PROVE  /\ StoreShape' /\ UNCHANGED <<redisVars, fill, mishap, nvd, fresh, cve, rows, risk, epss>>
         /\ daily'.mod = daily.mod /\ daily'.rej = daily.rej /\ daily'.crossed = daily.crossed
         /\ daily'.at = "keep" /\ daily'.hand = Seen(daily.hand)
<1> DEFINE hand == daily.hand
           new == Seen(hand)
<1>1. hand \in AHand /\ Full(hand)
  BY DEF StoreShape, ADaily, DailyDrop, Writing
<1>2. UNCHANGED <<redisVars, fill, mishap, nvd, fresh, cve, rows, risk, epss>>
  BY DEF DailyDrop, NoSlip
<1>3. new \in AHand /\ Full(new)
  BY <1>1, HandLaw
<1>4. daily' = [daily EXCEPT !.at = "keep", !.hand = new]
  BY DEF DailyDrop, StoreShape, ADaily
<1>5. "keep" \in DailyStages
  BY DEF DailyStages, Writing
<1> HIDE DEF new
<1>6. /\ daily' \in ADaily /\ daily'.at = "keep" /\ daily'.hand = new
      /\ daily'.mod = daily.mod /\ daily'.rej = daily.rej /\ daily'.crossed = daily.crossed
  BY <1>3, <1>4, <1>5, DailyMoves
<1> QED
  BY <1>2, <1>3, <1>6 DEF StoreShape, new

LEMMA DailyKeepMoves ==
  ASSUME StoreShape, DailyKeep
  PROVE  /\ StoreShape' /\ UNCHANGED <<redisVars, fill, mishap, nvd, fresh, cve, risk>> /\ TellEpss({daily.hand.on})
         /\ daily'.mod = daily.mod /\ daily'.rej = daily.rej /\ daily'.crossed = daily.crossed
         /\ daily'.at = "get" /\ daily'.hand = Ticked(daily.hand) /\ rows' = Replaced(daily.hand, "daily")
<1> DEFINE hand == daily.hand
           new == Ticked(hand)
<1>1. hand \in AHand /\ Full(hand)
  BY DEF StoreShape, ADaily, DailyKeep, Writing
<1>2. /\ UNCHANGED <<redisVars, fill, mishap, nvd, fresh, cve, risk>> /\ rows' = Replaced(hand, "daily")
      /\ TellEpss({hand.on}) /\ {hand.on} \in SUBSET Cves
  BY <1>1 DEF DailyKeep, NoSlip, Full
<1>3. new \in AHand /\ rows' \in [Cves -> SUBSET CriteriaRows] /\ epss' \in AnEpss
  BY <1>1, <1>2, HandLaw, TellLaw
<1>4. daily' = [daily EXCEPT !.at = "get", !.hand = new]
  BY DEF DailyKeep, StoreShape, ADaily
<1>5. "get" \in DailyStages /\ "get" \notin Writing
  BY DEF DailyStages, Writing
<1> HIDE DEF new
<1>6. /\ daily' \in ADaily /\ daily'.at = "get" /\ daily'.hand = new
      /\ daily'.mod = daily.mod /\ daily'.rej = daily.rej /\ daily'.crossed = daily.crossed
  BY <1>3, <1>4, <1>5, DailyMoves
<1> QED
  BY <1>2, <1>3, <1>5, <1>6 DEF StoreShape, new

LEMMA DailyStartMoves ==
  ASSUME StoreShape, DailyPublished
  PROVE  /\ StoreShape' /\ UNCHANGED <<redisVars, fill, mishap, nvd, fresh, cve, rows, risk, epss>>
         /\ daily'.at = "mod"
<1>1. PICK S \in SUBSET {c \in Cves : nvd[c] # 0} : daily' = [NewDaily EXCEPT !.at = "mod", !.pub = Snap(S)]
  BY DEF DailyPublished
<1> DEFINE pub == Snap(S)
<1>2. pub \in [Cves -> Vers]
  BY SnapLaw
<1>3. "mod" \notin Writing
  BY DEF Writing
<1> HIDE DEF pub
<1>4. daily' = [NewDaily EXCEPT !.at = "mod", !.pub = pub]
  BY <1>1 DEF pub
<1>5. daily' \in ADaily /\ daily'.at = "mod"
  BY <1>2, <1>4, FreshDaily DEF ADaily
<1> QED
  BY <1>3, <1>5 DEF DailyPublished, NoSlip, StoreShape

LEMMA DailyModifiedMoves ==
  ASSUME StoreShape, DailyModified
  PROVE  /\ StoreShape' /\ UNCHANGED <<redisVars, fill, mishap, nvd, fresh, cve, rows, risk, epss>>
         /\ daily'.at = "get" /\ \A c \in daily'.rej : daily'.mod[c] = 0
         /\ \A c \in Cves : daily'.mod[c] # 0 => daily'.hand.got[c] = daily'.mod[c]
<1>1. PICK S \in SUBSET fresh :
        daily' = [daily EXCEPT !.at = "get", !.mod = Snap(S), !.rej = {c \in S : nvd[c] = 0},
                               !.hand.got = Merge(daily.pub, Snap(S))]
  BY DEF DailyModified
<1> DEFINE mod == Snap(S)
           rej == {c \in S : nvd[c] = 0}
           got == Merge(daily.pub, mod)
           new == [daily.hand EXCEPT !.got = got]
<1>2. S \subseteq Cves
  BY DEF StoreShape
<1>3. mod \in [Cves -> Vers] /\ daily.pub \in [Cves -> Vers]
  BY <1>2, SnapLaw DEF StoreShape, ADaily
<1>4. got \in [Cves -> Vers]
  BY <1>3, SnapLaw
<1>5. rej \in SUBSET Cves /\ \A c \in rej : mod[c] = 0
  BY <1>2 DEF Snap
<1>6. \A c \in Cves : mod[c] # 0 => got[c] = mod[c]
  BY DEF Merge
<1> HIDE DEF mod, rej, got
<1>7. daily.hand \in AHand
  BY DEF StoreShape, ADaily
<1>8. new \in AHand /\ new.got = got
  BY <1>4, <1>7 DEF AHand
<1>9. daily' = [daily EXCEPT !.at = "get", !.mod = mod, !.rej = rej, !.hand = new]
  BY <1>1 DEF StoreShape, ADaily, mod, rej, got
<1> HIDE DEF new
<1>10. /\ daily' \in ADaily /\ daily'.at = "get" /\ daily'.mod = mod /\ daily'.rej = rej
       /\ daily'.hand = new
  BY <1>3, <1>5, <1>8, <1>9 DEF StoreShape, ADaily
<1>11. "get" \notin Writing
  BY DEF Writing
<1>12. UNCHANGED <<redisVars, fill, mishap, nvd, fresh, cve, rows, risk, epss>>
  BY DEF DailyModified, NoSlip
<1>13. StoreShape'
  BY <1>10, <1>11, <1>12 DEF StoreShape
<1> QED
  BY <1>5, <1>6, <1>8, <1>10, <1>12, <1>13

LEMMA DailyEndMoves ==
  ASSUME StoreShape, DailyPurge \/ DailyRecord
  PROVE  /\ StoreShape' /\ UNCHANGED <<redisVars, fill, mishap, nvd, fresh, risk>>
         /\ daily'.mod = daily.mod /\ daily'.rej = daily.rej
         /\ DailyPurge => daily'.crossed = daily.crossed \ daily.rej
<1> DEFINE hand == daily.hand
<1>1. hand \in AHand
  BY DEF StoreShape, ADaily
<1>2. CASE DailyPurge
  <2>2. "record" \notin Writing
    BY DEF Writing
  <2>3. /\ daily' \in ADaily /\ daily'.at = "record" /\ daily.rej \in SUBSET Cves
        /\ daily'.mod = daily.mod /\ daily'.rej = daily.rej /\ daily'.crossed = daily.crossed \ daily.rej
    BY <1>2 DEF DailyPurge, StoreShape, ADaily
  <2>4. 0 \in Vers
    BY FeedAssumption DEF Vers
  <2>5. cve' \in [Cves -> Vers] /\ rows' \in [Cves -> SUBSET CriteriaRows] /\ epss' \in AnEpss
    BY <1>2, <2>3, <2>4, TellLaw DEF DailyPurge, WithoutRows, WithoutCves, StoreShape
  <2> QED
    BY <1>2, <2>2, <2>3, <2>5 DEF DailyPurge, NoSlip, StoreShape
<1>3. CASE DailyRecord
  <2>1. daily' = [daily EXCEPT !.at = "done", !.hand = hand]
    BY <1>3 DEF DailyRecord, StoreShape, ADaily
  <2>2. "done" \in DailyStages /\ "done" \notin Writing
    BY DEF DailyStages, Writing
  <2> HIDE DEF hand
  <2>3. /\ daily' \in ADaily /\ daily'.at = "done"
        /\ daily'.mod = daily.mod /\ daily'.rej = daily.rej /\ daily'.crossed = daily.crossed
    BY <1>1, <2>1, <2>2, DailyMoves
  <2> QED
    BY <1>3, <2>2, <2>3 DEF DailyRecord, DailyPurge, NoSlip, StoreShape
<1> QED
  BY <1>2, <1>3

LEMMA DailyKeepsShape ==
  ASSUME StoreShape, DailyStep
  PROVE  /\ StoreShape' /\ UNCHANGED <<redisVars, fill, mishap, nvd, fresh, risk>>
         /\ \/ UNCHANGED <<cve, epss>>
            \/ \E S \in SUBSET Cves : TellEpss(S) /\ \A c \in Cves \ S : cve'[c] = cve[c]
<1>1. CASE DailyPublished
  BY <1>1, DailyStartMoves
<1>2. CASE DailyModified
  BY <1>2, DailyModifiedMoves
<1>3. CASE DailyGet
  BY <1>3, DailyGetMoves
<1>4. CASE DailyPut
  <2>1. StoreShape' /\ UNCHANGED <<redisVars, fill, mishap, nvd, fresh, risk>>
    BY <1>4, DailyPutMoves
  <2>2. CASE UNCHANGED <<cve, epss>>
    BY <2>1, <2>2
  <2>3. CASE cve' = Written(daily.hand) /\ TellEpss({daily.hand.on})
    <3>1. daily.hand.on \in Cves
      BY <1>4 DEF DailyPut, StoreShape, ADaily, Writing, Full
    <3>2. {daily.hand.on} \in SUBSET Cves /\ \A c \in Cves \ {daily.hand.on} : cve'[c] = cve[c]
      BY <2>3, <3>1 DEF Written, StoreShape
    <3> QED
      BY <2>1, <2>3, <3>2
  <2> QED
    BY <1>4, <2>2, <2>3 DEF DailyPut
<1>5. CASE DailyDrop
  BY <1>5, DailyDropMoves
<1>6. CASE DailyKeep
  <2>1. StoreShape' /\ UNCHANGED <<redisVars, fill, mishap, nvd, fresh, cve, risk>> /\ TellEpss({daily.hand.on})
    BY <1>6, DailyKeepMoves
  <2>2. {daily.hand.on} \in SUBSET Cves
    BY <1>6 DEF DailyKeep, StoreShape, ADaily, Writing, Full
  <2> QED
    BY <2>1, <2>2
<1>7. CASE DailyPurge
  <2>1. StoreShape' /\ UNCHANGED <<redisVars, fill, mishap, nvd, fresh, risk>>
    BY <1>7, DailyEndMoves
  <2>2. TellEpss(daily.rej) /\ cve' = WithoutCves(daily.rej) /\ daily.rej \in SUBSET Cves
    BY <1>7 DEF DailyPurge, StoreShape, ADaily
  <2>3. \A c \in Cves \ daily.rej : cve'[c] = cve[c]
    BY <2>2 DEF WithoutCves
  <2> QED
    BY <2>1, <2>2, <2>3
<1>8. CASE DailyRecord
  <2>1. UNCHANGED <<cve, epss>>
    BY <1>8 DEF DailyRecord
  <2> QED
    BY <1>8, <2>1, DailyEndMoves
<1> QED
  BY <1>1, <1>2, <1>3, <1>4, <1>5, <1>6, <1>7, <1>8 DEF DailyStep

LEMMA OneVersion ==
  ASSUME NEW v, NEW w
  PROVE  {x.ver : x \in {[ver |-> v, by |-> w]}} = {v}
OBVIOUS

\* The daily sync: what it still holds it has yet to write, what it held it has written.
LEMMA DailyKeepsTruth ==
  ASSUME StoreShape, DailyInv, DailyStep
  PROVE  DailyInv'
<1> USE DEF Writing
<1>0. ASSUME UNCHANGED <<cve, rows>>, daily'.mod = daily.mod
      PROVE  \A c \in Cves : AsModified(c) => AsModified(c)'
  BY <1>0 DEF AsModified
<1>1. CASE DailyPublished
  BY <1>1, DailyStartMoves DEF DailyInv
<1>2. CASE DailyModified
  <2>1. StoreShape' /\ daily'.at = "get" /\ \A c \in daily'.rej : daily'.mod[c] = 0
    BY <1>2, DailyModifiedMoves
  <2>2. \A c \in Cves : daily'.mod[c] # 0 => daily'.hand.got[c] = daily'.mod[c]
    BY <1>2, DailyModifiedMoves
  <2> QED
    BY <2>1, <2>2 DEF DailyInv
<1>3. CASE DailyGet
  <2>1. /\ UNCHANGED <<cve, rows>>
        /\ daily'.mod = daily.mod /\ daily'.rej = daily.rej
        /\ \/ Left(daily.hand) = {} /\ daily'.at = "purge" /\ daily'.crossed = daily.crossed
           \/ \E c \in Left(daily.hand) :
                 /\ daily'.at = "put" /\ daily'.hand = Load(daily.hand, c)
                 /\ daily'.crossed = daily.crossed \ {c}
    BY <1>3, DailyGetMoves
  <2>2. daily.at = "get" /\ daily.hand \in AHand
    BY <1>3 DEF DailyGet, StoreShape, ADaily
  <2>3. CASE Left(daily.hand) = {} /\ daily'.at = "purge" /\ daily'.crossed = daily.crossed
    BY <1>0, <2>1, <2>2, <2>3 DEF DailyInv, Left
  <2>4. ASSUME NEW c \in Left(daily.hand), daily'.at = "put", daily'.hand = Load(daily.hand, c),
               daily'.crossed = daily.crossed \ {c}
        PROVE  DailyInv'
    <3>1. daily'.hand.got = daily.hand.got /\ daily'.hand.base = cve[c] /\ daily'.hand.on = c
      BY <2>2, <2>4 DEF Load, AHand
    <3>2. c \in Cves /\ daily.hand.got[c] # 0
      BY <2>4 DEF Left
    <3> QED
      BY <1>0, <2>1, <2>2, <2>4, <3>1, <3>2 DEF DailyInv
  <2> QED
    BY <2>1, <2>3, <2>4
<1>4. CASE DailyPut
  <2>1. /\ daily'.mod = daily.mod /\ daily'.rej = daily.rej /\ daily'.crossed = daily.crossed
        /\ \/ daily'.at = "failed" /\ UNCHANGED <<cve, epss>>
           \/ /\ cve' = Written(daily.hand)
              /\ \/ daily'.at = "drop" /\ daily'.hand = daily.hand
                 \/ daily'.at = "get" /\ daily'.hand = Ticked(daily.hand) /\ ~HasCriteria(daily.hand)
    BY <1>4, DailyPutMoves
  <2>2. daily.at = "put" /\ daily.hand \in AHand /\ Full(daily.hand) /\ UNCHANGED rows
    BY <1>4 DEF DailyPut, StoreShape, ADaily
  <2>3. CASE daily'.at = "failed"
    BY <2>3 DEF DailyInv
  <2>4. CASE cve' = Written(daily.hand)
    <3> DEFINE hand == daily.hand
    <3>1. /\ hand.on \in Cves /\ hand.got[hand.on] # 0
          /\ hand.on \notin daily.crossed => hand.base = cve[hand.on]
      BY <2>2, <2>4 DEF DailyInv, Full
    <3>2. /\ hand.on \notin daily.crossed => cve'[hand.on] = hand.got[hand.on]
          /\ \A c \in Cves \ {hand.on} : cve'[c] = cve[c]
      BY <2>4, <3>1 DEF Written, StoreShape
    <3>3. \A c \in Cves : daily.mod[c] # 0 =>
             IF hand.got[c] = 0 THEN c \notin daily.crossed => AsModified(c) ELSE hand.got[c] = daily.mod[c]
      BY <2>2, <2>4 DEF DailyInv
    <3>4. \A c \in daily.rej : daily.mod[c] = 0
      BY <2>2, <2>4 DEF DailyInv
    <3>8. \A c \in Cves \ {hand.on} : AsModified(c) => AsModified(c)'
      BY <2>1, <2>2, <3>2 DEF AsModified
    <3>5. CASE daily'.at = "drop" /\ daily'.hand = hand
      BY <2>1, <3>1, <3>2, <3>3, <3>4, <3>5, <3>8 DEF DailyInv
    <3>6. CASE daily'.at = "get" /\ daily'.hand = Ticked(hand) /\ ~HasCriteria(hand)
      <4>1. daily'.hand.got = [hand.got EXCEPT ![hand.on] = 0] /\ hand.got \in [Cves -> Vers]
        BY <2>2, <3>6 DEF Ticked, AHand
      <4>2. daily'.hand.got[hand.on] = 0 /\ \A c \in Cves \ {hand.on} : daily'.hand.got[c] = hand.got[c]
        BY <3>1, <4>1
      <4>3. \A c \in {hand.on} \ daily.crossed : daily.mod[c] # 0 => AsModified(c)'
        BY <2>1, <3>1, <3>2, <3>3, <3>6 DEF AsModified, HasCriteria
      <4> QED
        BY <2>1, <3>1, <3>3, <3>4, <3>6, <3>8, <4>2, <4>3 DEF DailyInv
    <3>7. CASE daily'.at = "failed"
      BY <3>7 DEF DailyInv
    <3> QED
      BY <2>1, <3>5, <3>6, <3>7
  <2> QED
    BY <2>1, <2>3, <2>4
<1>5. CASE DailyDrop
  <2>1. /\ UNCHANGED <<cve, rows>> /\ daily'.at = "keep" /\ daily'.hand = Seen(daily.hand)
        /\ daily'.mod = daily.mod /\ daily'.rej = daily.rej /\ daily'.crossed = daily.crossed
    BY <1>5, DailyDropMoves
  <2>2. daily.at = "drop" /\ daily.hand \in AHand
    BY <1>5 DEF DailyDrop, StoreShape, ADaily
  <2>3. /\ daily'.hand.got = daily.hand.got /\ daily'.hand.on = daily.hand.on
        /\ daily'.hand.seen = rows[daily.hand.on]
    BY <2>1, <2>2 DEF Seen, AHand
  <2> QED
    BY <1>0, <2>1, <2>2, <2>3 DEF DailyInv
<1>6. CASE DailyKeep
  <2> DEFINE hand == daily.hand
  <2>1. /\ UNCHANGED cve /\ daily'.at = "get" /\ daily'.hand = Ticked(hand) /\ rows' = Replaced(hand, "daily")
        /\ daily'.mod = daily.mod /\ daily'.rej = daily.rej /\ daily'.crossed = daily.crossed
    BY <1>6, DailyKeepMoves
  <2>2. daily.at = "keep" /\ hand \in AHand /\ Full(hand)
    BY <1>6 DEF DailyKeep, StoreShape, ADaily
  <2>3. daily'.hand.got = [hand.got EXCEPT ![hand.on] = 0] /\ hand.got \in [Cves -> Vers]
    BY <2>1, <2>2 DEF Ticked, AHand
  <2>4. daily'.hand.got[hand.on] = 0 /\ \A c \in Cves \ {hand.on} : daily'.hand.got[c] = hand.got[c]
    BY <2>2, <2>3 DEF Full
  <2>5. hand.on \in Cves /\ hand.got[hand.on] # 0
    BY <2>2 DEF Full
  <2>6. hand.on \notin daily.crossed => hand.seen = rows[hand.on] /\ cve[hand.on] = hand.got[hand.on]
    BY <2>2 DEF DailyInv
  <2>7. hand.on \notin daily.crossed => rows'[hand.on] = {[ver |-> hand.got[hand.on], by |-> "daily"]}
    BY <2>1, <2>5, <2>6 DEF Replaced, StoreShape
  <2>8. \A c \in Cves \ {hand.on} : AsModified(c) => AsModified(c)'
    BY <2>1, <2>5 DEF Replaced, StoreShape, AsModified
  <2>9. hand.on \notin daily.crossed => {x.ver : x \in rows'[hand.on]} = {hand.got[hand.on]}
    BY <2>7, OneVersion
  <2>10. \A c \in {hand.on} \ daily.crossed : daily.mod[c] # 0 => AsModified(c)'
    BY <2>1, <2>2, <2>5, <2>6, <2>9 DEF DailyInv, AsModified
  <2> QED
    BY <2>1, <2>2, <2>4, <2>5, <2>8, <2>10 DEF DailyInv
<1>7. CASE DailyPurge
  <2>1. daily'.mod = daily.mod /\ daily'.rej = daily.rej /\ daily'.crossed = daily.crossed \ daily.rej
    BY <1>7, DailyEndMoves
  <2>2. daily.at = "purge" /\ daily'.at = "record"
        /\ rows' = WithoutRows(daily.rej) /\ cve' = WithoutCves(daily.rej) /\ daily.rej \subseteq Cves
    BY <1>7 DEF DailyPurge, StoreShape, ADaily
  <2>3. \A c \in Cves \ daily.rej : AsModified(c) => AsModified(c)'
    BY <2>1, <2>2 DEF AsModified, WithoutRows, WithoutCves
  <2> QED
    BY <2>1, <2>2, <2>3 DEF DailyInv, WithoutRows, WithoutCves
<1>8. CASE DailyRecord
  <2>1. daily'.at = "done"
    BY <1>8 DEF DailyRecord, StoreShape, ADaily
  <2> QED
    BY <2>1 DEF DailyInv
<1> QED
  BY <1>1, <1>2, <1>3, <1>4, <1>5, <1>6, <1>7, <1>8 DEF DailyStep

LEMMA EpssKeeps ==
  ASSUME StoreShape, EpssStep
  PROVE  /\ StoreShape' /\ UNCHANGED <<redisVars, fill, mishap, nvd, fresh, cve, rows, daily>>
         /\ RiskInv => RiskInv'
<1>1. UNCHANGED <<redisVars, fill, mishap, nvd, fresh, cve, rows, daily>>
  BY DEF EpssStep, EpssList, EpssLoad, EpssCommit, EpssApply, NoSlip
<1>2. CASE EpssList
  <2> DEFINE ids == {c \in Cves : cve[c] # 0}
  <2>1. ids \in SUBSET Cves /\ \A c \in ids : cve[c] # 0
    OBVIOUS
  <2>2. epss' = [NewEpss EXCEPT !.at = "fetch", !.ids = ids] /\ UNCHANGED risk
    BY <1>2 DEF EpssList
  <2> HIDE DEF ids
  <2>3. epss' \in AnEpss /\ epss'.at = "fetch" /\ epss'.ids = ids
    BY <2>1, <2>2, FreshEpss DEF AnEpss
  <2> QED
    BY <1>1, <2>1, <2>2, <2>3 DEF StoreShape, RiskInv
<1>3. CASE EpssLoad
  <2>1. PICK S \in SUBSET epss.ids : epss' = [epss EXCEPT !.at = "commit", !.hit = {c \in S : cve[c] # 0}]
    BY <1>3 DEF EpssLoad
  <2> DEFINE hit == {c \in S : cve[c] # 0}
  <2>2. hit \in SUBSET Cves
    BY DEF StoreShape, AnEpss
  <2> HIDE DEF hit
  <2>3. epss' = [epss EXCEPT !.at = "commit", !.hit = hit] /\ UNCHANGED risk
    BY <1>3, <2>1 DEF EpssLoad, hit
  <2>4. epss' \in AnEpss /\ epss'.at = "commit" /\ epss'.ids = epss.ids /\ epss'.crossed = epss.crossed
    BY <2>2, <2>3 DEF StoreShape, AnEpss
  <2>5. epss.at = "fetch"
    BY <1>3 DEF EpssLoad
  <2> QED
    BY <1>1, <2>3, <2>4, <2>5 DEF StoreShape, RiskInv
<1>4. CASE EpssCommit
  <2>1. PICK at \in {"failed", "apply"} : epss' = [epss EXCEPT !.at = at]
    BY <1>4 DEF EpssCommit
  <2>2. epss' \in AnEpss /\ epss'.at = at /\ epss'.ids = epss.ids /\ epss'.crossed = epss.crossed
    BY <2>1 DEF StoreShape, AnEpss
  <2>3. epss.at = "commit" /\ UNCHANGED risk
    BY <1>4 DEF EpssCommit
  <2> QED
    BY <1>1, <2>2, <2>3 DEF StoreShape, RiskInv
<1>5. CASE EpssApply
  <2>1. epss' = [epss EXCEPT !.at = "done"] /\ epss.at = "apply" /\ risk' = Rescored
    BY <1>5 DEF EpssApply
  <2>2. epss' \in AnEpss /\ epss'.at = "done" /\ epss'.ids = epss.ids /\ epss'.crossed = epss.crossed
    BY <2>1 DEF StoreShape, AnEpss
  <2>3. risk' \in [Cves -> Vers] /\ \A c \in Cves : c \in epss.ids /\ cve[c] # 0 => risk'[c] = cve[c]
    BY <2>1 DEF StoreShape, Rescored
  <2>4. epss.ids \subseteq Cves
    BY DEF StoreShape, AnEpss
  <2> QED
    BY <1>1, <2>1, <2>2, <2>3, <2>4 DEF StoreShape, RiskInv
<1> QED
  BY <1>1, <1>2, <1>3, <1>4, <1>5 DEF EpssStep

\* A scan that looks services up crosses the jobs as a backfill does.
LEMMA LookupKeeps ==
  ASSUME StoreShape, DailyInv, RiskInv, LookupStep
  PROVE  StoreShape' /\ UNCHANGED <<redisVars, fill, mishap>> /\ DailyInv' /\ RiskInv'
<1> USE FeedAssumption
<1>1. PICK c \in Cves : LookupPut(c) \/ LookupKeep(c)
  BY DEF LookupStep
<1>2. UNCHANGED <<redisVars, fill, mishap, nvd, fresh, risk>> /\ TellDaily({c}) /\ TellEpss({c})
  BY <1>1 DEF LookupPut, LookupKeep, NoSlip
<1>3. cve' \in [Cves -> Vers]
  BY <1>1 DEF LookupPut, LookupKeep, Published, StoreShape, Vers
<1>4. rows' \in [Cves -> SUBSET CriteriaRows]
  BY <1>1 DEF LookupPut, LookupKeep, Published, StoreShape, CriteriaRows
<1>5. Beside(c)
  BY <1>1, <1>2 DEF LookupPut, LookupKeep, Beside, StoreShape
<1> QED
  BY <1>2, <1>3, <1>4, <1>5, TablesShape, BesideKeeps

LEMMA NvdKeeps ==
  ASSUME StoreShape, \E c \in Cves : Edit(c) \/ Reject(c) \/ Age(c)
  PROVE  StoreShape' /\ UNCHANGED <<redisVars, fill, mishap, cve, rows, risk, daily, epss>>
<1> USE FeedAssumption
<1>1. UNCHANGED <<redisVars, fill, mishap, cve, rows, risk, daily, epss>> /\ fresh' \subseteq Cves
  BY DEF Edit, Reject, Age, NoSlip, StoreShape
<1>2. nvd' \in [Cves -> Vers]
  <2>1. \A v \in Vers : (IF v < MaxVer THEN v + 1 ELSE 0) \in Vers /\ 0 \in Vers
    BY DEF Vers
  <2> QED
    BY <2>1 DEF Edit, Reject, Age, StoreShape
<1> QED
  BY <1>1, <1>2 DEF StoreShape

----------------------------------------------------------------------------
(* The feeds: the store *)

StoreInv == StoreShape /\ FillShape /\ RedisShape /\ DailyInv /\ RiskInv

\* Redis, the cancel flag and the stages of a backfill outside its writes leave the store alone.
LEMMA RestKeepsStore ==
  ASSUME StoreInv, UNCHANGED storeVars
  PROVE  StoreShape' /\ DailyInv' /\ RiskInv'
BY DEF StoreInv, storeVars, StoreShape, DailyInv, AsModified, RiskInv

LEMMA StoreStep == StoreInv /\ [FeedsNext]_feedVars => StoreInv'
<1> SUFFICES ASSUME StoreInv, [FeedsNext]_feedVars PROVE StoreInv'
  OBVIOUS
<1> USE DEF StoreInv
<1>1. ASSUME NEW f \in Fills, FillStep(f) \/ Crash(f) PROVE StoreInv'
  BY <1>1, RedisStepShape, FillStepShape, CrashShape, RestKeepsStore
<1>2. CASE CancelAsk \/ CancelSet \/ LockExpires \/ HashExpires
  <2>1. UNCHANGED fill
    BY <1>2 DEF CancelAsk, CancelSet, LockExpires, HashExpires
  <2>2. FillShape'
    BY <2>1 DEF FillShape, FillOK
  <2> QED
    BY <1>2, <2>2, RedisStepShape, RestKeepsStore
<1>3. ASSUME NEW f \in Fills, WriteStep(f) PROVE StoreInv'
  <2>1. WriteEffect(f)
    BY <1>3, WriteStepShape
  <2>2. RedisShape'
    BY <2>1 DEF WriteEffect, redisVars, RedisShape
  <2>3. CASE UNCHANGED <<cve, rows, daily, epss>>
    BY <2>1, <2>2, <2>3 DEF WriteEffect, DailyInv, AsModified, RiskInv
  <2>4. CASE \E c \in Cves : Beside(c)
    BY <2>1, <2>2, <2>4, BesideKeeps DEF WriteEffect
  <2> QED
    BY <2>1, <2>3, <2>4 DEF WriteEffect
<1>4. CASE DailyStep
  <2>1. /\ StoreShape' /\ UNCHANGED <<redisVars, fill, mishap, nvd, fresh, risk>>
        /\ \/ UNCHANGED <<cve, epss>>
           \/ \E S \in SUBSET Cves : TellEpss(S) /\ \A c \in Cves \ S : cve'[c] = cve[c]
    BY <1>4, DailyKeepsShape
  <2>2. DailyInv'
    BY <1>4, DailyKeepsTruth
  <2>3. FillShape' /\ RedisShape'
    BY <2>1 DEF FillShape, FillOK, RedisShape, redisVars
  <2>4. RiskInv'
    <3>1. CASE UNCHANGED <<cve, epss>>
      BY <2>1, <3>1 DEF RiskInv
    <3>2. ASSUME NEW S \in SUBSET Cves, TellEpss(S), \A c \in Cves \ S : cve'[c] = cve[c]
          PROVE  RiskInv'
      <4>1. epss'.crossed = epss.crossed \cup S /\ epss'.at = epss.at /\ epss'.ids = epss.ids
        BY <3>2, TellLaw
      <4>2. epss.ids \subseteq Cves /\ UNCHANGED risk
        BY <2>1 DEF StoreShape, AnEpss
      <4> QED
        BY <3>2, <4>1, <4>2 DEF RiskInv
    <3> QED
      BY <2>1, <3>1, <3>2
  <2> QED
    BY <2>1, <2>2, <2>3, <2>4
<1>5. CASE EpssStep
  <2>1. StoreShape' /\ UNCHANGED <<redisVars, fill, mishap, cve, rows, daily>> /\ RiskInv'
    BY <1>5, EpssKeeps
  <2> QED
    BY <2>1 DEF FillShape, FillOK, RedisShape, redisVars, DailyInv, AsModified
<1>6. CASE \E c \in Cves : Edit(c) \/ Reject(c) \/ Age(c)
  <2>1. StoreShape' /\ UNCHANGED <<redisVars, fill, mishap, cve, rows, risk, daily, epss>>
    BY <1>6, NvdKeeps
  <2> QED
    BY <2>1 DEF FillShape, FillOK, RedisShape, redisVars, DailyInv, AsModified, RiskInv
<1>7. CASE LookupStep
  BY <1>7, LookupKeeps DEF FillShape, FillOK, RedisShape, redisVars
<1>8. CASE UNCHANGED feedVars
  <2>1. UNCHANGED storeVars /\ UNCHANGED <<redisVars, fill>>
    BY <1>8 DEF feedVars, storeVars, redisVars
  <2> QED
    BY <2>1, RestKeepsStore DEF FillShape, FillOK, RedisShape, redisVars
<1> QED
  BY <1>1, <1>2, <1>3, <1>4, <1>5, <1>6, <1>7, <1>8 DEF FeedsNext

LEMMA StoreStart == FeedsInit => StoreInv
<1> SUFFICES ASSUME FeedsInit PROVE StoreInv
  OBVIOUS
<1>1. "idle" \notin Writing /\ "none" \notin Writing \cup Fetching
  BY DEF Writing, Fetching
<1>2. StoreShape
  BY <1>1, FreshDaily, FreshEpss DEF FeedsInit, StoreShape
<1>3. DailyInv /\ RiskInv
  BY <1>1, FreshDaily, FreshEpss DEF FeedsInit, DailyInv, RiskInv
<1>4. NoHash \in Hash /\ FALSE \in BOOLEAN
  BY Zenon DEF NoHash, Hash
<1>5. RedisShape
  BY <1>4 DEF FeedsInit, RedisShape
<1>6. NewFill \in AFill /\ NewFill.at = "none" /\ NewFill.win = 0 /\ NewFill.final = "none"
  <2>1. 0 \in 0..Windows
    BY FeedAssumption
  <2> HIDE DEF Hand
  <2> QED
    BY <1>4, <2>1, FreshHand DEF NewFill, AFill
<1>7. FillOK(NewFill)
  BY <1>1, <1>6 DEF FillOK
<1>8. FillShape
  BY <1>6, <1>7 DEF FeedsInit, FillShape
<1> QED
  BY <1>2, <1>3, <1>5, <1>8 DEF StoreInv

\* For any CVEs, versions, number of backfills and of windows, and any store to begin with.
THEOREM StoreInvariant == FeedsSpec => []StoreInv
BY StoreStart, StoreStep, PTL DEF FeedsSpec

\* StoreTrue: whatever writes beside it, a daily sync leaves the CVEs nobody crossed as NVD had them,
\* criteria included, and nothing of those that NVD had rejected; an EPSS refresh leaves every
\* listed risk computed from its row where nobody has written it since (tasks/cpe_sync.py).
THEOREM StoreIsTrue == FeedsSpec => []StoreTrue
<1>1. StoreInv => StoreTrue
  <2>1. StoreInv => DailyTrue
    BY DEF StoreInv, DailyInv, AsModified, DailyTrue
  <2>2. StoreInv => RiskTrue
    BY DEF StoreInv, RiskInv, RiskTrue
  <2> QED
    BY <2>1, <2>2 DEF StoreTrue
<1> QED
  BY <1>1, StoreInvariant, PTL

----------------------------------------------------------------------------
(* The feeds: the lock *)

\* A step that leaves the lock, and who owns and who speaks, as they were.
LEMMA LockCarry ==
  ASSUME LockInv, UNCHANGED lock, mishap \subseteq mishap',
         \A g \in Fills : fill'[g].at \in Owning <=> fill[g].at \in Owning,
         \A g \in Fills : fill[g].at \in Speaking => fill'[g].at \in Speaking,
         IsActive' => IsActive \/ \E g \in Fills : fill'[g].at \in Speaking,
         lock \in Fills \cup {Nobody}
  PROVE  LockInv'
BY DEF LockInv

LEMMA StagesApart ==
  /\ Owning \subseteq Live /\ Fetching \cup {"fail"} \subseteq Owning \cap Speaking
  /\ {"open", "key", "clear", "set", "poll", "note", "close", "finish", "fail"} \subseteq Owning \cap Speaking
  /\ {"mark", "markset", "send", "sent"} \subseteq Speaking \ Owning
  /\ "release" \in Owning \ Speaking /\ "none" \notin Live /\ "end" \notin Live
BY DEF Owning, Speaking, Live, Walking, Fetching, Writing

LEMMA FillStepLock ==
  ASSUME RedisShape, FillShape, LockInv, NEW f \in Fills, FillStep(f)
  PROVE  LockInv'
<1> USE FeedAssumption
<1>1. \A g \in Fills \ {f} : fill'[g] = fill[g]
  BY FillStepShape
<1>2. fill[f] \in AFill /\ fill \in [Fills -> AFill] /\ FillOK(fill[f])
  BY DEF FillShape
<1> DEFINE Goes(from, to) == fill[f].at = from /\ fill'[f].at = to
<1>3. ASSUME Click(f) \/ MarkSet(f) PROVE LockInv'
  <2>1. fill'[f].at \in {"mark", "send"} /\ fill[f].at \in {"none", "markset"}
    <3>1. CASE Click(f)
      BY <1>2, <3>1 DEF Click, Move, AFill
    <3>2. CASE MarkSet(f)
      BY <1>2, <3>2 DEF MarkSet, Move, AFill
    <3> QED
      BY <1>3, <3>1, <3>2
  <2>2. UNCHANGED lock /\ mishap \subseteq mishap'
    BY <1>3 DEF Click, MarkSet, redisVars, NoSlip, Slip
  <2> QED
    BY <1>1, <2>1, <2>2, LockCarry, StagesApart DEF RedisShape
<1>4. CASE MarkDel(f)
  <2>1. fill'[f].at \in {"markset", "send"} /\ fill[f].at = "mark"
    BY <1>2, <1>4 DEF MarkDel, Move, AFill
  <2>2. UNCHANGED lock /\ mishap \subseteq mishap' /\ (kg' = NoHash \/ UNCHANGED kg)
    BY <1>4 DEF MarkDel, NoSlip, Slip
  <2> QED
    BY <1>1, <2>1, <2>2, LockCarry, StagesApart DEF RedisShape
<1>5. CASE Send(f)
  <2>1. CASE Move(f, "sent") /\ NoSlip
    <3>1. fill'[f].at = "sent" /\ fill[f].at = "send"
      BY <1>2, <1>5, <2>1 DEF Send, Move, AFill
    <3>2. UNCHANGED lock /\ mishap \subseteq mishap'
      BY <1>5 DEF Send, redisVars, NoSlip, Slip
    <3> QED
      BY <1>1, <3>1, <3>2, LockCarry, StagesApart DEF RedisShape
  <2>2. CASE Move(f, "end") /\ Slip("broker")
    <3>1. fill'[f].at = "end" /\ fill[f].at = "send"
      BY <1>2, <1>5, <2>2 DEF Send, Move, AFill
    <3>2. UNCHANGED lock /\ mishap' = mishap \cup {"broker"}
      BY <1>5, <2>2 DEF Send, redisVars, Slip
    <3> QED
      BY <1>1, <3>1, <3>2, StagesApart DEF RedisShape, LockInv
  <2> QED
    BY <1>5, <2>1, <2>2 DEF Send
<1>6. CASE Acquire(f)
  <2>1. fill'[f].at \in {"open", "end"} /\ fill[f].at = "sent" /\ UNCHANGED kg
    BY <1>2, <1>6 DEF Acquire, Move, AFill
  <2>2. CASE lock = Nobody /\ lock' = f /\ Move(f, "open") /\ NoSlip
    <3>1. fill'[f].at = "open"
      BY <1>2, <2>2 DEF Move, AFill
    <3>2. UNCHANGED mishap
      BY <2>2 DEF NoSlip
    <3> QED
      BY <1>1, <2>1, <2>2, <3>1, <3>2, StagesApart DEF LockInv
  <2>3. CASE lock # Nobody /\ Move(f, "end") /\ UNCHANGED lock
    <3>1. fill'[f].at = "end" /\ lock \in Fills
      BY <1>2, <2>3 DEF Move, AFill, RedisShape
    <3>2. mishap' = mishap \/ mishap' = mishap \cup {"late"} \/ mishap' = mishap \cup {"redis"}
      BY <1>6 DEF Acquire, NoSlip, Slip
    <3>3. fill[lock].at = "release" => mishap' \cap {"late", "redis"} # {}
      BY <1>6, <2>3 DEF Acquire, NoSlip, Slip
    <3>4. mishap' \cap {"redis", "crash", "late"} = {} => lock # f /\ fill'[lock].at \in Speaking
      <4>1. mishap' \cap {"redis", "crash", "late"} = {} => fill[lock].at \in Owning \ {"release"}
        BY <2>3, <3>2, <3>3 DEF LockInv
      <4> QED
        BY <1>1, <2>1, <3>1, <4>1, StagesApart DEF Owning, Speaking, Live
    <3> QED
      BY <1>1, <2>1, <2>3, <3>1, <3>2, <3>4, StagesApart DEF LockInv
  <2>4. CASE Slip("redis")
    BY <2>4 DEF Slip, LockInv
  <2> QED
    BY <1>6, <2>2, <2>3, <2>4 DEF Acquire
<1>7. ASSUME OpenFill(f) \/ BeginGet(f) \/ Poll(f) \/ CloseFill(f) PROVE LockInv'
  <2>1. /\ fill[f].at \in {"open", "key", "poll", "close"}
        /\ fill'[f].at \in {"key", "clear", "poll", "close", "fetch", "finish", "fail"}
    BY <1>2, <1>7 DEF OpenFill, BeginGet, Poll, CloseFill, Move, AFill
  <2>2. UNCHANGED <<kg, lock>> /\ mishap \subseteq mishap'
    BY <1>7 DEF OpenFill, BeginGet, Poll, CloseFill, redisVars, NoSlip, Slip
  <2>3. "fetch" \in Fetching
    BY DEF Fetching
  <2> QED
    BY <1>1, <2>1, <2>2, <2>3, LockCarry, StagesApart DEF RedisShape
<1>8. ASSUME BeginDel(f) \/ BeginSet(f) \/ Note(f) PROVE LockInv'
  <2>1. fill[f].at \in {"clear", "set", "note"} /\ fill'[f].at \in {"set", "poll"}
    BY <1>2, <1>8 DEF BeginDel, BeginSet, Note, Move, AFill
  <2>2. UNCHANGED lock /\ mishap \subseteq mishap'
    BY <1>8 DEF BeginDel, BeginSet, Note, NoSlip, Slip
  <2> QED
    BY <1>1, <2>1, <2>2, LockCarry, StagesApart DEF RedisShape
<1>9. CASE Finish(f)
  <2>1. fill[f].at \in {"finish", "fail"} /\ fill'[f].at = "release" /\ UNCHANGED lock
    BY <1>2, <1>9 DEF Finish, AFill
  <2>2. CASE Slip("redis")
    BY <1>1, <2>1, <2>2, StagesApart DEF LockInv, Slip
  <2>3. CASE ~Slip("redis")
    <3>1. UNCHANGED mishap /\ ~IsActive'
      BY <1>2, <1>9, <2>3 DEF Finish, FillOK, Hset, NoSlip, IsActive, Active
    <3> QED
      BY <1>1, <2>1, <3>1, StagesApart DEF LockInv, RedisShape
  <2> QED
    BY <2>2, <2>3
<1>10. CASE Release(f)
  <2>1. fill[f].at = "release" /\ fill'[f].at = "end" /\ UNCHANGED kg
    BY <1>2, <1>10 DEF Release, Move, AFill
  <2>2. CASE lock' = Nobody /\ NoSlip
    BY <1>1, <2>1, <2>2, StagesApart DEF LockInv, NoSlip, IsActive
  <2>3. CASE Slip("redis")
    BY <2>3 DEF LockInv, Slip
  <2> QED
    BY <1>10, <2>2, <2>3 DEF Release
<1> QED
  BY <1>3, <1>4, <1>5, <1>6, <1>7, <1>8, <1>9, <1>10 DEF FillStep

LEMMA CrashLock ==
  ASSUME RedisShape, FillShape, LockInv, NEW f \in Fills, Crash(f)
  PROVE  LockInv'
<1>1. \A g \in Fills \ {f} : fill'[g] = fill[g]
  BY CrashShape
<1>2. fill'[f].at = "end" /\ UNCHANGED <<kg, lock>> /\ (IsActive' <=> IsActive)
  BY DEF Crash, FillShape, AFill, IsActive
<1>3. CASE fill[f].at \in {"mark", "markset", "send"}
  <2>1. mishap' = mishap \cup {"web"}
    BY <1>3 DEF Crash, Slip
  <2> QED
    BY <1>1, <1>2, <1>3, <2>1, StagesApart DEF LockInv, RedisShape
<1>4. CASE fill[f].at \notin {"mark", "markset", "send"}
  <2>1. mishap' = mishap \cup {"crash"}
    BY <1>4 DEF Crash, Slip
  <2> QED
    BY <1>1, <1>2, <2>1, StagesApart DEF LockInv, RedisShape
<1> QED
  BY <1>3, <1>4

LEMMA OutsideLock ==
  ASSUME RedisShape, FillShape, LockInv, CancelAsk \/ CancelSet \/ LockExpires \/ HashExpires
  PROVE  LockInv'
<1>1. UNCHANGED fill
  BY DEF CancelAsk, CancelSet, LockExpires, HashExpires
<1>2. CASE CancelAsk
  <2>1. UNCHANGED <<kg, lock, mishap>>
    BY <1>2 DEF CancelAsk, NoSlip
  <2> QED
    BY <1>1, <2>1 DEF LockInv, IsActive
<1>3. CASE CancelSet
  <2>1. UNCHANGED lock /\ mishap \subseteq mishap'
    BY <1>3 DEF CancelSet, NoSlip, Slip
  <2>2. IsActive' => IsActive
    BY <1>3 DEF CancelSet, Hset, IsActive, Active
  <2> QED
    BY <1>1, <2>1, <2>2, LockCarry DEF RedisShape
<1>4. CASE LockExpires
  <2>1. lock \in Fills /\ lock' = Nobody /\ UNCHANGED kg
    BY <1>4 DEF LockExpires, RedisShape
  <2>2. CASE fill[lock].at \in Live
    <3>1. mishap' = mishap \cup {"lapse"}
      BY <1>4, <2>2 DEF LockExpires, Slip
    <3> QED
      BY <1>1, <2>1, <3>1 DEF LockInv, IsActive
  <2>3. CASE fill[lock].at \notin Live
    <3>1. UNCHANGED mishap
      BY <1>4, <2>3 DEF LockExpires, NoSlip
    <3> QED
      BY <1>1, <2>1, <2>3, <3>1, StagesApart DEF LockInv, IsActive
  <2> QED
    BY <2>2, <2>3
<1>5. CASE HashExpires
  <2>1. UNCHANGED lock /\ mishap' = mishap \cup {"lapse"} /\ ~IsActive'
    BY <1>5 DEF HashExpires, Slip, NoHash, IsActive
  <2> QED
    BY <1>1, <2>1 DEF LockInv
<1> QED
  BY <1>2, <1>3, <1>4, <1>5

LEMMA WriteLock ==
  ASSUME RedisShape, LockInv, NEW f \in Fills, WriteEffect(f)
  PROVE  LockInv'
<1>1. UNCHANGED <<kg, lock, mishap>> /\ \A g \in Fills \ {f} : fill'[g] = fill[g]
  BY DEF WriteEffect, redisVars
<1>2. {fill[f].at, fill'[f].at} \subseteq Owning \cap Speaking
  BY StagesApart DEF WriteEffect
<1> QED
  BY <1>1, <1>2, LockCarry DEF RedisShape, IsActive

----------------------------------------------------------------------------
(* The feeds: the cancel flag *)

Calm == mishap \cap {"redis", "lapse"} = {}

\* While nothing went wrong one backfill at most owns the lock.
LEMMA OneOwner ==
  ASSUME LockInv, Calm, NEW f \in Fills, NEW g \in Fills, fill[f].at \in Owning, fill[g].at \in Owning
  PROVE  f = g
BY DEF LockInv, Calm

\* A step of one backfill: the flag of the others stands while one waits for it, and it answers
\* for itself.
LEMMA CancelCarry ==
  ASSUME CancelInv, NEW f \in Fills, \A g \in Fills \ {f} : fill'[g] = fill[g],
         owed' \subseteq owed, owed \subseteq Fills, mishap \subseteq mishap',
         f \in owed' /\ Stops(f) /\ WillPoll(f)' => WillPoll(f),
         Calm /\ Calm' /\ Waiting' /\ Standing => Standing',
         Calm /\ Calm' /\ f \in owed' /\ Stops(f) => Stops(f)',
         Calm /\ Calm' /\ Waiting' =>
           /\ \A g \in Fills \ {f} : fill[g].at \in {"clear", "set"} /\ Flagged' => Flagged \/ fill[g].pend
           /\ fill'[f].at \in {"clear", "set"} /\ Flagged' => fill'[f].pend
  PROVE  CancelInv'
<1>1. Calm' => Calm
  BY DEF Calm
<1>2. ASSUME Calm', NEW g \in owed' PROVE Stops(g)'
  <2>1. Stops(g)
    BY <1>1, <1>2 DEF CancelInv, Calm
  <2>2. CASE g = f
    BY <1>1, <1>2, <2>1, <2>2
  <2>3. CASE g # f
    <3>1. fill'[g] = fill[g]
      BY <1>2, <2>3
    <3>2. WillPoll(g)' <=> WillPoll(g)
      BY <3>1 DEF WillPoll
    <3>3. WillPoll(g) => Waiting'
      BY <1>2, <3>2 DEF Waiting
    <3>4. WillPoll(g) /\ Standing => Standing'
      BY <1>1, <1>2, <3>3
    <3> QED
      BY <2>1, <3>1, <3>2, <3>4 DEF Stops
  <2> QED
    BY <2>2, <2>3
<1>3. Calm' /\ Waiting' => Waiting
  <2> SUFFICES ASSUME Calm', NEW g \in owed', WillPoll(g)' PROVE WillPoll(g)
    BY DEF Waiting
  <2>1. Stops(g)
    BY <1>1 DEF CancelInv, Calm
  <2>2. g # f => (WillPoll(g)' <=> WillPoll(g))
    BY DEF WillPoll
  <2> QED
    BY <2>1, <2>2
<1>4. ASSUME Calm', Waiting', NEW g \in Fills, fill'[g].at \in {"clear", "set"}, Flagged'
      PROVE  fill'[g].pend
  BY <1>1, <1>3, <1>4 DEF CancelInv, Calm
<1> QED
  BY <1>2, <1>4 DEF CancelInv, Calm

\* A step that leaves the hash and the promises alone and is no part of begin().
LEMMA HashCarry ==
  ASSUME CancelInv, NEW f \in Fills, \A g \in Fills \ {f} : fill'[g] = fill[g],
         UNCHANGED <<kg, owed>>, owed \subseteq Fills, mishap \subseteq mishap',
         fill[f].at # "set", fill'[f].at \notin {"clear", "set"},
         Stops(f) /\ WillPoll(f)' => WillPoll(f),
         Calm /\ Calm' /\ Stops(f) /\ (Standing => Standing') => Stops(f)'
  PROVE  CancelInv'
<1>1. Standing => Standing'
  BY DEF Standing, Flagged
<1>2. Flagged' <=> Flagged
  BY DEF Flagged
<1> QED
  BY <1>1, <1>2, CancelCarry

LEMMA FillStepCancel ==
  ASSUME RedisShape, FillShape, LockInv, CancelInv, NEW f \in Fills, FillStep(f)
  PROVE  CancelInv'
<1> USE FeedAssumption
<1>1. /\ \A g \in Fills \ {f} : fill'[g] = fill[g]
      /\ owed \subseteq Fills
  BY FillStepShape DEF RedisShape
<1>2. fill[f] \in AFill /\ fill \in [Fills -> AFill] /\ FillOK(fill[f])
  BY DEF FillShape
<1>3. /\ fill[f].at \in {"none", "mark", "markset"} => ~Stops(f)
      /\ Calm /\ fill[f].at \in Owning => \A g \in Fills \ {f} : fill[g].at \notin {"clear", "set"}
  BY OneOwner, StagesApart DEF Stops, WillPoll
<1>4. ASSUME Click(f) PROVE CancelInv'
  <2>1. fill[f].at = "none" /\ fill'[f].at = "mark"
    BY <1>2, <1>4 DEF Click, Move, AFill
  <2>2. UNCHANGED <<kg, owed>> /\ mishap \subseteq mishap'
    BY <1>4 DEF Click, redisVars, NoSlip, Slip
  <2> QED
    BY <1>1, <1>3, <2>1, <2>2, HashCarry
<1>5. CASE MarkDel(f) \/ MarkSet(f)
  <2>1. fill[f].at \in {"mark", "markset"} /\ fill'[f].at \in {"markset", "send"}
    <3>1. CASE MarkDel(f)
      BY <1>2, <3>1 DEF MarkDel, Move, AFill
    <3>2. CASE MarkSet(f)
      BY <1>2, <3>2 DEF MarkSet, Move, AFill
    <3> QED
      BY <1>5, <3>1, <3>2
  <2>2. /\ mishap \subseteq mishap' /\ owed' \subseteq owed
        /\ Calm' => ~Flagged'
        /\ Calm' /\ Flagged => Forgive
    BY <1>5 DEF MarkDel, MarkSet, Forgive, NoSlip, Slip, Calm, Flagged, Hset, NoHash
  <2>3. Calm' /\ Flagged => ~Waiting'
    <3> SUFFICES ASSUME Calm', Flagged, NEW g \in owed', WillPoll(g)' PROVE FALSE
      BY DEF Waiting
    <3>1. g \in Fills /\ ~WillPoll(g)
      BY <1>1, <2>2 DEF Forgive
    <3>2. g # f => (WillPoll(g)' <=> WillPoll(g))
      BY <1>1, <3>1 DEF WillPoll
    <3>3. Calm => Stops(g)
      BY <2>2 DEF CancelInv, Calm
    <3> QED
      BY <1>3, <2>1, <2>2, <3>1, <3>2, <3>3 DEF Calm
  <2>4. Calm' /\ Waiting' /\ Standing => Standing'
    BY <1>1, <2>1, <2>3 DEF Standing
  <2> QED
    BY <1>1, <1>3, <2>1, <2>2, <2>4, CancelCarry
<1>6. CASE Send(f) \/ Acquire(f)
  <2>1. fill[f].at \in {"send", "sent"} /\ fill'[f].at \in {"sent", "open", "end"} /\ fill'[f].final = fill[f].final
    <3>1. CASE Send(f)
      BY <1>2, <3>1 DEF Send, Move, AFill
    <3>2. CASE Acquire(f)
      BY <1>2, <3>2 DEF Acquire, Move, AFill
    <3> QED
      BY <1>6, <3>1, <3>2
  <2>2. UNCHANGED <<kg, owed>> /\ mishap \subseteq mishap'
    BY <1>6 DEF Send, Acquire, redisVars, NoSlip, Slip
  <2>3. fill[f].final = "none"
    BY <1>2, <2>1 DEF FillOK, Opening
  <2>4. Stops(f) /\ (Standing => Standing') => Stops(f)'
    BY <2>1, <2>3 DEF Stops, WillPoll
  <2>5. WillPoll(f)
    BY <2>1 DEF WillPoll
  <2> QED
    BY <1>1, <2>1, <2>2, <2>4, <2>5, HashCarry
<1>7. CASE OpenFill(f) \/ CloseFill(f)
  <2>1. /\ fill[f].at \in {"open", "close"} /\ fill'[f].final = fill[f].final
        /\ fill'[f].at \in (IF fill[f].at = "open" THEN {"key", "fail"} ELSE {"finish", "fail"})
    <3>1. CASE OpenFill(f)
      BY <1>2, <3>1 DEF OpenFill, Move, AFill
    <3>2. CASE CloseFill(f)
      BY <1>2, <3>2 DEF CloseFill, Move, AFill
    <3> QED
      BY <1>7, <3>1, <3>2
  <2>2. UNCHANGED <<kg, owed>> /\ mishap \subseteq mishap'
    BY <1>7 DEF OpenFill, CloseFill, redisVars, NoSlip
  <2>3. Stops(f) /\ (Standing => Standing') => Stops(f)'
    BY <2>1 DEF Stops, WillPoll
  <2>4. WillPoll(f)' => WillPoll(f)
    BY <2>1 DEF WillPoll
  <2> QED
    BY <1>1, <2>1, <2>2, <2>3, <2>4, HashCarry
<1>8. CASE BeginGet(f)
  <2>1. /\ fill[f].at = "key" /\ fill'[f].at \in {"clear", "poll"} /\ UNCHANGED <<kg, owed>> /\ mishap \subseteq mishap'
        /\ fill'[f].at = "poll" => ~Calm'
        /\ fill'[f].at = "clear" => fill'[f].pend = Flagged
    <3>1. CASE fill' = [fill EXCEPT ![f].at = "clear", ![f].pend = kg.there /\ kg.cancel] /\ NoSlip
      <4> DEFINE p == kg.there /\ kg.cancel
      <4> HIDE DEF p
      <4>1. fill' = [fill EXCEPT ![f].at = "clear", ![f].pend = p]
        BY <3>1 DEF p
      <4>2. fill'[f].at = "clear" /\ fill'[f].pend = p
        BY <1>2, <4>1 DEF AFill
      <4> QED
        BY <1>8, <3>1, <4>2 DEF BeginGet, redisVars, NoSlip, Flagged, p
    <3>2. CASE Move(f, "poll") /\ Slip("redis")
      <4>1. fill'[f].at = "poll"
        BY <1>2, <3>2 DEF Move, AFill
      <4> QED
        BY <1>8, <3>2, <4>1 DEF BeginGet, redisVars, Slip, Calm
    <3> QED
      BY <1>8, <3>1, <3>2 DEF BeginGet
  <2>2. Standing => Standing'
    BY <1>1, <2>1 DEF Standing, Flagged
  <2>3. (Flagged' <=> Flagged) /\ WillPoll(f)
    BY <2>1 DEF Flagged, WillPoll
  <2>4. Calm' /\ Stops(f) => Stops(f)'
    BY <2>1, <2>2 DEF Stops, WillPoll
  <2> QED
    BY <1>1, <2>1, <2>2, <2>3, <2>4, CancelCarry
<1>9. CASE BeginDel(f)
  <2>1. CASE kg' = NoHash /\ Move(f, "set") /\ NoSlip
    <3>1. /\ fill[f].at = "clear" /\ fill'[f].at = "set" /\ fill'[f].pend = fill[f].pend
          /\ ~Flagged' /\ UNCHANGED <<owed, mishap>>
      BY <1>2, <1>9, <2>1 DEF BeginDel, Move, AFill, NoHash, Flagged, NoSlip
    <3>2. WillPoll(f) /\ WillPoll(f)'
      BY <3>1 DEF WillPoll
    <3>3. Waiting' => Waiting
      BY <1>1, <3>1, <3>2 DEF Waiting, WillPoll
    <3>4. Calm /\ Waiting' /\ Standing => Standing'
      BY <1>1, <3>1, <3>3 DEF Standing, CancelInv, Calm
    <3>5. f \in owed => Waiting'
      BY <3>1, <3>2 DEF Waiting
    <3>6. Calm /\ f \in owed /\ Stops(f) => Stops(f)'
      BY <3>1, <3>2, <3>4, <3>5 DEF Stops
    <3> QED
      BY <1>1, <3>1, <3>2, <3>4, <3>6, CancelCarry
  <2>2. CASE Slip("redis")
    BY <2>2 DEF Slip, CancelInv
  <2> QED
    BY <1>9, <2>1, <2>2 DEF BeginDel
<1>10. CASE BeginSet(f)
  <2>1. CASE Hset("running", fill[f].pend) /\ NoSlip
    <3>1. /\ fill[f].at = "set" /\ fill'[f].at = "poll" /\ fill'[f].win = 0
          /\ UNCHANGED <<owed, mishap>>
      BY <1>2, <1>10, <2>1 DEF BeginSet, Move, AFill, NoSlip, FillOK, Opening
    <3>2. Flagged' <=> fill[f].pend
      BY <2>1 DEF Hset, Flagged
    <3>3. Calm => \A g \in Fills \ {f} : fill[g].at \notin {"clear", "set"}
      BY <1>3, <3>1, StagesApart
    <3>4. WillPoll(f) /\ WillPoll(f)'
      BY <3>1 DEF WillPoll
    <3>5. Waiting' => Waiting
      BY <1>1, <3>1, <3>4 DEF Waiting, WillPoll
    <3>6. Calm /\ Waiting' /\ Standing => Standing'
      <4>1. Calm /\ Waiting' /\ Flagged => fill[f].pend
        BY <3>1, <3>5 DEF CancelInv, Calm
      <4>2. Calm /\ Standing => Flagged \/ fill[f].pend
        BY <3>3 DEF Standing
      <4> QED
        BY <3>2, <4>1, <4>2 DEF Standing
    <3>7. f \in owed => Waiting'
      BY <3>1, <3>4 DEF Waiting
    <3>8. Calm /\ f \in owed /\ Stops(f) => Stops(f)'
      BY <3>1, <3>4, <3>6, <3>7 DEF Stops
    <3> QED
      BY <1>1, <3>1, <3>3, <3>4, <3>6, <3>8, CancelCarry
  <2>2. CASE Slip("redis")
    BY <2>2 DEF Slip, CancelInv
  <2> QED
    BY <1>10, <2>1, <2>2 DEF BeginSet
<1>11. CASE Poll(f)
  <2>1. /\ fill[f].at = "poll" /\ fill'[f].at \in {"close", "fetch"} /\ UNCHANGED <<kg, owed>>
        /\ mishap \subseteq mishap'
    BY <1>2, <1>11 DEF Poll, Move, AFill, redisVars, NoSlip, Slip
  <2>4. Calm => (Standing <=> Flagged)
    BY <1>3, <2>1 DEF Standing, Owning, Walking
  <2>2. WillPoll(f)' => WillPoll(f)
    BY <1>2, <2>1, <1>11 DEF Poll, Move, WillPoll, AFill
  <2>5. Calm /\ Calm' /\ Stops(f) => Stops(f)'
    <3>1. CASE fill[f].win = Windows
      BY <2>1, <3>1 DEF Stops, WillPoll
    <3>2. CASE ~Flagged /\ Calm
      BY <2>1, <2>4, <3>2 DEF Stops, WillPoll
    <3>3. CASE fill' = [fill EXCEPT ![f].at = "close", ![f].final = "cancelled"]
      <4>1. fill'[f].at = "close" /\ fill'[f].final = "cancelled"
        BY <1>2, <3>3 DEF AFill
      <4> QED
        BY <4>1 DEF Stops
    <3>4. CASE Slip("redis")
      BY <3>4 DEF Slip, Calm
    <3> QED
      BY <1>11, <3>1, <3>2, <3>3, <3>4 DEF Poll, Flagged
  <2> QED
    BY <1>1, <2>1, <2>2, <2>5, HashCarry
<1>12. CASE Note(f)
  <2>1. CASE Hset(kg.status, kg.cancel) /\ NoSlip
    <3>1. /\ fill[f].at = "note" /\ fill'[f].at = "poll" /\ fill'[f].win = fill[f].win + 1
          /\ UNCHANGED <<owed, mishap>> /\ fill[f].win \in 0..Windows
      BY <1>2, <1>12, <2>1 DEF Note, AFill, NoSlip
    <3>2. Flagged => Flagged'
      BY <2>1 DEF Hset, Flagged
    <3>3. Standing => Standing'
      BY <1>1, <3>1, <3>2 DEF Standing
    <3>4. Stops(f) => Stops(f)'
      BY <3>1, <3>3 DEF Stops, WillPoll
    <3>5. Calm => \A g \in Fills \ {f} : fill[g].at \notin {"clear", "set"}
      BY <1>3, <3>1, StagesApart
    <3>6. WillPoll(f)' => WillPoll(f)
      BY <3>1 DEF WillPoll
    <3> QED
      BY <1>1, <3>1, <3>3, <3>4, <3>5, <3>6, CancelCarry
  <2>2. CASE Slip("redis")
    BY <2>2 DEF Slip, CancelInv
  <2> QED
    BY <1>12, <2>1, <2>2 DEF Note
<1>13. CASE Finish(f)
  <2>1. CASE Slip("redis")
    BY <2>1 DEF Slip, CancelInv
  <2>2. CASE ~Slip("redis")
    <3>1. PICK status : /\ Hset(status, kg.cancel) /\ NoSlip
                        /\ fill' = [fill EXCEPT ![f].at = "release", ![f].final = status]
                        /\ status = IF fill[f].at = "fail" THEN "error" ELSE fill[f].final
      BY <1>13, <2>2 DEF Finish
    <3>2. /\ fill[f].at \in {"finish", "fail"} /\ fill'[f].at = "release" /\ fill'[f].final = status
          /\ UNCHANGED <<owed, mishap>>
      BY <1>2, <1>13, <3>1 DEF Finish, AFill, NoSlip
    <3>3. Flagged => Flagged'
      BY <3>1 DEF Hset, Flagged
    <3>4. Standing => Standing'
      BY <1>1, <3>2, <3>3 DEF Standing
    <3>5. Stops(f) => Stops(f)'
      BY <3>1, <3>2 DEF Stops, WillPoll
    <3>6. Calm => \A g \in Fills \ {f} : fill[g].at \notin {"clear", "set"}
      BY <1>3, <3>2, StagesApart
    <3>7. ~WillPoll(f)'
      BY <3>2 DEF WillPoll
    <3> QED
      BY <1>1, <3>2, <3>4, <3>5, <3>6, <3>7, CancelCarry
  <2> QED
    BY <2>1, <2>2
<1>14. CASE Release(f)
  <2>1. /\ fill[f].at = "release" /\ fill'[f].at = "end" /\ fill'[f].final = fill[f].final
        /\ UNCHANGED <<kg, owed>> /\ mishap \subseteq mishap'
    BY <1>2, <1>14 DEF Release, Move, AFill, NoSlip, Slip
  <2>2. Stops(f) => Stops(f)'
    BY <2>1 DEF Stops, WillPoll
  <2>3. ~WillPoll(f)'
    BY <2>1 DEF WillPoll
  <2> QED
    BY <1>1, <2>1, <2>2, <2>3, HashCarry
<1> QED
  BY <1>4, <1>5, <1>6, <1>7, <1>8, <1>9, <1>10, <1>11, <1>12, <1>13, <1>14 DEF FillStep

LEMMA OtherCancel ==
  ASSUME RedisShape, FillShape, LockInv, CancelInv,
         (\E f \in Fills : Crash(f)) \/ CancelAsk \/ CancelSet \/ LockExpires \/ HashExpires
  PROVE  CancelInv'
<1>1. ASSUME NEW f \in Fills, Crash(f) PROVE CancelInv'
  <2>1. (\A g \in Fills \ {f} : fill'[g] = fill[g]) /\ owed \subseteq Fills
    BY <1>1, CrashShape DEF RedisShape
  <2>2. /\ fill'[f].at = "end" /\ fill'[f].final = "killed" /\ UNCHANGED kg /\ mishap \subseteq mishap'
        /\ owed' \subseteq owed /\ (fill[f].at = "set" => Forgive)
    BY <1>1 DEF Crash, Forgive, Slip, FillShape, AFill
  <2>3. ~WillPoll(f)' /\ Stops(f)'
    BY <2>2 DEF WillPoll, Stops
  <2>4. fill[f].at = "set" => ~Waiting'
    <3> SUFFICES ASSUME fill[f].at = "set", NEW g \in owed', WillPoll(g)' PROVE FALSE
      BY DEF Waiting
    <3>1. g \in Fills \ {f} /\ ~WillPoll(g)
      BY <2>1, <2>2, <2>3 DEF Forgive
    <3> QED
      BY <2>1, <3>1 DEF WillPoll
  <2>5. (Flagged' <=> Flagged) /\ (Waiting' /\ Standing => Standing')
    BY <2>1, <2>2, <2>4 DEF Standing, Flagged
  <2> QED
    BY <2>1, <2>2, <2>3, <2>5, CancelCarry
<1>2. CASE CancelAsk \/ LockExpires
  <2>1. UNCHANGED <<kg, owed, fill>> /\ mishap \subseteq mishap'
    BY <1>2 DEF CancelAsk, LockExpires, NoSlip, Slip
  <2>2. (\A f \in Fills : WillPoll(f)' <=> WillPoll(f)) /\ (Standing' <=> Standing) /\ (Flagged' <=> Flagged)
    BY <2>1 DEF WillPoll, Standing, Flagged
  <2> QED
    BY <2>1, <2>2 DEF CancelInv, Waiting, Stops, RedisShape
<1>3. CASE CancelSet
  <2>1. CASE Slip("redis")
    BY <2>1 DEF Slip, CancelInv
  <2>2. CASE ~Slip("redis")
    <3>1. /\ UNCHANGED <<fill, mishap>> /\ Flagged'
          /\ owed' = IF \E f \in Fills : fill[f].at \in {"clear", "set"} THEN owed
                     ELSE owed \cup {f \in Fills : WillPoll(f)}
      BY <1>3, <2>2 DEF CancelSet, Hset, Flagged, NoSlip
    <3>2. \A f \in Fills : WillPoll(f)' <=> WillPoll(f)
      BY <3>1 DEF WillPoll
    <3>3. Standing'
      BY <3>1 DEF Standing
    <3>4. Calm => \A f \in owed' : Stops(f)'
      BY <3>1, <3>2, <3>3 DEF CancelInv, Calm, Stops, RedisShape
    <3>5. CASE \E f \in Fills : fill[f].at \in {"clear", "set"}
      <4>1. UNCHANGED owed /\ (Waiting' => Waiting)
        BY <3>1, <3>2, <3>5 DEF Waiting, RedisShape
      <4>2. Calm /\ Waiting => \A g \in Fills : fill[g].at \in {"clear", "set"} => fill[g].pend
        <5> SUFFICES ASSUME Calm, NEW h \in owed, WillPoll(h), NEW g \in Fills,
                            fill[g].at \in {"clear", "set"}
                     PROVE  fill[g].pend
          BY DEF Waiting
        <5>1. Standing
          BY DEF CancelInv, Calm, Stops, WillPoll
        <5>2. CASE Flagged
          BY <5>2 DEF CancelInv, Calm, Waiting
        <5>3. CASE ~Flagged
          BY <5>1, <5>3, OneOwner, StagesApart DEF Standing
        <5> QED
          BY <5>2, <5>3
      <4> QED
        BY <3>1, <3>4, <4>1, <4>2 DEF CancelInv, Calm
    <3>6. CASE ~\E f \in Fills : fill[f].at \in {"clear", "set"}
      BY <3>1, <3>4, <3>6 DEF CancelInv, Calm
    <3> QED
      BY <3>5, <3>6
  <2> QED
    BY <2>1, <2>2
<1>4. CASE HashExpires
  BY <1>4 DEF HashExpires, Slip, CancelInv
<1> QED
  BY <1>1, <1>2, <1>3, <1>4

LEMMA WriteCancel ==
  ASSUME RedisShape, FillShape, CancelInv, NEW f \in Fills, WriteEffect(f)
  PROVE  CancelInv'
<1>1. /\ UNCHANGED <<kg, owed, mishap>> /\ (\A g \in Fills \ {f} : fill'[g] = fill[g]) /\ owed \subseteq Fills
      /\ fill[f].at \in Fetching /\ fill'[f].at \in Fetching \cup {"fail"}
      /\ fill'[f].at \in Fetching => fill'[f].win = fill[f].win
  BY DEF WriteEffect, redisVars, RedisShape
<1>2. Standing => Standing'
  BY <1>1 DEF Standing, Flagged, Fetching, Writing
<1>3. WillPoll(f)' => WillPoll(f)
  BY <1>1 DEF WillPoll, Fetching, Writing
<1>4. Stops(f) => Stops(f)'
  BY <1>1, <1>2 DEF Stops, WillPoll, Fetching, Writing
<1>5. fill[f].at # "set" /\ fill'[f].at \notin {"clear", "set"}
  BY <1>1 DEF Fetching, Writing
<1> QED
  BY <1>1, <1>3, <1>4, <1>5, HashCarry

----------------------------------------------------------------------------
(* The feeds: backfills *)

RunsInv == StoreInv /\ LockInv /\ CancelInv

LEMMA RunsStep == RunsInv /\ [FeedsNext]_feedVars => RunsInv'
<1> SUFFICES ASSUME RunsInv, [FeedsNext]_feedVars PROVE LockInv' /\ CancelInv'
  BY StoreStep DEF RunsInv
<1> USE DEF RunsInv, StoreInv
<1>1. ASSUME NEW f \in Fills, FillStep(f) PROVE LockInv' /\ CancelInv'
  BY <1>1, FillStepLock, FillStepCancel
<1>2. ASSUME NEW f \in Fills, Crash(f) PROVE LockInv' /\ CancelInv'
  BY <1>2, CrashLock, OtherCancel
<1>3. ASSUME NEW f \in Fills, WriteStep(f) PROVE LockInv' /\ CancelInv'
  BY <1>3, WriteStepShape, WriteLock, WriteCancel
<1>4. CASE CancelAsk \/ CancelSet \/ LockExpires \/ HashExpires
  BY <1>4, OutsideLock, OtherCancel
<1>5. ASSUME UNCHANGED <<redisVars, fill, mishap>> PROVE LockInv' /\ CancelInv'
  <2>1. UNCHANGED <<kg, lock, owed, fill, mishap>>
    BY <1>5 DEF redisVars
  <2>2. (IsActive' <=> IsActive) /\ (Standing' <=> Standing) /\ (Flagged' <=> Flagged)
    BY <2>1 DEF IsActive, Standing, Flagged
  <2>3. \A f \in Fills : WillPoll(f)' <=> WillPoll(f)
    BY <2>1 DEF WillPoll
  <2> QED
    BY <2>1, <2>2, <2>3 DEF LockInv, CancelInv, Waiting, Stops, RedisShape
<1>6. CASE DailyStep
  BY <1>5, <1>6, DailyKeepsShape
<1>7. CASE EpssStep
  BY <1>5, <1>7, EpssKeeps
<1>8. CASE \E c \in Cves : Edit(c) \/ Reject(c) \/ Age(c)
  BY <1>5, <1>8, NvdKeeps
<1>9. CASE LookupStep
  BY <1>5, <1>9, LookupKeeps
<1>10. CASE UNCHANGED feedVars
  BY <1>5, <1>10 DEF feedVars, redisVars
<1> QED
  BY <1>1, <1>2, <1>3, <1>4, <1>6, <1>7, <1>8, <1>9, <1>10 DEF FeedsNext

LEMMA RunsStart == FeedsInit => RunsInv
<1> SUFFICES ASSUME FeedsInit PROVE LockInv /\ CancelInv
  BY StoreStart DEF RunsInv
<1>1. \A f \in Fills : fill[f].at = "none"
  BY DEF FeedsInit, NewFill
<1>2. ~IsActive
  BY DEF FeedsInit, IsActive, NoHash
<1>3. LockInv
  BY <1>1, <1>2, StagesApart DEF FeedsInit, LockInv
<1>4. CancelInv
  BY <1>1 DEF FeedsInit, CancelInv, Waiting
<1> QED
  BY <1>3, <1>4

\* The lock, the hash and the cancel of backfills, as LockInv and CancelInv state them, in every
\* state, for any number of backfills and windows.
THEOREM RunsInvariant == FeedsSpec => []RunsInv
BY RunsStart, RunsStep, PTL DEF FeedsSpec

\* CancelHonoured: a backfill that was still to poll when a cancel was accepted does not run to
\* "done", for any number of backfills and windows, unless Redis failed, a key expired, or that
\* cancel was wiped by a later click, fell into begin(), or died with it (core/cve_backfill.py).
THEOREM CancelIsHonoured == FeedsSpec => []CancelHonoured
<1>1. RunsInv => CancelHonoured
  BY DEF RunsInv, CancelInv, Stops, CancelHonoured, WillPoll
<1> QED
  BY <1>1, RunsInvariant, PTL

\* OneBackfill: two runs at once need a failing Redis or a lapsed lock.
LEMMA OneAtATime == RunsInv => OneBackfill
<1> SUFFICES ASSUME RunsInv, mishap \cap {"redis", "lapse"} = {}
             PROVE  ~(Cardinality({f \in Fills : fill[f].at \in Walking}) > 1)
  BY DEF OneBackfill
<1> DEFINE W == {f \in Fills : fill[f].at \in Walking}
<1>1. \A f, g \in W : f = g
  BY DEF RunsInv, LockInv, Owning
<1>2. CASE W = {}
  BY <1>2, FS_EmptySet
<1>3. ASSUME NEW f \in W PROVE Cardinality(W) = 1
  <2>1. W = {f}
    BY <1>1, <1>3
  <2> HIDE DEF W
  <2> QED
    BY <2>1, FS_Singleton
<1> QED
  BY <1>2, <1>3

\* BackfillInv: backfills exclude each other, and a busy hash with nothing on its way has its cause.
THEOREM BackfillsExclude == FeedsSpec => []BackfillInv
<1>1. RunsInv => FeedsTypeOK
  BY ShapesType DEF RunsInv, StoreInv
<1>2. RunsInv => BusyNeedsCause
  BY DEF RunsInv, LockInv, BusyNeedsCause, Speaking
<1> QED
  BY <1>1, <1>2, OneAtATime, RunsInvariant, PTL DEF BackfillInv

\* FeedsInv of the three components side by side, for any number of backfills, windows, CVEs,
\* update clicks and settings writers, and any forms that are proper.
THEOREM FeedsInvariant == JobsSpec => []FeedsInv
<1>1. UpdateInv => UpdateTypeOK
  BY DEF UpdateInv
<1>2. SettingsInv => SettingsTypeOK /\ CacheTrue
  BY DEF SettingsInv, Copied, CacheTrue
<1> QED
  BY <1>1, <1>2, BackfillsExclude, UpdateInvariant, SettingsInvariant, PTL DEF JobsSpec, FeedsInv

----------------------------------------------------------------------------
(* Induction *)

\* A set of naturals has a least element.
LEMMA Least ==
  ASSUME NEW T, T \subseteq Nat, T # {}
  PROVE  \E x \in T : \A y \in T : x <= y
<1> DEFINE below == {ss \in Nat \X Nat : ss[1] < ss[2]}
<1>1. IsWellFoundedOn(below, Nat)
  BY NatLessThanWellFounded DEF OpToRel
<1>2. PICK x \in T : \A y \in T : <<y, x>> \notin below
  <2> HIDE DEF below
  <2> QED
    BY <1>1, WFMin, Zenon
<1>3. \A y \in T : ~(y < x)
  BY <1>2
<1> QED
  BY <1>3

\* Induction over the naturals.
LEMMA Induction ==
  ASSUME NEW T, 0 \in T, \A n \in Nat : n \in T => n + 1 \in T
  PROVE  \A n \in Nat : n \in T
<1> SUFFICES ASSUME Nat \ T # {} PROVE FALSE
  OBVIOUS
<1>1. PICK x \in Nat \ T : \A y \in Nat \ T : x <= y
  BY Least
<1>2. x # 0 /\ x - 1 \in Nat
  BY <1>1
<1>3. x - 1 \in T
  BY <1>1, <1>2
<1> QED
  BY <1>1, <1>2, <1>3

----------------------------------------------------------------------------
(* Risk *)

\* The score as a sum of what speaks for a CVE.
Summed(base, likely, kev, bonus) ==
  LET sum == base + (IF likely = -1 THEN 0 ELSE 2 * likely) + (IF kev THEN 300 ELSE 0) + bonus
      kept == IF kev /\ sum < 700 THEN 700 ELSE sum
  IN IF kept < 1000 THEN kept ELSE 1000

\* What a public or an armed exploit adds.
Bonus(level) == IF level = 0 THEN 0 ELSE IF level = 1 THEN 50 ELSE 150

\* The score of a CVE by itself.
BaseOf(cvss, severity) == IF cvss # NoScore THEN cvss ELSE SeverityBase[severity]

\* A CVE's own score lies within 0 and 10.
LEMMA BaseRange ==
  ASSUME NEW cvss \in Scores, NEW severity \in Severities
  PROVE  BaseOf(cvss, severity) \in 0..1000
BY DEF BaseOf, SeverityBase, NoScore, Scores, Severities

\* compute_priority is that sum, whatever speaks for the CVE.
IsSum(kev) ==
  \A cvss \in Scores, likely \in Chances, level \in Levels,
     severity \in Severities :
       Priority(cvss, likely, kev, level, severity) =
         Summed(BaseOf(cvss, severity), likely, kev, Bonus(level))

\* It is, for CVEs known to be exploited and for all others.
LEMMA PriorityIsSum == \A kev \in BOOLEAN : IsSum(kev)
<1> SUFFICES ASSUME NEW kev \in BOOLEAN, NEW cvss \in Scores,
                    NEW likely \in Chances, NEW level \in Levels,
                    NEW severity \in Severities
             PROVE  Priority(cvss, likely, kev, level, severity) =
                      Summed(BaseOf(cvss, severity), likely, kev, Bonus(level))
  BY DEF IsSum
<1> DEFINE base == BaseOf(cvss, severity)
<1>1. base \in 0..1000
  BY BaseRange
<1>2. ExploitBonus[1] = 50 /\ ExploitBonus[2] = 150
  BY DEF ExploitBonus
<1> DEFINE chance == IF likely = NoScore THEN base ELSE base + 2 * likely
           known == IF kev THEN chance + 300 ELSE chance
           armed == IF level = 0 THEN known ELSE known + ExploitBonus[level]
           sum == base + (IF likely = -1 THEN 0 ELSE 2 * likely) + (IF kev THEN 300 ELSE 0) + Bonus(level)
<1> DEFINE raised == IF kev THEN AtLeast(armed, 700) ELSE armed
           value == IF (IF kev /\ sum < 700 THEN 700 ELSE sum) < 1000
                    THEN IF kev /\ sum < 700 THEN 700 ELSE sum ELSE 1000
<1>3. Priority(cvss, likely, kev, level, severity) = AtMost(raised, 1000)
  BY DEF Priority, BaseOf
<1>4. chance = base + (IF likely = -1 THEN 0 ELSE 2 * likely) /\ chance \in Int
  BY <1>1 DEF NoScore, Chances
<1>5. known = chance + (IF kev THEN 300 ELSE 0) /\ known \in Int
  BY <1>4
<1>6. armed = known + Bonus(level) /\ armed \in Int
  BY <1>5, <1>2 DEF Bonus, Levels
<1> HIDE DEF base
<1>7. armed = sum
  BY <1>4, <1>5, <1>6, <1>1 DEF Bonus, NoScore, Levels, Chances
<1>8. Summed(base, likely, kev, Bonus(level)) = value
  BY DEF Summed
<1> HIDE DEF armed, sum
<1>9. AtMost(raised, 1000) = value
  BY <1>6, <1>7 DEF AtMost, AtLeast
<1> HIDE DEF raised, value
<1>10. Priority(cvss, likely, kev, level, severity) = Summed(base, likely, kev, Bonus(level))
  BY <1>3, <1>8, <1>9
<1> QED
  BY <1>10 DEF base

\* For every score, probability, severity and exploit: no evidence lowers the
\* risk of a CVE, and known exploitation raises it to 7 at least.
THEOREM RiskIsMonotone ==
  ASSUME NEW cvss \in Scores, NEW likely \in Chances, NEW kev \in BOOLEAN, NEW level \in Levels,
         NEW severity \in Severities
  PROVE  RiskGrows(cvss, likely, kev, level, severity)
<1> DEFINE base == BaseOf(cvss, severity)
           score == Summed(base, likely, kev, Bonus(level))
<1>1. base \in 0..1000
  BY BaseRange
<1>2. IsSum(kev) /\ IsSum(TRUE)
  <2>1. TRUE \in BOOLEAN
    OBVIOUS
  <2> QED
    BY <2>1, PriorityIsSum, Zenon
<1>3. /\ Priority(cvss, likely, kev, level, severity) = score
      /\ Priority(cvss, likely, TRUE, level, severity) = Summed(base, likely, TRUE, Bonus(level))
  BY <1>2 DEF IsSum
<1>4. Priority(cvss, 100, kev, level, severity) = Summed(base, 100, kev, Bonus(level))
  <2>1. 100 \in Chances
    BY DEF Chances
  <2> QED
    BY <2>1, <1>2 DEF IsSum
<1>5. ASSUME NEW more \in level..2
      PROVE  /\ Priority(cvss, likely, kev, more, severity) = Summed(base, likely, kev, Bonus(more))
             /\ score <= Summed(base, likely, kev, Bonus(more))
  <2>1. more \in Levels
    BY DEF Levels
  <2>2. Priority(cvss, likely, kev, more, severity) = Summed(base, likely, kev, Bonus(more))
    BY <2>1, <1>2 DEF IsSum
  <2> HIDE DEF base
  <2> QED
    BY <1>1, <2>1, <2>2 DEF Summed, Bonus, NoScore, Levels, Chances
<1> HIDE DEF base
<1>6. /\ score \in 0..1000 /\ (kev => score >= 700)
      /\ score <= Summed(base, 100, kev, Bonus(level))
      /\ score <= Summed(base, likely, TRUE, Bonus(level))
  BY <1>1 DEF Summed, Bonus, NoScore, Levels, Chances
<1> HIDE DEF score
<1> DEFINE now == Priority(cvss, likely, kev, level, severity)
<1>7. now \in 0..1000 /\ (kev => now >= 700)
  BY <1>3, <1>6
<1>8. now <= Priority(cvss, 100, kev, level, severity)
  BY <1>3, <1>4, <1>6
<1>9. now <= Priority(cvss, likely, TRUE, level, severity)
  BY <1>3, <1>6
<1>10. \A more \in level..2 : now <= Priority(cvss, likely, kev, more, severity)
  BY <1>3, <1>5
<1> QED
  BY <1>7, <1>8, <1>9, <1>10, Zenon DEF RiskGrows

----------------------------------------------------------------------------
(* Windows and pages *)

\* For any number of days the windows of a fetch follow one upon the other from
\* the first day to the last, none longer than NVD takes.
THEOREM WindowsTile ==
  ASSUME NEW days \in Nat \ {0}
  PROVE  Tiled(days)
<1> DEFINE n == WindowCount(days)
           w == DateWindows(days)
<1>1. n \in Nat \ {0} /\ (n - 1) * 120 < days /\ days <= n * 120
  BY DEF WindowCount, Span, AtLeast
<1> HIDE DEF n
<1>2. /\ w = [i \in 1..n |-> [from |-> (i - 1) * 120, to |-> AtMost(i * 120, days)]]
  BY DEF DateWindows, n, Span
<1>3. DOMAIN w = 1..n /\ \A i \in 1..n : w[i].from = (i - 1) * 120 /\ w[i].to = AtMost(i * 120, days)
  BY <1>2
<1>4. Len(w) = n
  BY <1>1, <1>2
<1>5. w[n].to = days /\ w[1].from = 0
  BY <1>1, <1>3 DEF AtMost
<1>6. BackfillWindows(days)[1] = w[n]
  BY <1>1, <1>4 DEF BackfillWindows, Reverse
<1> HIDE DEF w
<1>7. ASSUME NEW i \in 1..n
      PROVE  /\ w[i].to - w[i].from \in 1..120
             /\ i > 1 => w[i].from = w[i - 1].to
  <2>1. (i - 1) * 120 < days /\ (i < n => i * 120 < days) /\ i \in Nat
    BY <1>1
  <2>2. w[i].from = (i - 1) * 120 /\ w[i].to = IF i * 120 < days THEN i * 120 ELSE days
    BY <1>3 DEF AtMost
  <2>3. w[i].to - w[i].from \in 1..120
    <3>1. i * 120 - (i - 1) * 120 = 120 /\ i * 120 \in Int /\ (i - 1) * 120 \in Int
      BY <2>1
    <3> HIDE DEF n
    <3>2. CASE i * 120 < days
      BY <2>2, <3>1, <3>2
    <3>3. CASE ~ (i * 120 < days)
      <4>1. w[i].to = days /\ days <= i * 120
        BY <2>2, <3>1, <3>3
      <4> QED
        BY <2>1, <2>2, <3>1, <4>1
    <3> QED
      BY <3>2, <3>3
  <2>4. ASSUME i > 1 PROVE w[i - 1].to = (i - 1) * 120
    <3>1. i - 1 \in 1..n
      BY <2>4, <1>1
    <3>2. w[i - 1].to = AtMost((i - 1) * 120, days)
      BY <3>1, <1>3
    <3> QED
      BY <3>2, <2>1 DEF AtMost
  <2> QED
    BY <2>2, <2>3, <2>4
<1> QED
  BY <1>3, <1>4, <1>5, <1>6, <1>7 DEF Tiled, Span, w

\* What the windows leave of a shared budget satisfies the recursion it is defined by.
LEMMA BudgetLaw ==
  ASSUME NEW counts \in Seq(Nat)
  PROVE  LET left == BudgetLeft(counts)
         IN /\ left[0] = Len(counts) * 8
            /\ \A i \in 1..Len(counts) : left[i] = AtLeast(0, left[i - 1] - Need(counts[i]))
<1> DEFINE n == Len(counts)
           Value(g, i) == IF i = 0 THEN n * PagesPerWindow ELSE AtLeast(0, g[i - 1] - Need(counts[i]))
           T == {k \in Nat : k <= n => \E g : g = [i \in 0..k |-> Value(g, i)]}
<1>1. 0 \in T
  <2> DEFINE g == [i \in 0..0 |-> n * PagesPerWindow]
  <2>1. g = [i \in 0..0 |-> Value(g, i)]
    OBVIOUS
  <2> QED
    BY <2>1
<1>2. ASSUME NEW k \in Nat, k \in T PROVE k + 1 \in T
  <2> SUFFICES ASSUME k + 1 <= n PROVE \E h : h = [i \in 0..k + 1 |-> Value(h, i)]
    OBVIOUS
  <2>1. PICK g : g = [i \in 0..k |-> Value(g, i)]
    BY <1>2
  <2> DEFINE h == [i \in 0..k + 1 |-> IF i = k + 1 THEN AtLeast(0, g[k] - Need(counts[k + 1])) ELSE g[i]]
  <2>2. \A i \in 0..k : h[i] = g[i]
    OBVIOUS
  <2>3. h[k + 1] = AtLeast(0, g[k] - Need(counts[k + 1]))
    OBVIOUS
  <2> HIDE DEF h
  <2>4. \A i \in 0..k + 1 : h[i] = Value(h, i)
    <3>1. ASSUME NEW i \in 0..k PROVE h[i] = Value(h, i)
      <4>1. g[i] = Value(g, i)
        BY <2>1
      <4>2. i # 0 => g[i - 1] = h[i - 1]
        BY <2>2
      <4> QED
        BY <2>2, <4>1, <4>2
    <3>2. h[k + 1] = Value(h, k + 1)
      BY <2>2, <2>3
    <3> QED
      BY <3>1, <3>2
  <2>5. h = [i \in 0..k + 1 |-> h[i]]
    BY DEF h
  <2> QED
    BY <2>4, <2>5
<1>3. n \in T
  <2> HIDE DEF T
  <2> QED
    BY <1>1, <1>2, Induction
<1>4. \E g : g = [i \in 0..n |-> Value(g, i)]
  BY <1>3
<1> DEFINE left == CHOOSE g : g = [i \in 0..n |-> Value(g, i)]
<1>5. left = [i \in 0..n |-> Value(left, i)]
  BY <1>4
<1>6. BudgetLeft(counts) = left
  BY DEF BudgetLeft
<1> HIDE DEF left
<1>7. left[0] = n * 8
  BY <1>5 DEF PagesPerWindow
<1>8. ASSUME NEW i \in 1..n
      PROVE  left[i] = AtLeast(0, left[i - 1] - Need(counts[i]))
  <2> HIDE DEF n, Value
  <2>1. i \in 0..n /\ i # 0
    BY DEF n
  <2>2. left[i] = Value(left, i)
    BY <1>5, <2>1, Zenon
  <2> QED
    BY <2>1, <2>2 DEF Value
<1> QED
  BY <1>6, <1>7, <1>8

\* In a shared budget a window is cut short only when it or an older one needs more than its share.
THEOREM SharedBudgetSuffices ==
  ASSUME NEW counts \in Seq(Nat)
  PROVE  SharedRight(counts)
<1> DEFINE n == Len(counts)
           left == BudgetLeft(counts)
<1>1. left[0] = n * 8 /\ \A i \in 1..n : left[i] = AtLeast(0, left[i - 1] - Need(counts[i]))
  BY BudgetLaw
<1>2. \A i \in 1..n : Need(counts[i]) \in Nat
  BY DEF Need, AtLeast, PageSize
<1> HIDE DEF left
<1>3. ASSUME NEW i \in 1..n, \A k \in 1..i : Need(counts[k]) <= 8
      PROVE  SharedPages(counts)[i] = Need(counts[i])
  <2> DEFINE T == {j \in Nat : j < i => left[j] \in Nat /\ left[j] >= (n - j) * 8}
  <2>1. 0 \in T
    BY <1>1
  <2>2. ASSUME NEW j \in Nat, j \in T PROVE j + 1 \in T
    <3> SUFFICES ASSUME j + 1 < i PROVE left[j + 1] \in Nat /\ left[j + 1] >= (n - (j + 1)) * 8
      OBVIOUS
    <3>1. left[j] \in Nat /\ left[j] >= (n - j) * 8
      BY <2>2
    <3>2. j + 1 \in 1..n /\ Need(counts[j + 1]) <= 8 /\ Need(counts[j + 1]) \in Nat
      BY <1>2, <1>3
    <3>3. left[j + 1] = AtLeast(0, left[j] - Need(counts[j + 1]))
      BY <1>1, <3>2
    <3>4. (n - (j + 1)) * 8 = (n - j) * 8 - 8 /\ n \in Nat
      OBVIOUS
    <3> QED
      BY <3>1, <3>2, <3>3, <3>4 DEF AtLeast
  <2>3. i - 1 \in T
    <3>1. i - 1 \in Nat
      OBVIOUS
    <3> HIDE DEF T
    <3> QED
      BY <2>1, <2>2, <3>1, Induction
  <2>4. left[i - 1] \in Nat /\ left[i - 1] >= 8
    <3>1. left[i - 1] \in Nat /\ left[i - 1] >= (n - (i - 1)) * 8
      BY <2>3
    <3>2. (n - (i - 1)) * 8 >= 8 /\ n - (i - 1) \in Nat
      OBVIOUS
    <3> QED
      BY <3>1, <3>2
  <2>5. SharedPages(counts)[i] = AtMost(Need(counts[i]), left[i - 1])
    BY DEF SharedPages, left
  <2> QED
    BY <1>2, <1>3, <2>4, <2>5 DEF AtMost
<1>4. ASSUME NEW i \in 1..n, SharedPages(counts)[i] < Need(counts[i])
      PROVE  \E k \in 1..i : Need(counts[k]) > 8
  <2> SUFFICES ASSUME \A k \in 1..i : ~(Need(counts[k]) > 8) PROVE FALSE
    OBVIOUS
  <2>1. \A k \in 1..i : Need(counts[k]) <= 8
    BY <1>2
  <2> QED
    BY <1>2, <1>3, <1>4, <2>1
<1> QED
  BY <1>4 DEF SharedRight, PagesPerWindow

\* With a budget of its own a window loses CVEs only when it has more than
\* eight pages of them.
THEOREM OwnBudgetSuffices ==
  ASSUME NEW cves \in Nat
  PROVE  CutWhenLarge(cves)
BY DEF CutWhenLarge, WindowPages, Need, PagesPerWindow, PageSize, AtMost, AtLeast

----------------------------------------------------------------------------
(* Versions and criteria *)

\* How many numbers a version has.
Count(v) == Len(Numbers(v))

\* A version is its numbers, with zeros behind them, and its letter.
LEMMA DottedShape ==
  ASSUME NEW v \in Dotted
  PROVE  /\ Count(v) \in Nat \ {0} /\ Patch(v) \in Nat
         /\ Len(v) = IF Patch(v) = 0 THEN Count(v) ELSE Count(v) + 1
         /\ \A i \in 1..Count(v) : v[i] = Num(Part(v, i))
         /\ \A i \in Nat \ {0} : Part(v, i) \in Nat /\ (i > Count(v) => Part(v, i) = 0)
         /\ Patch(v) > 0 => v[Count(v) + 1] = Letter(Patch(v))
<1> DEFINE n == Len(v)
<1>1. v \in Seq(Token) /\ n \in Nat /\ n > 0 /\ v[1][1] = 1 /\ (\A i \in 1..n - 1 : v[i][1] = 1)
  BY DEF Dotted, Plain, NoVersion
<1>2. \A i \in 1..n : v[i] \in Token
  BY <1>1
<1>3. \A t \in Token : /\ t[1] \in {0, 1} /\ t[2] \in Nat /\ t = <<t[1], t[2]>>
                       /\ t[1] = 0 => t[2] > 0
  BY DEF Token
<1>4. CASE v[n][1] = 1
  <2>1. Numbers(v) = v /\ Patch(v) = 0 /\ Count(v) = n
    BY <1>4 DEF Numbers, Patch, Count
  <2>2. \A i \in 1..n : v[i][1] = 1 /\ v[i][2] \in Nat /\ v[i] = <<1, v[i][2]>>
    BY <1>1, <1>2, <1>3, <1>4
  <2>3. \A i \in Nat \ {0} : Part(v, i) = IF i > n THEN 0 ELSE v[i][2]
    BY <2>1 DEF Part
  <2>4. Len(v) = n
    OBVIOUS
  <2> HIDE DEF n
  <2>5. \A i \in Nat \ {0} : Part(v, i) \in Nat /\ (i > n => Part(v, i) = 0)
    BY <1>1, <2>2, <2>3
  <2>6. \A i \in 1..n : v[i] = Num(Part(v, i))
    BY <1>1, <2>2, <2>3 DEF Num
  <2> QED
    BY <1>1, <2>1, <2>4, <2>5, <2>6
<1>5. CASE v[n][1] = 0
  <2>1. n > 1
    BY <1>1, <1>5
  <2>2. Numbers(v) = Front(v) /\ Patch(v) = v[n][2]
    BY <1>5 DEF Numbers, Patch
  <2>3. Len(Front(v)) = n - 1 /\ \A i \in 1..n - 1 : Front(v)[i] = v[i]
    BY <1>1, <2>1 DEF Front
  <2>4. v[n] = <<0, Patch(v)>> /\ Patch(v) \in Nat /\ Patch(v) > 0
    BY <1>1, <1>2, <1>3, <1>5, <2>2
  <2>5. \A i \in 1..n - 1 : v[i][1] = 1 /\ v[i][2] \in Nat /\ v[i] = <<1, v[i][2]>>
    BY <1>1, <1>2, <1>3
  <2>6. Count(v) = n - 1 /\ Len(v) = n
    BY <2>2, <2>3 DEF Count
  <2> HIDE DEF n
  <2>7. \A i \in Nat \ {0} : Part(v, i) = IF i > n - 1 THEN 0 ELSE v[i][2]
    BY <1>1, <2>1, <2>2, <2>3 DEF Part
  <2>8. \A i \in Nat \ {0} : Part(v, i) \in Nat /\ (i > n - 1 => Part(v, i) = 0)
    BY <1>1, <2>5, <2>7
  <2>9. \A i \in 1..n - 1 : v[i] = Num(Part(v, i))
    BY <1>1, <2>5, <2>7 DEF Num
  <2>10. v[Count(v) + 1] = Letter(Patch(v))
    BY <1>1, <2>4, <2>6 DEF Letter
  <2> QED
    BY <1>1, <2>1, <2>4, <2>6, <2>8, <2>9, <2>10
<1> QED
  BY <1>1, <1>2, <1>3, <1>4, <1>5

\* Smaller, equal, larger.
Sgn(x, y) == IF x < y THEN -1 ELSE IF x = y THEN 0 ELSE 1

\* How the tokens of the code compare.
LEMMA TokenLaw ==
  ASSUME NEW x \in Nat, NEW y \in Nat
  PROVE  /\ Num(x) = Zero <=> x = 0
         /\ y > 0 => Letter(y) # Zero
         /\ Num(x) = Num(y) <=> x = y
         /\ Letter(x) = Letter(y) <=> x = y
         /\ Num(x) # Letter(y) /\ Letter(y) # Num(x)
         /\ Below(Num(x), Num(y)) <=> x < y
         /\ Below(Letter(x), Letter(y)) <=> x < y
         /\ Below(Letter(x), Num(y)) /\ ~ Below(Num(x), Letter(y))
BY DEF Num, Letter, Zero, Below

\* How many positions are compared.
Longest(a, b) == IF Len(a) > Len(b) THEN Len(a) ELSE Len(b)

\* A letter against a written-out zero is one either way round.
LEMMA MisalignedBoth == \A a, b : Misaligned(a, b) <=> Misaligned(b, a)
<1>1. ASSUME NEW a, NEW b, Misaligned(a, b) PROVE Misaligned(b, a)
  <2>1. PICK i \in DOMAIN a \cap DOMAIN b :
          {a[i][1], b[i][1]} = {0, 1} /\ Zero \in {a[i], b[i]}
    BY <1>1 DEF Misaligned
  <2>2. i \in DOMAIN b \cap DOMAIN a /\ {b[i][1], a[i][1]} = {0, 1} /\ Zero \in {b[i], a[i]}
    BY <2>1
  <2> QED
    BY <2>2 DEF Misaligned
<1> QED
  BY <1>1

\* Two tokens, or a token and none, compare the other way round as they should.
LEMMA MirrorAt ==
  ASSUME NEW a \in Seq(Token), NEW b \in Seq(Token), NEW i \in 1..Longest(a, b)
  PROVE  /\ CompareAt(a, b, i) \in {-1, 0, 1}
         /\ CompareAt(b, a, i) = -CompareAt(a, b, i)
<1>1. a \in Seq(Token) /\ b \in Seq(Token) /\ Longest(b, a) = Longest(a, b)
  BY DEF Longest
<1>2. CASE i > Len(a) \/ i > Len(b)
  BY <1>1, <1>2 DEF CompareAt, Longest
<1>3. CASE ~(i > Len(a)) /\ ~(i > Len(b))
  <2>1. a[i] \in Token /\ b[i] \in Token
    BY <1>1, <1>3
  <2>2. \A s, t \in Token : /\ Below(s, t) \/ Below(t, s) \/ s = t
                            /\ ~(Below(s, t) /\ Below(t, s))
    BY DEF Token, Below
  <2> QED
    BY <1>3, <2>1, <2>2 DEF CompareAt
<1> QED
  BY <1>2, <1>3

\* Where the letter of one meets a number of the other, that number is not zero.
LEMMA AlignedLaw ==
  ASSUME NEW a \in Dotted, NEW b \in Dotted, ~ Misaligned(a, b), Patch(a) > 0,
         Count(a) + 1 <= Count(b)
  PROVE  Part(b, Count(a) + 1) > 0
<1> DEFINE i == Count(a) + 1
<1>1. a[i] = Letter(Patch(a)) /\ Len(a) = i /\ i \in Nat \ {0} /\ a \in Seq(Token)
  BY DottedShape DEF Dotted
<1>2. b[i] = Num(Part(b, i)) /\ Len(b) >= i /\ b \in Seq(Token) /\ Part(b, i) \in Nat
  <2>1. /\ Count(b) \in Nat /\ Patch(b) \in Nat
        /\ Len(b) = IF Patch(b) = 0 THEN Count(b) ELSE Count(b) + 1
        /\ \A j \in 1..Count(b) : b[j] = Num(Part(b, j))
        /\ Part(b, i) \in Nat
    BY <1>1, DottedShape
  <2>2. i \in 1..Count(b)
    BY <1>1, <2>1
  <2> QED
    BY <1>1, <2>1, <2>2 DEF Dotted
<1>3. i \in DOMAIN a \cap DOMAIN b
  BY <1>1, <1>2
<1>4. a[i][1] = 0 /\ b[i][1] = 1
  BY <1>1, <1>2 DEF Num, Letter
<1>5. b[i] # Zero
  <2>1. {a[i][1], b[i][1]} = {0, 1}
    BY <1>4
  <2>2. b[i] = Zero => Zero \in {a[i], b[i]}
    OBVIOUS
  <2> QED
    BY <1>3, <2>1, <2>2 DEF Misaligned
<1> QED
  BY <1>2, <1>5 DEF Zero

\* Up to the numbers of the longer one, a position compares as the numbers at it.
LEMMA NumbersCompare ==
  ASSUME NEW a \in Dotted, NEW b \in Dotted, ~ Misaligned(a, b), NEW i \in 1..Depth(a, b)
  PROVE  i <= Longest(a, b) /\ CompareAt(a, b, i) = Sgn(Part(a, i), Part(b, i))
<1> DEFINE n == Count(a)
           m == Count(b)
           x == Part(a, i)
           y == Part(b, i)
<1>1. /\ n \in Nat \ {0} /\ Len(a) = (IF Patch(a) = 0 THEN n ELSE n + 1) /\ Patch(a) \in Nat
      /\ m \in Nat \ {0} /\ Len(b) = (IF Patch(b) = 0 THEN m ELSE m + 1) /\ Patch(b) \in Nat
  BY DottedShape
<1>2. i \in Nat \ {0} /\ (i <= n \/ i <= m) /\ i <= Longest(a, b)
  BY <1>1 DEF Depth, AtLeast, Count, Longest
<1>3. /\ x \in Nat /\ (i <= n => a[i] = Num(x)) /\ (i > n => x = 0)
      /\ y \in Nat /\ (i <= m => b[i] = Num(y)) /\ (i > m => y = 0)
  BY <1>1, <1>2, DottedShape
<1>4. /\ i = n + 1 /\ Patch(a) > 0 => a[i] = Letter(Patch(a)) /\ y > 0
      /\ i = m + 1 /\ Patch(b) > 0 => b[i] = Letter(Patch(b)) /\ x > 0
  <2>1. i = n + 1 /\ Patch(a) > 0 => a[i] = Letter(Patch(a)) /\ y > 0
    BY <1>1, <1>2, DottedShape, AlignedLaw
  <2>2. i = m + 1 /\ Patch(b) > 0 => b[i] = Letter(Patch(b)) /\ x > 0
    BY <1>1, <1>2, DottedShape, AlignedLaw, MisalignedBoth
  <2> QED
    BY <2>1, <2>2
<1> HIDE DEF x, y, n, m
<1>5. CASE i <= n /\ i <= m
  <2>1. a[i] = Num(x) /\ b[i] = Num(y) /\ ~(i > Len(a)) /\ ~(i > Len(b))
    BY <1>1, <1>2, <1>3, <1>5
  <2> QED
    BY <1>2, <1>3, <2>1, TokenLaw DEF CompareAt, Sgn, x, y
<1>6. CASE i > n
  <2>1. i <= m /\ b[i] = Num(y) /\ ~(i > Len(b)) /\ x = 0
    BY <1>1, <1>2, <1>3, <1>6
  <2>2. CASE i > Len(a)
    BY <1>2, <1>3, <2>1, <2>2, TokenLaw DEF CompareAt, Sgn, x, y
  <2>3. CASE ~(i > Len(a))
    <3>1. a[i] = Letter(Patch(a)) /\ y > 0
      BY <1>1, <1>2, <1>4, <1>6, <2>3
    <3>2. a[i] # b[i] /\ Below(a[i], b[i])
      BY <1>1, <1>3, <2>1, <3>1, TokenLaw
    <3> QED
      BY <1>2, <1>3, <2>1, <2>3, <3>1, <3>2 DEF CompareAt, Sgn, x, y
  <2> QED
    BY <2>2, <2>3
<1>7. CASE i > m
  <2>1. i <= n /\ a[i] = Num(x) /\ ~(i > Len(a)) /\ y = 0
    BY <1>1, <1>2, <1>3, <1>7
  <2>2. CASE i > Len(b)
    BY <1>2, <1>3, <2>1, <2>2, TokenLaw DEF CompareAt, Sgn, x, y
  <2>3. CASE ~(i > Len(b))
    <3>1. b[i] = Letter(Patch(b)) /\ x > 0
      BY <1>1, <1>2, <1>4, <1>7, <2>3
    <3>2. a[i] # b[i] /\ ~Below(a[i], b[i])
      BY <1>1, <1>3, <2>1, <3>1, TokenLaw
    <3> QED
      BY <1>2, <1>3, <2>1, <2>3, <3>1, <3>2 DEF CompareAt, Sgn, x, y
  <2> QED
    BY <2>2, <2>3
<1> QED
  BY <1>1, <1>2, <1>5, <1>6, <1>7

\* After equal numbers only the letters are left, and compare as they should.
LEMMA LettersCompare ==
  ASSUME NEW a \in Dotted, NEW b \in Dotted, ~ Misaligned(a, b), Alike(a, b, Depth(a, b))
  PROVE  LET d == Depth(a, b)
             l == Patch(a)
             k == Patch(b)
         IN /\ Longest(a, b) = IF l = 0 /\ k = 0 THEN d ELSE d + 1
            /\ Longest(a, b) = d + 1 => CompareAt(a, b, d + 1) = Sgn(l, k)
<1> DEFINE n == Count(a)
           m == Count(b)
           d == Depth(a, b)
           l == Patch(a)
           k == Patch(b)
<1>1. /\ n \in Nat \ {0} /\ Len(a) = (IF l = 0 THEN n ELSE n + 1) /\ l \in Nat
      /\ m \in Nat \ {0} /\ Len(b) = (IF k = 0 THEN m ELSE m + 1) /\ k \in Nat
      /\ d = IF n > m THEN n ELSE m
  BY DottedShape DEF Depth, AtLeast, Count
<1>2. /\ l > 0 => a[n + 1] = Letter(l)
      /\ k > 0 => b[m + 1] = Letter(k)
  BY DottedShape
<1>3. \A i \in 1..d : Part(a, i) = Part(b, i)
  BY DEF Alike
<1>4. l > 0 => n >= m
  <2> SUFFICES ASSUME l > 0, n + 1 <= m PROVE FALSE
    BY <1>1
  <2>1. Part(b, n + 1) > 0
    BY AlignedLaw
  <2>2. Part(a, n + 1) = 0
    BY <1>1, DottedShape
  <2>3. n + 1 \in 1..d
    BY <1>1
  <2> QED
    BY <1>3, <2>1, <2>2, <2>3
<1>5. k > 0 => m >= n
  <2> SUFFICES ASSUME k > 0, m + 1 <= n PROVE FALSE
    BY <1>1
  <2>1. Part(a, m + 1) > 0
    BY AlignedLaw, MisalignedBoth
  <2>2. Part(b, m + 1) = 0
    BY <1>1, DottedShape
  <2>3. m + 1 \in 1..d
    BY <1>1
  <2> QED
    BY <1>3, <2>1, <2>2, <2>3
<1> HIDE DEF n, m, d, l, k
<1>6. Longest(a, b) = IF l = 0 /\ k = 0 THEN d ELSE d + 1
  BY <1>1, <1>4, <1>5 DEF Longest
<1>7. ASSUME l > 0 \/ k > 0 PROVE CompareAt(a, b, d + 1) = Sgn(l, k)
  <2>1. CASE l > 0 /\ k > 0
    <3>1. n = d /\ m = d /\ d + 1 = Len(a) /\ d + 1 = Len(b)
      BY <1>1, <1>4, <1>5, <2>1
    <3>2. a[d + 1] = Letter(l) /\ b[d + 1] = Letter(k)
      BY <1>2, <2>1, <3>1
    <3> QED
      BY <1>1, <3>1, <3>2, TokenLaw DEF CompareAt, Sgn
  <2>2. CASE l > 0 /\ k = 0
    <3>1. n = d /\ d + 1 = Len(a) /\ d + 1 > Len(b)
      BY <1>1, <1>4, <2>2
    <3>2. a[d + 1] = Letter(l) /\ Letter(l) # Zero
      BY <1>1, <1>2, <2>2, <3>1, TokenLaw
    <3> QED
      BY <1>1, <2>2, <3>1, <3>2 DEF CompareAt, Sgn
  <2>3. CASE l = 0 /\ k > 0
    <3>1. m = d /\ d + 1 = Len(b) /\ d + 1 > Len(a)
      BY <1>1, <1>5, <2>3
    <3>2. b[d + 1] = Letter(k) /\ Letter(k) # Zero
      BY <1>1, <1>2, <2>3, <3>1, TokenLaw
    <3> QED
      BY <1>1, <2>3, <3>1, <3>2 DEF CompareAt, Sgn
  <2> QED
    BY <1>1, <1>7, <2>1, <2>2, <2>3
<1>8. d \in Nat
  BY <1>1
<1> QED
  BY <1>1, <1>6, <1>7, <1>8 DEF d, l, k

\* Either no position differs, or one is the first that does, and then it decides.
LEMMA FirstDecides ==
  ASSUME NEW a \in Seq(Token), NEW b \in Seq(Token)
  PROVE  \/ Compare(a, b) = 0 /\ \A p \in 1..Longest(a, b) : CompareAt(a, b, p) = 0
         \/ \E p \in 1..Longest(a, b) : /\ CompareAt(a, b, p) # 0 /\ Compare(a, b) = CompareAt(a, b, p)
                                        /\ \A q \in 1..p - 1 : CompareAt(a, b, q) = 0
<1> DEFINE apart == {i \in 1..Longest(a, b) : CompareAt(a, b, i) # 0}
<1>1. Compare(a, b) = IF apart = {} THEN 0 ELSE CompareAt(a, b, Min(apart))
  BY DEF Compare, Longest
<1>2. Longest(a, b) \in Nat
  BY DEF Longest
<1>3. CASE apart = {}
  BY <1>1, <1>3
<1>4. CASE apart # {}
  <2>1. apart \subseteq Nat
    BY <1>2
  <2> HIDE DEF apart
  <2>2. PICK p \in apart : \A q \in apart : p <= q
    BY <1>4, <2>1, Least
  <2>3. Min(apart) = p
    <3>1. \A q \in apart : (\A r \in apart : q <= r) => q = p
      BY <2>1, <2>2
    <3> QED
      BY <2>2, <3>1 DEF Min
  <2>4. p \in 1..Longest(a, b) /\ CompareAt(a, b, p) # 0
    BY DEF apart
  <2>5. \A q \in 1..p - 1 : CompareAt(a, b, q) = 0
    <3> SUFFICES ASSUME NEW q \in 1..p - 1, CompareAt(a, b, q) # 0 PROVE FALSE
      OBVIOUS
    <3>1. q \in apart
      BY <1>2, <2>4 DEF apart
    <3> QED
      BY <2>2, <2>4, <3>1
  <2> QED
    BY <1>1, <1>4, <2>3, <2>4, <2>5
<1> QED
  BY <1>3, <1>4

\* Either the first number that differs decides, or all are equal and the letters do.
LEMMA CompareLaw ==
  ASSUME NEW a \in Dotted, NEW b \in Dotted, ~ Misaligned(a, b)
  PROVE  \/ \E p \in 1..Depth(a, b) : /\ Part(a, p) # Part(b, p) /\ Alike(a, b, p - 1)
                                      /\ Compare(a, b) = Sgn(Part(a, p), Part(b, p))
         \/ Alike(a, b, Depth(a, b)) /\ Compare(a, b) = Sgn(Patch(a), Patch(b))
<1> DEFINE d == Depth(a, b)
           long == Longest(a, b)
<1>1. d \in Nat /\ long \in Nat
  <2>1. Count(a) \in Nat /\ Count(b) \in Nat
    BY DottedShape
  <2> QED
    BY <2>1 DEF Depth, AtLeast, Count, Longest, Dotted
<1>2. \A i \in 1..d : i <= long /\ CompareAt(a, b, i) = Sgn(Part(a, i), Part(b, i))
  BY NumbersCompare
<1>3. \A i \in 1..d : Part(a, i) \in Nat /\ Part(b, i) \in Nat
  BY <1>1, DottedShape
<1>4. \A i \in 1..d : CompareAt(a, b, i) = 0 <=> Part(a, i) = Part(b, i)
  BY <1>2, <1>3 DEF Sgn
<1>5. Patch(a) \in Nat /\ Patch(b) \in Nat
  BY DottedShape
<1>6. Alike(a, b, d) => /\ long = IF Patch(a) = 0 /\ Patch(b) = 0 THEN d ELSE d + 1
                        /\ long = d + 1 => CompareAt(a, b, d + 1) = Sgn(Patch(a), Patch(b))
  BY LettersCompare
<1> HIDE DEF d, long
<1>7. CASE Compare(a, b) = 0 /\ \A p \in 1..long : CompareAt(a, b, p) = 0
  <2>1. Alike(a, b, d)
    BY <1>1, <1>2, <1>4, <1>7 DEF Alike
  <2>2. Patch(a) = 0 /\ Patch(b) = 0 => Sgn(Patch(a), Patch(b)) = 0
    BY DEF Sgn
  <2>3. ~(Patch(a) = 0 /\ Patch(b) = 0) => Sgn(Patch(a), Patch(b)) = 0
    BY <1>1, <1>6, <1>7, <2>1
  <2> QED
    BY <1>7, <2>1, <2>2, <2>3 DEF d
<1>8. ASSUME NEW p \in 1..long, CompareAt(a, b, p) # 0, Compare(a, b) = CompareAt(a, b, p),
             \A q \in 1..p - 1 : CompareAt(a, b, q) = 0
      PROVE  \/ \E r \in 1..d : /\ Part(a, r) # Part(b, r) /\ Alike(a, b, r - 1)
                                /\ Compare(a, b) = Sgn(Part(a, r), Part(b, r))
             \/ Alike(a, b, d) /\ Compare(a, b) = Sgn(Patch(a), Patch(b))
  <2>1. CASE p <= d
    <3>1. p \in 1..d /\ \A q \in 1..p - 1 : q \in 1..d
      BY <1>1, <2>1
    <3>2. Part(a, p) # Part(b, p) /\ Compare(a, b) = Sgn(Part(a, p), Part(b, p))
      BY <1>2, <1>4, <1>8, <3>1
    <3>3. Alike(a, b, p - 1)
      BY <1>4, <1>8, <3>1 DEF Alike
    <3> QED
      BY <3>1, <3>2, <3>3
  <2>2. CASE p > d
    <3>1. Alike(a, b, d)
      <4>1. \A q \in 1..d : q \in 1..p - 1
        BY <1>1, <2>2
      <4> QED
        BY <1>4, <1>8, <4>1 DEF Alike
    <3>2. p = d + 1 /\ long = d + 1
      BY <1>1, <1>6, <2>2, <3>1
    <3> QED
      BY <1>6, <1>8, <3>1, <3>2
  <2> QED
    BY <1>1, <2>1, <2>2
<1>9. a \in Seq(Token) /\ b \in Seq(Token)
  BY DEF Dotted
<1> QED
  BY <1>7, <1>8, <1>9, FirstDecides DEF d, long

\* compare_versions orders all versions of numbers, however many and of any size, and a letter
\* behind as their maintainers do, but where a letter meets a written-out zero.
THEOREM CompareOrders ==
  ASSUME NEW a \in Dotted, NEW b \in Dotted
  PROVE  Orders(a, b)
<1> SUFFICES ASSUME ~ Misaligned(a, b)
             PROVE  /\ Compare(a, b) = 0 <=> Same(a, b)
                    /\ Compare(a, b) = -1 <=> Precedes(a, b)
                    /\ Compare(a, b) = 1 <=> Precedes(b, a)
  BY DEF Orders
<1> DEFINE d == Depth(a, b)
           l == Patch(a)
           k == Patch(b)
<1>1. l \in Nat /\ k \in Nat /\ d \in Nat
  <2>1. Count(a) \in Nat /\ Count(b) \in Nat /\ Patch(a) \in Nat /\ Patch(b) \in Nat
    BY DottedShape
  <2> QED
    BY <2>1 DEF Depth, AtLeast, Count
<1>2. Depth(b, a) = d
  <2>1. Count(a) \in Nat /\ Count(b) \in Nat
    BY DottedShape
  <2> QED
    BY <2>1 DEF Depth, AtLeast, Count
<1>3. \A i \in Nat : Alike(b, a, i) <=> Alike(a, b, i)
  BY DEF Alike
<1>4. \A i \in 1..d : Part(a, i) \in Nat /\ Part(b, i) \in Nat
  BY <1>1, DottedShape
<1>5. /\ Same(a, b) <=> Alike(a, b, d) /\ l = k
      /\ Precedes(a, b) <=> \/ \E i \in 1..d : Part(a, i) < Part(b, i) /\ Alike(a, b, i - 1)
                            \/ Alike(a, b, d) /\ l < k
      /\ Precedes(b, a) <=> \/ \E i \in 1..d : Part(b, i) < Part(a, i) /\ Alike(a, b, i - 1)
                            \/ Alike(a, b, d) /\ k < l
  <2>1. Same(a, b) <=> Alike(a, b, d) /\ l = k
    BY DEF Same
  <2>2. Precedes(a, b) <=> \/ \E i \in 1..d : Part(a, i) < Part(b, i) /\ Alike(a, b, i - 1)
                           \/ Alike(a, b, d) /\ l < k
    BY DEF Precedes
  <2>3. Precedes(b, a) <=> \/ \E i \in 1..d : Part(b, i) < Part(a, i) /\ Alike(b, a, i - 1)
                           \/ Alike(b, a, d) /\ k < l
    BY <1>2 DEF Precedes
  <2>4. \A i \in 1..d : i - 1 \in Nat
    BY <1>1
  <2> QED
    BY <1>1, <1>3, <2>1, <2>2, <2>3, <2>4
<1> HIDE DEF d, l, k
<1>6. CASE Alike(a, b, d) /\ Compare(a, b) = Sgn(l, k)
  <2>1. \A i \in 1..d : Part(a, i) = Part(b, i)
    BY <1>6 DEF Alike
  <2> QED
    BY <1>1, <1>4, <1>5, <1>6, <2>1 DEF Sgn
<1>7. ASSUME NEW p \in 1..d, Part(a, p) # Part(b, p), Alike(a, b, p - 1),
             Compare(a, b) = Sgn(Part(a, p), Part(b, p))
      PROVE  /\ Compare(a, b) = 0 <=> Same(a, b)
             /\ Compare(a, b) = -1 <=> Precedes(a, b)
             /\ Compare(a, b) = 1 <=> Precedes(b, a)
  <2>1. ~ Alike(a, b, d)
    BY <1>7 DEF Alike
  <2>2. \A i \in 1..d : Part(a, i) # Part(b, i) /\ Alike(a, b, i - 1) => i = p
    <3> SUFFICES ASSUME NEW i \in 1..d, Part(a, i) # Part(b, i), Alike(a, b, i - 1), i # p PROVE FALSE
      OBVIOUS
    <3>1. i \in 1..p - 1 \/ p \in 1..i - 1
      BY <1>1
    <3> QED
      BY <1>7, <3>1 DEF Alike
  <2>3. Part(a, p) \in Nat /\ Part(b, p) \in Nat
    BY <1>4
  <2>4. (\E i \in 1..d : Part(a, i) < Part(b, i) /\ Alike(a, b, i - 1)) <=> Part(a, p) < Part(b, p)
    BY <1>4, <1>7, <2>2
  <2>5. (\E i \in 1..d : Part(b, i) < Part(a, i) /\ Alike(a, b, i - 1)) <=> Part(b, p) < Part(a, p)
    BY <1>4, <1>7, <2>2
  <2> QED
    BY <1>5, <1>7, <2>1, <2>3, <2>4, <2>5 DEF Sgn
<1> QED
  BY <1>6, <1>7, CompareLaw DEF d, l, k

\* compare_versions answers the same question the other way round with the opposite sign, whatever
\* tokens the two versions are made of.
THEOREM CompareMirrors ==
  ASSUME NEW a \in Seq(Token), NEW b \in Seq(Token)
  PROVE  Compare(a, b) + Compare(b, a) = 0
<1> DEFINE long == Longest(a, b)
<1>1. Longest(b, a) = long /\ long \in Nat
  BY DEF Longest
<1>2. \A i \in 1..long : CompareAt(a, b, i) \in {-1, 0, 1} /\ CompareAt(b, a, i) = -CompareAt(a, b, i)
  BY MirrorAt
<1>3. \A i \in 1..long : CompareAt(b, a, i) = 0 <=> CompareAt(a, b, i) = 0
  BY <1>2
<1> HIDE DEF long
<1>4. CASE Compare(a, b) = 0 /\ \A p \in 1..long : CompareAt(a, b, p) = 0
  <2>1. \A p \in 1..long : CompareAt(b, a, p) = 0
    BY <1>3, <1>4
  <2>2. Compare(b, a) = 0
    BY <1>1, <2>1, FirstDecides
  <2> QED
    BY <1>4, <2>2
<1>5. ASSUME NEW p \in 1..long, CompareAt(a, b, p) # 0, Compare(a, b) = CompareAt(a, b, p),
             \A q \in 1..p - 1 : CompareAt(a, b, q) = 0
      PROVE  Compare(a, b) + Compare(b, a) = 0
  <2>1. CompareAt(b, a, p) # 0 /\ \A q \in 1..p - 1 : CompareAt(b, a, q) = 0
    <3>1. \A q \in 1..p - 1 : q \in 1..long
      BY <1>1
    <3> QED
      BY <1>3, <1>5, <3>1
  <2>2. PICK r \in 1..long : /\ CompareAt(b, a, r) # 0 /\ Compare(b, a) = CompareAt(b, a, r)
                             /\ \A q \in 1..r - 1 : CompareAt(b, a, q) = 0
    BY <1>1, <2>1, FirstDecides
  <2>3. r = p
    <3>1. ~(r \in 1..p - 1) /\ ~(p \in 1..r - 1)
      BY <2>1, <2>2
    <3> QED
      BY <1>1, <3>1
  <2> QED
    BY <1>2, <1>5, <2>2, <2>3
<1> QED
  BY <1>4, <1>5, FirstDecides DEF long

\* A version, a criterion and its bounds may be anything of that form: the
\* criterion applies to the version exactly when the version lies in it.
THEOREM CriteriaApplyRightly ==
  ASSUME NEW sv \in SomeVersion, NEW m, IsCriterion(m)
  PROVE  AppliesRight(sv, m)
<1>1. NoVersion \notin Dotted /\ NoBound = NoVersion
  BY DEF Dotted, Plain, NoBound, NoVersion
<1>2. ASSUME sv # NoVersion, Aligned(sv, m)
      PROVE  Applies(sv, m) <=> Within(sv, m)
  <2>1. /\ sv \in Dotted
        /\ \A w \in {m.version, m.si, m.se, m.ei, m.ee} \ {NoVersion} : w \in Dotted /\ ~ Misaligned(sv, w)
    BY <1>2 DEF Aligned, IsCriterion, SomeVersion
  <2>2. ASSUME NEW w \in {m.version, m.si, m.se, m.ei, m.ee} \ {NoVersion}
        PROVE  /\ Compare(sv, w) \in {-1, 0, 1}
               /\ Compare(sv, w) = 0 <=> Same(sv, w)
               /\ Compare(sv, w) = -1 <=> Precedes(sv, w)
               /\ Compare(sv, w) = 1 <=> Precedes(w, sv)
    <3>1. sv \in Dotted /\ w \in Dotted /\ ~ Misaligned(sv, w)
      BY <2>1
    <3>2. Orders(sv, w)
      BY <3>1, CompareOrders
    <3>3. Compare(sv, w) \in {-1, 0, 1}
      BY <3>1, CompareLaw DEF Sgn
    <3> QED
      BY <3>1, <3>2, <3>3 DEF Orders
  <2>3. CASE m.version # NoVersion
    <3>1. Compare(sv, m.version) = 0 <=> Same(sv, m.version)
      BY <2>2, <2>3
    <3> QED
      BY <1>2, <2>3, <3>1 DEF Applies, Within
  <2>4. CASE m.version = NoVersion
    <3>1. m.si # NoBound => (Compare(sv, m.si) >= 0 <=> ~ Precedes(sv, m.si))
      BY <1>1, <2>2
    <3>2. m.se # NoBound => (Compare(sv, m.se) > 0 <=> Precedes(m.se, sv))
      BY <1>1, <2>2
    <3>3. m.ei # NoBound => (Compare(sv, m.ei) <= 0 <=> ~ Precedes(m.ei, sv))
      BY <1>1, <2>2
    <3>4. m.ee # NoBound => (Compare(sv, m.ee) < 0 <=> Precedes(sv, m.ee))
      BY <1>1, <2>2
    <3> QED
      BY <1>2, <2>4, <3>1, <3>2, <3>3, <3>4 DEF Applies, Within
  <2> QED
    BY <2>3, <2>4
<1>3. sv = NoVersion => (Applies(sv, m) <=> m.version = NoVersion /\ ~Bounded(m))
  BY DEF Applies
<1> QED
  BY <1>2, <1>3 DEF AppliesRight

----------------------------------------------------------------------------
(* Every question *)

\* A service is a candidate for redis by its CPE or by its name.
LEMMA RedisLaw ==
  ASSUME NEW s, IsService(s)
  PROVE  Redis \in Candidates(s) <=> s.cpe = Redis \/ "redis" \in s.names
<1>1. \A name \in STRING : Redis \in Curated(name) <=> name = "redis"
  <2> SUFFICES ASSUME NEW name \in STRING PROVE Redis \in Curated(name) <=> name = "redis"
    OBVIOUS
  <2>1. DOMAIN Aliases = {"redis", "openssh"}
    BY DEF Aliases
  <2>2. Aliases["redis"] = {"redislabs:redis", "redis:redis"} /\ Aliases["openssh"] = {"openbsd:openssh"}
    BY DEF Aliases
  <2> HIDE DEF Aliases
  <2>3. CASE name = "redis"
    BY <2>1, <2>2, <2>3 DEF Curated, Redis
  <2>4. CASE name = "openssh"
    BY <2>1, <2>2, <2>4 DEF Curated, Redis
  <2>5. CASE name \notin {"redis", "openssh"}
    BY <2>1, <2>5 DEF Curated, Redis
  <2> QED
    BY <2>3, <2>4, <2>5
<1>2. Redis \in UNION {Curated(name) : name \in s.names} <=> "redis" \in s.names
  BY <1>1 DEF IsService
<1>3. Redis \in (IF s.cpe = "" THEN {} ELSE {s.cpe}) <=> s.cpe = Redis
  BY DEF Redis
<1> QED
  BY <1>2, <1>3 DEF Candidates

\* A service is given the CVE of a criterion exactly when the criterion is about its product and
\* applies to its version, from the store and from NVD alike.
LEMMA MatchLaw ==
  ASSUME NEW s, NEW m, IsService(s), m.product = Redis
  PROVE  LET own == s.cpe = Redis \/ "redis" \in s.names
         IN /\ m.cve \in Offline(s, {m}, {m.cve}) <=> own /\ Applies(VersionOf(s), m)
            /\ own /\ VersionOf(s) = s.banner => Online(s, {m}) = Offline(s, {m}, {m.cve})
            /\ Offline(s, {m}, {}) = {}
<1> DEFINE own == s.cpe = Redis \/ "redis" \in s.names
           hits == {n \in {m} : n.product \in Candidates(s) /\ Applies(VersionOf(s), n)}
<1>1. hits = IF own /\ Applies(VersionOf(s), m) THEN {m} ELSE {}
  BY RedisLaw
<1>2. \A stored : Offline(s, {m}, stored) = {n.cve : n \in hits} \cap stored
  BY DEF Offline
<1>3. Online(s, {m}) = {n.cve : n \in {n \in {m} : Applies(s.banner, n)}}
  BY DEF Online, Cleaned
<1> HIDE DEF hits, own
<1>4. m.cve \in Offline(s, {m}, {m.cve}) <=> own /\ Applies(VersionOf(s), m)
  BY <1>1, <1>2
<1>5. own /\ VersionOf(s) = s.banner => Online(s, {m}) = Offline(s, {m}, {m.cve})
  BY <1>1, <1>2, <1>3
<1>6. Offline(s, {m}, {}) = {}
  BY <1>2
<1> QED
  BY <1>4, <1>5, <1>6 DEF own

\* ArithmeticTrue for every question: all versions, criteria and services, all scores, and any
\* number of days, windows and CVEs.
THEOREM ArithmeticHolds == ProbeSpec => []ArithmeticTrue
<1>1. IsProbe(probe) => ArithmeticTrue
  <2> SUFFICES ASSUME IsProbe(probe) PROVE ArithmeticTrue
    OBVIOUS
  <2>1. MatchTrue
    <3> SUFFICES ASSUME probe.kind = "version" PROVE MatchTrue
      BY DEF MatchTrue
    <3>1. probe.v \in SomeVersion /\ IsCriterion(probe.m) /\ \A s \in probe.services : IsService(s)
      BY DEF IsProbe
    <3>2. AppliesRight(probe.v, probe.m)
      BY <3>1, CriteriaApplyRightly
    <3>3. probe.m.product = Redis
      BY <3>1 DEF IsCriterion
    <3> QED
      BY <3>1, <3>2, <3>3, MatchLaw DEF MatchTrue
  <2>2. RiskMonotone
    BY RiskIsMonotone DEF RiskMonotone, IsProbe
  <2>3. PagesTrue
    <3> SUFFICES ASSUME probe.kind = "pages" PROVE PagesTrue
      BY DEF PagesTrue
    <3>1. probe.days \in Nat \ {0} /\ probe.counts \in Seq(Nat)
      BY DEF IsProbe
    <3>2. \A i \in DOMAIN probe.counts : probe.counts[i] \in Nat
      BY <3>1
    <3> QED
      BY <3>1, <3>2, WindowsTile, SharedBudgetSuffices, OwnBudgetSuffices DEF PagesTrue
  <2> QED
    BY <2>1, <2>2, <2>3 DEF ArithmeticTrue
<1>2. ProbeInit => IsProbe(probe)
  BY DEF ProbeInit
<1>3. IsProbe(probe) /\ [UNCHANGED probe]_probe => IsProbe(probe)'
  BY DEF IsProbe
<1> QED
  BY <1>1, <1>2, <1>3, PTL DEF ProbeSpec

=============================================================================
