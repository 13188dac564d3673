---------------------------- MODULE AppSettings ----------------------------
(***************************************************************************)
(* The one row of app_settings, the forms that write it, and the jobs that *)
(* record their results in it.  Every writer loads the row, changes some   *)
(* of its columns and commits; SQLAlchemy's UPDATE carries only columns    *)
(* whose value differs from the one loaded.                                *)
(*                                                                         *)
(* A form is the partial row it asks for, after the code has normalised    *)
(* it: texts are short names, "bad" one the code rejects, "blank" none.    *)
(***************************************************************************)
EXTENDS Integers, FiniteSets

CONSTANTS
  Writers,     \* requests and jobs
  Forms,       \* the forms and jobs of the instance, as the operators below build them
  MaxCalls     \* Bound: requests and jobs that arrive

VARIABLES
  row,         \* the columns, or an empty function when there is no row yet
  tzCache,     \* the web process's copy of row.timezone ...
  aiCache,     \* ... and of row.ai_enabled
  job,         \* the writers
  calls,       \* how many have arrived
  behind       \* history: a cache was last set from a row overtaken since it was loaded

settingsVars == <<row, tzCache, aiCache, job, calls, behind>>

Clamp(n, low, high) == IF n < low THEN low ELSE IF n > high THEN high ELSE n
OneOf(x, S, else)   == IF x \in S THEN x ELSE else

\* Some columns written over others, and one that a blank leaves alone.
Over(set, cols)   == [c \in DOMAIN set \cup DOMAIN cols |-> IF c \in DOMAIN set THEN set[c] ELSE cols[c]]
Secret(column, x) == IF x = "blank" THEN <<>> ELSE [c \in {column} |-> x]

Defaults ==
  [ratelimit_enabled |-> FALSE, ratelimit_max_attempts |-> 5, ratelimit_window_sec |-> 300,
   ratelimit_lockout_sec |-> 900,
   smtp_enabled |-> FALSE, smtp_host |-> "blank", smtp_port |-> 587, smtp_password |-> "blank",
   syslog_enabled |-> FALSE, syslog_host |-> "blank", syslog_port |-> 514, syslog_protocol |-> "udp",
   syslog_format |-> "rfc5424",
   session_timeout_min |-> 0, password_min_length |-> 8, password_complex |-> FALSE,
   ldaps_verify_cert |-> FALSE, ldaps_ca_cert |-> "blank",
   dns_servers |-> "blank", reverse_dns |-> FALSE, scan_speed |-> "fast", scan_fanout |-> TRUE,
   fanout_workers |-> 8,
   ai_enabled |-> FALSE, ai_endpoint |-> "blank", ai_timeout |-> 300,
   asset_scope |-> "default", nvd_sync_days |-> 7, nvd_key |-> "blank", timezone |-> "Istanbul",
   ldap_enabled |-> FALSE, ldap_period |-> "daily", ldap_hour |-> 3,
   license_public_key |-> "blank", license_key |-> "blank",
   check_enabled |-> TRUE, check_url |-> "default", apply_enabled |-> FALSE,
   latest_version |-> "blank", check_status |-> "blank", cve_last_sync |-> 0,
   exploit_last_sync |-> 0, exploit_last_check |-> 0, exploit_up_to_date |-> FALSE]

Columns == DOMAIN Defaults

IsSwitch(x) == x \in BOOLEAN
Between(x, low, high) == x \in Int /\ low <= x /\ x <= high

\* What the code lets into a column; the columns not named here take what they are given.
Fits(column, x) ==
  /\ column = "ratelimit_max_attempts" => Between(x, 1, 100)
  /\ column \in {"ratelimit_window_sec", "ratelimit_lockout_sec"} => Between(x, 10, 86400)
  /\ column \in {"smtp_port", "syslog_port"} => Between(x, 1, 65535)
  /\ column = "syslog_protocol" => x \in {"udp", "tcp"}
  /\ column = "syslog_format" => x \in {"rfc5424", "rfc3164", "cef", "json"}
  /\ column = "session_timeout_min" => Between(x, 0, 10080)
  /\ column = "password_min_length" => Between(x, 4, 128)
  /\ column = "dns_servers" => x \in {"blank", "resolver"}
  /\ column = "scan_speed" => x \in {"normal", "fast", "insane"}
  /\ column = "fanout_workers" => Between(x, 1, 32)
  /\ column \in {"ai_enabled", "check_enabled"} => IsSwitch(x)
  /\ column = "ai_timeout" => Between(x, 5, 600)
  /\ column = "asset_scope" => x \in {"default", "cidr", "blank"}
  /\ column = "nvd_sync_days" => Between(x, 1, 730)
  /\ column = "timezone" => x \in {"UTC", "Istanbul"}
  /\ column = "ldap_period" => x \in {"hourly", "daily", "weekly"}
  /\ column = "ldap_hour" => Between(x, 0, 23)
  /\ column = "check_url" => x \in {"default", "mirror"}

\* Columns a writer may assign: of the row, with values that fit, and not both of the two that the
\* web process keeps copies of.
Allowed(set) ==
  /\ DOMAIN set \subseteq Columns
  /\ \A c \in DOMAIN set : Fits(c, set[c])
  /\ ~({"timezone", "ai_enabled"} \subseteq DOMAIN set)

----------------------------------------------------------------------------
(* What each form asks for *)

Ask(set) == [set |-> set, then |-> <<>>, kind |-> "form"]

RatelimitForm(on, n) == Ask(
  [ratelimit_enabled |-> on, ratelimit_max_attempts |-> Clamp(n, 1, 100),
   ratelimit_window_sec |-> Clamp(n, 10, 86400), ratelimit_lockout_sec |-> Clamp(n, 10, 86400)])

\* A blank password keeps the stored one, as a blank API key does.
SmtpForm(on, host, n, password) == Ask(
  Over([smtp_enabled |-> on, smtp_host |-> host, smtp_port |-> Clamp(n, 1, 65535)],
       Secret("smtp_password", password)))

SyslogForm(on, host, n, protocol, fmt) == Ask(
  [syslog_enabled |-> on, syslog_host |-> host, syslog_port |-> Clamp(n, 1, 65535),
   syslog_protocol |-> OneOf(protocol, {"udp", "tcp"}, "udp"),
   syslog_format |-> OneOf(fmt, {"rfc5424", "rfc3164", "cef", "json"}, "rfc5424")])

\* The web form always sends the CA certificate; the organisation's MFA switch is not on it.
HardeningForm(n, on, cert) == Ask(
  [session_timeout_min |-> Clamp(n, 0, 10080), password_min_length |-> Clamp(n, 4, 128),
   password_complex |-> on, ldaps_verify_cert |-> on, ldaps_ca_cert |-> cert])

\* Only valid addresses reach nmap's command line; the scan speed is on a form of its own.
NetworkForm(dns, on) == Ask([dns_servers |-> OneOf(dns, {"resolver"}, "blank"), reverse_dns |-> on])

ScanForm(speed, on, n) == Ask(
  [scan_speed |-> OneOf(speed, {"normal", "fast", "insane"}, "fast"), scan_fanout |-> on,
   fanout_workers |-> Clamp(n, 1, 32)])

AiForm(on, endpoint, n) == Ask(
  [ai_enabled |-> on, ai_endpoint |-> endpoint,
   ai_timeout |-> IF n < 5 THEN 300 ELSE Clamp(n, 5, 600)])

AssetScopeForm(cidrs) == Ask([asset_scope |-> OneOf(cidrs, {"cidr"}, "blank")])

NvdForm(n, key) == Ask(Over([nvd_sync_days |-> Clamp(n, 1, 730)], Secret("nvd_key", key)))

TimezoneForm(tz) == Ask([timezone |-> OneOf(tz, {"UTC", "Istanbul"}, "Istanbul")])

LdapSyncForm(on, period, n) == Ask(
  [ldap_enabled |-> on, ldap_period |-> OneOf(period, {"hourly", "daily", "weekly"}, "daily"),
   ldap_hour |-> Clamp(n, 0, 23)])

\* Two saves, each with its own load and commit.
LicenseForm(pubkey, key) ==
  [Ask([license_public_key |-> pubkey]) EXCEPT !.then = [license_key |-> key]]

UpdateForm(on, url, apply) == Ask(
  [check_enabled |-> on, check_url |-> OneOf(url, {"mirror"}, "default"), apply_enabled |-> apply])

\* record_cve_sync and record_exploit_sync, at the end of their jobs.
CveSynced(now)     == [Ask([cve_last_sync |-> now]) EXCEPT !.kind = "job"]
ExploitSynced(now) == [Ask([exploit_last_sync |-> now, exploit_last_check |-> now,
                            exploit_up_to_date |-> TRUE]) EXCEPT !.kind = "job"]

\* compute_up_to_date: against the upstream date where it is known (0 for unknown), else by age.
\* A tick of time stands for more than the 26 hours.
UpToDate(last, remote, now) ==
  /\ last # 0
  /\ IF remote # 0 THEN last >= remote ELSE last = now

Freshness(remote, now) == [Ask([remote |-> remote, now |-> now]) EXCEPT !.kind = "freshness"]

\* run_update_check: forced by an admin, or the daily job, which an admin can switch off.
UpdateCheck(force, status) == [Ask([force |-> force, status |-> status]) EXCEPT !.kind = "check"]

\* What can arrive: a set to assign and one for a second save, or a job with its own inputs.
Proper(form) ==
  /\ form.kind \in {"form", "job", "freshness", "check"} /\ Allowed(form.then)
  /\ form.kind \in {"form", "job"} => Allowed(form.set)

ASSUME SettingsAssumption == MaxCalls \in Nat /\ \A form \in Forms : Proper(form)

----------------------------------------------------------------------------
(* The writers *)

NoForm == [set |-> <<>>, then |-> <<>>, kind |-> "form"]
Idle   == [at |-> "idle", form |-> NoForm, set |-> <<>>, load |-> <<>>, raced |-> {}, old |-> FALSE]

There == row # <<>>
Web(w) == job[w].form.kind = "form" \/ (job[w].form.kind = "check" /\ job[w].form.set.force)

Arrive(w, form) ==
  /\ job[w].at = "idle" /\ calls < MaxCalls /\ calls' = calls + 1
  /\ job' = [job EXCEPT ![w] = [Idle EXCEPT !.at = "select", !.form = form]]
  /\ UNCHANGED <<row, tzCache, aiCache, behind>>

\* What a writer will assign, known once it has the loaded row.
Asked(form, load) ==
  CASE form.kind = "freshness" ->
         [exploit_last_check |-> form.set.now,
          exploit_up_to_date |-> UpToDate(load.exploit_last_sync, form.set.remote, form.set.now)]
    [] form.kind = "check" ->
         Over([check_status |-> form.set.status],
              IF form.set.status = "ok" THEN [latest_version |-> "v2"] ELSE <<>>)
    [] OTHER -> form.set

Loaded(w, cols) ==
  [job[w] EXCEPT !.at = "resume", !.load = cols, !.set = Asked(job[w].form, cols),
              !.raced = {}, !.old = FALSE]

\* get_settings: the row, or an INSERT of the defaults.
Select(w) ==
  /\ job[w].at = "select"
  /\ job' = [job EXCEPT ![w] = IF There THEN Loaded(w, row) ELSE [job[w] EXCEPT !.at = "insert"]]
  /\ UNCHANGED <<row, tzCache, aiCache, calls, behind>>

\* Of two first readers the second has its INSERT refused, and its request ends there.
Insert(w) ==
  /\ job[w].at = "insert"
  /\ \/ There /\ job' = [job EXCEPT ![w] = Idle] /\ UNCHANGED row
     \/ ~There /\ row' = Defaults /\ job' = [job EXCEPT ![w] = Loaded(w, Defaults)]
  /\ UNCHANGED <<tzCache, aiCache, calls, behind>>

\* The coroutine goes on with what it loaded, and leaves that in the web process's caches.
CacheFrom(w, cols, old) ==
  IF Web(w) THEN tzCache' = cols.timezone /\ aiCache' = cols.ai_enabled /\ behind' = old
  ELSE UNCHANGED <<tzCache, aiCache, behind>>

SwitchedOff(w) ==
  /\ job[w].form.kind = "check" /\ ~job[w].form.set.force /\ ~job[w].load.check_enabled

Resume(w) ==
  /\ job[w].at = "resume"
  /\ CacheFrom(w, job[w].load, job[w].old)
  /\ job' = [job EXCEPT ![w] = IF SwitchedOff(w) THEN Idle ELSE [@ EXCEPT !.at = "commit"]]
  /\ UNCHANGED <<row, calls>>

\* A mistake to catch: the UPDATE carries every column of the row as it was loaded.
ChangedAll(set, load) == Over(set, load)

\* The UPDATE: the assigned columns whose value differs from the loaded one.
Changed(set, load) == [c \in {d \in DOMAIN set : set[d] # load[d]} |-> set[c]]

\* History: the other writers holding a loaded row have been overtaken on these columns.
Overtake(w, now) ==
  [v \in Writers |-> IF v = w \/ job[v].at \notin {"resume", "commit"} THEN job[v]
                     ELSE [job[v] EXCEPT !.raced = @ \cup DOMAIN job[w].set, !.old = @ \/ now # row]]

Commit(w) ==
  LET next == IF job[w].form.then = <<>> THEN Idle
              ELSE [Idle EXCEPT !.at = "select", !.form = Ask(job[w].form.then)]
  IN /\ job[w].at = "commit"
     /\ row' = Over(Changed(job[w].set, job[w].load), row)
     /\ job' = [Overtake(w, row') EXCEPT ![w] = next]
     /\ IF "timezone" \in DOMAIN job[w].set
        THEN tzCache' = row'.timezone /\ UNCHANGED <<aiCache, behind>>
        ELSE IF "ai_enabled" \in DOMAIN job[w].set
        THEN aiCache' = row'.ai_enabled /\ UNCHANGED <<tzCache, behind>>
        ELSE UNCHANGED <<tzCache, aiCache, behind>>
     /\ UNCHANGED calls

SettingsInit ==
  /\ row \in {<<>>, Defaults}
  /\ tzCache = "Istanbul" /\ aiCache = FALSE /\ behind = FALSE /\ calls = 0
  /\ job = [w \in Writers |-> Idle]

SettingsNext == \E w \in Writers :
  \/ \E form \in Forms : Arrive(w, form)
  \/ Select(w) \/ Insert(w) \/ Resume(w) \/ Commit(w)

SettingsSpec == SettingsInit /\ [][SettingsNext]_settingsVars

----------------------------------------------------------------------------
\* No number is outside its limits, and no text that reaches a command line, a socket or a zone
\* table is one the code does not know.
InRange == \A c \in Columns : Fits(c, row[c])

SettingsTypeOK ==
  /\ There => DOMAIN row = Columns /\ InRange
  /\ tzCache \in {"UTC", "Istanbul"} /\ aiCache \in BOOLEAN /\ behind \in BOOLEAN
  /\ \A w \in Writers : job[w].at \in {"idle", "select", "insert", "resume", "commit"}

\* At rest the web process's copies are the row's, unless a request went on with a row that was
\* overtaken between its load and the moment its coroutine resumed.
CacheTrue ==
  There /\ ~behind /\ (\A w \in Writers : job[w].at \in {"idle", "select"})
     => tzCache = row.timezone /\ aiCache = row.ai_enabled

\* A save changes no column but its own, and leaves each of those as its form asked, unless
\* another save of that column came between its load and its commit (core/app_settings.py).
SavesKept ==
  [][\A w \in Writers : job[w].at = "commit" /\ job'[w].at # "commit" =>
        /\ \A c \in Columns \ DOMAIN job[w].set : row'[c] = row[c]
        /\ \A c \in DOMAIN job[w].set \ job[w].raced : row'[c] = job[w].set[c]]_settingsVars

=============================================================================
