# Kangalis core: TLA+ models and proofs

Kangalis is a network vulnerability scanner: a FastAPI process (pages and REST
API), Celery workers, Celery beat, PostgreSQL, Redis as broker and for counters,
and nmap as a subprocess. This directory holds TLA+ modules for the parts of it
that are hard to get right and hard to test: processes that share database rows,
cookies and Redis keys without locking them, work that is split, lost, repeated
or cut short, and audits that conclude something from answers they may not have
had. The modules are translated from the Python code under
`src/src/cybersectool/`; paths below are relative to that package.

Contents: [components](#1-the-system) · [what is hard](#2-what-is-hard-here) ·
[modules](#3-the-modules) · [runs](#4-the-runs) · [fairness](#5-fairness) ·
[proofs](#6-what-is-proved) · [only model-checked](#7-what-is-only-model-checked) ·
[traces](#8-behaviour-the-models-show) ·
[not modelled](#9-what-is-not-modelled) · [plan](#10-plan).

## 1. The system

```
 browser / REST / MCP            beat (celery_app.py)
        |                          | every 60 s, hourly, daily
        v                          v
  FastAPI process --- delay() --> Redis --- prefork workers --> nmap, sockets, HTTP
     |       |                     |             |
     |       +--- lock-out, codes -+             |
     +-------------- PostgreSQL -----------------+
     +--- Docker socket (self update), LDAP, hosts under audit
```

A task is acknowledged *before* it runs (Celery's default; `tasks/celery_app.py`
does not change it), so a lost worker loses its task; a message no worker has
started within the visibility timeout of Redis is delivered again. Every web
request and every task opens an SQLAlchemy session of its own, with
`expire_on_commit=False`: an object once loaded keeps the values it was loaded
with until it is refreshed, and a commit writes only the columns that were
changed on it. A browser's session is a signed cookie that every response writes
back whole. Most of what follows comes from these facts.

| component | state | operations | talks to | what makes it correct |
|---|---|---|---|---|
| network scan (`tasks/network_scan.py`) | `scans` row, Celery task ids, nmap processes | parent task, discovery in batches, fan-out to children by host or port, chord, merge, processing, Stop polls | web requests through the row and `revoke`; inventory, vulnerabilities, batch mail by calls | a Stop is never lost; nothing is exploited after it; "completed" means that all blocks returned; one task processes the results |
| scan row (`core/scans.py`) | `status` | create, set status, progress, delete | every task, every page | only legal moves between statuses |
| ping, web and SCA tasks (`tasks/ping_scan.py`, `web_scan.py`, `sca_scan.py`) | `scans` row, task id, message, worker memory of revoked ids | start, rescan, delivery, the task to its last write, Stop, Delete, revoke | scan row | a Stop in time counts, a revoked message never runs, "completed" has results, every scan comes to rest |
| inline audits (`dispatch.py`, `scanners/credentialed.py`, `winrm.py`, ...) | one `scans` row per host, findings, the result page | eleven doors, each a loop over hosts and credentials inside one request | scan row, findings, compliance | at most one row is left unsettled; the result agrees with the row; credentials in order |
| host and web checks (`scanners/*.py`, `core/compliance.py`) | findings, compliance rows | probes, evaluation, mapping to controls | called by audits and tasks | nothing is reported or passed that was not read |
| batch mail (`core/notify.py`, `core/scan_batches.py`) | `scan_batches.notified_at` | create batch and members, completion hook, mail | each member's worker | one mail per batch, when all members are at rest |
| vulnerability life cycle (`core/vulnerabilities.py`) | `vulnerabilities` row: status, domain, coverage, dates | sync after each scan, resolve pass, triage by analysts | scans and analysts through the row | what is seen is not resolved, triage is kept, only reached hosts resolve |
| inventory (`core/assets.py`, `core/scan_policy.py`) | `assets`, `services` | plan, split into children, merge, upsert, prune | scans through the tables | no real service is deleted, no ghost survives |
| schedules (`core/schedules.py`, `tasks/scheduled.py`, `dispatch.py`) | `scheduled_scans.last_run`, `is_active`, `start_at` | create, switch, delete, the minute check, dispatch, inline audit | beat, workers, users | each due schedule runs once per period, none starves, nothing half-made is left |
| accounts and doors (`core/users.py`, `login_guard.py`, `mfa.py`, `web/routes.py`, `api/app.py`, `tasks/ldap_sync.py`) | users, tokens, cookies, Redis counters, locks and codes | sign-in, second factor, lock-out, administration, LDAP import and sync, consent, nine ways to start a scan | web, API, beat, Redis, LDAP | a lock holds, an administrator remains, every scan was started by somebody who might |
| feeds (`tasks/cpe_sync.py`, `core/cve_backfill.py`, `tasks/epss_refresh.py`, `intel/nvd.py`) | Redis lock and progress hash, CVE tables | click, backfill, cancel, daily sync, EPSS refresh | web page, beat | one backfill at a time, cancel is obeyed, the store follows NVD |
| CVE matching and risk (`core/cpe.py`, `intel/cpe.py`, `core/risk.py`) | none | version order, criteria, candidates, scores, windows and pages | processing, feeds | agrees with the range it is given |
| self update (`core/self_update.py`) | the updater container, the settings row | check, button, Docker calls, restart | web, Docker daemon | a running update is not killed |
| settings (`core/app_settings.py`) | one row, two cached copies | thirteen forms, four jobs | web, tasks | a save changes its own columns only, the copies follow |
| scope and zones (`core/scope.py`, `core/zones.py`) | the active policy | replace, check a target | every dispatch and task | every probe inside it |
| licence gate and exploitation seam (`core/exploit_seam.py`) | plug-in, not in the repository | called from processing | network scan | only when licensed, allowed and not stopped |
| local AI, mail, syslog, reports, MCP, health, CLI scripts | caches and logs | text and I/O | - | see section 9 |

`PROJECT.json` lists all components with their status.

## 2. What is hard here

* **Stop against work.** Stop and delete are web requests that write the row a
  worker is working for. The worker sees them only where it refreshes the row,
  and each kind of scan looks at other places, or nowhere.
* **Read, wait, write.** Sync, triage, the completion hook, the upserts, the
  minute check, settings forms and the pages of an administrator read rows,
  await something, then write what they decided.
* **Splitting and merging.** A scan's ports or hosts are dealt to children, and
  what a child did not report is deleted from the inventory: a lost child must
  not count as "everything closed".
* **Partial failure.** nmap times out, a child raises, the broker refuses a
  message, a probe of an audit is not answered, one Redis call of four fails.
* **Repetition.** A message is delivered twice, a button pressed twice, a check
  is sent every 60 seconds while the last one may still be at work.
* **Crashes.** Early acknowledgement and a transaction per check decide what a
  lost worker forgets; a killed updater or backfill leaves flags behind.
* **Boundaries.** Versions that end in zeros or letters, windows of 120 days,
  budgets of pages, ports dealt to more workers than there are ports.

The hazards are listed one by one, each at its line, in `PROJECT.json`.

## 3. The modules

Modules are written for both TLC and proof: parameters are CONSTANTS under named
assumptions, each operation is one action, invariants are conjunctions of
named parts, and nothing is RECURSIVE. A definition whose comment begins with
"Mutant" or "A mistake to catch" is never part of a specification: it is the
same operation with a plausible bug, kept beside the original to show that the
properties would notice.

| module | models | theorems in |
|---|---|---|
| `ScanRow` | the abstract life of a scan's status, implemented by the next three | (those of the three) |
| `NetworkScan` | one execution of a network scan from dispatch to its last write, with Stop, delete and revoke | `NetworkScanProofs` |
| `ScanDeliveries` | a network scan whose message may be delivered a second time: two executions over one row | `NetworkScanProofs` |
| `ScanTasks` | ping, web and SCA scans: form, message, deliveries, task, Stop, restart | `ScanTasksProofs` |
| `HostAudits` | audits inside a request: eleven doors, hosts, credentials | `HostAuditsProofs` |
| `HostChecks` | what fifteen audits probe, conclude and store | `ResultProofs` |
| `BatchNotify` | the completion mail of a batch | `ResultProofs` |
| `VulnSync` | one vulnerability of one asset under scans and triage | `ResultProofs` |
| `HostInventory` | planning, probing, merging, storing and pruning for overlapping scans | `HostInventoryProofs` |
| `Scheduler` | beat, the minute check, dispatch of due schedules | `SchedulerProofs` |
| `Access`, `ScanDoors` | accounts, sessions, sign-in, administration; the doors in front of every scan | `AccessProofs` |
| `NvdFeeds` | backfill, daily sync, EPSS refresh and a scan's live lookups on one CVE store | `FeedsProofs` |
| `SelfUpdate`, `AppSettings` | the update button; the settings row | `FeedsProofs` |
| `Feeds` | the last three together, and the forms and jobs that write settings | `FeedsProofs` |
| `CveMatch`, `CveProbe` | versions, criteria, matching, risk, windows and pages, as operators; one question put to them | `FeedsProofs` |
| `MC*` | small values of the constants for TLC; `MCAccess` and `MCFeeds` also compose | |

**NetworkScan.** The actors are the dispatching request (`dispatch.py`, or
`api/app.py`, which stores no task id), the parent task, the children, the chord
callback and the web requests (`web/routes.py`, stop and delete). `row` is the
status column; `stage[t]` is where task `t` stands in `_run`, `_scan_one_block`
or `_process_results`; `cache[t]` is the status in the identity map of `t`'s
session, which is what `get_scan` answers once the object is loaded. `Progress`
is `set_scan_progress` (write, commit, refresh: the one place where a running
task learns the truth), `SetStatus` is `set_scan_status`. `nmap[t]` and
`cancel[t]` are the subprocess and the event that makes `run_nmap` kill it. The
plan of a scan (one nmap, discovery in chunks, hosts dealt, ports dealt) is
chosen freely in `Init`, since the settings and the target decide it. Answers of
the network, CVE matching and the plug-in are choices. `StartRunning` writes
"running" over whatever the row holds, as `_run` (`tasks/network_scan.py:292`) and
`set_scan_status` (`core/scans.py:61`) do.
`stop` is a history variable: "binding" for a Stop that arrives before the last
look at the status, "strict" for one that arrives before exploitation.

**ScanDeliveries.** A message that waits behind a busy worker is delivered again
after the visibility timeout, and both copies run. The first execution is
`NetworkScan` with its requests; the second is an INSTANCE of it (`Second`) with
stages, sessions, nmap processes and cancel events of its own, over the same row,
plan, task id and revoke. `Redeliver` starts it while the message is queued, the
two then interleave freely, and nothing in the code asks whether the scan has run
before: the second may begin when the row says "completed".

**ScanRow** says what pages and the API may rely on: no return to "pending", no
completion without a start, no life after deletion. It is deliberately weak
where the code is: a start may follow a Stop it did not see, and a late failure
may replace any status. Network scans, single-task scans and inline audits are
shown to implement it, each through its own mapping of `row`; a message delivered
twice is the named exception in both task modules (`Restart`, `twice`).

**ScanTasks.** Start and rescan create the row, send the message and, for ping
alone, store the task id in a later commit (`launch`). `stage[s][d]` is one
*execution*: there is one per delivery of the message. `Redeliver` is the second
delivery after the visibility timeout, `Restart` the restart of the container
that runs all workers: running executions are lost, and so is the list of
revoked ids. `cache` is again the status a session last loaded, `left` the
blocks a ping scan has still to begin. Only the ping task looks at the status,
at the top of its loop; web and SCA tasks never do, and the model keeps that.
`Displayed` is the shortening of a long target that a rescan then takes for the
target. History: `heeded` (a Stop with two blocks to begin), `caught` (revoked
before any worker took the message), `twice`, `hit`.

**HostAudits.** A request is a process that handles its hosts in order
(`hand`) and for each its credentials in order (`tries`): the seven panels with
one row per host, the sweep in its two forms, the API's credentialed and
hardening audits. `Refused` is what the code catches, `Cut` everything else: the
request ends where it is, with its row as it is. Two users press Stop or Delete
beside it; the audit never looks. `verdict` is what the result page says, `notes`
the findings, `logins` every credential tried with its outcome.

**HostChecks.** A device is a set of facts. Each audit (`PlanOf`) reads groups of
facts by probes in the order of the code; a probe that is not answered leaves
its facts in neither `yes` nor `no`, and evaluation goes on with defaults, as
the code does. `Flagged` translates the evaluation of the fifteen audits,
`Reported` what each tells the compliance tables, `RowsOf` and `Store` the
replacement of rows by framework. `Weak` is the reference: what is wrong with
the device. `Presumed` and `PassedUnread` list, by name, every check that takes
an unread fact for a bad or a good one. Of SMB the model keeps which session
listed the shares (null, guest, the given account), because "hidden" is what
answers to a name and is in no listing (`SmbHidden`, `scanners/smb_audit.py:361`):
a listing that failed silently (`:269`) makes ordinary shares hidden.

**BatchNotify.** `worker[m]` is the worker of member `m`; the hook is split where
it awaits: `ReadBatch` (the batch row, with `notified_at`), `ReadMembers`,
`Claim` (commit of `notified_at`), `Send`. Network members look for a Stop
before the hook (`Watchful`), web members do not. The history `met` says
that two hooks have each read the other as running.

**VulnSync.** A transaction is a read (`ReadSync`, `ReadTriage`) and a commit
(`Sees`, `Misses`, `WriteTriage`). `Column` is the ORM's unit of work: a column
is written only if its wanted value differs from the value *loaded*, and is
applied to whatever the row holds by then. `bumped` abstracts
`last_seen >= started_at`, which decides whether a host counts as reached. A run
starts from every row earlier scans can leave. Transactions overlap freely; the
history variables `crossed` (another commit fell into this transaction), `mixed`
(a crossed transaction has written) and `helped` (another scan moved
`last_seen`) let the properties say exactly when a promise is at risk.

**HostInventory.** `open` and `awake` are the network, `assets` and `inv` the two
tables, `req[s]` what the user asked for. `Slice` is the round robin of
`split_port_specs`, `Probed` what nmap is really given, `Examined` what the prune
believes was examined (`examined_port_scope`); the two are computed apart in the
code, and apart here. `Probe` is one child's nmap; `Lose` a child that ends in an
exception and returns an empty list; `mute` records hosts that nmap lists as up
without an answer (after `-Pn` or `--host-timeout`). Every select and every
commit of `store_results` is a step, so that two scans meet in all ways,
including the unique-key clash (`stage = "clash"`).

**Scheduler.** One tick per beat. `todo[w]` are the due rows a check has loaded,
`stamped[w]` those whose `last_run` is set in the session but not committed:
every commit on the way (`create_scan`, `create_batch`, `log_action`) carries
them. `Abort` is the rollback when anything raises. `Audit` is the credentialed
audit that runs inside the check; `Faulty` are the schedules whose stored secret
cannot be decrypted, so that it raises. Ages stand for dates: `age` is now minus
`last_run`, `elapsed` how far the check's own `now` lies back.

**Access and ScanDoors.** A request is a process with copies: of the cookie it
arrived with, of the rows it loaded (`me`, `seen`), of what a door granted
(`job`). `Answer` is all that is left of it when only its response is under way;
`Reply` writes the cookie back whole. `Flush` is the unit of work again. The
guard is four Redis calls in four steps (`Incr`, `Expire`, `SetLock`, `Drop`),
each of which may fail (`RedisFails`) or be the last before a restart (`Abort`);
a mailed code is read in one call and deleted in another. `ScanDoors` holds what
the five web forms and four API endpoints ask of the user and which intensity
they give the scan, one rule per door, as pure operators. Assumptions: a name
belongs to one account for ever (a deleted name is not created again), and the
disclaimer is enforced (`disclaimer_enforced`, the default).

**NvdFeeds.** A backfill is one life: click, message, lock, hash, windows,
release; `kg` is the progress hash, `lock` the key of the single run. Every
Redis call is a step and may fail and be skipped, keys expire, a worker is lost,
the broker refuses (`mishap` collects the causes). The store is a table of
versions: `nvd[c]` what NVD has, `cve[c]` what the row was written from, with its
criteria rows. The daily sync fetches published, modified and rejected CVEs
apart, merges them and takes no lock; the EPSS refresh loads, waits and commits
once. A vulnerability scan that looks its services up at NVD writes CVEs and
criteria by the same `upsert_cve` (`LookupPut`, `LookupKeep`): any version NVD has
published, at any moment. Histories: `crossed` of the sync and of the refresh are
the CVEs others wrote since each was loaded or listed, `owed` the backfills an
accepted cancel should still stop; `Forgive` takes a backfill off that list when
the flag it was promised is gone.

**SelfUpdate, AppSettings, CveMatch.** Each click on Update is a request that
talks to the Docker daemon call by call and ends by starting a container under a
fixed name. Every writer of the settings row loads it, normalises its form and
commits the changed columns; the web process keeps copies of two of them. In
`CveMatch` a version is the sequence of tokens `_version_tokens` cuts it into;
`Within` is the reference order, `Applies` the translated code. The arithmetic has
no state of its own: `CveProbe` holds one question, about a version and a criterion,
a score, or days and pages, and the three things its answer must be. `ProbeSpec`
asks anything; `MCFeeds` asks what TLC can list, and checks that these are such
questions (`ProperProbes`).

## 4. The runs

States are distinct states found by TLC (with symmetry where the table of bounds
says so).

| run | states | shows |
|---|---|---|
| `scan_safety` | 1,244,590 | delivered once: a Stop is not painted over, exploitation never follows it, "completed" is about the whole scan, an nmap process without its task, or an open row nobody works on, is left by a lost worker or a revoke only; delivered once or twice: the row lives the life of `ScanRow` but for the restart by the second delivery, and each execution hands over or processes, never both |
| `scan_live` | 490,400 | one delivery: a Stop ends the parent's nmap however long nmap would run, unless a Delete follows before the next poll; every dispatched scan comes to rest unless a revoke was sent or a worker lost |
| `scan_tasks` | 896,976 | ping, web and SCA: a Stop in time is honoured, a message revoked while queued never runs, "completed" has results, the row lives the life of `ScanRow` unless the message is delivered twice, every scan comes to rest unless a mishap or a revoke hit it |
| `audit_doors` | 78,525 | one host at most is left unsettled, the result agrees with row, findings and logins, credentials are tried in order and never after one that worked, every request answers for every host or is cut |
| `host_checks` | 882,505 | an audit whose probes were all answered reports exactly the weaknesses of the device; without an answer nothing is reported or passed but by the listed presumptions; of a sweep, the last host's compliance rows remain |
| `tls_pass` (violated) | about 10,000 until the violation | a web scan of an http target passes TLS controls |
| `batch_mail` | 112,815 | one mail at most and only when the others are at rest, in a batch nobody stops; silence has a cause |
| `vuln_life` | 2,620,329 | triage and sightings survive a sync unless another commit crossed it; a host that did not answer keeps its open findings unless another scan reached it |
| `inventory_prune` | 2,122,811 | nothing is pruned without cause, an undisturbed scan leaves the inventory equal to the network, storing clashes only when scans meet |
| `schedule_due` | 479,143 | a repeat has a cause, debris has a mishap behind it, nobody starves but those behind a raising schedule |
| `access` | 709,683 | every scan was earned, the last administrator is only lost by a request of somebody who no longer was one, a lock ends by its time or an earlier sign-in, a counter without an end has a lost call behind it |
| `feeds` | 835,047 | one backfill at a time, a cancel is obeyed, the CVE store follows NVD where one writer was at work, a running updater is not killed, a save changes what it should, and the arithmetic of versions, scores, windows and pages |

The violated run states what a comment at the call promises and shows the trace that
breaks it (section 8). All other runs hold.

Bounds, and why they are enough:

| run | instance |
|---|---|
| `scan_safety` | every plan, two children, two web requests, two discovery batches, one crash; the message delivered twice for the single-pass plan only; symmetric in children and in requests |
| `scan_live` | every plan, two children, two requests, one discovery batch, one crash |
| `scan_tasks` | one scan of any kind, up to three blocks, two deliveries, two requests, one mishap; a target list is shown by its first entry (`Shown` = 1) |
| `audit_doors` | one request at any of eleven doors, two hosts, two SSH, one WinRM and one RDP credential, two buttons |
| `host_checks` | one of fifteen audits of a device with two weaknesses or unknown settings, or two audits of a sweep with one such between them; one probe without an answer; symmetric in the hosts |
| `tls_pass` | web audits only |
| `batch_mail` | three members (one a web scan), one Stop, two failures or crashes |
| `vuln_life` | two scans and one analyst, started from every row earlier scans can leave; symmetric in the scans |
| `inventory_prune` | two scans, two hosts, three TCP ports and one UDP port, five kinds of request, two children, one change in the network, one lost child, the slow profile; symmetric in the scans |
| `schedule_due` | two workers, one single schedule and one periodic template with credentials that may raise, one mishap |
| `access` | four plays with three accounts, two browsers, two requests, lock-out after two failures; symmetric in the requests |
| `feeds` | six plays: two CVEs in two versions, two backfills of two windows, three clicks, two writers and three calls with 21 forms and jobs; symmetric in backfills, clicks and writers |

* *Actors.* Each race the code has is between two sessions over one row, cookie
  or key, and the third party, where there is one, is there: two children so that
  one can end while the other runs, two web requests so that a Stop meets a
  delete, three members so that one is missing while two are in the hook, three
  clicks so that a third finds what two have left.
* *Crashes, Stops, losses, mishaps, changes* are one or two. A second one would
  end or disturb what the first could have.
* *Long histories* are replaced by free beginnings where that is exact: a
  vulnerability starts as any row, a scan in any plan, a device with any facts.
* *Loops.* Two discovery batches, three blocks, two windows, two hosts: the loop
  is entered, repeated and left; a ping scan needs three blocks for a Stop to
  come with two still to begin after the first.
* *Ports.* Two workers deal three ports as two and one; `Common` and `Top` differ
  in both directions; UDP is present.
* *Time.* `MaxAge` = 2 with a period of two ticks: too early, just due, overdue.
  `MaxWait` = 1: `start_at` ahead and past. `MaxChecks` = 1: a second waiting
  check finds what the first leaves. Redis keys may expire at any moment.
* *Plays.* The parts that `MCAccess` and `MCFeeds` combine share no state or only
  read each other's, so their state spaces are added up. In `access`, outside the
  door play, people sign in one at a time with the right password and Redis
  answers; a request is cut off only where it leaves a counter without an end;
  that counter stops one past the threshold. In the fill play of `feeds` at most
  two mishaps strike, a failing Redis call last, and windows bring no CVEs; the
  store play has one backfill window beside the daily sync, and scans look one of
  the two CVEs up, while the sync runs and has not been crossed there yet.
* *Second deliveries.* In the fan-out plans the second parent would hand over to
  children of its own and add no statement about the row that the single pass does
  not make; the theorems of section 6 cover every plan.
* *Versions* are of three lengths, with and without a letter, and every bound of a
  criterion is from a small set; page counts lie on both sides of each limit.

The proofs of section 6 have none of these bounds.

Deadlock is checked in `schedule_due`, where the clock never stops, and in
`access`, where a new request can always arrive. Scans, batches, transactions,
audits and calls of the other modules have a finite life, and their end is a
state without successor.

## 5. Fairness

* **NetworkScan**: `WorkFairness` gives weak fairness to what Celery and the event
  loop keep doing: an enqueued task is picked up, a running task takes its next
  step, the polls repeat, the chord fires, a killed nmap ends, a web request that
  has begun finishes. Nothing says that a user presses Stop, that an exception or
  a crash occurs, or that a revoke is delivered. Whether nmap ever ends is *not*
  assumed, except in `ComesToRest`, which has `NmapTerminates` as its premise
  (nmap is given a finite target list and, in most profiles, time-outs). Both
  liveness properties are about one delivery. The code does not recover from a lost
  worker, so `ComesToRest` excepts it; that nothing but a lost worker or a revoke
  leaves a row to nobody is `StuckNeedsCause`, a safety property of `scan_safety`.
* **ScanTasks**: what is queued is sent and each delivery takes its next step: the
  blocks of a ping scan, HTTP calls and file reads of the others all end. A
  redelivery, a lost process, a Stop, a Delete or a restart are never owed; a
  request that has begun is not owed its end either.
* **HostAudits**: a request takes its next step, since every connection of an
  audit has a timeout. Buttons are never owed.
* **Scheduler**: beat ticks and each worker goes on with the check it holds. An
  audit inside it may raise.

The other modules have safety properties only and assume no fairness.

## 6. What is proved

All theorems are checked by TLAPS for every value of the constants that satisfies
the module's assumptions, which only say that kinds of actors are disjoint,
bounds are naturals, sets that are counted are finite, the placeholders `nobody`
and `unseen` are no host and no device, and forms write what their columns hold
(`Proper`, below). Every inductive
invariant was checked by TLC before it was proved: in the runs, or (those the proof
modules define: `KillPossible` of `NetworkScanProofs`, `SoundInv` of `ScanTasksProofs` and of `AccessProofs`, `AuditInv`
and `LoginInv` of `HostAuditsProofs`, `CalmInv` of `HostInventoryProofs`, those of
`FeedsProofs`, `ReadInv` and `StoreInv` of `ResultProofs`) as an additional invariant of the run of the module, which any
reader can repeat.

* **NetworkScan** (`TypeCorrect`, `ScanInvariant`). `StopHonoured` is not inductive:
  one must know that no task past its last look at the status is still to write
  "completed". `StopInv` adds exactly that (after a Stop, a driver at "notify" or
  "finish" exists only if the row is gone; a failure is written only by a task
  that is then done) together with who drives whom (parent before the hand-over,
  merge after all blocks). `SessionInv` and `RowInv` tie what a session has cached
  to the row, and `AtWork` says who is still to settle an open row, from which
  `StuckNeedsCause` follows: nothing but a lost worker or a revoke leaves it to
  nobody.
* **ScanDeliveries** (`DeliveriesInvariant`, `StopIsHonoured`, `StopBarsExploitation`,
  `CompletedIsFinished`, `ScanRowImplemented`). The four claims about one delivery
  say so (`twice \/ ...`); the invariant and `ScanRowLife` hold whatever is delivered.
  Until the message comes again the second execution is absent (`SecondAbsent`) and
  the invariant of `NetworkScan` is carried by its own step lemma. Afterwards less is
  true of each execution, and what is left is proved for both: the types, that
  nobody who drives has children at work, and that no task is past its scope check
  while the row is pending. The steps of `Second` are the same actions over other
  variables; each of its lemmas repeats one of the first execution. The refinement
  has one exception, `Restart`: a message delivered twice writes "running" over a
  finished row.
* **NetworkScan, the kill** (`StopKillsScan`: `LiveSpec /\ []KillPossible =>
  StopKillsParentScan`). The one liveness property that two steps of weak fairness
  reach: a poll that sees "cancelled" sets the event, the set event ends the
  process. `UnseenStep` shows that until the poll no step takes the Stop away but a
  Delete, since nobody else writes the row while the parent runs nmap (`StopInv`:
  no child, so no merge, and both drivers are away from a status write);
  `SeenStep`, that nothing clears the event. ENABLED is opaque to the provers, so
  that the two steps are possible where they are due is a premise, `KillPossible`,
  which TLC finds true as an additional invariant of `scan_live`, where a worker may
  crash.
* **ScanTasks** (`TasksAreSound`, `TasksInvariant`, `PingStopIsHonoured`,
  `RowIsScanRow`). The invariant is stated per scan. A "running" row is owned by
  an execution that knows of it, or a mishap is recorded; a message caught by a
  revoke stays absent, queued or dead; after a Stop in time every execution can
  only end or fail; and with one delivery nobody begins a row that was already
  written.
* **HostAudits** (`AuditInvariant`, `DoorsInvariant`, `RowIsScanRow`). A request's
  place fixes what its hosts look like: hosts before the one in hand are settled
  (`Past`), hosts after it untouched (`Ahead`), and the one in hand is at the
  point its row, findings and logins say (`Point`). The logins have an invariant of
  their own (`LoginsInTurn`): only the last login of a host can have worked, what a
  zone sweep has tried is the beginning of one of its four lists of credentials, and
  what is left of the list follows on it. `LoginsAreInOrder` then needs the
  hypothesis `EachOnce`, that no credential is listed twice: a sweep over several
  zones drops repeated ones (`web/routes.py:2358`), the page of a zone has one box
  per credential, but the API keeps a list as it was sent, and for a zone with a
  repeated credential the property is false.
* **BatchNotify** (`MailInvariant`, `OneTimely`, `SilenceHasCause`). A hook that
  decides to send has seen all others terminal; a terminal member has returned;
  so two hooks can never both be past the decision, and whoever reads the batch
  row afterwards sees the mark (`Claims`). `Delivery` follows the mail the other
  way: as long as nothing went wrong, some member is still to bring it, or two
  hooks crossed.
* **VulnSync** (`SyncInvariant`, `PromisesKept`, `ClosedHostsStay`). An open
  transaction nobody crossed finds at commit the row it read; status and dates go
  together until a crossed one has written; and a host that did not answer is
  only taken for reached when another scan moved `last_seen`.
* **HostChecks** (`ChecksInvariant`, `FullReadsAreExact`, `VerdictsAreNotBlind`). TLC
  sees devices with two oddities; the proofs have every device, every choice of
  unanswered probes and every number of hosts. `Known` says what an audit may have read
  at any point of its plan: only what the plan asked so far and the device shows
  (`Within`, `Truly`), the facts of one answer together or not at all
  (`Together`), and, where one connection carries every probe, all of what was
  asked (`Complete`). It is inductive because an answer adds facts of one probe
  only; what each plan asks is a lemma of its own, by joining plans (`PlanJoins`).
  A false alarm is one of eight that presume the worst of a fact that was not read,
  "hidden" behind a lost share listing among them.
  Without `Together` the claim would be false: a Cisco audit that had read one
  line of a configuration and not the next would pass the rest. The verdicts are
  then a lemma per door (`SmbVerdicts` to `WebVerdicts`) from `Known` and the end of
  the plan alone. For the tables, `StoreInv` says that every finding is owned by a
  stored host that shows it and that a compliance row never stands without the
  other rows of its host and framework, since they are replaced as a whole.
* **HostInventory** (`SplitIsPartition`, `InventoryInvariant`,
  `NoServiceLostToFailure`, `CompanyInvariant`). First a fact about the split:
  every element of a finite set lies in exactly one slice, for any number of
  slices. Then `Accounted`: a port of a scanned host is known, or still in the
  hands of a child, or the scan is marked broken, and a broken port plan does not
  prune. `CompanyInvariant` shows that a scan by itself finds its rows as it left
  them, so that a constraint fails only where scans meet.
* **HostInventory, what an undisturbed scan leaves** (`CalmInvariant`,
  `InventoryAgrees`). `Agrees` speaks of the end of storing only; `CalmInv` says what
  holds at every stage for a scan that stays undisturbed: what was reported is open
  and within what nmap was given (`Reported`), every host is listed or still in the
  hands of a child (`Covered`), the table agrees with the report on the hosts already
  stored (`StoredRight`), and what was found on the host at hand is in the table or
  about to be (`HandRight`). `Accounted` of the first proof then says that an
  open port nmap was given is in the report, since nothing of it is still out.
* **Scheduler** (`ScheduleInvariant`, `RepeatsHaveCause`, `DebrisIsMishap`). The
  last undisturbed dispatch of a schedule is in its row, or in a check that will
  commit it (`Remembered`); the check's own clock is not older (`NotAhead`); and
  what a lone check has loaded as due and not dispatched is still due
  (`StillDue`). The dispatch step then cannot come too soon.
* **Access** (`CopiesAreSound`, `AccessInvariant`, `EveryLaunchIsEarned`,
  `AdministratorsAreKept`, `LocksAreKept`). The invariant says for each request
  what its copies still guarantee, however old they are. Consent is never
  withdrawn, so a session flag or a loaded row that shows it is right for ever; a
  door's grant stays `Earned`, shown once for the nine doors (`DoorsAsk`); a
  request that is past the lock check with a locked name was early or not
  answered (`Admitted`); and what an administrator's page checked, it checked
  (`Acting`). `SetLock` is the only step that makes the copies of others worth
  less, which is why it has a case of its own.
* **Feeds: the update button** (`UpdateInvariant`, `UpdateIsKept`). A click that is
  about to remove a container, while an updater is running, either saw none because
  it looked before the start, which then wrote it down (`beside`), or its look
  failed (`Looked`). So every removal of a running updater has one of these causes.
* **Feeds: settings** (`SettingsInvariant`, `SavesAreKept`). What a writer loaded
  agrees with the row but for the columns another commit changed meanwhile
  (`Holding`), and the two copies of the web process follow the row unless it is
  marked as behind (`Copied`). The assumption is that each form is `Proper`: it names
  columns of the row and writes values that fit them. For every form operator of
  `AppSettings` that this holds whatever is typed in is a lemma, so the assumption
  only says that forms are made by these operators.
* **Feeds: the CVE store** (`StoreInvariant`, `StoreIsTrue`). `DailyInv` follows the
  daily sync through its lists with every other writer at work, CVE by CVE: of a CVE
  nobody else has written since the sync loaded it, what is yet to be written is
  still held, what was written is in the store with the criteria of that version and
  no others, and what was rejected is gone at the end. `RiskInv` does the same for
  the EPSS refresh. `Beside` is what a writer next to them does to either: it marks
  the CVE as crossed and touches no other, so one lemma (`BesideKeeps`) serves
  backfills and scans alike.
* **Feeds: backfills** (`RunsInvariant`, `BackfillsExclude`, `CancelIsHonoured`,
  `FeedsInvariant`). `LockInv` ties the lock to the stages of its owner, in three
  parts with different excuses: an owner has the lock unless Redis failed or a key
  lapsed, the lock has an owner at work unless Redis failed or a worker was lost,
  and a hash that says "active" has a backfill that will yet speak for it unless a
  broker, Redis, a lost worker or a late click came in between. Mutual exclusion is
  then that two owners would both be the value of one key. `CancelInv` says where a
  cancel is while it is owed: its flag stands in the hash, or the reset that removed
  it has it in hand and will put it back, or the backfill has already turned away.
  A cancel is forgiven one by one, when its own flag is lost: wiped by a later click
  on start, set inside the window of `begin()`, or in the hands of a worker that is
  killed there. The next cancel is held to again; only a failing Redis and a lapsed
  hash excuse whatever follows.
* **Feeds: the arithmetic** (`ArithmeticHolds`, from `RiskIsMonotone`, `WindowsTile`,
  `OwnBudgetSuffices`, `SharedBudgetSuffices`, `CompareOrders`, `CompareMirrors`,
  `CriteriaApplyRightly`). TLC asks a few hundred questions; the theorem is
  `ProbeSpec => []ArithmeticTrue`, for every score, probability, severity and exploit
  level, any number of days, any list of windows, any service, and versions of any
  number of numbers with or without a letter.
  *Versions.* `DottedShape` describes such a version by its numbers and its letter.
  `AlignedLaw` says what two versions look like at one position when no letter meets a
  written-out zero (`Misaligned`, the exception section 8 describes); `NumbersCompare`
  and `LettersCompare` turn the first part that differs into the first position that
  differs, a missing token read as zero, and `FirstDecides` into the answer of
  `compare_versions`. The least such part exists by `Least`. A criterion is then right
  bound by bound, and `MatchLaw` carries it through the candidates of a service to the
  offline and the online match. `CompareMirrors` needs no alignment.
  *Pages.* A shared budget is spent by a recursive function, and what that computes for
  every list takes induction: `Induction` is stated for a set instead of a predicate and
  rests on the least element of a set of naturals (`Least`), which follows from
  `WFMin` and the well-foundedness of <. `BudgetLaw` shows by it that a function with
  the recursive equation exists, and `SharedBudgetSuffices` that each window still
  finds eight pages while no older one took more.

* **Progress** (`ChecksDoAdvance`, `TasksDoAdvance`, `RequestsDoAdvance`,
  `DoneIsAnswered`). The safety half of three liveness properties, as action
  properties. A running check comes nearer to the end of the schedule in hand with
  each of its steps, leaves it only with `last_run` set, keeps what it has set until a
  commit, and ends early only for a mishap, a deleted row or a faulty audit in hand
  (`ChecksAdvance`). An execution of a ping, web or SCA task never goes back but
  through the ping loop, with a block less each time, whatever is redelivered, stopped
  or restarted (`TasksAdvance`). A request of an audit settles the host in hand, comes
  further with it or uses up one credential (`RequestsAdvance`), and a request that is
  done has an answer for every host. What is left to TLC of `NoneStarves`, `ComesToRest`
  (tasks) and `EveryHostAnswered` is that steps are possible and, being fair, are taken.

## 7. What is only model-checked

No invariant or action property of the runs is left to TLC alone. What is:

* Liveness: `ComesToRest` (network scans and tasks), `NoneStarves`,
  `EveryHostAnswered`. They chain a number of steps that grows with the constants,
  and the provers instantiate no quantifier over temporal formulas. That the steps
  lead nowhere but on is proved for all but the network scans (Progress, above).
* ENABLED: `KillPossible`, the premise of `StopKillsScan`.

## 8. Behaviour the models show

One disagreement between the code and its own words has a run:

* *An http target passes TLS controls* (`tls_pass`): `tasks/web_scan.py:243` says
  that TLS was inspected whatever the scheme, and the comment at `:240` says that
  `check_tls` really ran; it runs for https only (`:192`), and
  `scanners/credentialless_compliance.py:94` wants TLS controls skipped otherwise.

The properties of the other runs are stated so that they name these behaviours as
exceptions, and the hazard in `PROJECT.json` says so at its line. TLC finds a
trace for each when the exception is taken away, except those marked (read),
which were met in the code while modelling.

Scans and Stop:

* *Stop of a fan-out scan does not end its children's nmap*
  (`tasks/network_scan.py:829`, the docstring at `:809` says it does): the poll
  never refreshes the row.
* *A Delete right behind a Stop lets nmap run on* (`tasks/network_scan.py:243`): the
  next poll finds no row, its failed refresh is suppressed (`:240`), `cur` is None,
  and the event is never set. `StopKillsParentScan` excepts it; with one request alone
  no run would see it.
* *A revoke leaves nmap running* (`web/routes.py:969`): SIGTERM ends the worker
  process, not its subprocess.
* *A Stop of a web scan is overwritten* (`tasks/web_scan.py:247`), and so is one
  of a ping scan in its last block (`tasks/ping_scan.py:86`).
* *A queued scan stopped before its task id is stored starts anyway*
  (`core/scans.py:61`, `dispatch.py:132`).
* *A second delivery starts a finished or stopped scan again*
  (`tasks/celery_app.py:38`, no visibility timeout is set): of a network scan
  `_run` looks at no status before it writes "running"
  (`tasks/network_scan.py:292`, `:347`, `core/scans.py:61`), a "completed" scan runs
  and stores once more, and a Stop the first execution has seen is forgotten by
  the second. The single-task scans do the same.
* *"failed" over a scan that goes on* (`tasks/network_scan.py:733`): an error between
  the dispatch of the chord and the audit row ends the parent while its children
  work; the merge may paint "completed" over it. No property forbids it.
* *A rescan takes the shortened target for the target* (`web/routes.py:1041`,
  `dispatch.py:113`).

Inventory and vulnerabilities:

* *A silent host loses its services* (`scanners/network.py:239`,
  `core/assets.py:134`): under `-Pn`, or after `--host-timeout`, a host that
  answered nothing is listed as up, and pruned.
* *Phantom assets* (`core/scan_policy.py:509`, `core/assets.py:28`): every address
  of a small CIDR is scanned with `-Pn` under fan-out, reported up and stored.
* *A host dealt twice* (`core/scan_policy.py:423`) when it is named and also
  inside a block.
* *Overlapping scans prune each other's fresh rows* (`core/assets.py:144`).
* *A narrow or foreign sighting hands a finding over*
  (`core/vulnerabilities.py:166`, `:161`): coverage and domain remember the last
  sighting only, so the next narrow scan, or a web scan, may resolve it.
* *Triage lost to a sync that crossed it* (`:129`; the comment at `:107` says it is
  kept), *a found vulnerability left resolved* (`:170`), *a resolution date
  without a resolution* (`:470`, `:478`).
* *Closed hosts resolve by another scan's answer* (`:97`, shared `last_seen`).
* *A clean host of a list target is never resolved* (`:85`, read).

Mail and schedules:

* *No mail* (`core/notify.py:108`): two hooks cross, each sees the other running;
  or (`:184`) the member that returns last failed or was stopped. (Read:) ping
  batches are never mailed (`tasks/ping_scan.py:83`).
* *Two mails* (`core/notify.py:110`): a member stopped inside its hook counts as
  terminal.
* *A schedule repeats every minute during a slow audit* (`tasks/scheduled.py:113`),
  a "once" schedule as well.
* *Every check fails at a secret that cannot be decrypted* (`dispatch.py:497`):
  later schedules are never reached.
* *Templates drop URL assets* (`tasks/scheduled.py:42`, read).

Audits:

* *A row left "running" for ever* (`dispatch.py:255`): an exception other than
  those caught ends the request.
* *Listed shares are reported as hidden* (`scanners/smb_audit.py:359-366`): the
  failure of a listing is suppressed (`:269`), and every share that answers to a name
  is then in no listing.
* *Of a sweep only the last host keeps its compliance rows*
  (`core/compliance.py:187`).
* *Hosts without an asset share their findings* in one scan.
* *A credential named twice is tried twice* (`api/app.py:555`, read): the list of a
  zone set over the API keeps repeated ids, and a sweep over that one zone uses it
  as it is; met when the proof of `LoginsAreInOrder` needed `EachOnce`.

Accounts:

* *A failure counter without an end* (`core/login_guard.py:75`), when the call
  that dates it is lost; a *lock lifted by an earlier sign-in* (`:89`).
* *A mailed code is accepted twice* when two requests read it before one deletes it.
* *A logout undone* by a response that was still under way (`api/app.py:136`).
* *The last administrators take each other's role* (`web/routes.py:5267`).

Feeds, update, versions:

* *A cancel is lost* between the commands of a reset (`core/cve_backfill.py:99`);
  *"queued" stays* after a task found the lock taken (`:172`).
* *A web process lost between the mark and the message leaves "queued"*
  (`web/routes.py:6472`): every start is refused until the hash lapses.
* *A rejected CVE comes back* from the older answer of a backfill or of a scan
  (`tasks/cpe_sync.py:53`, `tasks/network_scan.py:199`), and *an older version is
  written over a newer one*.
* *A CVE whose criteria NVD has taken away keeps the old ones* (`core/vuln.py:46`):
  they are replaced only when the fetched CVE has some.
* *A second click removes the updater the first started* (`core/self_update.py:200`).
* *The version order is not transitive* where a letter meets a written-out zero:
  1.0 = 1.0.0 > 1.0a > 1.0 (`core/cpe.py`, `intel/cpe.py`).

## 9. What is not modelled

* *Scope policy and zones* (`core/scope.py`, `core/zones.py`): one transaction
  writes a policy, the newest active row counts, each check reads it afresh. There
  is nothing to interleave that the callers do not already show: in their modules
  a refused target is a choice at the line of the check.
* *Credentials and word lists*: plain records without a life of their own. *Audit
  log and syslog*: append only; the commits of `log_action` matter and are part of
  the modules that call it. *Mail transport*: its success and failure are in
  `BatchNotify`.
* *Local AI, MCP server, health page, command line scripts*: text behind a cache,
  read-only queries, or calls of functions that are modelled.
* *Presentation* (`web/i18n.py`, `web/pdf.py`, templates, most of
  `web/routes.py`): rows shown to people. The handlers that change state are
  actions of the modules named in `PROJECT.json`.
* *Bytes of protocols, patterns of pages and banners, texts, severities, weights
  of remediation*: `HostChecks` starts from the fact a probe yields.
* *The exploit index* (its task only adds what it finds), *the licence signature,
  ciphers, hashes*: external services or cryptography. The plug-in for
  exploitation is not in the repository; `NetworkScan` has the checks around it.
* *Of redelivery*: second deliveries of a child or of the merge task of a fan-out
  (only that of the scan's own message is modelled), a third delivery, and a mail
  sent twice on its account. Liveness, and the claims about Stop, are for one
  delivery.
* *Of the CVE store*: `build_cve_seed`, a tool of the maintainers; the scores scans
  write (`enrich_cves`, `apply_risk_scores`), which add a further writer to the EPSS
  columns; the session of a live lookup, whose answer is any published version.
* *Within the modelled parts*: columns no property tells apart (hostnames,
  progress figures, notes), manual edits of assets, totals for report pages, the
  flag `validated` of a finding, categories by keyword, names of quick scans.

## 10. Plan

Done, in the order of what the product depends on: network scans with `ScanRow`,
batches, vulnerabilities, inventory, schedules; then single-task scans, inline
audits and their checks, accounts and doors, feeds, settings, self update, and
CVE matching. Every invariant and action property the runs check has its theorem.

Left, in this order:

1. *Composition* of `HostInventory` and `VulnSync`: a pruned service comes back
   with a new id, and with it a new fingerprint and a new vulnerability.
2. *Findings and scope*: `validated` only rises; a policy replaced while a scan is
   being dispatched.
3. *Larger instances* of `access` with the plays joined, as a nightly run.
