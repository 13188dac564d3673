----------------------------- MODULE NvdFeeds -----------------------------
(***************************************************************************)
(* The local CVE store and the jobs that fill it.                          *)
(*                                                                         *)
(* A backfill lives through one "life": the click on the settings page,    *)
(* the message to the worker, and the task, which walks its windows and    *)
(* polls a cancel flag between them.  Progress, flag and the single-run    *)
(* lock are in Redis (core/cve_backfill.py), every call of which may fail  *)
(* and is then skipped.  The daily sync, the EPSS refresh and a scan that  *)
(* looks services up at NVD take no lock and write the same tables.        *)
(*                                                                         *)
(* A CVE is its version at NVD, 0 once NVD has rejected it; the stored     *)
(* row is the version it was written from, 0 when there is no row.         *)
(***************************************************************************)
EXTENDS Naturals, FiniteSets

CONSTANTS
  Cves,       \* CVE identifiers
  MaxVer,     \* Bound: NVD edits a CVE at most up to this version
  Bare,       \* the versions NVD publishes without CPE criteria
  Fills,      \* backfills, each from its click to its end
  Windows,    \* number of 120-day windows of a backfill
  Nobody      \* no lock holder

ASSUME FeedAssumption ==
  /\ MaxVer \in Nat \ {0} /\ Windows \in Nat \ {0}
  /\ Bare \subseteq 1..MaxVer /\ Nobody \notin Fills

VARIABLES
  nvd,        \* per CVE, its version at NVD
  fresh,      \* the CVEs NVD changed within the last seven days
  cve,        \* the cves table
  rows,       \* per CVE, its cpe_matches rows: the version they describe and the writer
  risk,       \* per CVE, the version the vulnerability's risk score was computed from
  kg,         \* the progress hash: there, status, cancel
  lock,       \* holder of the lock key (the code stores "1": release does not look)
  asking,     \* a cancel request between its HGET and its HSET
  fill,       \* the backfills
  daily,      \* the daily sync
  epss,       \* the EPSS refresh
  owed,       \* history: backfills an accepted cancel should still stop
  mishap      \* history: what went wrong so far

redisVars == <<kg, lock, asking, owed>>
storeVars == <<nvd, fresh, cve, rows, risk, daily, epss>>
feedVars  == <<nvd, fresh, cve, rows, risk, kg, lock, asking, fill, daily, epss, owed, mishap>>

Vers    == 0..MaxVer
Nothing == [c \in Cves |-> 0]

\* cpe_matches rows: the version of the CVE they describe and the job that wrote them.
CriteriaRows == [ver : 1..MaxVer, by : Fills \cup {"daily", "scan"}]

\* What a writer of the store holds: the fetched versions still to write, the
\* row it loaded, and the criteria rows its DELETE saw.
Hand == [got |-> Nothing, on |-> CHOOSE c \in Cves : TRUE, base |-> 0, seen |-> {}]

NewFill  == [at |-> "none", win |-> 0, pend |-> FALSE, final |-> "none", hand |-> Hand]
NewDaily == [at |-> "idle", pub |-> Nothing, mod |-> Nothing, rej |-> {}, hand |-> Hand, crossed |-> {}]
NewEpss  == [at |-> "idle", ids |-> {}, hit |-> {}, crossed |-> {}]
NoHash   == [there |-> FALSE, status |-> "none", cancel |-> FALSE]

Active == {"running", "queued"}
Hash   == [there : BOOLEAN, status : Active \cup {"none", "done", "cancelled", "error"}, cancel : BOOLEAN]
IsActive == kg.there /\ kg.status \in Active

\* The stages of a backfill that walks its windows, and all from its click to its end.
Walking  == {"open", "key", "clear", "set", "poll", "fetch", "get", "put", "drop", "keep", "note"}
Live     == Walking \cup {"mark", "markset", "send", "sent", "close", "finish", "fail", "release"}

\* It has a poll of the cancel flag ahead: none comes after the last window.
WillPoll(f) ==
  \/ fill[f].at \in {"send", "sent", "open", "key", "clear", "set"}
  \/ fill[f].at = "poll" /\ fill[f].win < Windows
  \/ fill[f].at \in {"fetch", "get", "put", "drop", "keep", "note"} /\ fill[f].win + 1 < Windows

\* History: the flag that the backfills still to poll were promised is gone.
Forgive == owed' = {f \in owed : ~WillPoll(f)}

Slip(what)  == mishap' = mishap \cup {what}
NoSlip      == UNCHANGED mishap
Move(f, at) == fill' = [fill EXCEPT ![f].at = at]

----------------------------------------------------------------------------
(* The progress hash *)

\* HSET, on a key that is gone too, then EXPIRE: where that fails the hash only lives on.
Hset(status, cancel) == kg' = [there |-> TRUE, status |-> status, cancel |-> cancel]

\* POST /settings/nvd/backfill: a busy hash turns the click away, an unreadable one does not.
Click(f) ==
  /\ fill[f].at = "none"
  /\ \/ ~IsActive /\ NoSlip
     \/ Slip("redis")
  /\ Move(f, "mark") /\ UNCHANGED <<redisVars, storeVars>>

\* mark_queued: DEL, then HSET and EXPIRE; whatever fails, the task is sent.  A cancel flag that
\* stood in the hash goes with it.
MarkDel(f) ==
  /\ fill[f].at = "mark"
  /\ \/ /\ kg' = NoHash /\ Move(f, "markset") /\ NoSlip
        /\ IF kg.there /\ kg.cancel THEN Forgive ELSE UNCHANGED owed
     \/ Slip("redis") /\ Move(f, "send") /\ UNCHANGED <<kg, owed>>
  /\ UNCHANGED <<lock, asking, storeVars>>

MarkSet(f) ==
  /\ fill[f].at = "markset"
  /\ \/ /\ Hset("queued", FALSE) /\ NoSlip
        /\ IF kg.there /\ kg.cancel THEN Forgive ELSE UNCHANGED owed
     \/ Slip("redis") /\ UNCHANGED <<kg, owed>>
  /\ Move(f, "send") /\ UNCHANGED <<lock, asking, storeVars>>

\* nvd_backfill_task.delay: the broker may refuse, and then nothing takes the mark back.
Send(f) ==
  /\ fill[f].at = "send"
  /\ \/ Move(f, "sent") /\ NoSlip
     \/ Move(f, "end") /\ Slip("broker")
  /\ UNCHANGED <<redisVars, storeVars>>

\* acquire: SET NX; a task that finds the lock taken leaves without touching anything.
Acquire(f) ==
  /\ fill[f].at = "sent"
  /\ \/ lock = Nobody /\ lock' = f /\ Move(f, "open") /\ NoSlip
     \/ /\ lock # Nobody /\ Move(f, "end") /\ UNCHANGED lock
        /\ IF fill[lock].at = "release" THEN Slip("late") ELSE NoSlip
     \/ Slip("redis") /\ Move(f, "open") /\ UNCHANGED lock
  /\ UNCHANGED <<kg, asking, owed, storeVars>>

\* The API key is read; a database error ends the run.
OpenFill(f) ==
  /\ fill[f].at = "open"
  /\ \/ Move(f, "key")
     \/ Move(f, "fail")
  /\ NoSlip /\ UNCHANGED <<redisVars, storeVars>>

\* A mistake to catch: a flag set while the task was queued is not carried over.
BeginBlank(f) ==
  /\ fill[f].at = "key" /\ Move(f, "clear")
  /\ NoSlip /\ UNCHANGED <<redisVars, storeVars>>

\* begin: HGET cancel, DEL, HSET with the flag it read.
BeginGet(f) ==
  /\ fill[f].at = "key"
  /\ \/ fill' = [fill EXCEPT ![f].at = "clear", ![f].pend = kg.there /\ kg.cancel] /\ NoSlip
     \/ Move(f, "poll") /\ Slip("redis")
  /\ UNCHANGED <<redisVars, storeVars>>

BeginDel(f) ==
  /\ fill[f].at = "clear"
  /\ \/ kg' = NoHash /\ Move(f, "set") /\ NoSlip
     \/ Move(f, "poll") /\ Slip("redis") /\ UNCHANGED kg
  /\ UNCHANGED <<lock, asking, owed, storeVars>>

BeginSet(f) ==
  /\ fill[f].at = "set"
  /\ \/ Hset("running", fill[f].pend) /\ NoSlip
     \/ Slip("redis") /\ UNCHANGED kg
  /\ Move(f, "poll") /\ UNCHANGED <<lock, asking, owed, storeVars>>

\* The top of the window loop: past the last window, cancelled, or on to the next fetch.
Poll(f) ==
  /\ fill[f].at = "poll"
  /\ \/ /\ fill[f].win = Windows
        /\ fill' = [fill EXCEPT ![f].at = "close", ![f].final = "done"] /\ NoSlip
     \/ /\ fill[f].win < Windows /\ kg.there /\ kg.cancel
        /\ fill' = [fill EXCEPT ![f].at = "close", ![f].final = "cancelled"] /\ NoSlip
     \/ fill[f].win < Windows /\ ~(kg.there /\ kg.cancel) /\ Move(f, "fetch") /\ NoSlip
     \/ fill[f].win < Windows /\ Move(f, "fetch") /\ Slip("redis")
  /\ UNCHANGED <<redisVars, storeVars>>

\* update: progress only; on a hash that has expired it makes one without a status.
Note(f) ==
  /\ fill[f].at = "note"
  /\ \/ Hset(kg.status, kg.cancel) /\ NoSlip
     \/ Slip("redis") /\ UNCHANGED kg
  /\ fill' = [fill EXCEPT ![f].at = "poll", ![f].win = @ + 1]
  /\ UNCHANGED <<lock, asking, owed, storeVars>>

\* record_cve_sync and the audit row; an error here ends the run as an error.
CloseFill(f) ==
  /\ fill[f].at = "close"
  /\ \/ Move(f, "finish")
     \/ Move(f, "fail")
  /\ NoSlip /\ UNCHANGED <<redisVars, storeVars>>

\* A mistake to catch: the exception path does not write a terminal status.
FinishedOnly(f) ==
  /\ fill[f].at \in {"finish", "fail"}
  /\ IF fill[f].at = "finish" THEN Hset(fill[f].final, kg.cancel) ELSE UNCHANGED kg
  /\ Move(f, "release") /\ NoSlip /\ UNCHANGED <<lock, asking, owed, storeVars>>

\* finish: the terminal status, "error" on the exception path.
Finish(f) ==
  /\ fill[f].at \in {"finish", "fail"}
  /\ LET status == IF fill[f].at = "fail" THEN "error" ELSE fill[f].final IN
     /\ \/ Hset(status, kg.cancel) /\ NoSlip
        \/ Slip("redis") /\ UNCHANGED kg
     /\ fill' = [fill EXCEPT ![f].at = "release", ![f].final = status]
  /\ UNCHANGED <<lock, asking, owed, storeVars>>

\* release: DEL, whoever holds it.
Release(f) ==
  /\ fill[f].at = "release"
  /\ \/ lock' = Nobody /\ NoSlip
     \/ Slip("redis") /\ UNCHANGED lock
  /\ Move(f, "end") /\ UNCHANGED <<kg, asking, owed, storeVars>>

\* The web process killed in the request, before or after the hash is marked, or the worker at
\* any point of the task; the lock and the hash stay, a flag taken out for a reset is lost.
Crash(f) ==
  /\ fill[f].at \in Live \ {"sent"}
  /\ fill' = [fill EXCEPT ![f].at = "end", ![f].final = "killed"]
  /\ Slip(IF fill[f].at \in {"mark", "markset", "send"} THEN "web" ELSE "crash")
  /\ IF fill[f].at = "set" THEN Forgive ELSE UNCHANGED owed
  /\ UNCHANGED <<kg, lock, asking, storeVars>>

\* request_cancel: HGET status, then HSET cancel.  Its answer promises the admin a stop, which
\* no backfill is held to when the HSET falls between the read and the write of begin().
CancelAsk ==
  /\ ~asking /\ IsActive /\ asking' = TRUE
  /\ NoSlip /\ UNCHANGED <<kg, lock, owed, fill, storeVars>>

CancelSet ==
  /\ asking /\ asking' = FALSE
  /\ \/ /\ Hset(IF kg.there THEN kg.status ELSE "none", TRUE)
        /\ owed' = IF \E f \in Fills : fill[f].at \in {"clear", "set"} THEN owed
                   ELSE owed \cup {f \in Fills : WillPoll(f)}
        /\ NoSlip
     \/ Slip("redis") /\ UNCHANGED <<kg, owed>>
  /\ UNCHANGED <<lock, fill, storeVars>>

\* The lock lives two hours, the hash a day after its last EXPIRE.
LockExpires ==
  /\ lock # Nobody /\ lock' = Nobody
  /\ IF fill[lock].at \in Live THEN Slip("lapse") ELSE NoSlip
  /\ UNCHANGED <<kg, asking, owed, fill, storeVars>>

HashExpires ==
  /\ kg.there /\ kg' = NoHash
  /\ Slip("lapse") /\ UNCHANGED <<lock, asking, owed, fill, storeVars>>

----------------------------------------------------------------------------
(* Writing the store: upsert_cve and store_cpe_matches, shared by the jobs *)

\* History: the CVEs others wrote since the daily sync loaded or deleted them, and since the EPSS
\* refresh listed them.
TellDaily(S) == daily' = [daily EXCEPT !.crossed = @ \cup S]
TellEpss(S)  == epss' = [epss EXCEPT !.crossed = @ \cup S]

Left(hand) == {c \in Cves : hand.got[c] # 0}

\* session.get: the row as this job sees it.
Load(hand, c) == [hand EXCEPT !.on = c, !.base = cve[c]]

\* INSERT needs the row still absent and UPDATE still present; a row loaded in the very version
\* fetched gives no UPDATE at all.
WriteFails(hand) == hand.base # hand.got[hand.on] /\ ((hand.base = 0) # (cve[hand.on] = 0))
Written(hand) == IF hand.base = hand.got[hand.on] THEN cve ELSE [cve EXCEPT ![hand.on] = hand.got[hand.on]]

\* Criteria are replaced only when the fetched CVE has some: DELETE, then INSERT and commit.
HasCriteria(hand) == hand.got[hand.on] \notin Bare
Seen(hand) == [hand EXCEPT !.seen = rows[hand.on]]
Replaced(hand, who) ==
  [rows EXCEPT ![hand.on] = (@ \ hand.seen) \cup {[ver |-> hand.got[hand.on], by |-> who]}]
Ticked(hand) == [hand EXCEPT !.got[hand.on] = 0, !.seen = {}]

\* fetch_nvd_cve_window: NVD's live CVEs of the window, or those of the pages that came through.
Fetch(f) ==
  /\ fill[f].at = "fetch"
  /\ \E S \in SUBSET {c \in Cves : nvd[c] # 0} :
        fill' = [fill EXCEPT ![f].at = IF S = {} THEN "note" ELSE "get",
                             ![f].hand.got = [c \in Cves |-> IF c \in S THEN nvd[c] ELSE 0]]
  /\ NoSlip /\ UNCHANGED <<redisVars, storeVars>>

FillGet(f) ==
  /\ fill[f].at = "get"
  /\ \/ Left(fill[f].hand) = {} /\ Move(f, "note")
     \/ \E c \in Left(fill[f].hand) :
           fill' = [fill EXCEPT ![f].at = "put", ![f].hand = Load(@, c)]
  /\ NoSlip /\ UNCHANGED <<redisVars, storeVars>>

FillPut(f) ==
  LET hand == fill[f].hand IN
  /\ fill[f].at = "put"
  /\ \/ WriteFails(hand) /\ Move(f, "fail") /\ UNCHANGED <<cve, daily, epss>>
     \/ /\ ~WriteFails(hand) /\ cve' = Written(hand) /\ TellDaily({hand.on}) /\ TellEpss({hand.on})
        /\ fill' = IF HasCriteria(hand) THEN [fill EXCEPT ![f].at = "drop"]
                   ELSE [fill EXCEPT ![f].at = "get", ![f].hand = Ticked(@)]
  /\ NoSlip /\ UNCHANGED <<redisVars, nvd, fresh, rows, risk>>

FillDrop(f) ==
  /\ fill[f].at = "drop"
  /\ fill' = [fill EXCEPT ![f].at = "keep", ![f].hand = Seen(@)]
  /\ NoSlip /\ UNCHANGED <<redisVars, storeVars>>

FillKeep(f) ==
  /\ fill[f].at = "keep"
  /\ rows' = Replaced(fill[f].hand, f) /\ TellDaily({fill[f].hand.on}) /\ TellEpss({fill[f].hand.on})
  /\ fill' = [fill EXCEPT ![f].at = "get", ![f].hand = Ticked(@)]
  /\ NoSlip /\ UNCHANGED <<redisVars, nvd, fresh, cve, risk>>

----------------------------------------------------------------------------
(* The daily sync: cpe_sync *)

Snap(S) == [c \in Cves |-> IF c \in S THEN nvd[c] ELSE 0]

\* The published window, and the window of late changes with the ids NVD has rejected; either
\* fetch may bring only some of its pages.
DailyPublished ==
  /\ daily.at = "idle"
  /\ \E S \in SUBSET {c \in Cves : nvd[c] # 0} :
        daily' = [NewDaily EXCEPT !.at = "mod", !.pub = Snap(S)]
  /\ NoSlip /\ UNCHANGED <<redisVars, nvd, fresh, cve, rows, risk, fill, epss>>

\* A mistake to catch: the copy of the first fetch is kept.
MergeFirst(pub, mod) == [c \in Cves |-> IF pub[c] # 0 THEN pub[c] ELSE mod[c]]

\* Of a CVE in both, the copy of the second fetch is kept.
Merge(pub, mod) == [c \in Cves |-> IF mod[c] # 0 THEN mod[c] ELSE pub[c]]

DailyModified ==
  /\ daily.at = "mod"
  /\ \E S \in SUBSET fresh :
        daily' = [daily EXCEPT !.at = "get", !.mod = Snap(S), !.rej = {c \in S : nvd[c] = 0},
                               !.hand.got = Merge(daily.pub, Snap(S))]
  /\ NoSlip /\ UNCHANGED <<redisVars, nvd, fresh, cve, rows, risk, fill, epss>>

\* An exception anywhere below ends the task: nothing is recorded.
DailyGet ==
  /\ daily.at = "get"
  /\ \/ Left(daily.hand) = {} /\ daily' = [daily EXCEPT !.at = "purge"]
     \/ \E c \in Left(daily.hand) : 
           daily' = [daily EXCEPT !.at = "put", !.hand = Load(@, c), !.crossed = @ \ {c}]
  /\ NoSlip /\ UNCHANGED <<redisVars, nvd, fresh, cve, rows, risk, fill, epss>>

DailyPut ==
  LET hand == daily.hand IN
  /\ daily.at = "put"
  /\ \/ WriteFails(hand) /\ daily' = [daily EXCEPT !.at = "failed"] /\ UNCHANGED <<cve, epss>>
     \/ /\ ~WriteFails(hand) /\ cve' = Written(hand) /\ TellEpss({hand.on})
        /\ daily' = IF HasCriteria(hand) THEN [daily EXCEPT !.at = "drop"]
                    ELSE [daily EXCEPT !.at = "get", !.hand = Ticked(@)]
  /\ NoSlip /\ UNCHANGED <<redisVars, nvd, fresh, rows, risk, fill>>

DailyDrop ==
  /\ daily.at = "drop" /\ daily' = [daily EXCEPT !.at = "keep", !.hand = Seen(@)]
  /\ NoSlip /\ UNCHANGED <<redisVars, nvd, fresh, cve, rows, risk, fill, epss>>

DailyKeep ==
  /\ daily.at = "keep" /\ rows' = Replaced(daily.hand, "daily") /\ TellEpss({daily.hand.on})
  /\ daily' = [daily EXCEPT !.at = "get", !.hand = Ticked(@)]
  /\ NoSlip /\ UNCHANGED <<redisVars, nvd, fresh, cve, risk, fill>>

\* delete_cves: the criteria of the rejected CVEs, then the CVEs, in one commit.
WithoutRows(S) == [c \in Cves |-> IF c \in S THEN {} ELSE rows[c]]
WithoutCves(S) == [c \in Cves |-> IF c \in S THEN 0 ELSE cve[c]]

DailyPurge ==
  /\ daily.at = "purge"
  /\ rows' = WithoutRows(daily.rej) /\ cve' = WithoutCves(daily.rej)
  /\ daily' = [daily EXCEPT !.at = "record", !.crossed = @ \ daily.rej] /\ TellEpss(daily.rej)
  /\ NoSlip /\ UNCHANGED <<redisVars, nvd, fresh, risk, fill>>

\* record_cve_sync and the audit row.
DailyRecord ==
  /\ daily.at = "record" /\ daily' = [daily EXCEPT !.at = "done"]
  /\ NoSlip /\ UNCHANGED <<redisVars, nvd, fresh, cve, rows, risk, fill, epss>>

----------------------------------------------------------------------------
(* The EPSS refresh *)

EpssList ==
  /\ epss.at = "idle" /\ epss' = [NewEpss EXCEPT !.at = "fetch", !.ids = {c \in Cves : cve[c] # 0}]
  /\ NoSlip /\ UNCHANGED <<redisVars, nvd, fresh, cve, rows, risk, fill, daily>>

\* fetch_epss keeps what came before a failing batch; the rows it finds are loaded one by one.
EpssLoad ==
  /\ epss.at = "fetch" /\ epss.ids # {}
  /\ \E S \in SUBSET epss.ids :
        epss' = [epss EXCEPT !.at = "commit", !.hit = {c \in S : cve[c] # 0}]
  /\ NoSlip /\ UNCHANGED <<redisVars, nvd, fresh, cve, rows, risk, fill, daily>>

\* One commit for all: a row deleted meanwhile takes the other scores with it.
EpssCommit ==
  /\ epss.at = "commit"
  /\ epss' = [epss EXCEPT !.at = IF \E c \in epss.hit : cve[c] = 0 THEN "failed" ELSE "apply"]
  /\ NoSlip /\ UNCHANGED <<redisVars, nvd, fresh, cve, rows, risk, fill, daily>>

\* apply_risk_scores over every listed id, with or without a new score.
Rescored == [c \in Cves |-> IF c \in epss.ids /\ cve[c] # 0 THEN cve[c] ELSE risk[c]]

EpssApply ==
  /\ epss.at = "apply" /\ risk' = Rescored /\ epss' = [epss EXCEPT !.at = "done"]
  /\ NoSlip /\ UNCHANGED <<redisVars, nvd, fresh, cve, rows, fill, daily>>

----------------------------------------------------------------------------
(* A scan that looks services up at NVD while it runs: match_service_cves *)

\* It writes what it found by the same upsert_cve.  Which CVEs it asked for and how old its
\* answer is by then is not followed: any version NVD has published, over any criteria.
Published(c) == {v \in 1..MaxVer : nvd[c] = 0 \/ v <= nvd[c]}

LookupPut(c) ==
  /\ \E v \in Published(c) : cve' = [cve EXCEPT ![c] = v]
  /\ TellDaily({c}) /\ TellEpss({c})
  /\ NoSlip /\ UNCHANGED <<redisVars, nvd, fresh, rows, risk, fill>>

LookupKeep(c) ==
  /\ \E v \in Published(c) \ Bare, S \in SUBSET rows[c] :
        rows' = [rows EXCEPT ![c] = (@ \ S) \cup {[ver |-> v, by |-> "scan"]}]
  /\ TellDaily({c}) /\ TellEpss({c})
  /\ NoSlip /\ UNCHANGED <<redisVars, nvd, fresh, cve, risk, fill>>

LookupStep == \E c \in Cves : LookupPut(c) \/ LookupKeep(c)

----------------------------------------------------------------------------
(* NVD *)

Edit(c) ==
  /\ nvd[c] # 0 /\ nvd' = [nvd EXCEPT ![c] = IF @ < MaxVer THEN @ + 1 ELSE 0]
  /\ fresh' = fresh \cup {c}
  /\ NoSlip /\ UNCHANGED <<redisVars, cve, rows, risk, fill, daily, epss>>

Reject(c) ==
  /\ nvd[c] # 0 /\ nvd' = [nvd EXCEPT ![c] = 0] /\ fresh' = fresh \cup {c}
  /\ NoSlip /\ UNCHANGED <<redisVars, cve, rows, risk, fill, daily, epss>>

\* Seven days on, a change is out of the modified window.
Age(c) ==
  /\ c \in fresh /\ fresh' = fresh \ {c}
  /\ NoSlip /\ UNCHANGED <<redisVars, nvd, cve, rows, risk, fill, daily, epss>>

----------------------------------------------------------------------------
\* The jobs at rest, over whatever store the days before have left.
FeedsInit ==
  /\ nvd \in [Cves -> Vers] /\ fresh \subseteq Cves
  /\ cve \in [Cves -> Vers] /\ rows \in [Cves -> SUBSET CriteriaRows] /\ risk \in [Cves -> Vers]
  /\ kg = NoHash /\ lock = Nobody /\ asking = FALSE
  /\ fill = [f \in Fills |-> NewFill] /\ daily = NewDaily /\ epss = NewEpss
  /\ owed = {} /\ mishap = {}

FillStep(f) ==
  \/ Click(f) \/ MarkDel(f) \/ MarkSet(f) \/ Send(f) \/ Acquire(f) \/ OpenFill(f)
  \/ BeginGet(f) \/ BeginDel(f) \/ BeginSet(f) \/ Poll(f) \/ Note(f) \/ CloseFill(f)
  \/ Finish(f) \/ Release(f)

WriteStep(f) == Fetch(f) \/ FillGet(f) \/ FillPut(f) \/ FillDrop(f) \/ FillKeep(f)

DailyStep ==
  \/ DailyPublished \/ DailyModified \/ DailyGet \/ DailyPut \/ DailyDrop \/ DailyKeep
  \/ DailyPurge \/ DailyRecord

EpssStep == EpssList \/ EpssLoad \/ EpssCommit \/ EpssApply

FeedsNext ==
  \/ \E f \in Fills : FillStep(f) \/ WriteStep(f) \/ Crash(f)
  \/ CancelAsk \/ CancelSet \/ LockExpires \/ HashExpires
  \/ DailyStep \/ EpssStep \/ LookupStep
  \/ \E c \in Cves : Edit(c) \/ Reject(c) \/ Age(c)

FeedsSpec == FeedsInit /\ [][FeedsNext]_feedVars

----------------------------------------------------------------------------
(* Properties *)

FeedsTypeOK ==
  /\ nvd \in [Cves -> Vers] /\ cve \in [Cves -> Vers] /\ risk \in [Cves -> Vers]
  /\ fresh \subseteq Cves
  /\ rows \in [Cves -> SUBSET CriteriaRows]
  /\ kg \in Hash
  /\ lock \in Fills \cup {Nobody}
  /\ \A f \in Fills : fill[f].at \in Live \cup {"none", "end"} /\ fill[f].win \in 0..Windows

\* Two backfills walk their windows at the same time only after Redis failed or the lock ran
\* out under a run: the SET NX of core/cve_backfill.py:165-173 admits one.
OneBackfill ==
  Cardinality({f \in Fills : fill[f].at \in Walking}) > 1 => mishap \cap {"redis", "lapse"} # {}

\* A hash that says busy while nothing is on its way (it turns every click away for up to a day)
\* has a cause: a failing broker or Redis, a web process killed between mark_queued and delay, a
\* killed worker, or a task that found the lock of a run already reported finished.
BusyNeedsCause ==
  IsActive /\ (\A f \in Fills : fill[f].at \notin Live)
     => mishap \cap {"broker", "redis", "web", "crash", "late"} # {}

BackfillInv == FeedsTypeOK /\ OneBackfill /\ BusyNeedsCause

\* A backfill that was still to poll when a cancel was accepted does not run to "done", unless
\* Redis failed or a key expired, or this very cancel was lost: wiped by a later click on start,
\* set between the reads and the writes of begin(), or carried by a worker killed in between
\* (core/cve_backfill.py:90-117, tasks/cpe_sync.py:127).  A cancel that comes after such a loss
\* is held to again.
CancelHonoured ==
  \A f \in owed : fill[f].at \in {"close", "finish", "release", "end"} /\ fill[f].final = "done"
                     => mishap \cap {"redis", "lapse"} # {}

\* Whatever runs beside it, a daily sync leaves each CVE of its modified window that nobody else
\* has written since the sync loaded it as NVD had it there, with the criteria of that version
\* and no others where NVD gives any; and neither row nor criteria of one NVD had rejected that
\* nobody has written since the deletion (tasks/cpe_sync.py:51-72, core/vuln.py:35-48).
DailyTrue ==
  daily.at = "record" =>
    \A c \in Cves \ daily.crossed :
      /\ daily.mod[c] # 0 => /\ cve[c] = daily.mod[c]
                             /\ daily.mod[c] \notin Bare => {r.ver : r \in rows[c]} = {daily.mod[c]}
      /\ c \in daily.rej => cve[c] = 0 /\ rows[c] = {}

\* An EPSS refresh leaves the risk of every CVE it listed, and nobody has written since, computed
\* from its row, also where FIRST.org sent no score.
RiskTrue == epss.at = "done" => \A c \in epss.ids \ epss.crossed : risk[c] = cve[c]

StoreTrue == DailyTrue /\ RiskTrue

=============================================================================
