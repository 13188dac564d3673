------------------------------ MODULE VulnSync ------------------------------
(***************************************************************************)
(* The life of one vulnerability of one asset (core/vulnerabilities.py).   *)
(*                                                                         *)
(* Every finished scan of the asset runs sync_vulnerabilities_for_scan in  *)
(* its own transaction, and analysts triage through set_vuln_status in     *)
(* theirs.  A transaction reads the row, decides, and at commit writes     *)
(* only the columns whose new value differs from the value it has read     *)
(* (the ORM's unit of work); under READ COMMITTED that is applied to       *)
(* whatever the row holds by then.                                         *)
(***************************************************************************)
EXTENDS Naturals

CONSTANTS Scans,      \* scans whose results concern the asset
          Analysts    \* triage requests

ASSUME SyncAssumption == Scans \cap Analysts = {}

Domain == {"network", "web"}
Rank   == 0..2    \* port coverage: explicit list, top ports, all ports
Triage == {"confirmed", "accepted_risk", "false_positive"}
Status == Triage \cup {"open", "resolved"}

\* What a scan's findings say of the asset: it did not answer, it answered
\* without a finding, with other findings, or with this vulnerability.
Report == {"down", "clean", "other", "found"}

Vuln   == [status : Status, domain : Domain, coverage : Rank, resolvedAt : BOOLEAN]
Absent == [status |-> "absent", domain |-> "network", coverage |-> 0, resolvedAt |-> FALSE]

Tx == Scans \cup Analysts

VARIABLES
  row,       \* the Vulnerability row, Absent before the first sighting
  par,       \* what each scan is, chosen when it starts
  bumped,    \* the asset's last_seen is not older than the scan's started_at
  stage,     \* "new", "active", "open" (transaction has read), "done", "failed"
  view,      \* the row as the transaction has loaded it
  new,       \* the status an analyst sets
  crossed,   \* history: another transaction wrote the row since this one read it
  mixed,     \* history: a crossed transaction has written
  helped     \* history: another scan reached the host while this one was under way

history == <<crossed, mixed, helped>>
syncVars    == <<row, par, bumped, stage, view, new, history>>

Params == [domain : Domain, rank : Rank, report : Report]

\* Rows that earlier scans and decisions, one after the other, leave behind.
Settled == {v \in Vuln : v.resolvedAt <=> v.status = "resolved"}

SyncInit ==
  /\ row \in Settled \cup {Absent}
  /\ par \in [Scans -> {[domain |-> "network", rank |-> 1, report |-> "down"]}]
  /\ bumped = [s \in Scans |-> FALSE]
  /\ stage = [t \in Tx |-> "new"]
  /\ view = [t \in Tx |-> Absent]
  /\ new = [a \in Analysts |-> "open"]
  /\ crossed = [t \in Tx |-> FALSE]
  /\ mixed = FALSE
  /\ helped = [s \in Scans |-> FALSE]

Start(s) ==
  /\ stage[s] = "new"
  /\ \E p \in Params : par' = [par EXCEPT ![s] = p]
  /\ stage' = [stage EXCEPT ![s] = "active"]
  /\ UNCHANGED <<row, bumped, view, new, history>>

\* upsert_asset: a host that answers s is "seen" for every scan under way.
Reach(s) ==
  /\ stage[s] = "active" /\ par[s].report # "down" /\ ~bumped[s]
  /\ bumped' = [r \in Scans |-> bumped[r] \/ stage[r] \in {"active", "open"}]
  /\ helped' = [r \in Scans |-> helped[r] \/ (r # s /\ stage[r] \in {"active", "open"})]
  /\ UNCHANGED <<row, par, stage, view, new, crossed, mixed>>

ReadSync(s) ==
  /\ stage[s] = "active"
  /\ par[s].report # "down" => bumped[s]
  /\ view' = [view EXCEPT ![s] = row]
  /\ stage' = [stage EXCEPT ![s] = "open"]
  /\ UNCHANGED <<row, par, bumped, new, history>>

\* _covered_asset_ids: an asset with findings, or one inside a network target
\* that was seen since the scan started.  A URL is no network.  (The code asks
\* just before it reads the rows; here it is asked with the write.)
Covered(s) ==
  \/ par[s].report \in {"found", "other"}
  \/ par[s].domain = "network" /\ bumped[s]

\* Mutant: triaged rows may be resolved as well.
ResolvableAnyStatus(s) ==
  /\ par[s].report # "found" /\ par[s].rank >= 1
  /\ view[s] # Absent /\ view[s].status # "resolved"
  /\ Covered(s)
  /\ view[s].domain = par[s].domain
  /\ view[s].coverage <= par[s].rank

\* Mutant: every asset in the target counts as reached.
ResolvableUnreached(s) ==
  /\ par[s].report # "found" /\ par[s].rank >= 1
  /\ view[s].status = "open"
  /\ view[s].domain = par[s].domain
  /\ view[s].coverage <= par[s].rank

\* The auto-resolution, for a vulnerability that is no weak credential.
Resolvable(s) ==
  /\ par[s].report # "found" /\ par[s].rank >= 1
  /\ view[s].status = "open"
  /\ Covered(s)
  /\ view[s].domain = par[s].domain
  /\ view[s].coverage <= par[s].rank

\* The unit of work: a column goes to the database if it has changed.
Column(old, wanted, current) == IF wanted = old THEN current ELSE wanted

\* Mutant: reopening leaves the date of the resolution.
SightingKeepsDate(s) ==
  [row EXCEPT !.domain = Column(view[s].domain, par[s].domain, @),
              !.coverage = Column(view[s].coverage, par[s].rank, @),
              !.status = IF view[s].status = "resolved" THEN "open" ELSE @]

\* The row after a sync that found the vulnerability.
Sighting(s) ==
  [row EXCEPT !.domain = Column(view[s].domain, par[s].domain, @),
              !.coverage = Column(view[s].coverage, par[s].rank, @),
              !.status = IF view[s].status = "resolved" THEN "open" ELSE @,
              !.resolvedAt = IF view[s].status = "resolved"
                               THEN Column(view[s].resolvedAt, FALSE, @) ELSE @]

\* The session of t ends; every transaction that is open when t commits a changed
\* row is crossed by it.
Commit(t) ==
  /\ crossed' = [u \in Tx |-> crossed[u] \/ (u # t /\ stage[u] = "open" /\ row' # row)]
  /\ mixed' = (mixed \/ (crossed[t] /\ row' # row))
  /\ view' = [view EXCEPT ![t] = Absent]
  /\ UNCHANGED helped

Fresh(s) == [status |-> "open", domain |-> par[s].domain,
             coverage |-> par[s].rank, resolvedAt |-> FALSE]

Sees(s) ==
  /\ stage[s] = "open" /\ par[s].report = "found"
  /\ IF view[s] = Absent
       THEN row' = IF row = Absent THEN Fresh(s) ELSE row
       ELSE row' = Sighting(s)
  /\ stage' = [stage EXCEPT ![s] = IF view[s] = Absent /\ row # Absent
                                    THEN "failed"   \* unique (asset, fingerprint)
                                    ELSE "done"]
  /\ Commit(s)
  /\ UNCHANGED <<par, bumped, new>>

Misses(s) ==
  /\ stage[s] = "open" /\ par[s].report # "found"
  /\ row' = IF Resolvable(s) THEN [row EXCEPT !.status = "resolved", !.resolvedAt = TRUE]
                             ELSE row
  /\ stage' = [stage EXCEPT ![s] = "done"]
  /\ Commit(s)
  /\ UNCHANGED <<par, bumped, new>>

ReadTriage(a) ==
  /\ stage[a] = "new" /\ row # Absent
  /\ view' = [view EXCEPT ![a] = row]
  /\ \E st \in Status : new' = [new EXCEPT ![a] = st]
  /\ stage' = [stage EXCEPT ![a] = "open"]
  /\ UNCHANGED <<row, par, bumped, history>>

\* set_vuln_status: resolved_at is set with "resolved", cleared otherwise.
WriteTriage(a) ==
  /\ stage[a] = "open"
  /\ row' = [row EXCEPT !.status = Column(view[a].status, new[a], @),
                        !.resolvedAt = IF new[a] = "resolved" THEN TRUE
                                       ELSE Column(view[a].resolvedAt, FALSE, @)]
  /\ stage' = [stage EXCEPT ![a] = "done"]
  /\ Commit(a)
  /\ UNCHANGED <<par, bumped, new>>

SyncNext ==
  \/ \E s \in Scans : Start(s) \/ Reach(s) \/ ReadSync(s) \/ Sees(s) \/ Misses(s)
  \/ \E a \in Analysts : ReadTriage(a) \/ WriteTriage(a)

SyncSpec == SyncInit /\ [][SyncNext]_syncVars

-----------------------------------------------------------------------------

SyncTypeOK ==
  /\ row \in Vuln \cup {Absent}
  /\ par \in [Scans -> Params]
  /\ bumped \in [Scans -> BOOLEAN]
  /\ stage \in [Tx -> {"new", "active", "open", "done", "failed"}]
  /\ view \in [Tx -> Vuln \cup {Absent}]
  /\ new \in [Analysts -> Status]
  /\ crossed \in [Tx -> BOOLEAN]
  /\ mixed \in BOOLEAN
  /\ helped \in [Scans -> BOOLEAN]

\* A resolution date belongs to a resolved vulnerability and to no other: the
\* trend, the mean time to repair and the resolved tab rely on it.
ResolvedAtMatches == row.resolvedAt <=> row.status = "resolved"

\* A step of scan s that turns the vulnerability into "resolved".
Resolves(s) == Misses(s) /\ row.status # "resolved" /\ row'.status = "resolved"

\* Manual triage survives every sync, and a vulnerability that a scan has just
\* found is not left "resolved", unless another transaction committed between
\* the read and the write of that sync.
SyncKeepsPromises ==
  [][/\ row.status \in Triage /\ row'.status # row.status =>
          \/ \E a \in Analysts : WriteTriage(a)
          \/ \E s \in Scans : crossed[s] /\ (Sees(s) \/ Misses(s))
     /\ \A s \in Scans : Sees(s) /\ row'.status = "resolved" => crossed[s]]_syncVars

\* A scan resolves nothing on a host that did not answer it, unless another
\* scan reached that host meanwhile and moved the last_seen they share.
ResolvedOnlyIfReached ==
  [][\A s \in Scans : Resolves(s) /\ par[s].report = "down" => helped[s]]_syncVars

\* The row a transaction has loaded is still the row until another one writes;
\* a sync fails on the unique key only when it was crossed.
ReadsHold ==
  /\ \A t \in Tx : stage[t] = "open" /\ ~crossed[t] => view[t] = row
  /\ \A t \in Tx : stage[t] = "failed" => crossed[t]

\* last_seen moves under a scan the host did not answer only with help.
ReachedInv ==
  /\ \A s \in Scans : stage[s] = "new" => ~bumped[s]
  /\ \A s \in Scans : bumped[s] /\ par[s].report = "down" => helped[s]

\* No sync and no triage deletes a row: what a transaction has loaded exists.
RowStays ==
  /\ \A t \in Tx : view[t] # Absent => row # Absent
  /\ \A a \in Analysts : stage[a] = "open" => view[a] # Absent
  /\ \A a \in Analysts : stage[a] # "active"

\* Status and date go together until a crossed transaction has written its half.
SyncInv ==
  /\ SyncTypeOK
  /\ RowStays
  /\ ReadsHold
  /\ ReachedInv
  /\ ~mixed => ResolvedAtMatches

=============================================================================
