---------------------------- MODULE HostInventory ----------------------------
(***************************************************************************)
(* What network scans do to the assets and services tables: the plan of a  *)
(* scan (one nmap, hosts dealt to children, or ports dealt to children),   *)
(* the children's answers, their merge, and store_results with its prune   *)
(* of the services a scan no longer sees.  Scans share no lock: their      *)
(* steps interleave at every commit.                                       *)
(*                                                                         *)
(* Stop is left out (NetworkScan has it): a stopped scan stores nothing.   *)
(* Users who delete assets are left out too.                               *)
(***************************************************************************)
EXTENDS Naturals, FiniteSets

CONSTANTS Scans,
          Hosts,       \* addresses, as numbers
          InScope,     \* hosts that should_be_asset accepts
          Tcp, Udp,    \* port numbers; Udp is UDP_TOP_PORTS
          Common,      \* _UDP_COMBINED_TCP_PORTS
          Top,         \* the TCP ports of nmap's own default list
          Requests,    \* what the users ask for (a subset of Request)
          Truths,      \* the sets of open endpoints to begin with
          Kept,        \* the service tables to begin with
          Workers,     \* fanout_workers
          Oversubscribe, MaxBatches,
          Volatile,    \* bound: the endpoints that may open or close
          Slow,        \* the "slow" speed profile, with its --host-timeout
          MaxChanges,  \* bound: changes in the network
          MaxLosses    \* bound: nmap runs that end in an exception

Ports    == Tcp \cup Udp
Endpoint == Hosts \X Ports
Request  == [explicit : SUBSET Hosts,  \* named hosts and small CIDRs
             block    : SUBSET Hosts,  \* hosts inside the large CIDRs
             list     : {"default", "all", "given"},
             given    : SUBSET Tcp,    \* the ports of a "given" list
             udp      : BOOLEAN,
             fanout   : BOOLEAN]       \* the scan_fanout setting

ASSUME InventoryAssumption ==
  /\ IsFiniteSet(Hosts) /\ Hosts \subseteq Nat /\ InScope \subseteq Hosts
  /\ IsFiniteSet(Ports) /\ Ports \subseteq Nat /\ Tcp \cap Udp = {}
  /\ Common \subseteq Tcp /\ Top \subseteq Tcp
  /\ Requests \subseteq Request
  /\ Truths \subseteq SUBSET Endpoint /\ Kept \subseteq SUBSET Endpoint
  /\ Workers \in Nat \ {0} /\ Oversubscribe \in Nat \ {0} /\ MaxBatches \in Nat \ {0}
  /\ Volatile \subseteq Endpoint
  /\ Slow \in BOOLEAN /\ MaxChanges \in Nat /\ MaxLosses \in Nat

Child == [id : Nat, hosts : SUBSET Hosts, ports : SUBSET Ports]
Plan  == {"none", "single", "hosts", "ports"}
Busy  == {"discover", "probe", "host", "asset", "service", "save"}
Stage == Busy \cup {"idle", "done", "failed", "clash"}

VARIABLES
  open, awake,   \* the network: open endpoints, hosts that answer
  assets, inv,   \* the tables: hosts, and endpoints with a services row
  stage, req, plan,
  deep,          \* hosts a scan probes
  work,          \* children that have not returned
  broken,        \* a child returned an empty list
  listed, found, \* merged results: hosts reported up, endpoints reported open
  rest, todo,    \* hosts, and services of the host at hand, not yet stored
  here,          \* what a scan has looked up: <<host, port>>
  hit,           \* whether that look-up found a row
  stored,        \* services store_results returns
  ref,           \* service rows a scan holds that still exist
  closed, mute,  \* history: endpoints seen closed, hosts listed without an answer
  pruned,        \* history: <<scan, endpoint>> of each service removed
  calm,          \* history: nothing disturbed the scan, or has changed since
  met,           \* history: scans that ran while another one did
  changes, losses

network == <<open, awake, changes>>
tables  == <<assets, inv>>
request == <<req, plan, deep>>
results == <<work, broken, listed, found, closed, mute, losses>>
storing == <<rest, todo, here, hit, stored>>
rows    == <<ref, pruned>>
past    == <<calm, met>>
vars    == <<network, tables, stage, request, results, storing, rows, past>>

Goto(s, st) == stage' = [stage EXCEPT ![s] = st]
Least(a, b) == IF a < b THEN a ELSE b
-----------------------------------------------------------------------------
(* Scan policy *)

\* The TCP ports of a list: the default stands for the set given.
TcpOf(r, default) ==
  CASE r.list = "default" -> default [] r.list = "all" -> Tcp [] OTHER -> r.given

\* The ports the children of a scan are given.
Probed(r, p) ==
  TcpOf(r, IF p # "ports" /\ ~ r.udp THEN Top ELSE Common)
    \cup (IF r.udp THEN Udp ELSE {})

\* examined_port_scope: what a scan claims to have looked at.
Examined(r) ==
  IF r.udp THEN TcpOf(r, Common) \cup Udp ELSE TcpOf(r, Tcp)

\* should_port_fanout
PortFanout(r) ==
  /\ ~ r.udp
  /\ Cardinality(TcpOf(r, Common)) >= 2
  /\ Cardinality(TcpOf(r, Common)) >= Workers

BatchCount(n) == Least(Least(Workers * Oversubscribe, n), MaxBatches)

\* How many elements of S come before x in the sorted list of S.
Rank(S, x) == Cardinality({y \in S : y < x})

\* (mutant) the slices of m workers dealt over m + 1.
SliceOffByOne(S, m, i) == {x \in S : Rank(S, x) % (m + 1) = i}

\* Slice i of m of the round-robin split of the sorted ports S.
Slice(S, m, i) == {x \in S : Rank(S, x) % m = i}

\* split_port_specs, one child for each slice.
PortChildren(hosts, ports) ==
  LET m == BatchCount(Cardinality(ports)) IN
  {[id |-> i, hosts |-> hosts, ports |-> Slice(ports, m, i)] : i \in 0..(m - 1)}

\* split_host_queue over the named hosts followed by the discovered ones.
HostChildren(explicit, live, ports) ==
  LET n == Cardinality(explicit)
      m == BatchCount(n + Cardinality(live))
      Batch(i) == Slice(explicit, m, i)
                    \cup {h \in live : (n + Rank(live, h)) % m = i}
  IN {[id |-> i, hosts |-> Batch(i), ports |-> ports] : i \in 0..(m - 1)}
-----------------------------------------------------------------------------
Init ==
  /\ open \in Truths /\ awake = Hosts
  /\ inv \in Kept /\ assets = {e[1] : e \in inv}
  /\ stage = [s \in Scans |-> "idle"]
  /\ req \in [Scans -> Requests]
  /\ plan = [s \in Scans |-> "none"]
  /\ deep = [s \in Scans |-> {}]
  /\ work = [s \in Scans |-> {}]
  /\ broken = [s \in Scans |-> FALSE]
  /\ listed = [s \in Scans |-> {}]
  /\ found = [s \in Scans |-> {}]
  /\ rest = [s \in Scans |-> {}]
  /\ todo = [s \in Scans |-> {}]
  /\ here = [s \in Scans |-> <<0, 0>>]
  /\ hit = [s \in Scans |-> FALSE]
  /\ stored = [s \in Scans |-> {}]
  /\ ref = [s \in Scans |-> {}]
  /\ closed = [s \in Scans |-> {}]
  /\ mute = [s \in Scans |-> {}]
  /\ pruned = {}
  /\ calm = [s \in Scans |-> FALSE]
  /\ met = {}
  /\ changes = 0 /\ losses = 0

\* The children of a plan; one nmap is a child that the task runs itself.
Children(r, p, live) ==
  LET all   == r.explicit \cup live
      ports == Probed(r, p)
  IN CASE all = {}    -> {}
       [] all # {} /\ p = "ports" -> PortChildren(all, ports)
       [] all # {} /\ p = "hosts" -> HostChildren(r.explicit, live, ports)
       [] OTHER -> {[id |-> 0, hosts |-> all, ports |-> ports]}

\* Hand the hosts out: the plan of the scan and its children.
Dispatch(s, p, live) ==
  /\ plan' = [plan EXCEPT ![s] = p]
  /\ deep' = [deep EXCEPT ![s] = req[s].explicit \cup live]
  /\ work' = [work EXCEPT ![s] = Children(req[s], p, live)]
  /\ Goto(s, "probe")

\* The plan for a target with no large CIDR, or once its hosts are known.
PlanOf(r, chunked, n) ==
  LET room == IF chunked THEN n < 2 \/ n < Workers ELSE Workers > 1 IN
  CASE ~ r.fanout                          -> "single"
    [] r.fanout /\ room /\ PortFanout(r)   -> "ports"
    [] OTHER                               -> IF chunked THEN "hosts" ELSE "single"

\* A worker takes the scan: _run up to the discovery or the only hand-out.
Begin(s) ==
  /\ stage[s] = "idle"
  /\ LET others == {t \in Scans : stage[t] \in Busy} IN
     /\ calm' = [t \in Scans |-> t = s /\ others = {} /\ awake = Hosts]
     /\ met' = IF others = {} THEN met ELSE met \cup others \cup {s}
  /\ IF req[s].block = {}
     THEN Dispatch(s, PlanOf(req[s], FALSE, 0), {})
     ELSE Goto(s, "discover") /\ UNCHANGED <<plan, deep, work>>
  /\ UNCHANGED <<network, tables, req, broken, listed, found, closed, mute, losses,
                 storing, rows>>

\* Phase 1 of a large CIDR: the hosts that answer are dealt out.
Discover(s) ==
  /\ stage[s] = "discover"
  /\ LET live == req[s].block \cap awake IN
     Dispatch(s, PlanOf(req[s], TRUE, Cardinality(req[s].explicit) + Cardinality(live)),
              live)
  /\ UNCHANGED <<network, tables, req, broken, listed, found, closed, mute, losses,
                 storing, rows, past>>

\* Whether nmap gets -Pn: it then reports every target as up.
NoPing(s) == plan[s] # "single" \/ req[s].block # {}

\* A child's nmap ends.  Late hosts hit --host-timeout: up, with no port.
Probe(s, c, late) ==
  /\ stage[s] = "probe" /\ c \in work[s]
  /\ LET up      == IF NoPing(s) THEN c.hosts ELSE c.hosts \cap awake
         answers == (up \cap awake) \ late
         seen    == answers \X c.ports
     IN /\ listed' = [listed EXCEPT ![s] = @ \cup up]
        /\ found' = [found EXCEPT ![s] = @ \cup (seen \cap open)]
        /\ closed' = [closed EXCEPT ![s] = @ \cup (seen \ open)]
        /\ mute' = [mute EXCEPT ![s] = @ \cup (up \ answers)]
        /\ broken' = [broken EXCEPT ![s] = @ \/ up = {}]
  /\ work' = [work EXCEPT ![s] = @ \ {c}]
  /\ calm' = [calm EXCEPT ![s] = @ /\ late = {}]
  /\ UNCHANGED <<network, tables, stage, request, losses, storing, rows, met>>

\* nmap ends in an exception: a child returns [], an inline scan fails.
Lose(s, c) ==
  /\ stage[s] = "probe" /\ c \in work[s] /\ losses < MaxLosses
  /\ losses' = losses + 1
  /\ work' = [work EXCEPT ![s] = @ \ {c}]
  /\ broken' = [broken EXCEPT ![s] = TRUE]
  /\ calm' = [calm EXCEPT ![s] = FALSE]
  /\ IF plan[s] = "single" THEN Goto(s, "failed") ELSE UNCHANGED stage
  /\ UNCHANGED <<network, tables, request, listed, found, closed, mute,
                 storing, rows, met>>
-----------------------------------------------------------------------------
(* Merge and store *)

\* Every child is back: one result for each host, scope filter applied.
Merge(s) ==
  /\ stage[s] = "probe" /\ work[s] = {}
  /\ rest' = [rest EXCEPT ![s] = listed[s] \cap InScope]
  /\ Goto(s, "host")
  /\ UNCHANGED <<network, tables, request, results, todo, here, hit, stored, rows, past>>

\* upsert_asset looks the next host up.
FindAsset(s, h) ==
  /\ stage[s] = "host" /\ h \in rest[s]
  /\ rest' = [rest EXCEPT ![s] = @ \ {h}]
  /\ here' = [here EXCEPT ![s] = <<h, 0>>]
  /\ hit' = [hit EXCEPT ![s] = h \in assets]
  /\ Goto(s, "asset")
  /\ UNCHANGED <<network, tables, request, results, todo, stored, rows, past>>

\* ... and commits: a second insert of the address breaks its unique key.
SaveAsset(s) ==
  /\ stage[s] = "asset"
  /\ LET h == here[s][1] IN
     IF ~ hit[s] /\ h \in assets
     THEN Goto(s, "clash") /\ UNCHANGED <<assets, todo>>
     ELSE /\ assets' = assets \cup {h}
          /\ todo' = [todo EXCEPT ![s] = {e \in found[s] : e[1] = h}]
          /\ Goto(s, "service")
  /\ UNCHANGED <<network, inv, request, results, rest, here, hit, stored, rows, past>>

\* upsert_service looks the next service up.
FindService(s, e) ==
  /\ stage[s] = "service" /\ e \in todo[s]
  /\ todo' = [todo EXCEPT ![s] = @ \ {e}]
  /\ here' = [here EXCEPT ![s] = e]
  /\ hit' = [hit EXCEPT ![s] = e \in inv]
  /\ ref' = [ref EXCEPT ![s] = IF e \in inv THEN @ \cup {e} ELSE @]
  /\ Goto(s, "save")
  /\ UNCHANGED <<network, tables, request, results, rest, stored, pruned, past>>

\* The row is as it was looked up: the update finds it, the insert no other.
AsLookedUp(s) == IF hit[s] THEN here[s] \in ref[s] ELSE here[s] \notin inv

\* ... and commits: the insert may meet another scan's row, the update a
\* row that another scan has pruned.  (The refresh that follows may miss
\* the row as well; Match has that outcome.)
SaveService(s) ==
  /\ stage[s] = "save"
  /\ LET e == here[s] IN
     IF AsLookedUp(s)
     THEN /\ inv' = inv \cup {e}
          /\ ref' = [ref EXCEPT ![s] = @ \cup {e}]
          /\ stored' = [stored EXCEPT ![s] = @ \cup {e}]
          /\ Goto(s, "service")
     ELSE Goto(s, "clash") /\ UNCHANGED <<inv, ref, stored>>
  /\ UNCHANGED <<network, assets, request, results, rest, todo, here, hit, pruned, past>>

\* (mutant) a port plan prunes like the others.
MayPruneAlways(s) == TRUE

\* prune of _merge_and_process: a port plan prunes only when no block is empty.
MayPrune(s) == plan[s] = "ports" => ~ broken[s]

\* (mutant) the prune does not spare what the scan has just seen.
GhostsSeen(s, h) == {e \in inv : e[1] = h /\ e[2] \in Examined(req[s])}

\* The rows of a host that prune_unseen_services removes.
Ghosts(s, h) ==
  {e \in inv : e[1] = h /\ e \notin found[s] /\ e[2] \in Examined(req[s])}

\* The host's services are stored: prune the rest.  The delete is of the
\* rows just read; one that is gone already costs a warning only.
Prune(s) ==
  /\ stage[s] = "service" /\ todo[s] = {}
  /\ LET gone == IF MayPrune(s) THEN Ghosts(s, here[s][1]) ELSE {} IN
     /\ inv' = inv \ gone
     /\ ref' = [t \in Scans |-> ref[t] \ gone]
     /\ pruned' = pruned \cup ({s} \X gone)
  /\ Goto(s, "host")
  /\ UNCHANGED <<network, assets, request, results, storing, past>>

\* Every host is stored; CVE matching and the rest of _process_results go
\* well.  A service whose row is gone does no harm unless a CVE matches it.
Match(s) ==
  /\ stage[s] = "host" /\ rest[s] = {}
  /\ Goto(s, "done")
  /\ UNCHANGED <<network, tables, request, results, storing, rows, past>>

\* A finding refers to a service row that another scan has pruned.
MatchFails(s) ==
  /\ stage[s] = "host" /\ rest[s] = {} /\ ~ stored[s] \subseteq ref[s]
  /\ Goto(s, "clash")
  /\ UNCHANGED <<network, tables, request, results, storing, rows, past>>
-----------------------------------------------------------------------------
(* The network: an endpoint opens or closes, a host leaves or comes back. *)
Toggle(e) ==
  /\ changes < MaxChanges /\ changes' = changes + 1
  /\ open' = IF e \in open THEN open \ {e} ELSE open \cup {e}
  /\ calm' = [s \in Scans |-> FALSE]
  /\ UNCHANGED <<awake, tables, stage, request, results, storing, rows, met>>

LeaveOrReturn(h) ==
  /\ changes < MaxChanges /\ changes' = changes + 1
  /\ awake' = IF h \in awake THEN awake \ {h} ELSE awake \cup {h}
  /\ calm' = [s \in Scans |-> FALSE]
  /\ UNCHANGED <<open, tables, stage, request, results, storing, rows, met>>

Step(s) ==
  \/ Begin(s) \/ Discover(s)
  \/ \E c \in work[s] :
       \/ Lose(s, c)
       \/ \E late \in SUBSET c.hosts : (late = {} \/ Slow) /\ Probe(s, c, late)
  \/ Merge(s)
  \/ \E h \in rest[s] : FindAsset(s, h)
  \/ SaveAsset(s)
  \/ \E e \in todo[s] : FindService(s, e)
  \/ SaveService(s) \/ Prune(s) \/ Match(s) \/ MatchFails(s)

Next ==
  \/ \E s \in Scans : Step(s)
  \/ \E e \in Volatile : Toggle(e)
  \/ \E h \in Hosts : LeaveOrReturn(h)

Spec == Init /\ [][Next]_vars
-----------------------------------------------------------------------------
(* Properties *)

TypeOK ==
  /\ open \subseteq Endpoint /\ awake \subseteq Hosts
  /\ assets \subseteq Hosts /\ inv \subseteq Endpoint
  /\ stage \in [Scans -> Stage] /\ req \in [Scans -> Requests] /\ plan \in [Scans -> Plan]
  /\ deep \in [Scans -> SUBSET Hosts] /\ work \in [Scans -> SUBSET Child]
  /\ broken \in [Scans -> BOOLEAN]
  /\ listed \in [Scans -> SUBSET Hosts] /\ found \in [Scans -> SUBSET Endpoint]
  /\ rest \in [Scans -> SUBSET Hosts] /\ todo \in [Scans -> SUBSET Endpoint]
  /\ here \in [Scans -> Nat \X Nat] /\ hit \in [Scans -> BOOLEAN]
  /\ stored \in [Scans -> SUBSET Endpoint] /\ ref \in [Scans -> SUBSET Endpoint]
  /\ closed \in [Scans -> SUBSET Endpoint] /\ mute \in [Scans -> SUBSET Hosts]
  /\ pruned \subseteq Scans \X Endpoint
  /\ calm \in [Scans -> BOOLEAN] /\ met \subseteq Scans
  /\ changes \in 0..MaxChanges /\ losses \in 0..MaxLosses

\* A port the default list claims to have examined and gives to no child:
\* examined_port_scope documents that its services may go.
Assumed(s, e) == e[2] \in Examined(req[s]) \ Probed(req[s], plan[s])

\* A scan knows an endpoint: a child of its saw it open, saw it closed, or
\* was told that the host is up without an answer from it.
Settled(s, e) == e \in closed[s] \/ e[1] \in mute[s]
Known(s, e)   == e \in found[s] \/ Settled(s, e)

\* A service leaves the inventory only when the scan that removes it has an
\* answer for its very port -- a child that failed, or returned nothing,
\* never counts -- or when it is beyond the default list.
PrunedForCause ==
  \A s \in Scans, e \in Endpoint :
     <<s, e>> \in pruned => Settled(s, e) \/ Assumed(s, e)

\* What the children still out will look at.
Dealt(s) ==
  IF plan[s] = "ports"
  THEN listed[s] \subseteq deep[s] /\ \A c \in work[s] : c.hosts = deep[s]
  ELSE \A c \in work[s] : c.ports = Probed(req[s], plan[s])

\* What the children that returned have settled.
Accounted(s) ==
  IF plan[s] = "ports"
  THEN broken[s] \/ \A h \in deep[s], p \in Probed(req[s], "ports") :
         Known(s, <<h, p>>) \/ \E c \in work[s] : p \in c.ports
  ELSE \A h \in listed[s], p \in Probed(req[s], plan[s]) : Known(s, <<h, p>>)

\* Nothing has been done before the plan is made.
Untouched(s) ==
  /\ plan[s] = "none" /\ work[s] = {} /\ listed[s] = {} /\ ~ broken[s]
  /\ \A e \in Endpoint : <<s, e>> \notin pruned

\* Only hosts of the merged results are stored, and only after the merge.
Storing(s) ==
  /\ stage[s] \in {"host", "asset", "service", "save"} =>
       work[s] = {} /\ rest[s] \subseteq listed[s]
  /\ stage[s] \in {"asset", "service", "save"} => here[s][1] \in listed[s]
  /\ stage[s] \in {"service", "save"} => \A e \in todo[s] : e[1] \in listed[s]
  /\ stage[s] = "save" => here[s] \in Endpoint

ScanInv(s) ==
  /\ stage[s] \in {"idle", "discover"} => Untouched(s)
  /\ Dealt(s) /\ Accounted(s) /\ Storing(s)

\* The strengthened invariant behind PrunedForCause.
PruneInv == TypeOK /\ (\A s \in Scans : ScanInv(s)) /\ PrunedForCause

\* A scan that nothing disturbed -- no other scan, no change in the network,
\* no lost child, no host that timed out -- leaves the inventory of the hosts
\* it covers equal to the network, on every port it claims to have examined:
\* no service is missed by the split into children, and no ghost survives.
Agrees ==
  \A s \in Scans : stage[s] = "done" /\ calm[s] =>
    \A h \in deep[s] \cap InScope, p \in Examined(req[s]) :
       <<h, p>> \in inv <=> <<h, p>> \in open /\ p \in Probed(req[s], plan[s])

\* Storing breaks down on a database constraint only where two scans met:
\* a scan by itself never prunes a service it has just stored.
ClashNeedsCompany == \A s \in Scans : stage[s] = "clash" => s \in met

\* Why: a scan that meets no other finds the tables as it left them, and the
\* rows it holds are services it has seen, which its own prune spares.
Lone(s) ==
  s \notin met /\ stage[s] \in Busy =>
    /\ \A t \in Scans : stage[t] \in Busy => t = s
    /\ stored[s] \subseteq ref[s] \cap found[s]
    /\ todo[s] \subseteq found[s]
    /\ stage[s] = "asset" => (hit[s] <=> here[s][1] \in assets)
    /\ stage[s] = "save" => here[s] \in found[s] /\ AsLookedUp(s)

CompanyInv ==
  /\ \A s \in Scans : stage[s] = "idle" => stored[s] = {} /\ todo[s] = {}
  /\ \A s \in Scans : Lone(s)
  /\ ClashNeedsCompany
=============================================================================
