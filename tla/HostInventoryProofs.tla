------------------------- MODULE HostInventoryProofs -------------------------
(***************************************************************************)
(* A network scan removes a service only on an answer for its very port,   *)
(* for any number of hosts, ports, workers and scans that interleave.      *)
(***************************************************************************)
EXTENDS HostInventory, FiniteSetTheorems, TLAPS

-----------------------------------------------------------------------------
(* The split of the work *)

\* A batch count is at least one when there is anything to deal.
LEMMA BatchCountType ==
  ASSUME NEW n \in Nat
  PROVE  BatchCount(n) \in Nat /\ (n > 0 => BatchCount(n) > 0)
<1>1. Workers * Oversubscribe \in Nat /\ Workers * Oversubscribe > 0
  BY InventoryAssumption
<1> QED
  BY <1>1, InventoryAssumption DEF BatchCount, Least

\* Round robin loses nothing and deals nothing twice (split_port_specs):
\* every element of a finite set of numbers is in exactly one slice.
THEOREM SplitIsPartition ==
  ASSUME NEW S \in SUBSET Nat, IsFiniteSet(S), NEW m \in Nat, m > 0
  PROVE  /\ \A x \in S : \E i \in 0..(m - 1) : x \in Slice(S, m, i)
         /\ \A i, j \in 0..(m - 1) : i # j => Slice(S, m, i) \cap Slice(S, m, j) = {}
<1>1. ASSUME NEW x \in S PROVE Rank(S, x) \in Nat
  <2>1. IsFiniteSet({y \in S : y < x})
    BY FS_Subset
  <2> QED
    BY <2>1, FS_CardinalityType DEF Rank
<1>2. ASSUME NEW x \in S PROVE Rank(S, x) % m \in 0..(m - 1)
  BY <1>1, <1>2
<1>3. \A x \in S : x \in Slice(S, m, Rank(S, x) % m)
  BY DEF Slice
<1> QED
  BY <1>2, <1>3 DEF Slice

\* The ports of a request are ports.
LEMMA ProbedType ==
  ASSUME NEW r \in Requests, NEW p
  PROVE  Probed(r, p) \subseteq Ports /\ IsFiniteSet(Probed(r, p))
<1>1. r.given \subseteq Tcp
  BY InventoryAssumption DEF Request
<1>2. TcpOf(r, Top) \subseteq Tcp /\ TcpOf(r, Common) \subseteq Tcp
  BY <1>1, InventoryAssumption DEF TcpOf
<1>3. Probed(r, p) \subseteq Ports
  BY <1>2 DEF Probed, Ports
<1> QED
  BY <1>3, FS_Subset, InventoryAssumption

\* split_port_specs: children on all the hosts that share out the ports.
LEMMA PortChildrenType ==
  ASSUME NEW hosts \in SUBSET Hosts, NEW ports \in SUBSET Ports
  PROVE  /\ PortChildren(hosts, ports) \subseteq Child
         /\ \A c \in PortChildren(hosts, ports) : c.hosts = hosts
         /\ \A p \in ports : \E c \in PortChildren(hosts, ports) : p \in c.ports
<1> DEFINE n == Cardinality(ports)
           m == BatchCount(n)
<1>1. IsFiniteSet(ports) /\ ports \in SUBSET Nat
  BY FS_Subset, InventoryAssumption
<1>2. n \in Nat /\ m \in Nat
  BY <1>1, FS_CardinalityType, BatchCountType
<1>3. \A i : Slice(ports, m, i) \subseteq Ports
  BY DEF Slice
<1>4. PortChildren(hosts, ports) \subseteq Child
  <2> HIDE DEF m
  <2> QED
    BY <1>2, <1>3 DEF PortChildren, Child, m
<1>5. ASSUME NEW p \in ports PROVE \E c \in PortChildren(hosts, ports) : p \in c.ports
  <2>1. n > 0
    BY <1>1, <1>2, <1>5, FS_EmptySet
  <2>2. m > 0
    BY <1>2, <2>1, BatchCountType
  <2>3. PICK i \in 0..(m - 1) : p \in Slice(ports, m, i)
    <3> HIDE DEF m
    <3> QED
      BY <1>1, <1>2, <1>5, <2>2, SplitIsPartition
  <2> DEFINE c == [id |-> i, hosts |-> hosts, ports |-> Slice(ports, m, i)]
  <2>4. c \in PortChildren(hosts, ports)
    BY DEF PortChildren
  <2> QED
    BY <2>3, <2>4
<1> QED
  BY <1>4, <1>5 DEF PortChildren

\* split_host_queue: every child looks at all the ports.
LEMMA HostChildrenType ==
  ASSUME NEW E \in SUBSET Hosts, NEW L \in SUBSET Hosts, NEW ports \in SUBSET Ports
  PROVE  /\ HostChildren(E, L, ports) \subseteq Child
         /\ \A c \in HostChildren(E, L, ports) : c.ports = ports
<1> DEFINE n == Cardinality(E)
           m == BatchCount(n + Cardinality(L))
           Batch(i) == Slice(E, m, i) \cup {h \in L : (n + Rank(L, h)) % m = i}
<1>1. IsFiniteSet(E) /\ IsFiniteSet(L)
  BY FS_Subset, InventoryAssumption
<1>2. m \in Nat
  BY <1>1, FS_CardinalityType, BatchCountType
<1>3. \A i : Batch(i) \subseteq Hosts
  BY DEF Slice
<1>4. HostChildren(E, L, ports) =
        {[id |-> i, hosts |-> Batch(i), ports |-> ports] : i \in 0..(m - 1)}
  BY DEF HostChildren
<1> HIDE DEF m, Batch
<1> QED
  BY <1>2, <1>3, <1>4 DEF Child

-----------------------------------------------------------------------------
(* Types *)

\* The children of any plan have their type, and look at what they should.
LEMMA ChildrenType ==
  ASSUME NEW r \in Requests, NEW p \in Plan, NEW live \in SUBSET Hosts
  PROVE  /\ Children(r, p, live) \subseteq Child
         /\ p # "ports" => \A c \in Children(r, p, live) : c.ports = Probed(r, p)
         /\ p = "ports" =>
              /\ \A c \in Children(r, p, live) : c.hosts = r.explicit \cup live
              /\ \A h \in r.explicit \cup live, q \in Probed(r, p) :
                   \E c \in Children(r, p, live) : q \in c.ports
<1> DEFINE all   == r.explicit \cup live
           ports == Probed(r, p)
<1>1. r.explicit \in SUBSET Hosts /\ all \in SUBSET Hosts
  BY InventoryAssumption DEF Request
<1>2. ports \in SUBSET Ports
  BY ProbedType
<1> HIDE DEF ports
<1>3. CASE all = {}
  <2>1. Children(r, p, live) = {}
    BY <1>3 DEF Children
  <2> QED
    BY <1>3, <2>1
<1>4. CASE all # {} /\ p = "ports"
  <2>1. Children(r, p, live) = PortChildren(all, ports)
    BY <1>4 DEF Children, ports
  <2> HIDE DEF all
  <2>2. /\ PortChildren(all, ports) \subseteq Child
        /\ \A c \in PortChildren(all, ports) : c.hosts = all
        /\ \A q \in ports : \E c \in PortChildren(all, ports) : q \in c.ports
    BY <1>1, <1>2, PortChildrenType
  <2> QED
    BY <1>4, <2>1, <2>2 DEF ports, all
<1>5. CASE all # {} /\ p = "hosts"
  <2>1. Children(r, p, live) = HostChildren(r.explicit, live, ports)
    BY <1>5 DEF Children, ports
  <2>2. /\ HostChildren(r.explicit, live, ports) \subseteq Child
        /\ \A c \in HostChildren(r.explicit, live, ports) : c.ports = ports
    BY <1>1, <1>2, HostChildrenType
  <2> QED
    BY <1>5, <2>1, <2>2 DEF ports
<1>6. CASE all # {} /\ p \notin {"ports", "hosts"}
  <2>1. Children(r, p, live) = {[id |-> 0, hosts |-> all, ports |-> ports]}
    BY <1>6 DEF Children, ports
  <2> QED
    BY <1>1, <1>2, <1>6, <2>1 DEF ports, Child
<1> QED
  BY <1>3, <1>4, <1>5, <1>6

\* What the hand-out of the work writes has its type.
LEMMA DispatchType ==
  ASSUME TypeOK, NEW s \in Scans, NEW p \in Plan, NEW live \in SUBSET Hosts,
         Dispatch(s, p, live)
  PROVE  /\ plan' \in [Scans -> Plan]
         /\ deep' \in [Scans -> SUBSET Hosts]
         /\ work' \in [Scans -> SUBSET Child]
         /\ stage' \in [Scans -> Stage]
<1>1. req[s] \in Requests /\ req[s].explicit \subseteq Hosts
  BY InventoryAssumption DEF TypeOK, Request
<1>2. Children(req[s], p, live) \subseteq Child
  BY <1>1, ChildrenType
<1>3. work' \in [Scans -> SUBSET Child]
  BY <1>2 DEF Dispatch, TypeOK
<1>4. deep' \in [Scans -> SUBSET Hosts] /\ plan' \in [Scans -> Plan]
  BY <1>1 DEF Dispatch, TypeOK
<1>5. stage' \in [Scans -> Stage]
  BY DEF Dispatch, Goto, TypeOK, Stage, Busy
<1> QED
  BY <1>3, <1>4, <1>5

\* Moving a scan to another stage keeps the type of stage.
LEMMA GotoType ==
  ASSUME TypeOK, NEW s \in Scans, NEW st \in Stage, Goto(s, st)
  PROVE  stage' \in [Scans -> Stage]
BY DEF TypeOK, Goto

\* The plan is one of the plans.
LEMMA PlanOfType == \A r, chunked, n : PlanOf(r, chunked, n) \in {"single", "hosts", "ports"}
BY Zenon DEF PlanOf

\* Types hold at the start.
LEMMA InitType == Init => TypeOK
<1> SUFFICES ASSUME Init PROVE TypeOK
  OBVIOUS
<1>1. open \subseteq Endpoint /\ inv \subseteq Endpoint /\ awake \subseteq Hosts
  BY InventoryAssumption DEF Init
<1>2. assets \subseteq Hosts
  BY <1>1 DEF Init, Endpoint
<1>3. stage \in [Scans -> Stage] /\ plan \in [Scans -> Plan]
  BY DEF Init, Stage, Plan
<1>4. broken \in [Scans -> BOOLEAN] /\ hit \in [Scans -> BOOLEAN] /\ calm \in [Scans -> BOOLEAN]
  BY Zenon DEF Init
<1>5. changes \in 0..MaxChanges /\ losses \in 0..MaxLosses
  BY InventoryAssumption DEF Init
<1> QED
  BY <1>1, <1>2, <1>3, <1>4, <1>5 DEF Init, TypeOK

\* The steps that make the plan keep the types.
LEMMA PlanType ==
  ASSUME TypeOK, NEW s \in Scans, Begin(s) \/ Discover(s)
  PROVE  TypeOK'
<1>1. req[s] \in Requests /\ req[s].block \subseteq Hosts
  BY InventoryAssumption DEF TypeOK, Request
<1>2. /\ plan' \in [Scans -> Plan] /\ deep' \in [Scans -> SUBSET Hosts]
      /\ work' \in [Scans -> SUBSET Child] /\ stage' \in [Scans -> Stage]
  <2>1. CASE Begin(s) /\ req[s].block = {}
    <3>1. Dispatch(s, PlanOf(req[s], FALSE, 0), {})
      BY <2>1 DEF Begin
    <3>2. PlanOf(req[s], FALSE, 0) \in Plan /\ {} \in SUBSET Hosts
      BY PlanOfType DEF Plan
    <3> QED
      BY <3>1, <3>2, DispatchType
  <2>2. CASE Begin(s) /\ req[s].block # {}
    <3>1. Goto(s, "discover") /\ UNCHANGED <<plan, deep, work>>
      BY <2>2 DEF Begin
    <3>2. stage' \in [Scans -> Stage]
      BY <3>1, GotoType DEF Stage, Busy
    <3> QED
      BY <3>1, <3>2 DEF TypeOK
  <2>3. CASE Discover(s)
    <3>1. PICK n : Dispatch(s, PlanOf(req[s], TRUE, n), req[s].block \cap awake)
      BY <2>3 DEF Discover
    <3>2. PlanOf(req[s], TRUE, n) \in Plan /\ req[s].block \cap awake \in SUBSET Hosts
      BY <1>1, PlanOfType DEF Plan
    <3> QED
      BY <3>1, <3>2, DispatchType
  <2> QED
    BY <2>1, <2>2, <2>3
<1>3. calm' \in [Scans -> BOOLEAN] /\ met' \subseteq Scans
  <2>1. CASE Begin(s)
    BY <2>1, Zenon DEF Begin, TypeOK
  <2>2. CASE Discover(s)
    BY <2>2 DEF Discover, past, TypeOK
  <2> QED
    BY <2>1, <2>2
<1> QED
  BY <1>2, <1>3 DEF Begin, Discover, TypeOK, network, tables, storing, rows

\* The end of a child keeps the types.
LEMMA ChildEndType ==
  ASSUME TypeOK, NEW s \in Scans, NEW c \in work[s],
         Lose(s, c) \/ \E late \in SUBSET c.hosts : Probe(s, c, late)
  PROVE  TypeOK'
<1>1. c.hosts \subseteq Hosts /\ c.ports \subseteq Ports
  BY DEF TypeOK, Child
<1>2. CASE Lose(s, c)
  <2>1. stage' \in [Scans -> Stage] /\ work' \in [Scans -> SUBSET Child]
    BY <1>2 DEF Lose, Goto, TypeOK, Stage
  <2>2. broken' \in [Scans -> BOOLEAN] /\ calm' \in [Scans -> BOOLEAN]
    BY <1>2 DEF Lose, TypeOK
  <2>3. losses' \in 0..MaxLosses
    BY <1>2, InventoryAssumption DEF Lose, TypeOK
  <2> QED
    BY <1>2, <2>1, <2>2, <2>3
       DEF Lose, TypeOK, network, tables, request, storing, rows
<1>3. ASSUME NEW late \in SUBSET c.hosts, Probe(s, c, late) PROVE TypeOK'
  <2> DEFINE up      == IF NoPing(s) THEN c.hosts ELSE c.hosts \cap awake
             answers == (up \cap awake) \ late
             saw     == answers \X c.ports
  <2>1. up \subseteq Hosts /\ saw \subseteq Endpoint
    BY <1>1 DEF Endpoint
  <2>2. /\ listed' = [listed EXCEPT ![s] = @ \cup up]
        /\ found' = [found EXCEPT ![s] = @ \cup (saw \cap open)]
        /\ closed' = [closed EXCEPT ![s] = @ \cup (saw \ open)]
        /\ mute' = [mute EXCEPT ![s] = @ \cup (up \ answers)]
    BY <1>3 DEF Probe
  <2> HIDE DEF up, answers, saw
  <2>3. listed' \in [Scans -> SUBSET Hosts] /\ mute' \in [Scans -> SUBSET Hosts]
    BY <2>1, <2>2 DEF TypeOK
  <2>4. found' \in [Scans -> SUBSET Endpoint] /\ closed' \in [Scans -> SUBSET Endpoint]
    BY <2>1, <2>2 DEF TypeOK
  <2>5. broken' \in [Scans -> BOOLEAN] /\ calm' \in [Scans -> BOOLEAN]
    BY <1>3, Zenon DEF Probe, TypeOK
  <2>6. work' \in [Scans -> SUBSET Child]
    BY <1>3 DEF Probe, TypeOK
  <2> QED
    BY <1>3, <2>3, <2>4, <2>5, <2>6
       DEF Probe, TypeOK, network, tables, request, storing, rows
<1> QED
  BY <1>2, <1>3

\* The merge and the look-ups keep the types.
LEMMA LookUpType ==
  ASSUME TypeOK, NEW s \in Scans,
         \/ Merge(s) \/ Match(s) \/ MatchFails(s)
         \/ \E h \in rest[s] : FindAsset(s, h)
         \/ \E e \in todo[s] : FindService(s, e)
  PROVE  TypeOK'
<1>1. CASE Merge(s)
  BY <1>1 DEF Merge, Goto, TypeOK, Stage, Busy, network, tables, request, results, rows, past
<1>2. CASE Match(s) \/ MatchFails(s)
  BY <1>2 DEF Match, MatchFails, Goto, TypeOK, Stage, Busy,
              network, tables, request, results, storing, rows, past
<1>3. ASSUME NEW h \in rest[s], FindAsset(s, h) PROVE TypeOK'
  <2>1. <<h, 0>> \in Nat \X Nat
    BY InventoryAssumption DEF TypeOK
  <2>2. hit' \in [Scans -> BOOLEAN]
    BY <1>3 DEF FindAsset, TypeOK
  <2> QED
    BY <1>3, <2>1, <2>2 DEF FindAsset, Goto, TypeOK, Stage, Busy,
              network, tables, request, results, rows, past
<1>4. ASSUME NEW e \in todo[s], FindService(s, e) PROVE TypeOK'
  <2>1. e \in Endpoint
    BY DEF TypeOK
  <2>4. e \in Nat \X Nat
    BY <2>1, InventoryAssumption DEF Endpoint
  <2>2. hit' \in [Scans -> BOOLEAN]
    BY <1>4 DEF FindService, TypeOK
  <2>3. ref' \in [Scans -> SUBSET Endpoint]
    BY <1>4, <2>1 DEF FindService, TypeOK
  <2> QED
    BY <1>4, <2>1, <2>2, <2>3, <2>4 DEF FindService, Goto, TypeOK, Stage, Busy,
              network, tables, request, results, past
<1> QED
  BY <1>1, <1>2, <1>3, <1>4

\* The commits keep the types.
LEMMA CommitType ==
  ASSUME TypeOK, NEW s \in Scans, Storing(s), SaveAsset(s) \/ SaveService(s) \/ Prune(s)
  PROVE  TypeOK'
<1>1. CASE SaveAsset(s)
  <2>1. here[s][1] \in Hosts
    BY <1>1 DEF SaveAsset, Storing, TypeOK
  <2>2. assets' \subseteq Hosts /\ todo' \in [Scans -> SUBSET Endpoint]
    BY <1>1, <2>1 DEF SaveAsset, TypeOK
  <2>3. stage' \in [Scans -> Stage]
    <3>1. Goto(s, "clash") \/ Goto(s, "service")
      BY <1>1, Zenon DEF SaveAsset
    <3> QED
      BY <3>1, GotoType DEF Stage, Busy
  <2> QED
    BY <1>1, <2>2, <2>3 DEF SaveAsset, TypeOK, network, request, results, rows, past
<1>2. CASE SaveService(s)
  <2>1. here[s] \in Endpoint
    BY <1>2 DEF SaveService, Storing
  <2>2. \/ /\ inv' = inv \cup {here[s]} /\ Goto(s, "service")
           /\ ref' = [ref EXCEPT ![s] = @ \cup {here[s]}]
           /\ stored' = [stored EXCEPT ![s] = @ \cup {here[s]}]
        \/ Goto(s, "clash") /\ UNCHANGED <<inv, ref, stored>>
    BY <1>2, Zenon DEF SaveService
  <2>3. /\ inv' \subseteq Endpoint
        /\ ref' \in [Scans -> SUBSET Endpoint] /\ stored' \in [Scans -> SUBSET Endpoint]
    <3>1. CASE UNCHANGED <<inv, ref, stored>>
      BY <3>1 DEF TypeOK
    <3>2. CASE /\ inv' = inv \cup {here[s]}
               /\ ref' = [ref EXCEPT ![s] = @ \cup {here[s]}]
               /\ stored' = [stored EXCEPT ![s] = @ \cup {here[s]}]
      BY <2>1, <3>2 DEF TypeOK
    <3> QED
      BY <2>2, <3>1, <3>2
  <2>4. stage' \in [Scans -> Stage]
    BY <2>2, GotoType DEF Stage, Busy
  <2> QED
    BY <1>2, <2>3, <2>4 DEF SaveService, TypeOK, network, request, results, past
<1>3. CASE Prune(s)
  <2> DEFINE gone == IF MayPrune(s) THEN Ghosts(s, here[s][1]) ELSE {}
  <2>1. gone \subseteq inv
    BY DEF Ghosts
  <2>2. /\ inv' = inv \ gone
        /\ ref' = [t \in Scans |-> ref[t] \ gone]
        /\ pruned' = pruned \cup ({s} \X gone)
    BY <1>3 DEF Prune
  <2> HIDE DEF gone
  <2>3. inv' \subseteq Endpoint /\ ref' \in [Scans -> SUBSET Endpoint]
    BY <2>2 DEF TypeOK
  <2>4. pruned' \subseteq Scans \X Endpoint
    BY <2>1, <2>2 DEF TypeOK
  <2> QED
    BY <1>3, <2>3, <2>4 DEF Prune, Goto, TypeOK, Stage, Busy,
              network, request, results, storing, past
<1> QED
  BY <1>1, <1>2, <1>3

\* A change in the network keeps the types.
LEMMA NetworkType ==
  ASSUME TypeOK,
         \/ \E e \in Volatile : Toggle(e)
         \/ \E h \in Hosts : LeaveOrReturn(h)
  PROVE  TypeOK'
<1>1. changes' \in 0..MaxChanges /\ open' \subseteq Endpoint /\ awake' \subseteq Hosts
  <2>1. MaxChanges \in Nat /\ Volatile \subseteq Endpoint
    BY InventoryAssumption
  <2>2. ASSUME NEW e \in Volatile, Toggle(e)
        PROVE  changes' \in 0..MaxChanges /\ open' \subseteq Endpoint /\ awake' \subseteq Hosts
    BY <2>1, <2>2 DEF Toggle, TypeOK
  <2>3. ASSUME NEW h \in Hosts, LeaveOrReturn(h)
        PROVE  changes' \in 0..MaxChanges /\ open' \subseteq Endpoint /\ awake' \subseteq Hosts
    BY <2>1, <2>3 DEF LeaveOrReturn, TypeOK
  <2> QED
    BY <2>2, <2>3
<1>2. calm' \in [Scans -> BOOLEAN]
  BY Zenon DEF Toggle, LeaveOrReturn
<1> QED
  BY <1>1, <1>2 DEF Toggle, LeaveOrReturn, TypeOK,
     tables, request, results, storing, rows

-----------------------------------------------------------------------------
(* What a scan knows *)

\* A step that leaves a scan's own variables alone keeps its invariant.
LEMMA Frame ==
  ASSUME NEW t, ScanInv(t),
         stage'[t] = stage[t], req' = req, plan'[t] = plan[t], deep'[t] = deep[t],
         work'[t] = work[t], broken'[t] = broken[t], listed'[t] = listed[t],
         found'[t] = found[t], closed'[t] = closed[t], mute'[t] = mute[t],
         rest'[t] = rest[t], todo'[t] = todo[t], here'[t] = here[t],
         \A e \in Endpoint : <<t, e>> \in pruned' <=> <<t, e>> \in pruned
  PROVE  ScanInv(t)'
<1>2. \A h, p : Known(t, <<h, p>>)' <=> Known(t, <<h, p>>)
  BY DEF Known, Settled
<1>3. Dealt(t)'
  BY DEF ScanInv, Dealt
<1>4. Accounted(t)'
  BY <1>2 DEF ScanInv, Accounted
<1>5. stage'[t] \in {"idle", "discover"} => Untouched(t)'
  BY DEF ScanInv, Untouched
<1>6. Storing(t)'
  BY DEF ScanInv, Storing
<1> QED
  BY <1>3, <1>4, <1>5, <1>6 DEF ScanInv

\* The hand-out: nothing is known yet, and all of it is dealt out.
LEMMA DispatchInv ==
  ASSUME TypeOK, NEW s \in Scans, NEW p \in Plan, NEW live \in SUBSET Hosts,
         Untouched(s), Dispatch(s, p, live), req' = req, listed' = listed
  PROVE  ScanInv(s)'
<1>1. req[s] \in Requests
  BY DEF TypeOK
<1>2. /\ plan'[s] = p /\ deep'[s] = req[s].explicit \cup live
      /\ work'[s] = Children(req[s], p, live) /\ stage'[s] = "probe"
  BY DEF Dispatch, Goto, TypeOK
<1>3. /\ p # "ports" => \A c \in work'[s] : c.ports = Probed(req[s], p)
      /\ p = "ports" =>
           /\ \A c \in work'[s] : c.hosts = deep'[s]
           /\ \A h \in deep'[s], q \in Probed(req[s], p) : \E c \in work'[s] : q \in c.ports
  BY <1>1, <1>2, ChildrenType
<1>4. listed'[s] = {}
  BY DEF Untouched
<1>5. Dealt(s)'
  BY <1>2, <1>3, <1>4 DEF Dealt
<1>6. Accounted(s)'
  BY <1>2, <1>3, <1>4 DEF Accounted
<1> QED
  BY <1>2, <1>5, <1>6 DEF ScanInv, Storing

\* The plan is made on nothing.
LEMMA PlanInv ==
  ASSUME PruneInv, NEW s \in Scans, Begin(s) \/ Discover(s)
  PROVE  ScanInv(s)'
<1>1. TypeOK /\ ScanInv(s)
  BY DEF PruneInv
<1>2. Untouched(s)
  BY <1>1 DEF Begin, Discover, ScanInv
<1>3. req' = req /\ listed' = listed /\ broken' = broken /\ pruned' = pruned
  BY DEF Begin, Discover, rows
<1>4. CASE Begin(s) /\ req[s].block = {}
  <2>1. Dispatch(s, PlanOf(req[s], FALSE, 0), {})
    BY <1>4 DEF Begin
  <2>2. PlanOf(req[s], FALSE, 0) \in Plan /\ {} \in SUBSET Hosts
    BY PlanOfType DEF Plan
  <2> QED
    BY <1>1, <1>2, <1>3, <2>1, <2>2, DispatchInv
<1>5. CASE Begin(s) /\ req[s].block # {}
  <2>1. Goto(s, "discover") /\ UNCHANGED <<plan, deep, work>>
    BY <1>5 DEF Begin
  <2>2. stage'[s] = "discover"
    BY <1>1, <2>1 DEF Goto, TypeOK
  <2>3. Untouched(s)'
    BY <1>2, <1>3, <2>1 DEF Untouched
  <2> QED
    BY <2>2, <2>3 DEF ScanInv, Dealt, Accounted, Storing, Untouched
<1>6. CASE Discover(s)
  <2>1. PICK n : Dispatch(s, PlanOf(req[s], TRUE, n), req[s].block \cap awake)
    BY <1>6 DEF Discover
  <2>2. req[s].block \subseteq Hosts
    BY <1>1, InventoryAssumption DEF TypeOK, Request
  <2>3. PlanOf(req[s], TRUE, n) \in Plan /\ req[s].block \cap awake \in SUBSET Hosts
    BY <2>2, PlanOfType DEF Plan
  <2> QED
    BY <1>1, <1>2, <1>3, <2>1, <2>3, DispatchInv
<1> QED
  BY <1>4, <1>5, <1>6

\* A child that answers settles its ports on every host it lists.
LEMMA ProbeInv ==
  ASSUME PruneInv, NEW s \in Scans, NEW c \in work[s], NEW late, Probe(s, c, late)
  PROVE  ScanInv(s)'
<1> DEFINE up      == IF NoPing(s) THEN c.hosts ELSE c.hosts \cap awake
           answers == (up \cap awake) \ late
           saw     == answers \X c.ports
<1>1. TypeOK /\ ScanInv(s)
  BY DEF PruneInv
<1>2. /\ listed'[s] = listed[s] \cup up
      /\ found'[s] = found[s] \cup (saw \cap open)
      /\ closed'[s] = closed[s] \cup (saw \ open)
      /\ mute'[s] = mute[s] \cup (up \ answers)
      /\ work'[s] = work[s] \ {c}
  BY <1>1 DEF Probe, TypeOK
<1>3. broken'[s] <=> broken[s] \/ up = {}
  BY <1>1, Zenon DEF Probe, TypeOK
<1>4. req' = req /\ plan' = plan /\ deep' = deep /\ stage' = stage /\ stage[s] = "probe"
  BY DEF Probe, request
<1>5. ASSUME NEW h, NEW p, Known(s, <<h, p>>) PROVE Known(s, <<h, p>>)'
  BY <1>2, <1>5 DEF Known, Settled
<1>6. ASSUME NEW h \in up, NEW p \in c.ports PROVE Known(s, <<h, p>>)'
  BY <1>2 DEF Known, Settled
<1> HIDE DEF up, answers, saw
<1>7. CASE plan[s] = "ports"
  <2>1. up = c.hosts
    BY <1>7 DEF up, NoPing
  <2>2. c.hosts = deep[s] /\ Dealt(s)'
    BY <1>1, <1>2, <1>4, <1>7, <2>1 DEF ScanInv, Dealt
  <2>3. Accounted(s)'
    BY <1>1, <1>2, <1>3, <1>4, <1>5, <1>6, <1>7, <2>1, <2>2 DEF ScanInv, Accounted
  <2> QED
    BY <1>4, <2>2, <2>3 DEF ScanInv, Storing
<1>8. CASE plan[s] # "ports"
  <2>1. c.ports = Probed(req[s], plan[s]) /\ Dealt(s)'
    BY <1>1, <1>2, <1>4, <1>8 DEF ScanInv, Dealt
  <2>2. Accounted(s)'
    BY <1>1, <1>2, <1>4, <1>5, <1>6, <1>8, <2>1 DEF ScanInv, Accounted
  <2> QED
    BY <1>4, <2>1, <2>2 DEF ScanInv, Storing
<1> QED
  BY <1>7, <1>8

\* A child that returns nothing settles nothing: its scan does not prune a
\* port plan, and lists none of the child's hosts otherwise.
LEMMA LoseInv ==
  ASSUME PruneInv, NEW s \in Scans, NEW c \in work[s], Lose(s, c)
  PROVE  ScanInv(s)'
<1>1. TypeOK /\ ScanInv(s)
  BY DEF PruneInv
<1>2. /\ req' = req /\ plan' = plan /\ deep' = deep /\ listed' = listed
      /\ found' = found /\ closed' = closed /\ mute' = mute
      /\ work'[s] = work[s] \ {c} /\ stage'[s] \in {"probe", "failed"}
  BY <1>1 DEF Lose, Goto, request, TypeOK
<1>3. broken'[s]
  BY <1>1 DEF Lose, TypeOK
<1>4. Dealt(s)'
  BY <1>1, <1>2 DEF ScanInv, Dealt
<1>5. \A h, p : Known(s, <<h, p>>)' <=> Known(s, <<h, p>>)
  BY <1>2 DEF Known, Settled
<1>6. Accounted(s)'
  BY <1>1, <1>2, <1>3, <1>5 DEF ScanInv, Accounted
<1> QED
  BY <1>2, <1>4, <1>6 DEF ScanInv, Storing

\* Merging and storing touch nothing the scan knows.
LEMMA StoreInv ==
  ASSUME PruneInv, NEW s \in Scans,
         \/ Merge(s) \/ Match(s) \/ MatchFails(s) \/ SaveAsset(s) \/ SaveService(s) \/ Prune(s)
         \/ \E h \in rest[s] : FindAsset(s, h)
         \/ \E e \in todo[s] : FindService(s, e)
  PROVE  ScanInv(s)'
<1>1. TypeOK /\ ScanInv(s)
  BY DEF PruneInv
<1>2. /\ req' = req /\ plan' = plan /\ deep' = deep /\ work' = work /\ broken' = broken
      /\ listed' = listed /\ found' = found /\ closed' = closed /\ mute' = mute
  BY DEF Merge, Match, MatchFails, SaveAsset, SaveService, Prune, FindAsset, FindService,
         request, results
<1>3. \A h, p : Known(s, <<h, p>>)' <=> Known(s, <<h, p>>)
  BY <1>2 DEF Known, Settled
<1>4. Dealt(s)' /\ Accounted(s)'
  BY <1>1, <1>2, <1>3 DEF ScanInv, Dealt, Accounted
<1>5. stage'[s] \notin {"idle", "discover"} /\ Storing(s)'
  <2>1. CASE Merge(s)
    BY <1>1, <1>2, <2>1 DEF Merge, Goto, Storing, TypeOK
  <2>2. CASE Match(s) \/ MatchFails(s)
    BY <1>1, <1>2, <2>2 DEF Match, MatchFails, Goto, Storing, TypeOK
  <2>3. ASSUME NEW h \in rest[s], FindAsset(s, h)
        PROVE  stage'[s] \notin {"idle", "discover"} /\ Storing(s)'
    <3>1. stage[s] = "host" /\ stage'[s] = "asset" /\ rest'[s] = rest[s] \ {h} /\ here'[s] = <<h, 0>>
      BY <1>1, <2>3 DEF FindAsset, Goto, TypeOK
    <3> QED
      BY <1>1, <1>2, <3>1 DEF ScanInv, Storing
  <2>4. ASSUME NEW e \in todo[s], FindService(s, e)
        PROVE  stage'[s] \notin {"idle", "discover"} /\ Storing(s)'
    <3>1. /\ stage[s] = "service" /\ stage'[s] = "save" /\ rest' = rest
          /\ todo'[s] = todo[s] \ {e} /\ here'[s] = e /\ e \in Endpoint
      BY <1>1, <2>4 DEF FindService, Goto, TypeOK
    <3> QED
      BY <1>1, <1>2, <3>1 DEF ScanInv, Storing
  <2>5. CASE SaveAsset(s)
    <3>1. /\ stage[s] = "asset" /\ rest' = rest /\ here' = here
          /\ \/ stage'[s] = "clash"
             \/ stage'[s] = "service" /\ todo'[s] = {e \in found[s] : e[1] = here[s][1]}
      <4>1. \/ Goto(s, "clash")
            \/ /\ Goto(s, "service")
               /\ todo' = [todo EXCEPT ![s] = {e \in found[s] : e[1] = here[s][1]}]
        BY <2>5, Zenon DEF SaveAsset
      <4> QED
        BY <1>1, <2>5, <4>1 DEF SaveAsset, Goto, TypeOK
    <3> QED
      BY <1>1, <1>2, <3>1 DEF ScanInv, Storing
  <2>6. CASE SaveService(s)
    <3>1. /\ stage[s] = "save" /\ rest' = rest /\ here' = here /\ todo' = todo
          /\ stage'[s] \in {"clash", "service"}
      <4>1. Goto(s, "clash") \/ Goto(s, "service")
        BY <2>6, Zenon DEF SaveService
      <4> QED
        BY <1>1, <2>6, <4>1 DEF SaveService, Goto, TypeOK
    <3> QED
      BY <1>1, <1>2, <3>1 DEF ScanInv, Storing
  <2>7. CASE Prune(s)
    <3>1. stage[s] = "service" /\ rest' = rest /\ stage'[s] = "host"
      BY <1>1, <2>7 DEF Prune, Goto, TypeOK, storing
    <3> QED
      BY <1>1, <1>2, <3>1 DEF ScanInv, Storing
  <2> QED
    BY <2>1, <2>2, <2>3, <2>4, <2>5, <2>6, <2>7
<1> QED
  BY <1>4, <1>5 DEF ScanInv

\* A scan's prune rests on what the scan knows.
LEMMA PruneCause ==
  ASSUME PruneInv, NEW s \in Scans, Prune(s), NEW e \in Endpoint,
         <<s, e>> \in pruned', <<s, e>> \notin pruned
  PROVE  Settled(s, e) \/ Assumed(s, e)
<1>1. TypeOK /\ ScanInv(s)
  BY DEF PruneInv
<1>2. MayPrune(s) /\ e \in Ghosts(s, here[s][1])
  BY DEF Prune
<1>3. e[1] \in listed[s] /\ work[s] = {} /\ e[2] \in Examined(req[s]) /\ e \notin found[s]
  BY <1>1, <1>2 DEF Ghosts, Prune, ScanInv, Storing
<1>4. CASE e[2] \in Probed(req[s], plan[s])
  <2>1. e = <<e[1], e[2]>>
    BY DEF Endpoint
  <2>2. Known(s, <<e[1], e[2]>>)
    BY <1>1, <1>2, <1>3, <1>4 DEF ScanInv, Dealt, Accounted, MayPrune
  <2> QED
    BY <1>3, <2>1, <2>2 DEF Known
<1> QED
  BY <1>3, <1>4 DEF Assumed

-----------------------------------------------------------------------------
(* The invariant *)

\* It holds of the first states.
LEMMA InitInv == Init => PruneInv
<1> SUFFICES ASSUME Init PROVE PruneInv
  OBVIOUS
<1>1. TypeOK
  BY InitType
<1>2. ASSUME NEW s \in Scans PROVE ScanInv(s)
  <2>1. stage[s] = "idle" /\ Untouched(s)
    BY Zenon DEF Init, Untouched
  <2> QED
    BY <2>1 DEF ScanInv, Untouched, Dealt, Accounted, Storing
<1> QED
  BY <1>1, <1>2 DEF Init, PruneInv, PrunedForCause

\* A step of one scan leaves what the others know alone.
LEMMA OthersInv ==
  ASSUME PruneInv, NEW s \in Scans, Step(s), NEW t \in Scans, t # s
  PROVE  ScanInv(t)'
<1>1. TypeOK /\ ScanInv(t)
  BY DEF PruneInv
<1> DEFINE Alone ==
      /\ stage'[t] = stage[t] /\ req' = req /\ plan'[t] = plan[t] /\ deep'[t] = deep[t]
      /\ work'[t] = work[t] /\ broken'[t] = broken[t] /\ listed'[t] = listed[t]
      /\ found'[t] = found[t] /\ closed'[t] = closed[t] /\ mute'[t] = mute[t]
      /\ rest'[t] = rest[t] /\ todo'[t] = todo[t] /\ here'[t] = here[t]
      /\ \A e \in Endpoint : <<t, e>> \in pruned' <=> <<t, e>> \in pruned
<1>2. CASE Begin(s) \/ Discover(s)
  <2>1. plan'[t] = plan[t] /\ deep'[t] = deep[t] /\ work'[t] = work[t] /\ stage'[t] = stage[t]
    <3>1. ASSUME NEW p, NEW live, Dispatch(s, p, live)
          PROVE  plan'[t] = plan[t] /\ deep'[t] = deep[t] /\ work'[t] = work[t] /\ stage'[t] = stage[t]
      BY <1>1, <3>1 DEF Dispatch, Goto, TypeOK
    <3>2. CASE Begin(s)
      BY <1>1, <3>1, <3>2 DEF Begin, Goto, TypeOK
    <3>3. CASE Discover(s)
      BY <3>1, <3>3 DEF Discover
    <3> QED
      BY <1>2, <3>2, <3>3
  <2>2. Alone
    BY <1>2, <2>1 DEF Begin, Discover, storing, rows
  <2> QED
    BY <1>1, <2>2, Frame
<1>3. ASSUME NEW c \in work[s], Lose(s, c) \/ \E late \in SUBSET c.hosts : Probe(s, c, late)
      PROVE  ScanInv(t)'
  <2>1. Alone
    BY <1>1, <1>3 DEF Lose, Probe, Goto, TypeOK, request, storing, rows
  <2> QED
    BY <1>1, <2>1, Frame
<1>4. CASE \/ Merge(s) \/ Match(s) \/ MatchFails(s)
           \/ \E h \in rest[s] : FindAsset(s, h)
           \/ \E e \in todo[s] : FindService(s, e)
  <2>1. Alone
    BY <1>1, <1>4 DEF Merge, Match, MatchFails, FindAsset, FindService,
                      Goto, TypeOK, request, results, storing, rows
  <2> QED
    BY <1>1, <2>1, Frame
<1>5. CASE SaveAsset(s)
  <2>1. stage'[t] = stage[t] /\ todo'[t] = todo[t]
    BY <1>1, <1>5 DEF SaveAsset, Goto, TypeOK
  <2>2. Alone
    BY <1>5, <2>1 DEF SaveAsset, request, results, rows
  <2> QED
    BY <1>1, <2>2, Frame
<1>6. CASE SaveService(s)
  <2>1. stage'[t] = stage[t]
    BY <1>1, <1>6 DEF SaveService, Goto, TypeOK
  <2>2. Alone
    BY <1>6, <2>1 DEF SaveService, request, results
  <2> QED
    BY <1>1, <2>2, Frame
<1>7. CASE Prune(s)
  <2>1. stage'[t] = stage[t]
    BY <1>1, <1>7 DEF Prune, Goto, TypeOK
  <2>2. \A e \in Endpoint : <<t, e>> \in pruned' <=> <<t, e>> \in pruned
    BY <1>7 DEF Prune
  <2>3. Alone
    BY <1>7, <2>1, <2>2 DEF Prune, request, results, storing
  <2> QED
    BY <1>1, <2>3, Frame
<1> QED
  BY <1>2, <1>3, <1>4, <1>5, <1>6, <1>7 DEF Step

\* Every reason to prune stays one.
LEMMA CauseKept ==
  ASSUME PruneInv, NEW s \in Scans, NEW e \in Endpoint, <<s, e>> \in pruned,
         closed[s] \subseteq closed'[s], mute[s] \subseteq mute'[s],
         req' = req, plan'[s] = plan[s]
  PROVE  (Settled(s, e) \/ Assumed(s, e))'
BY DEF PruneInv, PrunedForCause, Settled, Assumed

\* Every step keeps it.
LEMMA StepInv == PruneInv /\ [Next]_vars => PruneInv'
<1> SUFFICES ASSUME PruneInv, [Next]_vars PROVE PruneInv'
  OBVIOUS
<1>1. TypeOK /\ \A s \in Scans : ScanInv(s)
  BY DEF PruneInv
<1>2. ASSUME NEW s \in Scans, Step(s) PROVE PruneInv'
  <2>1. TypeOK'
    BY <1>1, <1>2, PlanType, ChildEndType, LookUpType, CommitType DEF Step, ScanInv
  <2>2. ScanInv(s)'
    BY <1>2, PlanInv, ProbeInv, LoseInv, StoreInv DEF Step
  <2>3. \A t \in Scans : ScanInv(t)'
    BY <1>2, <2>2, OthersInv
  <2>4. ASSUME NEW t \in Scans, NEW e \in Endpoint, <<t, e>> \in pruned'
        PROVE  (Settled(t, e) \/ Assumed(t, e))'
    <3>1. /\ req' = req
          /\ closed[t] \subseteq closed'[t] /\ mute[t] \subseteq mute'[t]
      <4>1. CASE \E c \in work[s] : \E late \in SUBSET c.hosts : Probe(s, c, late)
        BY <1>1, <4>1 DEF Probe, TypeOK, request
      <4>2. CASE Begin(s) \/ Discover(s) \/ \E c \in work[s] : Lose(s, c)
        BY <4>2 DEF Begin, Discover, Lose, request
      <4>3. CASE \/ Merge(s) \/ Match(s) \/ MatchFails(s) \/ SaveAsset(s) \/ SaveService(s) \/ Prune(s)
                 \/ \E h \in rest[s] : FindAsset(s, h)
                 \/ \E f \in todo[s] : FindService(s, f)
        BY <4>3 DEF Merge, Match, MatchFails, SaveAsset, SaveService, Prune, FindAsset,
                    FindService, request, results
      <4> QED
        BY <1>2, <4>1, <4>2, <4>3 DEF Step
    <3>2. CASE <<t, e>> \in pruned
      <4>1. plan'[t] = plan[t]
        <5>1. CASE Begin(s) \/ Discover(s)
          <6>1. s # t
            BY <1>1, <3>2, <5>1 DEF Begin, Discover, ScanInv, Untouched
          <6>2. ASSUME NEW p, NEW live, Dispatch(s, p, live) PROVE plan'[t] = plan[t]
            BY <1>1, <6>1, <6>2 DEF Dispatch, TypeOK
          <6> QED
            BY <5>1, <6>2 DEF Begin, Discover
        <5>2. CASE ~ (Begin(s) \/ Discover(s))
          BY <1>2, <5>2 DEF Step, Lose, Probe, Merge, Match, MatchFails, SaveAsset, SaveService,
                            Prune, FindAsset, FindService, request
        <5> QED
          BY <5>1, <5>2
      <4> QED
        BY <3>1, <3>2, <4>1, CauseKept
    <3>3. CASE <<t, e>> \notin pruned
      <4>1. Prune(s)
        BY <1>2, <2>4, <3>3 DEF Step, Begin, Discover, Lose, Probe, Merge, Match, MatchFails,
             SaveAsset, SaveService, FindAsset, FindService, rows
      <4>2. t = s
        BY <2>4, <3>3, <4>1 DEF Prune
      <4>3. Settled(s, e) \/ Assumed(s, e)
        BY <2>4, <3>3, <4>1, <4>2, PruneCause
      <4>4. UNCHANGED <<closed, mute, req, plan>>
        BY <4>1 DEF Prune, request, results
      <4> QED
        BY <4>2, <4>3, <4>4 DEF Settled, Assumed
    <3> QED
      BY <3>2, <3>3
  <2> QED
    BY <2>1, <2>3, <2>4 DEF PruneInv, PrunedForCause
<1>3. CASE \/ \E e \in Volatile : Toggle(e)
           \/ \E h \in Hosts : LeaveOrReturn(h)
  <2>1. TypeOK'
    BY <1>1, <1>3, NetworkType
  <2>2. UNCHANGED <<stage, request, results, storing, rows>>
    BY <1>3 DEF Toggle, LeaveOrReturn
  <2>3. \A s \in Scans : ScanInv(s)'
    BY <1>1, <2>2, Frame DEF request, results, storing, rows
  <2>4. PrunedForCause'
    BY <2>2, CauseKept DEF PruneInv, PrunedForCause, request, results, rows
  <2> QED
    BY <2>1, <2>3, <2>4 DEF PruneInv
<1>4. CASE UNCHANGED vars
  <2>1. UNCHANGED <<network, tables, stage, request, results, storing, rows, past>>
    BY <1>4 DEF vars
  <2>2. TypeOK'
    BY <1>1, <2>1 DEF TypeOK, network, tables, request, results, storing, rows, past
  <2>3. \A s \in Scans : ScanInv(s)'
    BY <1>1, <2>1, Frame DEF request, results, storing, rows
  <2>4. PrunedForCause'
    BY <2>1, CauseKept DEF PruneInv, PrunedForCause, request, results, rows
  <2> QED
    BY <2>2, <2>3, <2>4 DEF PruneInv
<1> QED
  BY <1>2, <1>3, <1>4 DEF Next

\* The invariant of the inventory, for all values of the constants.
THEOREM InventoryInvariant == Spec => []PruneInv
BY InitInv, StepInv, PTL DEF Spec

\* A service leaves the inventory only on an answer for its very port, or
\* beyond the default list: a failed child never costs a service
\* (prune_unseen_services, _merge_and_process).
THEOREM NoServiceLostToFailure == Spec => []PrunedForCause
<1>1. PruneInv => PrunedForCause
  BY DEF PruneInv
<1> QED
  BY <1>1, InventoryInvariant, PTL
-----------------------------------------------------------------------------
(* Only scans that meet break down on a constraint.                        *)

\* The scans that are busy, before and after a step of s.
LEMMA StepStages ==
  ASSUME TypeOK, NEW s \in Scans, Step(s)
  PROVE  /\ \A t \in Scans : t # s => stage'[t] = stage[t]
         /\ met \subseteq met'
         /\ stage[s] \in Busy \cup {"idle"}
         /\ stage[s] = "idle" => \A t \in Scans : stage[t] \in Busy => {s, t} \subseteq met'
         /\ stage[s] # "idle" => met' = met
         /\ stage'[s] # "idle"
<1>1. CASE Begin(s)
  <2>1. \A t \in Scans : t # s => stage'[t] = stage[t]
    BY <1>1 DEF Begin, Dispatch, Goto, TypeOK
  <2>2. stage'[s] # "idle"
    BY <1>1 DEF Begin, Dispatch, Goto, TypeOK
  <2>3. \A t \in Scans : stage[t] \in Busy => {s, t} \subseteq met'
    BY <1>1 DEF Begin
  <2>4. met \subseteq met'
    BY <1>1 DEF Begin
  <2> QED
    BY <2>1, <2>2, <2>3, <2>4, <1>1 DEF Begin
<1>2. CASE Discover(s)
  BY <1>2 DEF Discover, Dispatch, Goto, TypeOK, past, Busy
<1>3. ASSUME NEW c \in work[s], Lose(s, c) \/ \E late \in SUBSET c.hosts : Probe(s, c, late)
      PROVE  /\ \A t \in Scans : t # s => stage'[t] = stage[t]
             /\ met' = met /\ stage[s] \in Busy /\ stage'[s] # "idle"
  BY <1>3 DEF Lose, Probe, Goto, TypeOK, Busy
<1>4. CASE Merge(s) \/ Match(s) \/ MatchFails(s) \/ Prune(s)
  BY <1>4 DEF Merge, Match, MatchFails, Prune, Goto, TypeOK, past, Busy
<1>5. CASE SaveAsset(s) \/ SaveService(s)
  BY <1>5 DEF SaveAsset, SaveService, Goto, TypeOK, past, Busy
<1>6. CASE (\E h \in rest[s] : FindAsset(s, h)) \/ \E e \in todo[s] : FindService(s, e)
  BY <1>6 DEF FindAsset, FindService, Goto, TypeOK, past, Busy
<1>7. stage[s] \in Busy => stage[s] # "idle"
  BY DEF Busy
<1> QED
  BY <1>1, <1>2, <1>3, <1>4, <1>5, <1>6, <1>7 DEF Step

\* A scan that has met no other stays true to its rows.
LEMMA LoneStep ==
  ASSUME PruneInv, CompanyInv, NEW s \in Scans, Step(s), s \notin met', stage'[s] \in Busy
  PROVE  /\ stored'[s] \subseteq ref'[s] \cap found'[s]
         /\ todo'[s] \subseteq found'[s]
         /\ stage'[s] = "asset" => (hit'[s] <=> here'[s][1] \in assets')
         /\ stage'[s] = "save" => here'[s] \in found'[s] /\ AsLookedUp(s)'
<1>1. TypeOK /\ s \notin met
  BY StepStages DEF PruneInv
<1>2. stage[s] = "idle" => stored[s] = {} /\ todo[s] = {}
  BY DEF CompanyInv
<1>3. stage[s] # "idle" => stored[s] \subseteq ref[s] \cap found[s] /\ todo[s] \subseteq found[s]
  BY <1>1, StepStages DEF CompanyInv, Lone
<1>13. stage[s] = "asset" => (hit[s] <=> here[s][1] \in assets)
  BY <1>1, StepStages DEF CompanyInv, Lone, Busy
<1>14. stage[s] = "save" => here[s] \in found[s] /\ AsLookedUp(s)
  BY <1>1, StepStages DEF CompanyInv, Lone, Busy
<1>4. CASE Begin(s) \/ Discover(s)
  <2>1. stage'[s] \in {"discover", "probe"}
    BY <1>1, <1>4 DEF Begin, Discover, Dispatch, Goto, TypeOK
  <2>2. UNCHANGED <<stored, ref, found, todo>>
    BY <1>4 DEF Begin, Discover, storing, rows
  <2> QED
    BY <1>2, <1>3, <1>4, <2>1, <2>2 DEF Begin
<1>5. ASSUME NEW c \in work[s], Lose(s, c) \/ \E late \in SUBSET c.hosts : Probe(s, c, late)
      PROVE  /\ stored'[s] \subseteq ref'[s] \cap found'[s] /\ todo'[s] \subseteq found'[s]
             /\ stage'[s] \notin {"asset", "save"}
  <2>1. UNCHANGED <<stored, ref, todo>> /\ found[s] \subseteq found'[s] /\ stage[s] = "probe"
    BY <1>1, <1>5 DEF Lose, Probe, TypeOK, storing, rows
  <2>2. stage'[s] \notin {"asset", "save"}
    BY <1>1, <1>5 DEF Lose, Probe, Goto, TypeOK
  <2> QED
    BY <1>3, <2>1, <2>2
<1>6. CASE Merge(s)
  BY <1>1, <1>3, <1>6 DEF Merge, Goto, TypeOK, results, rows
<1>7. ASSUME NEW h \in rest[s], FindAsset(s, h)
      PROVE  /\ stored'[s] \subseteq ref'[s] \cap found'[s] /\ todo'[s] \subseteq found'[s]
             /\ stage'[s] = "asset" /\ (hit'[s] <=> here'[s][1] \in assets')
  <2>1. stage'[s] = "asset" /\ here'[s] = <<h, 0>> /\ (hit'[s] <=> h \in assets) /\ stage[s] = "host"
    BY <1>1, <1>7 DEF FindAsset, Goto, TypeOK
  <2> QED
    BY <1>3, <1>7, <2>1 DEF FindAsset, tables, results, rows
<1>8. CASE SaveAsset(s)
  BY <1>1, <1>3, <1>8 DEF SaveAsset, Goto, TypeOK, results, rows
<1>9. ASSUME NEW e \in todo[s], FindService(s, e)
      PROVE  /\ stored'[s] \subseteq ref'[s] \cap found'[s] /\ todo'[s] \subseteq found'[s]
             /\ stage'[s] = "save" /\ here'[s] \in found'[s] /\ AsLookedUp(s)'
  <2>1. /\ stage[s] = "service" /\ stage'[s] = "save" /\ here'[s] = e /\ (hit'[s] <=> e \in inv)
        /\ todo'[s] \subseteq todo[s] /\ ref[s] \subseteq ref'[s] /\ (e \in inv => e \in ref'[s])
    BY <1>1, <1>9 DEF FindService, Goto, TypeOK
  <2>2. inv' = inv /\ stored' = stored /\ found' = found
    BY <1>9 DEF FindService, tables, results
  <2> QED
    BY <1>3, <1>9, <2>1, <2>2 DEF AsLookedUp
<1>10. CASE SaveService(s)
  <2>1. stage[s] = "save" /\ AsLookedUp(s) /\ here[s] \in found[s]
    BY <1>14, <1>10 DEF SaveService
  <2> QED
    BY <1>1, <1>3, <1>10, <2>1 DEF SaveService, Goto, TypeOK, results
<1>11. CASE Prune(s)
  <2>1. stage'[s] = "host" /\ stage[s] = "service" /\ UNCHANGED <<stored, found, todo>>
    BY <1>1, <1>11 DEF Prune, Goto, TypeOK, results, storing
  <2>2. \A e \in found[s] : e \in ref[s] => e \in ref'[s]
    BY <1>1, <1>11 DEF Prune, Ghosts, TypeOK
  <2> QED
    BY <1>3, <2>1, <2>2
<1>12. CASE Match(s) \/ MatchFails(s)
  BY <1>1, <1>12 DEF Match, MatchFails, Goto, TypeOK, Busy
<1> QED
  BY <1>4, <1>5, <1>6, <1>7, <1>8, <1>9, <1>10, <1>11, <1>12 DEF Step

\* A scan clashes only on rows that another one has changed.
LEMMA ClashStep ==
  ASSUME PruneInv, CompanyInv, NEW s \in Scans, Step(s), stage'[s] = "clash"
  PROVE  s \in met'
<1>1. TypeOK /\ stage[s] # "clash"
  BY StepStages DEF PruneInv, Busy
<1>2. SaveAsset(s) \/ SaveService(s) \/ MatchFails(s)
  <2>1. CASE Begin(s) \/ Discover(s)
    BY <1>1, <2>1 DEF Begin, Discover, Dispatch, Goto, TypeOK
  <2>2. ASSUME NEW c \in work[s], Lose(s, c) \/ \E late \in SUBSET c.hosts : Probe(s, c, late)
        PROVE  FALSE
    BY <1>1, <2>2 DEF Lose, Probe, Goto, TypeOK
  <2>3. CASE Merge(s) \/ Match(s) \/ Prune(s)
    BY <1>1, <2>3 DEF Merge, Match, Prune, Goto, TypeOK
  <2>4. CASE (\E h \in rest[s] : FindAsset(s, h)) \/ \E e \in todo[s] : FindService(s, e)
    BY <1>1, <2>4 DEF FindAsset, FindService, Goto, TypeOK
  <2> QED
    BY <2>1, <2>2, <2>3, <2>4 DEF Step
<1>3. ASSUME s \notin met PROVE FALSE
  <2>1. stage[s] \in Busy
    BY <1>2 DEF SaveAsset, SaveService, MatchFails, Busy
  <2>2. Lone(s)
    BY DEF CompanyInv
  <2> QED
    BY <1>1, <1>2, <1>3, <2>1, <2>2
       DEF SaveAsset, SaveService, MatchFails, Lone, AsLookedUp, Goto, TypeOK
<1> QED
  BY <1>3, StepStages DEF PruneInv

\* What a step of s leaves of the rows of a scan that has met no other.
LEMMA OthersLone ==
  ASSUME PruneInv, CompanyInv, NEW s \in Scans, Step(s), NEW t \in Scans, t # s
  PROVE  Lone(t)'
<1>1. TypeOK
  BY DEF PruneInv
<1>2. SUFFICES ASSUME t \notin met', stage'[t] \in Busy PROVE FALSE
  BY DEF Lone
<1>3. stage[t] \in Busy /\ t \notin met
  BY <1>1, <1>2, StepStages
<1>4. stage[s] \notin Busy
  BY <1>3 DEF CompanyInv, Lone
<1> QED
  BY <1>1, <1>2, <1>3, <1>4, StepStages

LEMMA CompanyStep == PruneInv /\ CompanyInv /\ [Next]_vars => CompanyInv'
<1> SUFFICES ASSUME PruneInv, CompanyInv, [Next]_vars PROVE CompanyInv'
  OBVIOUS
<1>1. TypeOK
  BY DEF PruneInv
<1>2. ASSUME NEW s \in Scans, Step(s) PROVE CompanyInv'
  <2>1. \A t \in Scans : stage'[t] = "idle" => t # s /\ stage[t] = "idle"
    BY <1>1, <1>2, StepStages
  <2>2. ASSUME NEW t \in Scans, t # s PROVE stored'[t] = stored[t] /\ todo'[t] = todo[t]
    BY <1>1, <1>2, <2>2 DEF Step, Begin, Discover, Lose, Probe, Merge, FindAsset, SaveAsset,
       FindService, SaveService, Prune, Match, MatchFails, storing, TypeOK
  <2>3. Lone(s)'
    <3>1. SUFFICES ASSUME s \notin met', stage'[s] \in Busy
                   PROVE  \A t \in Scans : stage'[t] \in Busy => t = s
      BY <1>2, LoneStep DEF Lone
    <3>2. CASE stage[s] = "idle"
      BY <1>1, <1>2, <3>1, <3>2, StepStages
    <3>3. CASE stage[s] # "idle"
      BY <1>1, <1>2, <3>1, <3>3, StepStages DEF CompanyInv, Lone
    <3> QED
      BY <3>2, <3>3
  <2>4. \A t \in Scans : Lone(t)'
    BY <1>2, <2>3, OthersLone
  <2>5. ClashNeedsCompany'
    BY <1>1, <1>2, ClashStep, StepStages DEF CompanyInv, ClashNeedsCompany
  <2> QED
    BY <2>1, <2>2, <2>4, <2>5 DEF CompanyInv
<1>3. CASE UNCHANGED <<tables, stage, request, results, storing, rows, met>>
  BY <1>3 DEF CompanyInv, Lone, AsLookedUp, ClashNeedsCompany, tables, results, storing, rows
<1>4. CASE UNCHANGED vars
  BY <1>3, <1>4 DEF vars, past
<1>5. CASE (\E e \in Volatile : Toggle(e)) \/ \E h \in Hosts : LeaveOrReturn(h)
  BY <1>3, <1>5 DEF Toggle, LeaveOrReturn
<1> QED
  BY <1>2, <1>4, <1>5 DEF Next

\* A scan breaks down on a constraint of the tables only if it met another:
\* by itself it never prunes a service it has just stored, for any number of
\* scans, hosts, ports and workers.
THEOREM CompanyInvariant == Spec => []CompanyInv
<1>1. Init => CompanyInv
  BY DEF Init, CompanyInv, Lone, Busy, ClashNeedsCompany
<1> QED
  BY <1>1, CompanyStep, InventoryInvariant, PTL DEF Spec
-----------------------------------------------------------------------------
(* A scan that nothing disturbs leaves the inventory as the network is.    *)

\* Nobody else is at work, every host answers, and no child was lost.
Undisturbed(s) ==
  /\ stage[s] # "idle" /\ \A t \in Scans \ {s} : stage[t] \notin Busy
  /\ awake = Hosts /\ mute[s] = {}
  /\ plan[s] = "ports" => ~ broken[s] /\ (work[s] # {} => deep[s] # {})

\* What the children have reported is the network, on what they were dealt.
Reported(s) ==
  /\ found[s] \subseteq open /\ closed[s] \cap open = {}
  /\ \A e \in found[s] : e[2] \in Probed(req[s], plan[s])
  /\ \A c \in work[s] : c.ports \subseteq Probed(req[s], plan[s])

\* No host is forgotten: it is listed, or in the hands of a child.
Covered(s) ==
  \A h \in deep[s] : h \in listed[s] \/ \E c \in work[s] : h \in c.hosts

\* The inventory of a host is what was found on it.
Right(s, h) == \A p \in Examined(req[s]) : <<h, p>> \in inv <=> <<h, p>> \in found[s]

AtHost(s)  == stage[s] \in {"asset", "service", "save"}
Storage(s) == AtHost(s) \/ stage[s] \in {"host", "done"}

\* The hosts a scan has no longer to store are right.
StoredRight(s) ==
  Storage(s) =>
    /\ work[s] = {}
    /\ \A h \in deep[s] \cap InScope :
         \/ stage[s] # "done" /\ h \in rest[s]
         \/ AtHost(s) /\ h = here[s][1]
         \/ Right(s, h)

\* Of the host at hand, what was found is stored, or about to be.
HandRight(s) ==
  stage[s] \in {"service", "save"} =>
    /\ \A e \in todo[s] : e \in found[s] /\ e[1] = here[s][1]
    /\ stage[s] = "save" => here[s] \in found[s]
    /\ \A e \in found[s] : e[1] = here[s][1] =>
         e \in inv \cup todo[s] \/ (stage[s] = "save" /\ e = here[s])

Calm(s) ==
  Undisturbed(s) /\ Reported(s) /\ Covered(s) /\ StoredRight(s) /\ HandRight(s)

\* A scan that has not handed out its hosts has seen nothing.
Fresh(s) ==
  stage[s] \in {"idle", "discover"} =>
    deep[s] = {} /\ found[s] = {} /\ closed[s] = {} /\ mute[s] = {}

CalmInv == \A s \in Scans : Fresh(s) /\ (calm[s] => Calm(s))

\* split_host_queue: every host is in a child.
LEMMA HostChildrenCover ==
  ASSUME NEW E \in SUBSET Hosts, NEW L \in SUBSET Hosts, NEW ports, NEW h \in E \cup L
  PROVE  \E c \in HostChildren(E, L, ports) : h \in c.hosts
<1> DEFINE n == Cardinality(E)
           m == BatchCount(n + Cardinality(L))
           Batch(i) == Slice(E, m, i) \cup {x \in L : (n + Rank(L, x)) % m = i}
<1>1. IsFiniteSet(E) /\ IsFiniteSet(L) /\ E \subseteq Nat /\ L \subseteq Nat
  BY FS_Subset, InventoryAssumption
<1>2. n \in Nat /\ Cardinality(L) \in Nat /\ n + Cardinality(L) > 0
  <2>1. n \in Nat /\ Cardinality(L) \in Nat
    BY <1>1, FS_CardinalityType
  <2>2. n # 0 \/ Cardinality(L) # 0
    BY <1>1, FS_EmptySet
  <2> QED
    BY <2>1, <2>2
<1>3. m \in Nat /\ m > 0
  BY <1>2, BatchCountType
<1>4. HostChildren(E, L, ports) =
        {[id |-> i, hosts |-> Batch(i), ports |-> ports] : i \in 0..(m - 1)}
  BY DEF HostChildren
<1>5. PICK i \in 0..(m - 1) : h \in Batch(i)
  <2>1. CASE h \in E
    <3> HIDE DEF m
    <3>1. PICK i \in 0..(m - 1) : h \in Slice(E, m, i)
      BY <2>1, <1>1, <1>3, SplitIsPartition
    <3> QED
      BY <3>1
  <2>2. CASE h \in L
    <3>1. IsFiniteSet({y \in L : y < h})
      BY <1>1, FS_Subset
    <3>2. Rank(L, h) \in Nat
      BY <3>1, FS_CardinalityType DEF Rank
    <3> HIDE DEF m, n
    <3>3. (n + Rank(L, h)) % m \in 0..(m - 1)
      BY <1>2, <1>3, <3>2
    <3> QED
      BY <2>2, <3>3
  <2> QED
    BY <2>1, <2>2
<1> HIDE DEF m, Batch
<1>6. [id |-> i, hosts |-> Batch(i), ports |-> ports] \in HostChildren(E, L, ports)
  BY <1>4
<1> QED
  BY <1>5, <1>6

\* The children of any plan cover the hosts, and look at probed ports only.
LEMMA ChildrenCover ==
  ASSUME NEW r \in Requests, NEW p \in Plan, NEW live \in SUBSET Hosts,
         p = "ports" => Probed(r, p) # {}
  PROVE  /\ \A h \in r.explicit \cup live : \E c \in Children(r, p, live) : h \in c.hosts
         /\ \A c \in Children(r, p, live) : c.ports \subseteq Probed(r, p)
         /\ Children(r, p, live) # {} => r.explicit \cup live # {}
<1> DEFINE all   == r.explicit \cup live
           ports == Probed(r, p)
<1>1. r.explicit \in SUBSET Hosts
  BY InventoryAssumption DEF Request
<1>2. Children(r, p, live) # {} => all # {}
  BY DEF Children
<1>3. CASE p = "ports"
  <2>1. PICK q : q \in ports
    BY <1>3
  <2>2. \A h \in all : \E c \in Children(r, p, live) : h \in c.hosts
    BY <2>1, <1>3, ChildrenType
  <2>3. ASSUME NEW c \in Children(r, p, live) PROVE c.ports \subseteq ports
    <3>1. c \in PortChildren(all, ports)
      BY <1>3, <2>3 DEF Children
    <3>2. PICK i : c.ports = Slice(ports, BatchCount(Cardinality(ports)), i)
      BY <3>1 DEF PortChildren
    <3> QED
      BY <3>2 DEF Slice
  <2> QED
    BY <1>2, <2>2, <2>3
<1>4. CASE p # "ports"
  <2>1. \A c \in Children(r, p, live) : c.ports = ports
    BY <1>4, ChildrenType
  <2>2. ASSUME NEW h \in all PROVE \E c \in Children(r, p, live) : h \in c.hosts
    <3>1. CASE p = "hosts"
      <4>1. Children(r, p, live) = HostChildren(r.explicit, live, ports)
        BY <2>2, <3>1 DEF Children
      <4> QED
        BY <4>1, <1>1, <2>2, HostChildrenCover
    <3>2. CASE p # "hosts"
      <4>1. Children(r, p, live) = {[id |-> 0, hosts |-> all, ports |-> ports]}
        BY <1>4, <2>2, <3>2 DEF Children
      <4> HIDE DEF ports
      <4> QED
        BY <4>1, <2>2
    <3> QED
      BY <3>1, <3>2
  <2> QED
    BY <1>2, <2>1, <2>2
<1> QED
  BY <1>3, <1>4

\* A plan that deals out ports has some.
LEMMA PlanHasPorts ==
  ASSUME NEW r, NEW chunked, NEW n, PlanOf(r, chunked, n) = "ports"
  PROVE  Probed(r, "ports") # {}
<1>1. PortFanout(r)
  BY Zenon DEF PlanOf
<1>2. Cardinality(TcpOf(r, Common)) >= 2
  BY <1>1 DEF PortFanout
<1>3. TcpOf(r, Common) # {}
  BY <1>2, FS_EmptySet
<1> QED
  BY <1>3 DEF Probed

\* The hand-out covers every host, and has reported nothing yet.
LEMMA DispatchCalm ==
  ASSUME TypeOK, NEW s \in Scans, NEW p \in Plan, NEW live \in SUBSET Hosts,
         p = "ports" => Probed(req[s], p) # {},
         Fresh(s), Untouched(s), stage[s] \in {"idle", "discover"},
         Dispatch(s, p, live), UNCHANGED <<network, req, broken, found, closed, mute>>,
         awake = Hosts, \A t \in Scans \ {s} : stage[t] \notin Busy
  PROVE  Calm(s)'
<1>1. req[s] \in Requests
  BY DEF TypeOK
<1>2. /\ plan'[s] = p /\ deep'[s] = req[s].explicit \cup live
      /\ work'[s] = Children(req[s], p, live) /\ stage'[s] = "probe"
      /\ \A t \in Scans \ {s} : stage'[t] = stage[t]
  BY DEF Dispatch, Goto, TypeOK
<1>3. found'[s] = {} /\ closed'[s] = {} /\ mute'[s] = {} /\ ~ broken'[s]
  BY DEF Fresh, Untouched
<1>4. Undisturbed(s)'
  BY <1>1, <1>2, <1>3, ChildrenCover DEF Undisturbed, network
<1>5. Reported(s)'
  BY <1>1, <1>2, <1>3, ChildrenCover DEF Reported
<1>6. Covered(s)'
  BY <1>1, <1>2, ChildrenCover DEF Covered
<1>7. StoredRight(s)' /\ HandRight(s)'
  BY <1>2 DEF StoredRight, HandRight, Storage, AtHost
<1> QED
  BY <1>4, <1>5, <1>6, <1>7 DEF Calm

\* The steps that make the plan.
LEMMA PlanCalm ==
  ASSUME PruneInv, CalmInv, NEW s \in Scans, Begin(s) \/ Discover(s)
  PROVE  Fresh(s)' /\ (calm'[s] => Calm(s)')
<1>1. TypeOK /\ ScanInv(s) /\ Fresh(s)
  BY DEF PruneInv, CalmInv
<1>2. Untouched(s) /\ stage[s] \in {"idle", "discover"}
  BY <1>1 DEF Begin, Discover, ScanInv
<1>3. UNCHANGED <<network, req, broken, listed, found, closed, mute>>
  BY DEF Begin, Discover
<1>4. ASSUME calm'[s] PROVE awake = Hosts /\ \A t \in Scans \ {s} : stage[t] \notin Busy
  <2>1. CASE Begin(s)
    BY <1>4, <2>1 DEF Begin
  <2>2. CASE Discover(s)
    BY <1>4, <2>2 DEF Discover, past, CalmInv, Calm, Undisturbed
  <2> QED
    BY <2>1, <2>2
<1>5. ASSUME NEW p \in Plan, NEW live \in SUBSET Hosts, p = "ports" => Probed(req[s], p) # {},
             Dispatch(s, p, live)
      PROVE  Fresh(s)' /\ (calm'[s] => Calm(s)')
  <2>1. stage'[s] = "probe"
    BY <1>1, <1>5 DEF Dispatch, Goto, TypeOK
  <2> QED
    BY <2>1, <1>1, <1>2, <1>3, <1>4, <1>5, DispatchCalm DEF Fresh
<1>6. CASE Begin(s) /\ req[s].block = {}
  <2>1. Dispatch(s, PlanOf(req[s], FALSE, 0), {})
    BY <1>6 DEF Begin
  <2>2. PlanOf(req[s], FALSE, 0) \in Plan /\ {} \in SUBSET Hosts
    BY PlanOfType DEF Plan
  <2>3. PlanOf(req[s], FALSE, 0) = "ports" => Probed(req[s], PlanOf(req[s], FALSE, 0)) # {}
    BY PlanHasPorts
  <2> QED
    BY <2>1, <2>2, <2>3, <1>5
<1>7. CASE Begin(s) /\ req[s].block # {}
  <2>1. Goto(s, "discover") /\ UNCHANGED <<plan, deep, work>>
    BY <1>7 DEF Begin
  <2>2. stage'[s] = "discover" /\ \A t \in Scans \ {s} : stage'[t] = stage[t]
    BY <1>1, <2>1 DEF Goto, TypeOK
  <2>3. /\ deep'[s] = {} /\ found'[s] = {} /\ closed'[s] = {} /\ mute'[s] = {}
        /\ work'[s] = {} /\ ~ broken'[s] /\ awake' = awake
    BY <1>1, <1>2, <1>3, <2>1 DEF Fresh, Untouched, network
  <2>4. ASSUME calm'[s] PROVE Calm(s)'
    <3>1. Undisturbed(s)'
      BY <1>4, <2>2, <2>3, <2>4 DEF Undisturbed
    <3>2. Reported(s)' /\ Covered(s)' /\ StoredRight(s)' /\ HandRight(s)'
      BY <2>2, <2>3 DEF Reported, Covered, StoredRight, HandRight, Storage, AtHost
    <3> QED
      BY <3>1, <3>2 DEF Calm
  <2> QED
    BY <2>3, <2>4 DEF Fresh
<1>8. CASE Discover(s)
  <2>1. PICK n : Dispatch(s, PlanOf(req[s], TRUE, n), req[s].block \cap awake)
    BY <1>8 DEF Discover
  <2>2. PlanOf(req[s], TRUE, n) \in Plan /\ req[s].block \cap awake \in SUBSET Hosts
    BY <1>1, PlanOfType, InventoryAssumption DEF Plan, TypeOK, Request
  <2>3. PlanOf(req[s], TRUE, n) = "ports" => Probed(req[s], PlanOf(req[s], TRUE, n)) # {}
    BY PlanHasPorts
  <2> QED
    BY <2>1, <2>2, <2>3, <1>5
<1> QED
  BY <1>6, <1>7, <1>8

\* A child that nothing disturbs answers for all its hosts and ports.
LEMMA ProbeCalm ==
  ASSUME PruneInv, CalmInv, NEW s \in Scans, NEW c \in work[s], NEW late, Probe(s, c, late),
         calm'[s]
  PROVE  Calm(s)'
<1> DEFINE up      == IF NoPing(s) THEN c.hosts ELSE c.hosts \cap awake
           answers == (up \cap awake) \ late
           saw     == answers \X c.ports
<1>1. TypeOK /\ ScanInv(s)
  BY DEF PruneInv
<1>2. calm[s] /\ late = {}
  BY <1>1, Zenon DEF Probe, TypeOK
<1>3. Calm(s)
  BY <1>2 DEF CalmInv
<1>4. c.hosts \subseteq Hosts /\ awake = Hosts
  BY <1>1, <1>3 DEF TypeOK, Child, Calm, Undisturbed
<1>5. up = c.hosts /\ answers = c.hosts /\ saw = c.hosts \X c.ports
  BY <1>2, <1>4
<1>6. /\ listed'[s] = listed[s] \cup up
      /\ found'[s] = found[s] \cup (saw \cap open)
      /\ closed'[s] = closed[s] \cup (saw \ open)
      /\ mute'[s] = mute[s] \cup (up \ answers)
      /\ work'[s] = work[s] \ {c}
  BY <1>1 DEF Probe, TypeOK
<1>7. broken'[s] <=> broken[s] \/ up = {}
  BY <1>1, Zenon DEF Probe, TypeOK
<1>8. UNCHANGED <<req, plan, deep, stage, open, awake>> /\ stage[s] = "probe"
  BY DEF Probe, request, network
<1> HIDE DEF up, answers, saw
<1>9. Undisturbed(s)'
  <2>1. mute'[s] = {}
    BY <1>3, <1>5, <1>6 DEF Calm, Undisturbed
  <2>2. plan[s] = "ports" => c.hosts = deep[s] /\ deep[s] # {} /\ ~ broken[s]
    BY <1>1, <1>3 DEF ScanInv, Dealt, Calm, Undisturbed
  <2> QED
    BY <1>3, <1>5, <1>7, <1>8, <2>1, <2>2 DEF Calm, Undisturbed
<1>10. Reported(s)'
  BY <1>3, <1>5, <1>6, <1>8 DEF Calm, Reported
<1>11. Covered(s)'
  BY <1>3, <1>5, <1>6, <1>8 DEF Calm, Covered
<1>12. StoredRight(s)' /\ HandRight(s)'
  BY <1>8 DEF StoredRight, HandRight, Storage, AtHost
<1> QED
  BY <1>9, <1>10, <1>11, <1>12 DEF Calm

\* Storing changes nothing the children reported.
LEMMA StoreFrame ==
  ASSUME PruneInv, NEW s \in Scans, calm[s], Calm(s), Step(s),
         UNCHANGED <<network, request, results>>
  PROVE  Undisturbed(s)' /\ Reported(s)' /\ Covered(s)'
<1>1. \A t \in Scans : t # s => stage'[t] = stage[t]
  BY StepStages DEF PruneInv
<1>2. stage'[s] # "idle"
  BY StepStages DEF PruneInv
<1>3. UNCHANGED <<open, awake, req, plan, deep, work, broken, listed, found, closed, mute>>
  BY DEF network, request, results
<1> QED
  BY <1>1, <1>2, <1>3 DEF Calm, Undisturbed, Reported, Covered

\* A host is taken up, or the scan ends.
LEMMA HostCalm ==
  ASSUME PruneInv, NEW s \in Scans, Calm(s),
         Merge(s) \/ Match(s) \/ MatchFails(s) \/ \E h \in rest[s] : FindAsset(s, h)
  PROVE  StoredRight(s)' /\ HandRight(s)'
<1>1. TypeOK
  BY DEF PruneInv
<1>2. UNCHANGED <<req, deep, work, listed, found, inv>>
  BY DEF Merge, Match, MatchFails, FindAsset, request, results, tables
<1>3. \A h : Right(s, h)' <=> Right(s, h)
  BY <1>2 DEF Right
<1>4. CASE Merge(s)
  <2>1. stage'[s] = "host" /\ work[s] = {} /\ rest'[s] = listed[s] \cap InScope
    BY <1>1, <1>4 DEF Merge, Goto, TypeOK
  <2> QED
    BY <1>2, <2>1 DEF Calm, Covered, StoredRight, HandRight, Storage, AtHost
<1>5. CASE Match(s) \/ MatchFails(s)
  <2>1. /\ stage[s] = "host" /\ rest[s] = {}
        /\ stage'[s] \in {"done", "clash"} /\ rest' = rest
    BY <1>1, <1>5 DEF Match, MatchFails, Goto, TypeOK, storing
  <2> QED
    BY <1>2, <1>3, <2>1 DEF Calm, StoredRight, HandRight, Storage, AtHost
<1>6. ASSUME NEW h \in rest[s], FindAsset(s, h) PROVE StoredRight(s)' /\ HandRight(s)'
  <2>1. /\ stage[s] = "host" /\ stage'[s] = "asset"
        /\ rest'[s] = rest[s] \ {h} /\ here'[s] = <<h, 0>>
    BY <1>1, <1>6 DEF FindAsset, Goto, TypeOK
  <2> QED
    BY <1>2, <1>3, <2>1 DEF Calm, StoredRight, HandRight, Storage, AtHost
<1> QED
  BY <1>4, <1>5, <1>6

\* The services of a host are stored one by one.
LEMMA ServiceCalm ==
  ASSUME PruneInv, NEW s \in Scans, Calm(s),
         SaveAsset(s) \/ SaveService(s) \/ \E e \in todo[s] : FindService(s, e)
  PROVE  StoredRight(s)' /\ HandRight(s)'
<1>1. TypeOK
  BY DEF PruneInv
<1>2. UNCHANGED <<req, deep, work, listed, found, rest>>
  BY DEF SaveAsset, SaveService, FindService, request, results
<1>3. CASE SaveAsset(s)
  <2>1. /\ stage[s] = "asset" /\ here' = here /\ inv' = inv
        /\ \/ stage'[s] = "clash"
           \/ stage'[s] = "service" /\ todo'[s] = {e \in found[s] : e[1] = here[s][1]}
    <3>1. \/ Goto(s, "clash")
          \/ /\ Goto(s, "service")
             /\ todo' = [todo EXCEPT ![s] = {e \in found[s] : e[1] = here[s][1]}]
      BY <1>3, Zenon DEF SaveAsset
    <3> QED
      BY <1>1, <1>3, <3>1 DEF SaveAsset, Goto, TypeOK
  <2>2. \A h : Right(s, h)' <=> Right(s, h)
    BY <1>2, <2>1 DEF Right
  <2> QED
    BY <1>2, <2>1, <2>2 DEF Calm, StoredRight, HandRight, Storage, AtHost
<1>4. ASSUME NEW e \in todo[s], FindService(s, e) PROVE StoredRight(s)' /\ HandRight(s)'
  <2>1. /\ stage[s] = "service" /\ stage'[s] = "save" /\ inv' = inv
        /\ todo'[s] = todo[s] \ {e} /\ here'[s] = e
    BY <1>1, <1>4 DEF FindService, Goto, TypeOK, tables
  <2>2. \A h : Right(s, h)' <=> Right(s, h)
    BY <1>2, <2>1 DEF Right
  <2>3. e \in found[s] /\ e[1] = here[s][1]
    BY <2>1 DEF Calm, HandRight
  <2> QED
    BY <1>2, <2>1, <2>2, <2>3 DEF Calm, StoredRight, HandRight, Storage, AtHost
<1>5. CASE SaveService(s)
  <2>1. /\ stage[s] = "save" /\ here' = here /\ todo' = todo
        /\ \/ stage'[s] = "clash"
           \/ stage'[s] = "service" /\ inv' = inv \cup {here[s]}
    <3>1. \/ Goto(s, "clash")
          \/ Goto(s, "service") /\ inv' = inv \cup {here[s]}
      BY <1>5, Zenon DEF SaveService
    <3> QED
      BY <1>1, <1>5, <3>1 DEF SaveService, Goto, TypeOK
  <2>2. CASE stage'[s] = "clash"
    BY <2>2 DEF StoredRight, HandRight, Storage, AtHost
  <2>3. CASE stage'[s] = "service" /\ inv' = inv \cup {here[s]}
    <3>1. ASSUME NEW h, h # here[s][1], Right(s, h) PROVE Right(s, h)'
      BY <1>2, <2>3, <3>1 DEF Right
    <3> QED
      BY <1>2, <2>1, <2>3, <3>1 DEF Calm, StoredRight, HandRight, Storage, AtHost
  <2> QED
    BY <2>1, <2>2, <2>3
<1> QED
  BY <1>3, <1>4, <1>5

\* The prune of a host leaves exactly what was found on it.
LEMMA PruneCalm ==
  ASSUME PruneInv, NEW s \in Scans, Calm(s), Prune(s)
  PROVE  StoredRight(s)' /\ HandRight(s)'
<1>1. TypeOK
  BY DEF PruneInv
<1>2. UNCHANGED <<req, deep, work, listed, found, rest>>
  BY DEF Prune, request, results, storing
<1>3. stage[s] = "service" /\ todo[s] = {} /\ stage'[s] = "host" /\ here' = here
  BY <1>1 DEF Prune, Goto, TypeOK, storing
<1>4. inv' = inv \ Ghosts(s, here[s][1])
  <2>1. MayPrune(s)
    BY DEF Calm, Undisturbed, MayPrune
  <2> QED
    BY <2>1 DEF Prune
<1>5. Right(s, here[s][1])'
  <2> SUFFICES ASSUME NEW p \in Examined(req[s])
               PROVE  <<here[s][1], p>> \in inv' <=> <<here[s][1], p>> \in found[s]
    BY <1>2, <1>3 DEF Right
  <2>1. <<here[s][1], p>> \in found[s] => <<here[s][1], p>> \in inv
    BY <1>3 DEF Calm, HandRight
  <2> QED
    BY <1>4, <2>1 DEF Ghosts
<1>6. ASSUME NEW h, h # here[s][1], Right(s, h) PROVE Right(s, h)'
  BY <1>2, <1>4, <1>6 DEF Right, Ghosts
<1> QED
  BY <1>2, <1>3, <1>5, <1>6 DEF Calm, StoredRight, HandRight, Storage, AtHost

\* Every step keeps it: the scan that acts is calm or not; of the others none
\* is, unless nobody was at work.
LEMMA CalmStep == PruneInv /\ CalmInv /\ [Next]_vars => CalmInv'
<1> SUFFICES ASSUME PruneInv, CalmInv, [Next]_vars PROVE CalmInv'
  OBVIOUS
<1>1. TypeOK
  BY DEF PruneInv
<1>2. ASSUME NEW s \in Scans, Step(s) PROVE CalmInv'
  <2>1. Fresh(s)' /\ (calm'[s] => Calm(s)')
    <3>1. CASE Begin(s) \/ Discover(s)
      BY <3>1, PlanCalm
    <3>2. ASSUME NEW c \in work[s], Lose(s, c) PROVE Fresh(s)' /\ ~ calm'[s]
      BY <1>1, <3>2 DEF Lose, Goto, TypeOK, Fresh
    <3>3. ASSUME NEW c \in work[s], NEW late, Probe(s, c, late)
          PROVE  Fresh(s)' /\ (calm'[s] => Calm(s)')
      <4>1. Fresh(s)'
        BY <3>3 DEF Probe, Fresh
      <4> QED
        BY <3>3, <4>1, ProbeCalm
    <3>4. CASE \/ Merge(s) \/ Match(s) \/ MatchFails(s) \/ SaveAsset(s) \/ SaveService(s) \/ Prune(s)
               \/ \E h \in rest[s] : FindAsset(s, h)
               \/ \E e \in todo[s] : FindService(s, e)
      <4>1. UNCHANGED <<network, request, results, calm>>
        BY <3>4 DEF Merge, Match, MatchFails, SaveAsset, SaveService, Prune, FindAsset,
           FindService, past
      <4>2. Fresh(s)'
        <5>1. stage'[s] \notin {"idle", "discover"}
          <6>1. ScanInv(s)' /\ TypeOK
            BY <1>1, <3>4, StoreInv
          <6>2. CASE SaveAsset(s) \/ SaveService(s)
            BY <1>1, <6>2 DEF SaveAsset, SaveService, Goto, TypeOK
          <6>3. CASE ~ (SaveAsset(s) \/ SaveService(s))
            BY <1>1, <3>4, <6>3 DEF Merge, Match, MatchFails, Prune, FindAsset, FindService,
               Goto, TypeOK
          <6> QED
            BY <6>2, <6>3
        <5> QED
          BY <5>1 DEF Fresh
      <4>3. ASSUME calm[s] PROVE Calm(s)'
        <5>1. Calm(s)
          BY <4>3 DEF CalmInv
        <5>2. StoredRight(s)' /\ HandRight(s)'
          BY <3>4, <5>1, HostCalm, ServiceCalm, PruneCalm
        <5> QED
          BY <1>2, <4>1, <4>3, <5>1, <5>2, StoreFrame DEF Calm
      <4> QED
        BY <4>1, <4>2, <4>3
    <3> QED
      BY <1>2, <3>1, <3>2, <3>3, <3>4 DEF Step
  <2>2. ASSUME NEW t \in Scans, t # s PROVE Fresh(t)' /\ ~ calm'[t]
    <3>1. Fresh(t)'
      <4>1. stage'[t] = stage[t]
        BY <1>1, <1>2, <2>2, StepStages
      <4>2. /\ deep'[t] = deep[t] /\ found'[t] = found[t]
            /\ closed'[t] = closed[t] /\ mute'[t] = mute[t]
        <5>1. CASE Begin(s) \/ Discover(s)
          BY <1>1, <2>2, <5>1 DEF Begin, Discover, Dispatch, TypeOK
        <5>2. ASSUME NEW c \in work[s], Lose(s, c) \/ \E late : Probe(s, c, late)
              PROVE  /\ deep'[t] = deep[t] /\ found'[t] = found[t]
                     /\ closed'[t] = closed[t] /\ mute'[t] = mute[t]
          BY <1>1, <2>2, <5>2 DEF Lose, Probe, request, TypeOK
        <5>3. CASE ~ (Begin(s) \/ Discover(s)) /\ UNCHANGED <<request, results>>
          BY <5>3 DEF request, results
        <5> QED
          BY <1>2, <5>1, <5>2, <5>3 DEF Step, Merge, FindAsset, SaveAsset, FindService,
             SaveService, Prune, Match, MatchFails
      <4> QED
        BY <4>1, <4>2 DEF Fresh, CalmInv
    <3>2. CASE stage[s] = "idle"
      <4>1. Begin(s)
        BY <1>2, <3>2 DEF Step, Discover, Lose, Probe, Merge, FindAsset, SaveAsset, FindService,
           SaveService, Prune, Match, MatchFails
      <4> QED
        BY <2>2, <3>1, <4>1 DEF Begin
    <3>3. CASE stage[s] # "idle"
      <4>1. stage[s] \in Busy
        BY <1>1, <1>2, <3>3, StepStages
      <4>2. ~ calm[t]
        BY <2>2, <4>1 DEF CalmInv, Calm, Undisturbed
      <4>3. calm'[t] => calm[t]
        <5>1. ASSUME NEW c \in work[s], Lose(s, c) \/ \E late : Probe(s, c, late)
              PROVE  calm'[t] = calm[t]
          BY <1>1, <2>2, <5>1 DEF Lose, Probe, TypeOK
        <5>2. CASE calm' = calm
          BY <5>2
        <5> QED
          BY <1>2, <3>3, <5>1, <5>2 DEF Step, Begin, Discover, Merge, FindAsset, SaveAsset,
             FindService, SaveService, Prune, Match, MatchFails, past
      <4> QED
        BY <3>1, <4>2, <4>3
    <3> QED
      BY <3>2, <3>3
  <2> QED
    BY <2>1, <2>2 DEF CalmInv
<1>3. CASE \/ \E e \in Volatile : Toggle(e)
           \/ \E h \in Hosts : LeaveOrReturn(h)
  <2>1. UNCHANGED <<stage, request, results>> /\ \A s \in Scans : ~ calm'[s]
    BY <1>3 DEF Toggle, LeaveOrReturn
  <2> QED
    BY <2>1 DEF CalmInv, Fresh, request, results
<1>4. CASE UNCHANGED vars
  <2>1. UNCHANGED <<open, awake, inv, stage, req, plan, deep, work, broken, listed, found,
                    closed, mute, rest, todo, here, calm>>
    BY <1>4 DEF vars, network, tables, request, results, storing, past
  <2> QED
    BY <2>1 DEF CalmInv, Fresh, Calm, Undisturbed, Reported, Covered, StoredRight, HandRight,
       Right, Storage, AtHost
<1> QED
  BY <1>2, <1>3, <1>4 DEF Next

\* The inductive invariant of a scan that nothing disturbs.
THEOREM CalmInvariant == Spec => []CalmInv
<1>1. Init => CalmInv
  BY DEF Init, CalmInv, Fresh
<1> QED
  BY <1>1, CalmStep, InventoryInvariant, PTL DEF Spec

\* A scan that nothing disturbed leaves the inventory of its hosts equal to
\* the network, on every port it claims to have examined, for any number of
\* hosts, ports and workers and every plan: the split into children loses no
\* service, and no ghost survives the prune.
THEOREM InventoryAgrees == Spec => []Agrees
<1>1. PruneInv /\ CalmInv => Agrees
  <2> SUFFICES ASSUME PruneInv, CalmInv, NEW s \in Scans, stage[s] = "done", calm[s],
                      NEW h \in deep[s] \cap InScope, NEW p \in Examined(req[s])
               PROVE  <<h, p>> \in inv <=> <<h, p>> \in open /\ p \in Probed(req[s], plan[s])
    BY DEF Agrees
  <2>1. Calm(s) /\ TypeOK /\ ScanInv(s)
    BY DEF CalmInv, PruneInv
  <2>2. work[s] = {} /\ Right(s, h)
    BY <2>1 DEF Calm, StoredRight, Storage, AtHost
  <2>3. <<h, p>> \in found[s] => <<h, p>> \in open /\ p \in Probed(req[s], plan[s])
    BY <2>1 DEF Calm, Reported
  <2>4. ASSUME <<h, p>> \in open, p \in Probed(req[s], plan[s]) PROVE <<h, p>> \in found[s]
    <3>1. Known(s, <<h, p>>)
      BY <2>1, <2>2, <2>4 DEF Calm, Undisturbed, Covered, ScanInv, Accounted
    <3>2. ~ Settled(s, <<h, p>>)
      BY <2>1, <2>4 DEF Calm, Undisturbed, Reported, Settled
    <3> QED
      BY <3>1, <3>2 DEF Known
  <2> QED
    BY <2>2, <2>3, <2>4 DEF Right
<1> QED
  BY <1>1, CalmInvariant, InventoryInvariant, PTL
=============================================================================
