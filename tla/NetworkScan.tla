---------------------------- MODULE NetworkScan ----------------------------
(***************************************************************************)
(* One network (or vulnerability) scan from dispatch to its last write.    *)
(*                                                                         *)
(* The actors are the request that dispatched the scan, the Celery parent  *)
(* task (network_scan), the fan-out children (network_scan_block), the     *)
(* chord callback (network_scan_merge) and the web requests that stop or   *)
(* delete the scan.  They share one row of the scans table.  Every worker  *)
(* task opens a SQLAlchemy session of its own, whose identity map keeps    *)
(* the Scan object it has loaded: cache[t] is the status task t SEES, and  *)
(* only a refresh brings it up to date with the row.                       *)
(*                                                                         *)
(* This module is one delivery of the message network_scan.  The broker    *)
(* may deliver it again: ScanDeliveries runs two executions of this module *)
(* over one row.                                                           *)
(***************************************************************************)
EXTENDS Naturals, FiniteSets

CONSTANTS Blocks,      \* the fan-out children (host or port batches)
          Requests,    \* the web requests that may stop or delete the scan
          Plans,       \* the ways _run may execute this scan
          MaxRounds,   \* bound: batches of discovery blocks
          MaxCrashes   \* bound: worker processes that die

AllPlans == {"single", "chunked", "fanout", "portqueue"}

ASSUME ScanAssumption ==
  /\ {"parent", "merge"} \cap Blocks = {}
  /\ Blocks # {}
  /\ Plans \subseteq AllPlans
  /\ MaxRounds \in Nat \ {0}
  /\ MaxCrashes \in Nat

Task   == Blocks \cup {"parent", "merge"}
Driver == {"parent", "merge"}      \* the tasks that may run _process_results

Status == {"pending", "running", "completed", "failed", "cancelled"}
Row    == Status \cup {"deleted"}

Stage == {"absent", "queued", "scope", "announce", "discover", "probing",
          "targets", "nmap", "dispatch", "dispatched", "check", "store",
          "recheck", "exploit", "lastcheck", "notify", "finish", "audit",
          "failing", "done", "dead"}

Web == {"idle", "stop", "stopping", "delete", "deleting", "done"}

VARIABLES
  row,       \* status column of the scan; "deleted" once the row is gone
  taskId,    \* the scan row holds the parent's Celery id
  launch,    \* the dispatching request: "enqueue", "task_id" or "done"
  plan,      \* which branch of _run the settings and the target select
  stage,     \* where each task is
  cache,     \* status each task's session holds, "none" if it found no row
  nmap,      \* the nmap process of each task: "off", "on" or "orphan"
  cancel,    \* the threading.Event that makes run_nmap kill its process
  rounds,    \* discovery batches still to probe
  web,       \* where each web request is
  seenId,    \* the request read a task id
  revoked,   \* the parent's id was sent to control.revoke(terminate=True)
  exploited, \* the exploitation phase was entered
  stop,      \* history: the strongest Stop committed so far
  crashes    \* worker processes that died

rowVars  == <<row, taskId>>
workVars == <<stage, cache, nmap, cancel, rounds, exploited>>
webVars  == <<web, seenId, revoked, stop>>
vars     == <<rowVars, launch, plan, workVars, webVars, crashes>>

-----------------------------------------------------------------------------
(* The session primitives of core/scans.py.                                *)

Goto(t, s) == stage' = [stage EXCEPT ![t] = s]

\* The row was deleted under a session that still holds the object: the next
\* UPDATE or refresh of that session raises.
Lost(t) == row = "deleted" /\ cache[t] # "none"

Visible == IF row = "deleted" THEN "none" ELSE row

\* get_scan in a session that has not loaded the row yet.
Load(t) == cache' = [cache EXCEPT ![t] = Visible]

\* set_scan_progress: writes progress and phase, commits, and refreshes.
Progress(t, s) ==
  /\ cache' = [cache EXCEPT ![t] = Visible]
  /\ Goto(t, IF Lost(t) THEN "failing" ELSE s)
  /\ UNCHANGED row

\* set_scan_status: an attribute set to the value the session already holds
\* issues no UPDATE; any other value overwrites the row whatever it holds.
SetStatus(t, new, s) ==
  /\ row' = IF row = "deleted" \/ cache[t] = new THEN row ELSE new
  /\ cache' = [cache EXCEPT ![t] = IF row' = "deleted" THEN "none" ELSE row']
  /\ Goto(t, IF Lost(t) THEN "failing" ELSE s)

-----------------------------------------------------------------------------
(* The dispatching request: create_scan committed a pending row (Init).    *)

Init ==
  /\ row = "pending"
  /\ taskId = FALSE
  /\ launch = "enqueue"
  /\ plan \in Plans
  /\ stage = [t \in Task |-> "absent"]
  /\ cache = [t \in Task |-> "none"]
  /\ nmap = [t \in Task |-> "off"]
  /\ cancel = [t \in Task |-> FALSE]
  /\ rounds = MaxRounds
  /\ web = [q \in Requests |-> "idle"]
  /\ seenId = [q \in Requests |-> FALSE]
  /\ revoked = FALSE
  /\ exploited = FALSE
  /\ stop = "none"
  /\ crashes = 0

Enqueue ==
  /\ launch = "enqueue"
  /\ launch' = "task_id"
  /\ Goto("parent", "queued")
  /\ UNCHANGED <<rowVars, plan, cache, nmap, cancel, rounds, exploited, webVars, crashes>>

WriteTaskId ==
  /\ launch = "task_id"
  /\ launch' = "done"
  /\ taskId' = (row # "deleted")
  /\ UNCHANGED <<row, plan, workVars, webVars, crashes>>

\* The API, the MCP server and legacy schedules keep no task id.
SkipTaskId ==
  /\ launch = "task_id"
  /\ launch' = "done"
  /\ UNCHANGED <<rowVars, plan, workVars, webVars, crashes>>

-----------------------------------------------------------------------------
(* The parent task, _run.                                                  *)

PickParent ==
  /\ stage["parent"] = "queued"
  /\ Load("parent")
  /\ Goto("parent", "scope")
  /\ UNCHANGED <<rowVars, launch, plan, nmap, cancel, rounds, exploited, webVars, crashes>>

\* validate_target refuses every block: the policy changed since dispatch.
ScopeDenied ==
  /\ stage["parent"] = "scope"
  /\ SetStatus("parent", "failed", "done")
  /\ UNCHANGED <<taskId, launch, plan, nmap, cancel, rounds, exploited, webVars, crashes>>

\* Mutant: the status write is forgotten.
StartRunningSkipped ==
  /\ stage["parent"] = "scope"
  /\ Goto("parent", IF plan = "portqueue" THEN "dispatch" ELSE "announce")
  /\ UNCHANGED <<rowVars, launch, plan, cache, nmap, cancel, rounds, exploited, webVars, crashes>>

StartRunning ==
  /\ stage["parent"] = "scope"
  /\ SetStatus("parent", "running",
               IF plan = "portqueue" THEN "dispatch" ELSE "announce")
  /\ UNCHANGED <<taskId, launch, plan, nmap, cancel, rounds, exploited, webVars, crashes>>

\* The progress write before discovery or before the only nmap run.
Announce ==
  /\ stage["parent"] = "announce"
  /\ Progress("parent", IF plan = "single" THEN "nmap" ELSE "discover")
  /\ nmap' = [nmap EXCEPT !["parent"] = IF plan = "single" /\ ~Lost("parent")
                                          THEN "on" ELSE "off"]
  /\ UNCHANGED <<taskId, launch, plan, cancel, rounds, exploited, webVars, crashes>>

\* _discover_hosts_chunked looks at the status before each batch of blocks.
DiscoverBatch ==
  /\ stage["parent"] = "discover"
  /\ IF cache["parent"] = "cancelled" \/ rounds = 0
       THEN Goto("parent", "targets") /\ UNCHANGED nmap
       ELSE Goto("parent", "probing") /\ nmap' = [nmap EXCEPT !["parent"] = "on"]
  /\ UNCHANGED <<rowVars, launch, plan, cache, cancel, rounds, exploited, webVars, crashes>>

ProbeDone ==
  /\ stage["parent"] = "probing"
  /\ nmap' = [nmap EXCEPT !["parent"] = "off"]
  /\ rounds' = rounds - 1
  /\ Progress("parent", "discover")
  /\ UNCHANGED <<taskId, launch, plan, cancel, exploited, webVars, crashes>>

\* With live or explicit hosts the deep scan follows, here or in children.
HostsFound ==
  /\ stage["parent"] = "targets"
  /\ Goto("parent", IF plan = "fanout" THEN "dispatch" ELSE "nmap")
  /\ nmap' = [nmap EXCEPT !["parent"] = IF plan = "fanout" THEN "off" ELSE "on"]
  /\ UNCHANGED <<rowVars, launch, plan, cache, cancel, rounds, exploited, webVars, crashes>>

NoHosts ==
  /\ stage["parent"] = "targets"
  /\ IF plan = "fanout"
       THEN Progress("parent", "check")
       ELSE Goto("parent", "check") /\ UNCHANGED <<row, cache>>
  /\ UNCHANGED <<taskId, launch, plan, nmap, cancel, rounds, exploited, webVars, crashes>>

\* _dispatch_host_queue / _dispatch_port_fanout: progress, then the chord.
Dispatch ==
  /\ stage["parent"] = "dispatch"
  /\ stage' = [t \in Task |->
                 IF t = "parent"
                   THEN IF Lost("parent") THEN "failing" ELSE "dispatched"
                   ELSE IF t \in Blocks /\ ~Lost("parent") THEN "queued" ELSE stage[t]]
  /\ cache' = [cache EXCEPT !["parent"] = Visible]
  /\ UNCHANGED <<rowVars, launch, plan, nmap, cancel, rounds, exploited, webVars, crashes>>

\* Mutant: the return after the dispatch is missing.
DispatchFallsThrough ==
  /\ stage["parent"] = "dispatched"
  /\ Goto("parent", "check")
  /\ UNCHANGED <<rowVars, launch, plan, cache, nmap, cancel, rounds, exploited, webVars, crashes>>

DispatchLogged ==
  /\ stage["parent"] = "dispatched"
  /\ Goto("parent", "done")
  /\ UNCHANGED <<rowVars, launch, plan, cache, nmap, cancel, rounds, exploited, webVars, crashes>>

-----------------------------------------------------------------------------
(* nmap: one subprocess per task, killed only through the cancel event.    *)

\* Mutant: the poll reads the session without the refreshing progress write.
PollParentStale ==
  /\ stage["parent"] = "nmap"
  /\ cancel' = [cancel EXCEPT !["parent"] = @ \/ cache["parent"] = "cancelled"]
  /\ UNCHANGED <<rowVars, launch, plan, stage, cache, nmap, rounds, exploited, webVars, crashes>>

\* _run_nmap_with_progress, every three seconds: the progress write refreshes
\* the session, so the poll that follows sees the Stop of another session.  Its
\* errors are suppressed: with the row gone, a failed UPDATE makes the poll
\* raise, but a failed refresh (no value changed) only empties the session.
PollParent ==
  /\ stage["parent"] = "nmap"
  /\ \/ Progress("parent", "nmap")
     \/ Lost("parent") /\ Load("parent") /\ UNCHANGED <<row, stage>>
  /\ cancel' = [cancel EXCEPT !["parent"] = @ \/ Visible = "cancelled"]
  /\ UNCHANGED <<taskId, launch, plan, nmap, rounds, exploited, webVars, crashes>>

\* _scan_one_block, every three seconds: get_scan alone, which answers from
\* the identity map.
PollBlock(b) ==
  /\ stage[b] = "nmap"
  /\ cancel' = [cancel EXCEPT ![b] = @ \/ cache[b] = "cancelled"]
  /\ UNCHANGED <<rowVars, launch, plan, stage, cache, nmap, rounds, exploited, webVars, crashes>>

\* The scan thread of t ends; a block reports progress and returns its hosts.
NmapEnds(t) ==
  /\ stage[t] = "nmap"
  /\ nmap' = [nmap EXCEPT ![t] = "off"]
  /\ Goto(t, IF t = "parent" THEN "check" ELSE "done")
  /\ UNCHANGED <<rowVars, launch, plan, cache, cancel, rounds, exploited, webVars, crashes>>

NmapKilled(t) == cancel[t] /\ NmapEnds(t)

\* A session that raised leaves the thread behind; asyncio.run waits for it.
Drain(t) ==
  /\ stage[t] = "failing" /\ nmap[t] = "on"
  /\ nmap' = [nmap EXCEPT ![t] = "off"]
  /\ UNCHANGED <<rowVars, launch, plan, stage, cache, cancel, rounds, exploited, webVars, crashes>>

OrphanEnds(t) ==
  /\ nmap[t] = "orphan"
  /\ nmap' = [nmap EXCEPT ![t] = "off"]
  /\ UNCHANGED <<rowVars, launch, plan, stage, cache, cancel, rounds, exploited, webVars, crashes>>

-----------------------------------------------------------------------------
(* Fan-out children and the chord.                                         *)

\* A fresh session: a Stop committed before this point skips the block.
PickBlock(b) ==
  /\ stage[b] = "queued"
  /\ Load(b)
  /\ Goto(b, IF row = "cancelled" THEN "done" ELSE "nmap")
  /\ nmap' = [nmap EXCEPT ![b] = IF row = "cancelled" THEN "off" ELSE "on"]
  /\ UNCHANGED <<rowVars, launch, plan, cancel, rounds, exploited, webVars, crashes>>

\* Celery runs the chord callback once every child has returned.
ChordFires ==
  /\ stage["merge"] = "absent"
  /\ \A b \in Blocks : stage[b] = "done"
  /\ Goto("merge", "queued")
  /\ UNCHANGED <<rowVars, launch, plan, cache, nmap, cancel, rounds, exploited, webVars, crashes>>

PickMerge ==
  /\ stage["merge"] = "queued"
  /\ Load("merge")
  /\ Goto("merge", "check")
  /\ UNCHANGED <<rowVars, launch, plan, nmap, cancel, rounds, exploited, webVars, crashes>>

-----------------------------------------------------------------------------
(* _process_results, run by the parent or by the merge task.               *)

\* The first look at the status is answered from the identity map.
Check(t) ==
  /\ stage[t] = "check"
  /\ Goto(t, IF cache[t] = "cancelled" THEN "done" ELSE "store")
  /\ UNCHANGED <<rowVars, launch, plan, cache, nmap, cancel, rounds, exploited, webVars, crashes>>

\* Inventory, exposed services, RPC, NSE, CVE matching and risk scores.
Store(t) ==
  /\ stage[t] = "store"
  /\ Progress(t, "recheck")
  /\ UNCHANGED <<taskId, launch, plan, nmap, cancel, rounds, exploited, webVars, crashes>>

\* _scan_cancelled refreshes: it sees every Stop committed so far.
ScanCancelled == Visible = "cancelled"

\* Mutant: no look at the status between CVE matching and exploitation.
RecheckDropped(t) ==
  /\ stage[t] = "recheck"
  /\ \E next \in {"exploit", "lastcheck"} :
       /\ next = "exploit" => cache[t] # "none"
       /\ Progress(t, next)
  /\ UNCHANGED <<taskId, launch, plan, nmap, cancel, rounds, exploited, webVars, crashes>>

Recheck(t) ==
  /\ stage[t] = "recheck"
  /\ \E next \in {"exploit", "lastcheck"} :
       /\ next = "exploit" => cache[t] # "none"
       /\ Progress(t, IF ScanCancelled THEN "done" ELSE next)
  /\ UNCHANGED <<taskId, launch, plan, nmap, cancel, rounds, exploited, webVars, crashes>>

\* Vulnerability scan in exploit mode with a licence and the plugin.
Exploit(t) ==
  /\ stage[t] = "exploit"
  /\ Progress(t, "lastcheck")
  /\ exploited' = (exploited \/ ~Lost(t))
  /\ UNCHANGED <<taskId, launch, plan, nmap, cancel, rounds, webVars, crashes>>

\* Mutant: the last look is answered from the identity map.
LastCheckStale(t) ==
  /\ stage[t] = "lastcheck"
  /\ Goto(t, IF cache[t] = "cancelled" THEN "done" ELSE "notify")
  /\ UNCHANGED <<rowVars, launch, plan, cache, nmap, cancel, rounds, exploited, webVars, crashes>>

LastCheck(t) ==
  /\ stage[t] = "lastcheck"
  /\ Progress(t, IF ScanCancelled THEN "done" ELSE "notify")
  /\ UNCHANGED <<taskId, launch, plan, nmap, cancel, rounds, exploited, webVars, crashes>>

\* Compliance rows, notify_if_critical and the progress of 100: the session is
\* refreshed, but nothing here looks at the status.
Notify(t) ==
  /\ stage[t] = "notify"
  /\ Progress(t, "finish")
  /\ UNCHANGED <<taskId, launch, plan, nmap, cancel, rounds, exploited, webVars, crashes>>

Finish(t) ==
  /\ stage[t] = "finish"
  /\ SetStatus(t, "completed", "audit")
  /\ UNCHANGED <<taskId, launch, plan, nmap, cancel, rounds, exploited, webVars, crashes>>

Audited(t) ==
  /\ stage[t] = "audit"
  /\ Goto(t, "done")
  /\ UNCHANGED <<rowVars, launch, plan, cache, nmap, cancel, rounds, exploited, webVars, crashes>>

-----------------------------------------------------------------------------
(* Failures.                                                               *)

Raising == Stage \ {"absent", "queued", "check", "failing", "done", "dead"}

\* nmap output cut short, a database or Redis error, a failing store.
Raise(t) ==
  /\ stage[t] \in Raising
  /\ Goto(t, "failing")
  /\ nmap' = [nmap EXCEPT ![t] = "off"]
  /\ UNCHANGED <<rowVars, launch, plan, cache, cancel, rounds, exploited, webVars, crashes>>

HandedOver == \E b \in Blocks : stage[b] # "absent"

\* Mutant: the exception is swallowed without a status.
MarkFailedSilent(t) ==
  /\ stage[t] = "failing" /\ nmap[t] # "on"
  /\ Goto(t, "done")
  /\ UNCHANGED <<rowVars, launch, plan, cache, nmap, cancel, rounds, exploited, webVars, crashes>>

\* _mark_failed works in a session of its own and asks nobody: a parent that
\* fails on the audit row after it handed the scan to its children replaces a
\* Stop by "failed", which the children and the merge do not look for.  The
\* history of Stops starts again there.
MarkFailed(t) ==
  /\ stage[t] = "failing" /\ nmap[t] # "on"
  /\ row' = IF row = "deleted" THEN row ELSE "failed"
  /\ stop' = IF t = "parent" /\ HandedOver THEN "none" ELSE stop
  /\ Goto(t, "done")
  /\ UNCHANGED <<taskId, launch, plan, cache, nmap, cancel, rounds, exploited,
                 web, seenId, revoked, crashes>>

Busy(t) == stage[t] \notin {"absent", "queued", "done", "dead"}

Die(t) ==
  /\ Goto(t, "dead")
  /\ nmap' = [nmap EXCEPT ![t] = IF @ = "on" THEN "orphan" ELSE @]
  /\ UNCHANGED <<rowVars, launch, plan, cache, cancel, rounds, exploited, webVars>>

\* A worker process is lost (OOM, container stop); Celery acked the task early.
Crash(t) ==
  /\ Busy(t)
  /\ crashes < MaxCrashes
  /\ crashes' = crashes + 1
  /\ Die(t)

\* control.revoke(terminate=True): SIGTERM to the pool process of the parent,
\* or the message is dropped while still queued.  Nothing reaches its nmap.
Terminate ==
  /\ revoked
  /\ Busy("parent") \/ stage["parent"] = "queued"
  /\ Die("parent")
  /\ UNCHANGED crashes

-----------------------------------------------------------------------------
(* The web requests: stop_scan_web and delete_scan_web.                    *)

Stoppable == row \in {"pending", "running"}

StopRead(q) ==
  /\ web[q] = "idle" /\ Stoppable
  /\ web' = [web EXCEPT ![q] = "stop"]
  /\ seenId' = [seenId EXCEPT ![q] = taskId]
  /\ UNCHANGED <<rowVars, launch, plan, workVars, revoked, stop, crashes>>

DeleteRead(q) ==
  /\ web[q] = "idle" /\ row # "deleted"
  /\ web' = [web EXCEPT ![q] = "delete"]
  /\ seenId' = [seenId EXCEPT ![q] = taskId /\ Stoppable]
  /\ UNCHANGED <<rowVars, launch, plan, workVars, revoked, stop, crashes>>

\* Best effort: revoke is sent only for a task id the request has read.
Revoke(q) ==
  /\ web[q] \in {"stop", "delete"}
  /\ web' = [web EXCEPT ![q] = IF @ = "stop" THEN "stopping" ELSE "deleting"]
  /\ revoked' = (revoked \/ seenId[q])
  /\ UNCHANGED <<rowVars, launch, plan, workVars, seenId, stop, crashes>>

\* A Stop the worker can still see: it commits after the parent wrote
\* "running" and before the last look at the status.
Binding ==
  /\ stage["parent"] \notin {"absent", "queued", "scope"}
  /\ \A t \in Driver : stage[t] \notin {"notify", "finish"}

BeforeExploit == \A t \in Driver : stage[t] \notin {"exploit", "lastcheck"}

StopWrite(q) ==
  /\ web[q] = "stopping"
  /\ web' = [web EXCEPT ![q] = "done"]
  /\ row' = IF row = "deleted" THEN row ELSE "cancelled"
  /\ stop' = IF ~Binding \/ row = "deleted" THEN stop
             ELSE IF BeforeExploit /\ ~exploited THEN "strict"
             ELSE IF stop = "strict" THEN stop ELSE "binding"
  /\ UNCHANGED <<taskId, launch, plan, workVars, seenId, revoked, crashes>>

DeleteWrite(q) ==
  /\ web[q] = "deleting"
  /\ web' = [web EXCEPT ![q] = "done"]
  /\ row' = "deleted"
  /\ UNCHANGED <<taskId, launch, plan, workVars, seenId, revoked, stop, crashes>>

-----------------------------------------------------------------------------

ParentStep == \/ PickParent \/ ScopeDenied \/ StartRunning \/ Announce
              \/ DiscoverBatch \/ ProbeDone \/ HostsFound \/ NoHosts
              \/ Dispatch \/ DispatchLogged

ProcessStep(t) == \/ Check(t) \/ Store(t) \/ Recheck(t) \/ Exploit(t)
                  \/ LastCheck(t) \/ Notify(t) \/ Finish(t) \/ Audited(t)
                  \/ MarkFailed(t)

WebStep(q) == \/ StopRead(q) \/ DeleteRead(q) \/ Revoke(q)
              \/ StopWrite(q) \/ DeleteWrite(q)

\* The steps of the tasks one delivery of the message leads to.
TaskStep ==
  \/ ParentStep
  \/ PollParent
  \/ \E b \in Blocks : PollBlock(b) \/ PickBlock(b)
  \/ \E t \in Blocks \cup {"parent"} : NmapEnds(t) \/ NmapKilled(t) \/ OrphanEnds(t)
  \/ ChordFires
  \/ PickMerge
  \/ \E t \in Driver : ProcessStep(t) \/ Raise(t)
  \/ Drain("parent")
  \/ \E t \in Task : Crash(t)
  \/ Terminate

Next ==
  \/ Enqueue
  \/ WriteTaskId \/ SkipTaskId
  \/ TaskStep
  \/ \E q \in Requests : WebStep(q)

Spec == Init /\ [][Next]_vars

\* Workers, broker and begun requests keep going; a Stop that interrupts a
\* scan, an error, a crash and the delivery of a revoke are never owed.
WorkFairness ==
  /\ WF_vars(Enqueue)
  /\ WF_vars(ParentStep)
  /\ WF_vars(PollParent)
  /\ WF_vars(Drain("parent"))
  /\ WF_vars(ChordFires)
  /\ WF_vars(PickMerge)
  /\ WF_vars(NmapKilled("parent"))
  /\ \A b \in Blocks : /\ WF_vars(PickBlock(b))
                       /\ WF_vars(PollBlock(b))
                       /\ WF_vars(NmapKilled(b))
  /\ \A t \in Driver : WF_vars(ProcessStep(t))
  /\ \A q \in Requests : WF_vars(Revoke(q) \/ StopWrite(q) \/ DeleteWrite(q))

\* nmap may run for as long as it likes.
LiveSpec == Spec /\ WorkFairness

\* nmap is given a finite target list; only ComesToRest relies on it.
NmapTerminates == \A t \in Blocks \cup {"parent"} : WF_vars(NmapEnds(t))

-----------------------------------------------------------------------------
(* Properties.                                                             *)

TypeOK ==
  /\ row \in Row
  /\ taskId \in BOOLEAN
  /\ launch \in {"enqueue", "task_id", "done"}
  /\ plan \in AllPlans
  /\ stage \in [Task -> Stage]
  /\ cache \in [Task -> Status \cup {"none"}]
  /\ nmap \in [Task -> {"off", "on", "orphan"}]
  /\ cancel \in [Task -> BOOLEAN]
  /\ rounds \in 0..MaxRounds
  /\ web \in [Requests -> Web]
  /\ seenId \in [Requests -> BOOLEAN]
  /\ revoked \in BOOLEAN
  /\ exploited \in BOOLEAN
  /\ stop \in {"none", "binding", "strict"}
  /\ crashes \in 0..MaxCrashes

\* A Stop committed while the scan runs is never painted over by "completed"
\* (the checks after CVE matching and after the exploitation phase).
StopHonoured == stop # "none" => row \in {"cancelled", "failed", "deleted"}

\* A Stop committed before the exploitation phase was entered keeps the scan
\* from entering it, whichever task runs _process_results.
StopBarsExploit == stop = "strict" => ~exploited

\* "completed" is a statement about the whole scan: no block is still being
\* scanned and no other task is before its final write.
CompletedMeansFinished ==
  row = "completed" =>
    /\ \A b \in Blocks : stage[b] \in {"absent", "done"}
    /\ stage["parent"] \in {"dispatched", "audit", "failing", "done", "dead"}
    /\ stage["merge"] \in {"absent", "audit", "failing", "done", "dead"}

\* Parent and merge never process the same scan at once, and the parent does
\* not process a scan it has handed to children.
OneDriver ==
  \A b \in Blocks : stage[b] # "absent" =>
    stage["parent"] \in {"dispatched", "failing", "done", "dead"}

\* The inductive strengthening of the four invariants above: what the stages
\* of the tasks and the row owe each other once a Stop has been committed.
StopInv ==
  /\ OneDriver
  /\ CompletedMeansFinished
  /\ launch = "enqueue" => stage["parent"] = "absent"
  /\ ~HandedOver => stage["merge"] = "absent"
  /\ HandedOver /\ stage["merge"] = "absent" => row # "completed"
  /\ stage["merge"] # "absent" => \A b \in Blocks : stage[b] = "done"
  /\ stop # "none" =>
       /\ stage["parent"] \notin {"absent", "queued", "scope"}
       /\ row \in {"cancelled", "failed", "deleted"}
       /\ \A t \in Driver : stage[t] \in {"notify", "finish"} => row = "deleted"
       /\ row = "failed" =>
            IF HandedOver THEN stage["merge"] = "done" ELSE stage["parent"] = "done"
  /\ stop = "strict" =>
       ~exploited /\ \A t \in Driver : stage[t] # "exploit"

\* As long as the row is pending, none of the tasks has come further than the
\* scope, and no session holds another status.
PendingInv ==
  row = "pending" =>
    /\ stage["parent"] \in {"absent", "queued", "scope", "failing", "dead"}
    /\ stage["merge"] = "absent" /\ ~HandedOver
    /\ \A t \in Task : cache[t] \in {"pending", "none"}

\* What a step of the scan may assume of the row, for the refinement below: a
\* parent that has not written "running" meets a row nobody else has taken
\* further, in its session as well, and past that write the row is never
\* "pending" again unless the parent was lost on the way.
RowInv ==
  /\ stage["parent"] \in {"absent", "queued", "scope"} =>
       row \in {"pending", "cancelled", "deleted"}
  /\ stage["parent"] = "scope" => cache["parent"] \in {"pending", "cancelled", "none"}
  /\ PendingInv

\* An nmap process without its task is left by a lost worker or, for the parent
\* alone, by a revoke: SIGTERM ends the pool process and not the nmap it started.
\* A Stop sent without a task id, or one that meets a fan-out child, leaves none.
OrphanNeedsCause ==
  \A t \in Task : nmap[t] = "orphan" =>
    stage[t] = "dead" /\ (crashes > 0 \/ (t = "parent" /\ revoked))

\* Somebody will still write the row: the task is to be sent, the parent has
\* not returned, or the children's merge is ahead or at work.
AtWork ==
  \/ launch = "enqueue"
  \/ stage["parent"] \notin {"absent", "dispatched", "done"}
  \/ HandedOver /\ stage["merge"] # "done"

\* What a session may hold: nothing before its task was picked up, and no Stop
\* and no end of a scan whose row shows it pending or running.
SessionInv ==
  /\ \A t \in Task : stage[t] \in {"absent", "queued"} => cache[t] = "none"
  /\ row \in {"pending", "running"} =>
       /\ \A t \in Task : cache[t] \in {"none", "pending", "running"}
       /\ \A t \in Driver : stage[t] # "audit"

\* A row says "pending" or "running" with nobody left to write it again only
\* behind a lost worker or a revoke: no order of Stop, error and hand-over
\* leaves one, and neither does a task that returns because it saw a Stop.
StuckNeedsCause ==
  row \in {"pending", "running"} /\ crashes = 0 /\ ~revoked =>
    AtWork /\ \A t \in Task : stage[t] # "dead"

\* The inductive invariant of the network scan: what the row, the tasks, their
\* sessions, the Stop and the nmap processes owe each other, crashes included.
ScanInv ==
  /\ TypeOK /\ StopInv /\ RowInv /\ SessionInv
  /\ OrphanNeedsCause /\ StuckNeedsCause

\* Once running, a scan is killable: a Stop ends the deep nmap run of the
\* parent without waiting for nmap.  Only a Delete that is committed before the
\* next poll takes the Stop away from it, and nmap then runs to its end.
StopKillsParentScan ==
  (row = "cancelled" /\ stage["parent"] = "nmap") ~>
    (stage["parent"] # "nmap" \/ row = "deleted")

\* If nmap terminates, every dispatched scan comes to rest in a final state and
\* stays there, unless a revoke was sent or a worker lost: either may hit the
\* parent after it painted "running", and nobody writes that row again.
ComesToRest ==
  NmapTerminates =>
    \/ <>[](row \in {"completed", "failed", "cancelled", "deleted"})
    \/ <>(revoked \/ crashes > 0)

=============================================================================
